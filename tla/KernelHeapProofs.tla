-------------------------- MODULE KernelHeapProofs --------------------------
(***************************************************************************)
(* Type correctness of the heap and its slabs, that the memory blocks use   *)
(* does not overlap, that pointers go back to the allocator they came from, *)
(* and that the bitmap, the page counts and the statistics are exact.       *)
(***************************************************************************)
EXTENDS KernelHeap, SequenceTheorems, SetLemmas

(* The constants, in the form the proofs use them.                          *)
LEMMA Constants ==
    /\ Len(Objects) \in Nat /\ Cache = 1 .. Len(Objects)
    /\ \A c \in Cache : Objects[c] \in Nat \ {0} /\ 1 .. Objects[c] \subseteq Slot
    /\ Pages \in Nat \ {0} /\ MaxRun \in Nat \ {0}
    /\ 0 \in Slot /\ Slot \subseteq Nat
    /\ NULL \notin Int /\ NULL \notin Page /\ NULL \notin Cache /\ NULL \notin Block
    /\ NoThread \notin Thread
    /\ Page \subseteq Nat /\ Size \subseteq Nat /\ 0 \notin Size
<1>1. Len(Objects) \in Nat /\ Cache = 1 .. Len(Objects)
  BY HeapAssumption, LenProperties DEF Cache
<1>2. \A c \in Cache : Objects[c] \in Nat \ {0}
  BY HeapAssumption, ElementOfSeq DEF Cache
<1>3. QED  BY <1>1, <1>2, HeapAssumption, NullAssumption DEF Slot, Page, Size

-----------------------------------------------------------------------------
(* The links of a list of the slabs S with head h, as seen from each slab.  *)
Linked(next, prev, h, S) ==
    /\ h # NULL => h \in S /\ prev[h] = NULL
    /\ \A p \in S : /\ next[p] # NULL => next[p] \in S /\ prev[next[p]] = p
                    /\ prev[p] # NULL => prev[p] \in S /\ next[prev[p]] = p
                    /\ prev[p] = NULL => p = h

(* The links of the lists of all caches; P and F are the slabs they list.   *)
AllLinked(L, P, F) ==
    \A c \in Cache : /\ Linked(L.next, L.prev, L.partial[c], P[c])
                     /\ Linked(L.next, L.prev, L.full[c], F[c])

(* No slab is on two lists.                                                 *)
Apart(P, F) ==
    /\ P \in [Cache -> SUBSET Page] /\ F \in [Cache -> SUBSET Page]
    /\ \A c, d \in Cache : /\ P[c] \intersect F[d] = {}
                           /\ c # d => /\ P[c] \intersect P[d] = {}
                                       /\ F[c] \intersect F[d] = {}

(* What remove_slab_from_list does to links and heads.                      *)
LEMMA RemoveIs ==
    ASSUME NEW L \in Links, NEW which \in {"partial", "full"}, NEW c \in Cache,
           NEW p \in Page,
           NEW R, R = remove_slab_from_list(L, which, c, p)
    PROVE  /\ R \in Links
           /\ \A x \in Page :
                 /\ R.next[x] = IF x = p THEN NULL
                                ELSE IF x = L.prev[p] THEN L.next[p] ELSE L.next[x]
                 /\ R.prev[x] = IF x = p THEN NULL
                                ELSE IF x = L.next[p] THEN L.prev[p] ELSE L.prev[x]
           /\ R.partial = IF which = "partial" /\ L.prev[p] = NULL
                          THEN [L.partial EXCEPT ![c] = L.next[p]] ELSE L.partial
           /\ R.full = IF which = "full" /\ L.prev[p] = NULL
                       THEN [L.full EXCEPT ![c] = L.next[p]] ELSE L.full
<1> DEFINE n == L.next[p]
           q == L.prev[p]
           A == IF q = NULL THEN [L EXCEPT ![which][c] = n] ELSE [L EXCEPT !.next[q] = n]
           B == IF n = NULL THEN A ELSE [A EXCEPT !.prev[n] = q]
<1>1. /\ n \in Page \union {NULL} /\ q \in Page \union {NULL}
      /\ NULL \notin Page
  BY Constants DEF Links
<1>2. R = [B EXCEPT !.next[p] = NULL, !.prev[p] = NULL]
  BY DEF remove_slab_from_list
<1>3. /\ A \in Links
      /\ A.prev = L.prev
      /\ \A x \in Page : A.next[x] = IF x = q THEN n ELSE L.next[x]
      /\ A.partial = IF which = "partial" /\ q = NULL
                     THEN [L.partial EXCEPT ![c] = n] ELSE L.partial
      /\ A.full = IF which = "full" /\ q = NULL
                  THEN [L.full EXCEPT ![c] = n] ELSE L.full
  <2>1. CASE q # NULL
    BY <2>1, <1>1 DEF Links
  <2>2. CASE q = NULL /\ which = "partial"
    <3>1. A = [L EXCEPT !.partial = [L.partial EXCEPT ![c] = n]]
      BY <2>2 DEF Links
    <3>2. QED  BY <3>1, <2>2, <1>1 DEF Links
  <2>3. CASE q = NULL /\ which = "full"
    <3>1. A = [L EXCEPT !.full = [L.full EXCEPT ![c] = n]]
      BY <2>3 DEF Links
    <3>2. QED  BY <3>1, <2>3, <1>1 DEF Links
  <2>4. QED  BY <2>1, <2>2, <2>3
<1> HIDE DEF A
<1>4. /\ B \in Links
      /\ \A x \in Page : B.prev[x] = IF x = n THEN q ELSE L.prev[x]
      /\ B.next = A.next /\ B.partial = A.partial /\ B.full = A.full
  BY <1>1, <1>3 DEF Links
<1> HIDE DEF B
<1>5. R = [next |-> [B.next EXCEPT ![p] = NULL], prev |-> [B.prev EXCEPT ![p] = NULL],
           partial |-> B.partial, full |-> B.full]
  BY <1>2, <1>4 DEF Links
<1>6. /\ R \in Links
      /\ \A x \in Page : /\ R.next[x] = IF x = p THEN NULL ELSE B.next[x]
                         /\ R.prev[x] = IF x = p THEN NULL ELSE B.prev[x]
      /\ R.partial = B.partial /\ R.full = B.full
  BY <1>4, <1>5 DEF Links
<1>7. QED  BY <1>3, <1>4, <1>6

ListHead(L, which, c) == IF which = "partial" THEN L.partial[c] ELSE L.full[c]

(* What add_slab_to_list does to them.                                      *)
LEMMA AddIs ==
    ASSUME NEW L \in Links, NEW which \in {"partial", "full"}, NEW c \in Cache,
           NEW p \in Page,
           NEW R, R = add_slab_to_list(L, which, c, p)
    PROVE  /\ R \in Links
           /\ \A x \in Page :
                 /\ R.next[x] = IF x = p THEN ListHead(L, which, c) ELSE L.next[x]
                 /\ R.prev[x] = IF x = ListHead(L, which, c) THEN p
                                ELSE IF x = p THEN NULL ELSE L.prev[x]
           /\ R.partial = IF which = "partial" THEN [L.partial EXCEPT ![c] = p] ELSE L.partial
           /\ R.full = IF which = "full" THEN [L.full EXCEPT ![c] = p] ELSE L.full
<1> DEFINE h == ListHead(L, which, c)
           A0 == [L EXCEPT !.next[p] = h, !.prev[p] = NULL]
           A == [L EXCEPT !.next[p] = h, !.prev[p] = NULL, ![which][c] = p]
<1>1. /\ h \in Page \union {NULL} /\ NULL \notin Page
      /\ h = L[which][c]
  BY Constants DEF Links, ListHead
<1>2. R = IF h = NULL THEN A ELSE [A EXCEPT !.prev[h] = p]
  BY <1>1 DEF add_slab_to_list
<1>3. /\ A \in Links
      /\ A.next = [L.next EXCEPT ![p] = h] /\ A.prev = [L.prev EXCEPT ![p] = NULL]
      /\ A.partial = IF which = "partial" THEN [L.partial EXCEPT ![c] = p] ELSE L.partial
      /\ A.full = IF which = "full" THEN [L.full EXCEPT ![c] = p] ELSE L.full
  <2>3. A = [A0 EXCEPT ![which][c] = p]
    OBVIOUS
  <2>5. /\ A0 \in Links
        /\ A0.next = [L.next EXCEPT ![p] = h] /\ A0.prev = [L.prev EXCEPT ![p] = NULL]
        /\ A0.partial = L.partial /\ A0.full = L.full
    <3> DEFINE C == [L EXCEPT !.next[p] = h]
    <3>1. /\ C \in Links
          /\ C.next = [L.next EXCEPT ![p] = h] /\ C.prev = L.prev
          /\ C.partial = L.partial /\ C.full = L.full
      BY <1>1 DEF Links
    <3>2. A0 = [C EXCEPT !.prev[p] = NULL]
      OBVIOUS
    <3> HIDE DEF A0, C
    <3>3. QED  BY <3>1, <3>2, <1>1 DEF Links
  <2> HIDE DEF A0, A
  <2>1. CASE which = "partial"
    <3>1. A = [A0 EXCEPT !.partial = [A0.partial EXCEPT ![c] = p]]
      BY <2>3, <2>1, <2>5 DEF Links
    <3>2. QED  BY <3>1, <2>1, <2>5, <1>1 DEF Links
  <2>2. CASE which = "full"
    <3>1. A = [A0 EXCEPT !.full = [A0.full EXCEPT ![c] = p]]
      BY <2>3, <2>2, <2>5 DEF Links
    <3>2. QED  BY <3>1, <2>2, <2>5, <1>1 DEF Links
  <2>6. QED  BY <2>1, <2>2
<1> HIDE DEF A
<1>4. QED  BY <1>1, <1>2, <1>3 DEF Links

(* Taking a slab off a list and putting it on one keep the links' types.    *)
LEMMA ListsTyped ==
    ASSUME NEW L \in Links, NEW which \in {"partial", "full"}, NEW c \in Cache,
           NEW p \in Page
    PROVE  /\ remove_slab_from_list(L, which, c, p) \in Links
           /\ add_slab_to_list(L, which, c, p) \in Links
<1>1. remove_slab_from_list(L, which, c, p) \in Links
  BY RemoveIs
<1>2. add_slab_to_list(L, which, c, p) \in Links
  BY AddIs
<1>3. QED  BY <1>1, <1>2

(* nx and pv are the links next and prev without slab p.                    *)
Without(p, next, prev, nx, pv) ==
    \A x \in Page :
        /\ nx[x] = IF x = p THEN NULL ELSE IF x = prev[p] THEN next[p] ELSE next[x]
        /\ pv[x] = IF x = p THEN NULL ELSE IF x = next[p] THEN prev[p] ELSE prev[x]

(* A slab leaves the list S; a list T that has no slab of S is left alone.  *)
LEMMA Unlinked ==
    ASSUME NEW next, NEW prev, NEW h, NEW S \in SUBSET Page, NEW p \in S,
           Linked(next, prev, h, S), NULL \notin Page,
           NEW nx, NEW pv, Without(p, next, prev, nx, pv),
           NEW g, g = IF prev[p] = NULL THEN next[p] ELSE h
    PROVE  /\ Linked(nx, pv, g, S \ {p})
           /\ \A k, T : T \in SUBSET Page /\ T \intersect S = {} /\ Linked(next, prev, k, T)
                  => Linked(nx, pv, k, T)
<1>1. Linked(nx, pv, g, S \ {p})
  <2>1. CASE prev[p] = NULL
    BY <2>1 DEF Linked, Without
  <2>2. CASE prev[p] # NULL
    BY <2>2 DEF Linked, Without
  <2>3. QED  BY <2>1, <2>2
<1>2. ASSUME NEW k, NEW T \in SUBSET Page, T \intersect S = {}, Linked(next, prev, k, T)
      PROVE  Linked(nx, pv, k, T)
  <2>1. \A x \in T : x # p /\ x # prev[p] /\ x # next[p]
    BY <1>2 DEF Linked, Without
  <2>2. \A x \in T : nx[x] = next[x] /\ pv[x] = prev[x]
    BY <2>1 DEF Without
  <2>3. QED  BY <1>2, <2>2 DEF Linked, Without
<1>3. QED  BY <1>1, <1>2

(* A slab that is on no list is put at the head of S.                       *)
LEMMA LinkedFirst ==
    ASSUME NEW next, NEW prev, NEW h, NEW S \in SUBSET Page, NEW p \in Page \ S,
           Linked(next, prev, h, S), NULL \notin Page,
           NEW nx, NEW pv,
           \A x \in Page :
               /\ nx[x] = IF x = p THEN h ELSE next[x]
               /\ pv[x] = IF x = h THEN p ELSE IF x = p THEN NULL ELSE prev[x]
    PROVE  /\ Linked(nx, pv, p, S \union {p})
           /\ \A k, T : /\ T \in SUBSET Page /\ T \intersect S = {} /\ p \notin T
                        /\ Linked(next, prev, k, T)
                  => Linked(nx, pv, k, T)
<1>1. Linked(nx, pv, p, S \union {p})
  BY DEF Linked
<1>2. ASSUME NEW k, NEW T \in SUBSET Page, T \intersect S = {}, p \notin T,
             Linked(next, prev, k, T)
      PROVE  Linked(nx, pv, k, T)
  <2>1. \A x \in T : x # p /\ x # h
    BY <1>2 DEF Linked
  <2>2. \A x \in T : nx[x] = next[x] /\ pv[x] = prev[x]
    BY <2>1
  <2>3. QED  BY <1>2, <2>2 DEF Linked
<1>3. QED  BY <1>1, <1>2

(* remove_slab_from_list keeps all lists linked and shortens its own.       *)
LEMMA RemoveKeepsLinked ==
    ASSUME NEW L \in Links, NEW P, NEW F, Apart(P, F), AllLinked(L, P, F),
           NEW c \in Cache
    PROVE  /\ \A p \in P[c] :
                  LET R == remove_slab_from_list(L, "partial", c, p)
                  IN R \in Links /\ AllLinked(R, [P EXCEPT ![c] = @ \ {p}], F)
           /\ \A p \in F[c] :
                  LET R == remove_slab_from_list(L, "full", c, p)
                  IN R \in Links /\ AllLinked(R, P, [F EXCEPT ![c] = @ \ {p}])
<1>0. NULL \notin Page /\ L.partial \in [Cache -> Page \union {NULL}]
      /\ L.full \in [Cache -> Page \union {NULL}]
  BY Constants DEF Links
<1>1. ASSUME NEW p \in P[c], NEW R, R = remove_slab_from_list(L, "partial", c, p)
      PROVE  R \in Links /\ AllLinked(R, [P EXCEPT ![c] = @ \ {p}], F)
  <2>1. P[c] \in SUBSET Page /\ p \in Page /\ Linked(L.next, L.prev, L.partial[c], P[c])
    BY DEF Apart, AllLinked
  <2>2. /\ R \in Links
        /\ \A x \in Page :
              /\ R.next[x] = IF x = p THEN NULL
                             ELSE IF x = L.prev[p] THEN L.next[p] ELSE L.next[x]
              /\ R.prev[x] = IF x = p THEN NULL
                             ELSE IF x = L.next[p] THEN L.prev[p] ELSE L.prev[x]
        /\ R.partial = IF L.prev[p] = NULL THEN [L.partial EXCEPT ![c] = L.next[p]]
                       ELSE L.partial
        /\ R.full = L.full
    BY <1>1, <2>1, RemoveIs
  <2>3. /\ Linked(R.next, R.prev, IF L.prev[p] = NULL THEN L.next[p] ELSE L.partial[c],
                  P[c] \ {p})
        /\ \A k, T : T \in SUBSET Page /\ T \intersect P[c] = {} /\ Linked(L.next, L.prev, k, T)
               => Linked(R.next, R.prev, k, T)
    <3> DEFINE next == L.next  prev == L.prev  nx == R.next  pv == R.prev
               h == L.partial[c]  S == P[c]
               g == IF prev[p] = NULL THEN next[p] ELSE h
    <3>0. NULL \notin Page
      BY <1>0
    <3>1. /\ S \in SUBSET Page /\ p \in S /\ Linked(next, prev, h, S)
          /\ Without(p, next, prev, nx, pv)
      BY <2>1, <2>2 DEF Without
    <3> HIDE DEF g
    <3>4. g = IF prev[p] = NULL THEN next[p] ELSE h
      BY DEF g
    <3> HIDE DEF next, prev, nx, pv, h, S
    <3>2. /\ Linked(nx, pv, g, S \ {p})
          /\ \A k, T : T \in SUBSET Page /\ T \intersect S = {} /\ Linked(next, prev, k, T)
                 => Linked(nx, pv, k, T)
      BY ONLY <3>0, <3>1, <3>4, Unlinked
    <3>3. QED  BY <3>2 DEF next, prev, nx, pv, h, S, g
  <2> DEFINE Q == [P EXCEPT ![c] = @ \ {p}]
  <2>4. /\ Q[c] = P[c] \ {p} /\ \A d \in Cache : d # c => Q[d] = P[d]
    BY DEF Apart
  <2> HIDE DEF Q
  <2>5. Linked(R.next, R.prev, R.partial[c], Q[c])
    BY <1>0, <2>2, <2>3, <2>4
  <2>6. ASSUME NEW d \in Cache, d # c PROVE Linked(R.next, R.prev, R.partial[d], Q[d])
    BY <1>0, <2>2, <2>3, <2>4, <2>6 DEF Apart, AllLinked
  <2>7. ASSUME NEW d \in Cache PROVE Linked(R.next, R.prev, R.full[d], F[d])
    <3>1. F[d] \in SUBSET Page /\ F[d] \intersect P[c] = {}
          /\ Linked(L.next, L.prev, L.full[d], F[d])
      BY DEF Apart, AllLinked
    <3>2. QED  BY <2>2, <2>3, <3>1
  <2>8. AllLinked(R, Q, F)
    BY <2>5, <2>6, <2>7 DEF AllLinked
  <2>9. QED  BY <2>2, <2>8 DEF Q
<1>2. ASSUME NEW p \in F[c], NEW R, R = remove_slab_from_list(L, "full", c, p)
      PROVE  R \in Links /\ AllLinked(R, P, [F EXCEPT ![c] = @ \ {p}])
  <2>1. F[c] \in SUBSET Page /\ p \in Page /\ Linked(L.next, L.prev, L.full[c], F[c])
    BY DEF Apart, AllLinked
  <2>2. /\ R \in Links
        /\ \A x \in Page :
              /\ R.next[x] = IF x = p THEN NULL
                             ELSE IF x = L.prev[p] THEN L.next[p] ELSE L.next[x]
              /\ R.prev[x] = IF x = p THEN NULL
                             ELSE IF x = L.next[p] THEN L.prev[p] ELSE L.prev[x]
        /\ R.full = IF L.prev[p] = NULL THEN [L.full EXCEPT ![c] = L.next[p]]
                    ELSE L.full
        /\ R.partial = L.partial
    BY <1>2, <2>1, RemoveIs
  <2>3. /\ Linked(R.next, R.prev, IF L.prev[p] = NULL THEN L.next[p] ELSE L.full[c],
                  F[c] \ {p})
        /\ \A k, T : T \in SUBSET Page /\ T \intersect F[c] = {} /\ Linked(L.next, L.prev, k, T)
               => Linked(R.next, R.prev, k, T)
    <3> DEFINE next == L.next  prev == L.prev  nx == R.next  pv == R.prev
               h == L.full[c]  S == F[c]
               g == IF prev[p] = NULL THEN next[p] ELSE h
    <3>0. NULL \notin Page
      BY <1>0
    <3>1. /\ S \in SUBSET Page /\ p \in S /\ Linked(next, prev, h, S)
          /\ Without(p, next, prev, nx, pv)
      BY <2>1, <2>2 DEF Without
    <3> HIDE DEF g
    <3>4. g = IF prev[p] = NULL THEN next[p] ELSE h
      BY DEF g
    <3> HIDE DEF next, prev, nx, pv, h, S
    <3>2. /\ Linked(nx, pv, g, S \ {p})
          /\ \A k, T : T \in SUBSET Page /\ T \intersect S = {} /\ Linked(next, prev, k, T)
                 => Linked(nx, pv, k, T)
      BY ONLY <3>0, <3>1, <3>4, Unlinked
    <3>3. QED  BY <3>2 DEF next, prev, nx, pv, h, S, g
  <2> DEFINE Q == [F EXCEPT ![c] = @ \ {p}]
  <2>4. /\ Q[c] = F[c] \ {p} /\ \A d \in Cache : d # c => Q[d] = F[d]
    BY DEF Apart
  <2> HIDE DEF Q
  <2>5. Linked(R.next, R.prev, R.full[c], Q[c])
    BY <1>0, <2>2, <2>3, <2>4
  <2>6. ASSUME NEW d \in Cache, d # c PROVE Linked(R.next, R.prev, R.full[d], Q[d])
    BY <1>0, <2>2, <2>3, <2>4, <2>6 DEF Apart, AllLinked
  <2>7. ASSUME NEW d \in Cache PROVE Linked(R.next, R.prev, R.partial[d], P[d])
    <3>1. P[d] \in SUBSET Page /\ P[d] \intersect F[c] = {}
          /\ Linked(L.next, L.prev, L.partial[d], P[d])
      BY DEF Apart, AllLinked
    <3>2. QED  BY <2>2, <2>3, <3>1
  <2>8. AllLinked(R, P, Q)
    BY <2>5, <2>6, <2>7 DEF AllLinked
  <2>9. QED  BY <2>2, <2>8 DEF Q
<1>3. QED  BY <1>1, <1>2

(* add_slab_to_list keeps all lists linked and extends its own.             *)
LEMMA AddKeepsLinked ==
    ASSUME NEW L \in Links, NEW P, NEW F, Apart(P, F), AllLinked(L, P, F),
           NEW c \in Cache, NEW p \in Page, \A d \in Cache : p \notin P[d] \union F[d]
    PROVE  /\ LET R == add_slab_to_list(L, "partial", c, p)
              IN R \in Links /\ AllLinked(R, [P EXCEPT ![c] = @ \union {p}], F)
           /\ LET R == add_slab_to_list(L, "full", c, p)
              IN R \in Links /\ AllLinked(R, P, [F EXCEPT ![c] = @ \union {p}])
<1>0. NULL \notin Page /\ L.partial \in [Cache -> Page \union {NULL}]
      /\ L.full \in [Cache -> Page \union {NULL}]
  BY Constants DEF Links
<1>1. ASSUME NEW R, R = add_slab_to_list(L, "partial", c, p)
      PROVE  R \in Links /\ AllLinked(R, [P EXCEPT ![c] = @ \union {p}], F)
  <2>1. P[c] \in SUBSET Page /\ p \in Page \ P[c]
        /\ Linked(L.next, L.prev, L.partial[c], P[c])
    BY DEF Apart, AllLinked
  <2>2. /\ R \in Links
        /\ \A x \in Page :
              /\ R.next[x] = IF x = p THEN L.partial[c] ELSE L.next[x]
              /\ R.prev[x] = IF x = L.partial[c] THEN p
                             ELSE IF x = p THEN NULL ELSE L.prev[x]
        /\ R.partial = [L.partial EXCEPT ![c] = p]
        /\ R.full = L.full
    BY <1>1, <2>1, AddIs DEF ListHead
  <2>3. /\ Linked(R.next, R.prev, p, P[c] \union {p})
        /\ \A k, T : /\ T \in SUBSET Page /\ T \intersect P[c] = {} /\ p \notin T
                     /\ Linked(L.next, L.prev, k, T)
               => Linked(R.next, R.prev, k, T)
    <3> DEFINE next == L.next  prev == L.prev  nx == R.next  pv == R.prev
               h == L.partial[c]  S == P[c]
    <3>0. NULL \notin Page
      BY <1>0
    <3>1. /\ S \in SUBSET Page /\ p \in Page \ S /\ Linked(next, prev, h, S)
          /\ \A x \in Page : /\ nx[x] = IF x = p THEN h ELSE next[x]
                             /\ pv[x] = IF x = h THEN p
                                        ELSE IF x = p THEN NULL ELSE prev[x]
      BY <2>1, <2>2
    <3> HIDE DEF next, prev, nx, pv, h, S
    <3>2. /\ Linked(nx, pv, p, S \union {p})
          /\ \A k, T : /\ T \in SUBSET Page /\ T \intersect S = {} /\ p \notin T
                       /\ Linked(next, prev, k, T)
                 => Linked(nx, pv, k, T)
      BY ONLY <3>0, <3>1, LinkedFirst
    <3>3. QED  BY <3>2 DEF next, prev, nx, pv, h, S
  <2> DEFINE Q == [P EXCEPT ![c] = @ \union {p}]
  <2>4. /\ Q[c] = P[c] \union {p} /\ \A d \in Cache : d # c => Q[d] = P[d]
    BY DEF Apart
  <2> HIDE DEF Q
  <2>5. Linked(R.next, R.prev, R.partial[c], Q[c])
    BY <1>0, <2>2, <2>3, <2>4
  <2>6. ASSUME NEW d \in Cache, d # c PROVE Linked(R.next, R.prev, R.partial[d], Q[d])
    BY <1>0, <2>2, <2>3, <2>4, <2>6 DEF Apart, AllLinked
  <2>7. ASSUME NEW d \in Cache PROVE Linked(R.next, R.prev, R.full[d], F[d])
    <3>1. F[d] \in SUBSET Page /\ F[d] \intersect P[c] = {} /\ p \notin F[d]
          /\ Linked(L.next, L.prev, L.full[d], F[d])
      BY DEF Apart, AllLinked
    <3>2. QED  BY <2>2, <2>3, <3>1
  <2>8. AllLinked(R, Q, F)
    BY <2>5, <2>6, <2>7 DEF AllLinked
  <2>9. QED  BY <2>2, <2>8 DEF Q
<1>2. ASSUME NEW R, R = add_slab_to_list(L, "full", c, p)
      PROVE  R \in Links /\ AllLinked(R, P, [F EXCEPT ![c] = @ \union {p}])
  <2>1. F[c] \in SUBSET Page /\ p \in Page \ F[c]
        /\ Linked(L.next, L.prev, L.full[c], F[c])
    BY DEF Apart, AllLinked
  <2>2. /\ R \in Links
        /\ \A x \in Page :
              /\ R.next[x] = IF x = p THEN L.full[c] ELSE L.next[x]
              /\ R.prev[x] = IF x = L.full[c] THEN p
                             ELSE IF x = p THEN NULL ELSE L.prev[x]
        /\ R.full = [L.full EXCEPT ![c] = p]
        /\ R.partial = L.partial
    BY <1>2, <2>1, AddIs DEF ListHead
  <2>3. /\ Linked(R.next, R.prev, p, F[c] \union {p})
        /\ \A k, T : /\ T \in SUBSET Page /\ T \intersect F[c] = {} /\ p \notin T
                     /\ Linked(L.next, L.prev, k, T)
               => Linked(R.next, R.prev, k, T)
    <3> DEFINE next == L.next  prev == L.prev  nx == R.next  pv == R.prev
               h == L.full[c]  S == F[c]
    <3>0. NULL \notin Page
      BY <1>0
    <3>1. /\ S \in SUBSET Page /\ p \in Page \ S /\ Linked(next, prev, h, S)
          /\ \A x \in Page : /\ nx[x] = IF x = p THEN h ELSE next[x]
                             /\ pv[x] = IF x = h THEN p
                                        ELSE IF x = p THEN NULL ELSE prev[x]
      BY <2>1, <2>2
    <3> HIDE DEF next, prev, nx, pv, h, S
    <3>2. /\ Linked(nx, pv, p, S \union {p})
          /\ \A k, T : /\ T \in SUBSET Page /\ T \intersect S = {} /\ p \notin T
                       /\ Linked(next, prev, k, T)
                 => Linked(nx, pv, k, T)
      BY ONLY <3>0, <3>1, LinkedFirst
    <3>3. QED  BY <3>2 DEF next, prev, nx, pv, h, S
  <2> DEFINE Q == [F EXCEPT ![c] = @ \union {p}]
  <2>4. /\ Q[c] = F[c] \union {p} /\ \A d \in Cache : d # c => Q[d] = F[d]
    BY DEF Apart
  <2> HIDE DEF Q
  <2>5. Linked(R.next, R.prev, R.full[c], Q[c])
    BY <1>0, <2>2, <2>3, <2>4
  <2>6. ASSUME NEW d \in Cache, d # c PROVE Linked(R.next, R.prev, R.full[d], Q[d])
    BY <1>0, <2>2, <2>3, <2>4, <2>6 DEF Apart, AllLinked
  <2>7. ASSUME NEW d \in Cache PROVE Linked(R.next, R.prev, R.partial[d], P[d])
    <3>1. P[d] \in SUBSET Page /\ P[d] \intersect F[c] = {} /\ p \notin P[d]
          /\ Linked(L.next, L.prev, L.partial[d], P[d])
      BY DEF Apart, AllLinked
    <3>2. QED  BY <2>2, <2>3, <3>1
  <2>8. AllLinked(R, P, Q)
    BY <2>5, <2>6, <2>7 DEF AllLinked
  <2>9. QED  BY <2>2, <2>8 DEF Q
<1>3. QED  BY <1>1, <1>2

(* The links of a list only ever lead down from a bounded rank, and so      *)
(* never round.                                                             *)
Ranked(next, P, F) ==
    \E K \in Nat : \E r \in [Page -> 0 .. K] :
        \A c \in Cache : \A p \in P[c] \union F[c] : next[p] # NULL => r[next[p]] < r[p]

InOrder(L, P, F) == AllLinked(L, P, F) /\ Ranked(L.next, P, F)

(* A slab that leaves its list leaves the ranks of the others as they are.  *)
LEMMA RankedWithout ==
    ASSUME NEW L \in Links, NEW P, NEW F, Apart(P, F), InOrder(L, P, F),
           NEW c \in Cache, NEW p \in P[c] \union F[c],
           NEW nx, \A x \in Page : nx[x] = IF x = p THEN NULL
                                           ELSE IF x = L.prev[p] THEN L.next[p] ELSE L.next[x],
           NEW Q, NEW G, \A d \in Cache : Q[d] \subseteq P[d] /\ G[d] \subseteq F[d]
    PROVE  Ranked(nx, Q, G)
<1>0. PICK K \in Nat : \E r \in [Page -> 0 .. K] :
          \A d \in Cache : \A x \in P[d] \union F[d] : L.next[x] # NULL => r[L.next[x]] < r[x]
  BY DEF InOrder, Ranked
<1>1. PICK r \in [Page -> 0 .. K] :
          \A d \in Cache : \A x \in P[d] \union F[d] : L.next[x] # NULL => r[L.next[x]] < r[x]
  BY <1>0
<1>2. NULL \notin Page /\ L.next \in [Page -> Page \union {NULL}]
      /\ \A d \in Cache : P[d] \subseteq Page /\ F[d] \subseteq Page
  BY Constants DEF Links, Apart
<1>3. ASSUME NEW d \in Cache, NEW x \in Q[d] \union G[d], nx[x] # NULL PROVE r[nx[x]] < r[x]
  <2>1. x \in P[d] \union F[d] /\ x \in Page /\ x # p
    BY <1>2, <1>3
  <2>2. CASE x = L.prev[p]
    <3>1. nx[x] = L.next[p] /\ L.next[p] \in Page /\ p \in Page
      BY <1>2, <1>3, <2>1, <2>2
    <3>2. L.next[x] = p
      BY <1>2, <2>1, <2>2 DEF InOrder, AllLinked, Linked
    <3>3. r[L.next[p]] < r[p] /\ r[p] < r[x]
      BY <1>1, <1>2, <2>1, <3>1, <3>2
    <3>4. QED  BY <1>1, <2>1, <3>1, <3>3
  <2>3. CASE x # L.prev[p]
    BY <1>1, <1>3, <2>1, <2>3
  <2>4. QED  BY <2>2, <2>3
<1>4. QED  BY <1>1, <1>3 DEF Ranked

(* Each cache's set of slabs in Q is that in P, but for p.                  *)
AtMostWith(Q, P, p) == \A d \in Cache : Q[d] \subseteq P[d] \union {p}

(* A slab that heads a list gets a rank above all others.                   *)
LEMMA RankedFirst ==
    ASSUME NEW L \in Links, NEW P, NEW F, Apart(P, F), InOrder(L, P, F),
           NEW p \in Page, \A d \in Cache : p \notin P[d] \union F[d],
           NEW h, h # NULL => \E d \in Cache : h \in P[d] \union F[d],
           NEW nx, \A x \in Page : nx[x] = IF x = p THEN h ELSE L.next[x],
           NEW Q, NEW G, AtMostWith(Q, P, p), AtMostWith(G, F, p)
    PROVE  Ranked(nx, Q, G)
<1>0. PICK K \in Nat : \E r \in [Page -> 0 .. K] :
          \A d \in Cache : \A x \in P[d] \union F[d] : L.next[x] # NULL => r[L.next[x]] < r[x]
  BY DEF InOrder, Ranked
<1>1. PICK r \in [Page -> 0 .. K] :
          \A d \in Cache : \A x \in P[d] \union F[d] : L.next[x] # NULL => r[L.next[x]] < r[x]
  BY <1>0
<1>2. NULL \notin Page /\ L.next \in [Page -> Page \union {NULL}]
      /\ \A d \in Cache : P[d] \subseteq Page /\ F[d] \subseteq Page
  BY Constants DEF Links, Apart
<1> DEFINE s == [r EXCEPT ![p] = K + 1]
<1>3. s \in [Page -> 0 .. K + 1] /\ s[p] = K + 1
      /\ \A x \in Page : x # p => s[x] = r[x] /\ r[x] \in 0 .. K
  BY <1>1
<1> HIDE DEF s
<1>4. ASSUME NEW d \in Cache, NEW x \in Q[d] \union G[d], nx[x] # NULL PROVE s[nx[x]] < s[x]
  <2>1. CASE x = p
    <3>1. nx[x] = h /\ h \in Page /\ h # p
      BY <1>2, <1>4, <2>1
    <3>2. QED  BY <1>1, <1>3, <2>1, <3>1
  <2>2. CASE x # p
    <3>1. x \in P[d] \union F[d] /\ x \in Page /\ nx[x] = L.next[x]
      BY <1>2, <1>4, <2>2 DEF AtMostWith
    <3>2. L.next[x] \in P[d] \union F[d]
      BY <1>4, <3>1 DEF InOrder, AllLinked, Linked
    <3>3. L.next[x] \in Page /\ L.next[x] # p
      BY <1>2, <3>2
    <3>4. r[L.next[x]] < r[x]
      BY <1>1, <1>4, <3>1
    <3>5. QED  BY <1>3, <2>2, <3>1, <3>3, <3>4
  <2>3. QED  BY <2>1, <2>2
<1>5. K + 1 \in Nat
  BY <1>1
<1>6. QED  BY <1>3, <1>4, <1>5 DEF Ranked

(* remove_slab_from_list keeps all lists in order.                          *)
LEMMA RemoveInOrder ==
    ASSUME NEW L \in Links, NEW P, NEW F, Apart(P, F), InOrder(L, P, F),
           NEW c \in Cache
    PROVE  /\ \A p \in P[c] :
                  LET R == remove_slab_from_list(L, "partial", c, p)
                  IN R \in Links /\ InOrder(R, [P EXCEPT ![c] = @ \ {p}], F)
           /\ \A p \in F[c] :
                  LET R == remove_slab_from_list(L, "full", c, p)
                  IN R \in Links /\ InOrder(R, P, [F EXCEPT ![c] = @ \ {p}])
<1>0. P \in [Cache -> SUBSET Page] /\ F \in [Cache -> SUBSET Page] /\ AllLinked(L, P, F)
  BY DEF Apart, InOrder
<1>1. ASSUME NEW p \in P[c], NEW R, R = remove_slab_from_list(L, "partial", c, p)
      PROVE  R \in Links /\ InOrder(R, [P EXCEPT ![c] = @ \ {p}], F)
  <2> DEFINE Q == [P EXCEPT ![c] = @ \ {p}]
  <2>1. R \in Links /\ AllLinked(R, Q, F)
    BY <1>0, <1>1, RemoveKeepsLinked
  <2>0. p \in Page
    BY <1>0
  <2>2. \A d \in Cache : Q[d] \subseteq P[d] /\ F[d] \subseteq F[d]
    BY <1>0
  <2>3. /\ R \in Links
        /\ \A x \in Page : /\ R.next[x] = IF x = p THEN NULL
                                           ELSE IF x = L.prev[p] THEN L.next[p] ELSE L.next[x]
                           /\ R.prev[x] = IF x = p THEN NULL
                                           ELSE IF x = L.next[p] THEN L.prev[p] ELSE L.prev[x]
        /\ R.partial = IF L.prev[p] = NULL THEN [L.partial EXCEPT ![c] = L.next[p]] ELSE L.partial
        /\ R.full = L.full
    BY <1>1, <2>0, RemoveIs
  <2> HIDE DEF Q
  <2>4. PICK nx : nx = R.next
    OBVIOUS
  <2>5. Ranked(nx, Q, F)
    BY <2>2, <2>3, <2>4, RankedWithout
  <2>6. QED  BY <2>1, <2>4, <2>5 DEF InOrder, Q
<1>2. ASSUME NEW p \in F[c], NEW R, R = remove_slab_from_list(L, "full", c, p)
      PROVE  R \in Links /\ InOrder(R, P, [F EXCEPT ![c] = @ \ {p}])
  <2> DEFINE Q == [F EXCEPT ![c] = @ \ {p}]
  <2>1. R \in Links /\ AllLinked(R, P, Q)
    BY <1>0, <1>2, RemoveKeepsLinked
  <2>0. p \in Page
    BY <1>0
  <2>2. \A d \in Cache : P[d] \subseteq P[d] /\ Q[d] \subseteq F[d]
    BY <1>0
  <2>3. /\ R \in Links
        /\ \A x \in Page : /\ R.next[x] = IF x = p THEN NULL
                                           ELSE IF x = L.prev[p] THEN L.next[p] ELSE L.next[x]
                           /\ R.prev[x] = IF x = p THEN NULL
                                           ELSE IF x = L.next[p] THEN L.prev[p] ELSE L.prev[x]
        /\ R.full = IF L.prev[p] = NULL THEN [L.full EXCEPT ![c] = L.next[p]] ELSE L.full
        /\ R.partial = L.partial
    BY <1>2, <2>0, RemoveIs
  <2> HIDE DEF Q
  <2>4. PICK nx : nx = R.next
    OBVIOUS
  <2>5. Ranked(nx, P, Q)
    BY <2>2, <2>3, <2>4, RankedWithout
  <2>6. QED  BY <2>1, <2>4, <2>5 DEF InOrder, Q
<1>3. QED  BY <1>1, <1>2

(* add_slab_to_list keeps them so too.                                     *)
LEMMA AddInOrder ==
    ASSUME NEW L \in Links, NEW P, NEW F, Apart(P, F), InOrder(L, P, F),
           NEW c \in Cache, NEW p \in Page, \A d \in Cache : p \notin P[d] \union F[d]
    PROVE  /\ LET R == add_slab_to_list(L, "partial", c, p)
              IN R \in Links /\ InOrder(R, [P EXCEPT ![c] = @ \union {p}], F)
           /\ LET R == add_slab_to_list(L, "full", c, p)
              IN R \in Links /\ InOrder(R, P, [F EXCEPT ![c] = @ \union {p}])
<1>0. P \in [Cache -> SUBSET Page] /\ F \in [Cache -> SUBSET Page] /\ AllLinked(L, P, F)
  BY DEF Apart, InOrder
<1>1. ASSUME NEW R, R = add_slab_to_list(L, "partial", c, p)
      PROVE  R \in Links /\ InOrder(R, [P EXCEPT ![c] = @ \union {p}], F)
  <2> DEFINE Q == [P EXCEPT ![c] = @ \union {p}]
  <2>1. R \in Links /\ AllLinked(R, Q, F)
    BY <1>0, <1>1, AddKeepsLinked
  <2>2. AtMostWith(Q, P, p) /\ AtMostWith(F, F, p)
    BY <1>0 DEF AtMostWith
  <2>3. PICK h : h = ListHead(L, "partial", c)
    OBVIOUS
  <2>4. /\ R \in Links
        /\ \A x \in Page : /\ R.next[x] = IF x = p THEN h ELSE L.next[x]
                           /\ R.prev[x] = IF x = h THEN p ELSE IF x = p THEN NULL ELSE L.prev[x]
        /\ R.partial = [L.partial EXCEPT ![c] = p]
        /\ R.full = L.full
    BY <1>1, <2>3, AddIs
  <2>5. h # NULL => \E d \in Cache : h \in P[d] \union F[d]
    BY <1>0, <2>3 DEF ListHead, AllLinked, Linked
  <2> HIDE DEF Q
  <2>6. PICK nx : nx = R.next
    OBVIOUS
  <2>7. Ranked(nx, Q, F)
    <3>1. \A x \in Page : nx[x] = IF x = p THEN h ELSE L.next[x]
      BY <2>4, <2>6
    <3>2. QED  BY <2>2, <2>5, <3>1, RankedFirst
  <2>8. QED  BY <2>1, <2>6, <2>7 DEF InOrder, Q
<1>2. ASSUME NEW R, R = add_slab_to_list(L, "full", c, p)
      PROVE  R \in Links /\ InOrder(R, P, [F EXCEPT ![c] = @ \union {p}])
  <2> DEFINE G == [F EXCEPT ![c] = @ \union {p}]
  <2>1. R \in Links /\ AllLinked(R, P, G)
    BY <1>0, <1>2, AddKeepsLinked
  <2>2. AtMostWith(P, P, p) /\ AtMostWith(G, F, p)
    BY <1>0 DEF AtMostWith
  <2>3. PICK h : h = ListHead(L, "full", c)
    OBVIOUS
  <2>4. /\ R \in Links
        /\ \A x \in Page : /\ R.next[x] = IF x = p THEN h ELSE L.next[x]
                           /\ R.prev[x] = IF x = h THEN p ELSE IF x = p THEN NULL ELSE L.prev[x]
        /\ R.full = [L.full EXCEPT ![c] = p]
        /\ R.partial = L.partial
    BY <1>2, <2>3, AddIs
  <2>5. h # NULL => \E d \in Cache : h \in P[d] \union F[d]
    BY <1>0, <2>3 DEF ListHead, AllLinked, Linked
  <2> HIDE DEF G
  <2>6. PICK nx : nx = R.next
    OBVIOUS
  <2>7. Ranked(nx, P, G)
    <3>1. \A x \in Page : nx[x] = IF x = p THEN h ELSE L.next[x]
      BY <2>4, <2>6
    <3>2. QED  BY <2>2, <2>5, <3>1, RankedFirst
  <2>8. QED  BY <2>1, <2>6, <2>7 DEF InOrder, G
<1>3. QED  BY <1>1, <1>2

-----------------------------------------------------------------------------
(* The page of a slab being made; the objects of slabs that are held.       *)
Growing == {page[t] : t \in Thread} \ {NULL}
Objs == Held \ Runs

(* What the locals of a call are at each of its steps.                      *)
Local(t) ==
    /\ pc[t] = "idle" => old[t] = NULL
    /\ pc[t] \notin {"kmem_alloc", "new_slab", "init_slab", "get_pages"} => size[t] = 0
    /\ pc[t] \in {"kmem_alloc", "new_slab", "init_slab"} => size[t] \in Cache
    /\ pc[t] = "get_pages" => size[t] \in Size
    /\ pc[t] = "init_slab" <=> page[t] # NULL
    /\ pc[t] \notin {"copy", "memset", "kmem_free", "free_pages"} => new[t] = NULL
    /\ pc[t] \in {"copy", "memset"} => new[t] # NULL
    /\ pc[t] = "memset" => old[t] = NULL
    /\ pc[t] \in {"copy", "kmem_free", "free_pages"} => old[t] # NULL
    /\ pc[t] = "kmem_free" => old[t].slot # 0
    /\ pc[t] = "free_pages" => old[t].slot = 0
Locals == (\A t \in Thread : Local(t)) /\ SlabLockHeldToGrow

(* A block has one holder.                                                  *)
Holders ==
    /\ \A t, u \in Thread :
          /\ new[t] # NULL => new[t] # old[u]
          /\ t # u /\ old[t] # NULL => old[t] # old[u]
          /\ t # u /\ new[t] # NULL => new[t] # new[u]
    /\ \A t \in Thread : {old[t], new[t]} \intersect live = {}

(* A run that krealloc replaces is smaller than what it gets instead.       *)
GrowsOf(t) ==
    old[t] # NULL /\ old[t].slot = 0 =>
        /\ pc[t] \in {"kmem_alloc", "new_slab", "init_slab", "get_pages"} =>
               size[t] > old[t].size
        /\ pc[t] = "copy" => new[t].slot = 0 /\ new[t].size > old[t].size
Grows == \A t \in Thread : GrowsOf(t)

(* Where runs and objects lie.                                              *)
Layout ==
    /\ \A a, b \in Runs : a # b => PagesOf(a) \intersect PagesOf(b) = {}
    /\ \A a \in Runs : /\ a.size > Len(Objects) /\ PagesOf(a) \subseteq Page
                       /\ PagesOf(a) \intersect (SlabPages \union Growing) = {}
    /\ \A b \in Objs : /\ b.size \in Cache /\ b.page \in slabs[b.size]
                       /\ b.slot \in 1 .. Objects[b.size]
    /\ \A c, d \in Cache : c # d => slabs[c] \intersect slabs[d] = {}
    /\ Growing \intersect SlabPages = {}

(* The bitmap and the counts of pages.                                      *)
Accounted ==
    /\ bitmap = SlabPages \union Growing \union UNION {PagesOf(b) : b \in Runs}
    /\ \A b \in Runs : page_alloc_count[b.page] = b.size - Len(Objects)
    /\ \A p \in SlabPages \union Growing : page_alloc_count[p] = 1
    /\ \A p \in Page : p \notin SlabPages \union Growing \union {b.page : b \in Runs} =>
           page_alloc_count[p] = 0

(* The header and the free list of slab p of cache c.                       *)
Exact(c, p) ==
    LET free == slab[p].free_list
    IN /\ slab[p].cache = c
       /\ slab[p].num_free = Len(free) /\ Len(free) < Objects[c]
       /\ \A i, j \in DOMAIN free : free[i] = free[j] => i = j
       /\ {free[i] : i \in DOMAIN free} = (1 .. Objects[c]) \ HeldSlots(p)
Headers == \A c \in Cache : \A p \in slabs[c] : Exact(c, p)

(* The slabs that each list has.                                            *)
Partial == [c \in Cache |-> {p \in slabs[c] : slab[p].num_free # 0}]
Full == [c \in Cache |-> {p \in slabs[c] : slab[p].num_free = 0}]
ListsLinked == InOrder(lists, Partial, Full)

Marked == \A p \in SlabPages : magic[p]

Counted == CountersExact /\ IsFiniteSet(Objs)

(* The inductive invariant.                                                 *)
IInv == /\ TypeOK /\ Locals /\ Holders /\ Grows /\ Layout /\ Accounted /\ Headers
        /\ ListsLinked /\ Marked /\ Counted

-----------------------------------------------------------------------------
(* Who holds a block.                                                       *)
LEMMA HeldIs ==
    /\ \A b : b \in Held <=> \/ b \in live
                             \/ b # NULL /\ \E t \in Thread : b = old[t] \/ b = new[t]
    /\ \A b : b \in Held' <=> \/ b \in live'
                              \/ b # NULL /\ \E t \in Thread : b = old'[t] \/ b = new'[t]
  BY DEF Held

(* Held blocks are blocks, and either runs or objects of slabs.             *)
LEMMA HeldTyped ==
    /\ TypeOK => /\ Held \subseteq Block /\ NULL \notin Held
                 /\ NULL \notin live /\ live \subseteq Held
    /\ \A b : b \in Runs <=> b \in Held /\ b.slot = 0
    /\ \A b : b \in Objs <=> b \in Held /\ b.slot # 0
<1>1. TypeOK => Held \subseteq Block /\ NULL \notin Held /\ NULL \notin live /\ live \subseteq Held
  BY HeldIs, Constants DEF TypeOK
<1>2. QED  BY <1>1 DEF Runs, Objs

(* Runs and objects among the blocks held after a step.                     *)
LEMMA RunsIs ==
    /\ \A b : b \in Runs' <=> b \in Held' /\ b.slot = 0
    /\ \A b : b \in Objs' <=> b \in Held' /\ b.slot # 0
  BY DEF Runs, Objs

(* Only the acting thread's locals change.                                  *)
Others(t) ==
    \A u \in Thread : u # t => /\ pc'[u] = pc[u] /\ size'[u] = size[u] /\ page'[u] = page[u]
                               /\ old'[u] = old[u] /\ new'[u] = new[u]

(* The block changes hands, and the set of blocks held stays the same.      *)
LEMMA HeldSame ==
    ASSUME Holders, UNCHANGED <<old, new, live>>
    PROVE  Holders' /\ Held' = Held
<1>1. Holders'
  BY DEF Holders
<1>2. QED  BY <1>1 DEF Held

(* A call takes b from its caller, to free or to replace it.                *)
LEMMA HeldTaken ==
    ASSUME TypeOK, Holders, NEW t \in Thread, NEW b \in live, old[t] = NULL,
           old' = [old EXCEPT ![t] = b], live' = live \ {b}, new' = new
    PROVE  Holders' /\ Held' = Held
<1>1. b # NULL /\ \A u \in Thread : old'[u] = IF u = t THEN b ELSE old[u]
  BY Constants DEF TypeOK
<1>2. Holders'
  BY <1>1 DEF Holders
<1>3. \A x : x \in Held' <=> x \in Held
  BY <1>1, HeldIs
<1>4. QED  BY <1>2, <1>3

(* A block nobody holds is found.                                           *)
LEMMA HeldFound ==
    ASSUME TypeOK, Holders, NEW t \in Thread, NEW b \in Block, b \notin Held,
           new[t] = NULL, Found(t, b)
    PROVE  Holders' /\ Held' = Held \union {b}
<1>1. b # NULL /\ b \notin live /\ \A u \in Thread : b # old[u] /\ b # new[u]
  BY HeldIs, Constants
<1>2. CASE old[t] = NULL /\ live' = live \union {b} /\ UNCHANGED <<old, new>>
  <2>1. Holders'
    BY <1>1, <1>2 DEF Holders
  <2>2. \A x : x \in Held' <=> x \in Held \union {b}
    BY <1>1, <1>2, HeldIs
  <2>3. QED  BY <2>1, <2>2
<1>3. CASE new' = [new EXCEPT ![t] = b] /\ UNCHANGED <<old, live>>
  <2>1. \A u \in Thread : new'[u] = IF u = t THEN b ELSE new[u]
    BY <1>3 DEF TypeOK
  <2>2. Holders'
    BY <1>1, <1>3, <2>1 DEF Holders
  <2>3. \A x : x \in Held' <=> x \in Held \union {b}
    BY <1>1, <1>3, <2>1, HeldIs
  <2>4. QED  BY <2>2, <2>3
<1>4. QED  BY <1>2, <1>3 DEF Found

(* krealloc gets no block: what it was to replace is the caller's again.    *)
LEMMA HeldFailed ==
    ASSUME TypeOK, Holders, NEW t \in Thread, Failed(t)
    PROVE  Holders' /\ Held' = Held
<1>1. /\ live' = live \union ({old[t]} \ {NULL}) /\ new' = new
      /\ \A u \in Thread : old'[u] = IF u = t THEN NULL ELSE old[u]
  BY DEF TypeOK, Failed
<1>2. Holders'
  <2>1. NULL \notin live
    BY HeldTyped
  <2>2. \A u \in Thread : old'[u] \notin live' /\ new'[u] \notin live'
    BY <1>1, <2>1 DEF Holders
  <2>3. \A u, v \in Thread :
            /\ new'[u] # NULL => new'[u] # old'[v]
            /\ u # v /\ old'[u] # NULL => old'[u] # old'[v]
            /\ u # v /\ new'[u] # NULL => new'[u] # new'[v]
    BY <1>1 DEF Holders
  <2>4. QED  BY <2>2, <2>3 DEF Holders
<1>3. \A x : x \in Held' <=> x \in Held
  BY <1>1, HeldIs
<1>4. QED  BY <1>2, <1>3

(* A call ends that has freed its block.                                    *)
LEMMA HeldFreed ==
    ASSUME TypeOK, Holders, NEW t \in Thread, Freed(t)
    PROVE  Holders' /\ Held' = Held \ {old[t]}
<1>1. /\ live' = live \union ({new[t]} \ {NULL})
      /\ \A u \in Thread : /\ old'[u] = IF u = t THEN NULL ELSE old[u]
                           /\ new'[u] = IF u = t THEN NULL ELSE new[u]
  BY DEF TypeOK, Freed
<1>2. Holders'
  <2>1. NULL \notin live
    BY HeldTyped
  <2>2. \A u \in Thread : old'[u] \notin live' /\ new'[u] \notin live'
    BY <1>1, <2>1 DEF Holders
  <2>3. \A u, v \in Thread :
            /\ new'[u] # NULL => new'[u] # old'[v]
            /\ u # v /\ old'[u] # NULL => old'[u] # old'[v]
            /\ u # v /\ new'[u] # NULL => new'[u] # new'[v]
    BY <1>1 DEF Holders
  <2>4. QED  BY <2>2, <2>3 DEF Holders
<1>3. ASSUME NEW x PROVE x \in Held' <=> x \in Held \ {old[t]}
  <2>1. NULL \notin live /\ NULL \notin live' /\ NULL \notin Held /\ NULL \notin Held'
    BY <1>1, HeldTyped, HeldIs
  <2>2. CASE x = NULL
    BY <2>1, <2>2
  <2>3. CASE x # NULL /\ x = old[t]
    <3>1. x \notin live' /\ \A u \in Thread : x # old'[u] /\ x # new'[u]
      BY <1>1, <2>3 DEF Holders
    <3>2. QED  BY <2>3, <3>1, HeldIs
  <2>4. CASE x # NULL /\ x # old[t]
    BY <1>1, <2>4, HeldIs
  <2>5. QED  BY <2>2, <2>3, <2>4
<1>4. QED  BY <1>2, <1>3

(* The page of an emptied slab takes the place of its last object.          *)
LEMMA HeldReplaced ==
    ASSUME TypeOK, Holders, NEW t \in Thread, NEW r \in Block, r \notin Held,
           old[t] # NULL, old' = [old EXCEPT ![t] = r], UNCHANGED <<new, live>>
    PROVE  Holders' /\ Held' = (Held \ {old[t]}) \union {r}
<1>1. /\ r # NULL /\ r \notin live /\ \A u \in Thread : r # old[u] /\ r # new[u]
      /\ \A u \in Thread : old'[u] = IF u = t THEN r ELSE old[u]
  BY HeldIs, Constants DEF TypeOK
<1>2. Holders'
  BY <1>1 DEF Holders
<1>3. ASSUME NEW x PROVE x \in Held' <=> x \in (Held \ {old[t]}) \union {r}
  <2>1. CASE x = r
    BY <1>1, <2>1, HeldIs
  <2>2. CASE x = old[t]
    <3>1. x \notin live' /\ \A u \in Thread : x # old'[u] /\ x # new'[u]
      BY <1>1, <2>2 DEF Holders
    <3>2. QED  BY <1>1, <2>2, <3>1, HeldIs
  <2>3. CASE x # r /\ x # old[t]
    BY <1>1, <2>3, HeldIs
  <2>4. QED  BY <2>1, <2>2, <2>3
<1>4. QED  BY <1>2, <1>3

-----------------------------------------------------------------------------
(* A run held has its first page.                                           *)
LEMMA RunHasFirst ==
    ASSUME TypeOK, Layout, NEW b \in Runs
    PROVE  /\ b \in Block /\ b.page \in PagesOf(b) /\ b.page \in Page
           /\ b.size \in Nat /\ b.size > Len(Objects)
<1>1. b \in Block /\ b.size > Len(Objects)
  BY HeldTyped DEF Layout
<1>2. b.page \in Page /\ b.page \in Nat /\ b.size \in Nat /\ Len(Objects) \in Nat
  BY <1>1, Constants DEF Block
<1>3. PICK lo, n, k : lo = b.page /\ n = b.size /\ k = Len(Objects)
  OBVIOUS
<1>4. lo \in lo .. lo + n - k - 1
  BY <1>1, <1>2, <1>3
<1>5. QED  BY <1>1, <1>2, <1>3, <1>4 DEF PagesOf

(* The header word tells the objects of slabs from the runs held.           *)
LEMMA RouteIs ==
    ASSUME TypeOK, Layout, Marked, NEW b \in Held
    PROVE  /\ is_slab_address(b) <=> b.slot # 0
           /\ b.slot # 0 => b.page \in SlabPages
<1>1. b.slot # 0 => b \in Objs /\ b.page \in slabs[b.size] /\ b.size \in Cache
  BY HeldTyped DEF Layout
<1>2. b.slot # 0 => b.page \in SlabPages /\ magic[b.page]
  BY <1>1 DEF SlabPages, Marked
<1>3. QED  BY <1>2 DEF is_slab_address

(* The sizes krealloc compares are those of the blocks.                     *)
LEMMA SizeIs ==
    ASSUME IInv, NEW b \in Held
    PROVE  OldSize(b) = b.size
<1>1. b \in Block /\ TypeOK /\ (is_slab_address(b) <=> b.slot # 0)
  BY RouteIs, HeldTyped DEF IInv
<1>2. CASE b.slot # 0
  <2>1. b \in Objs /\ b.size \in Cache /\ b.page \in slabs[b.size]
    BY <1>2, HeldTyped DEF IInv, Layout
  <2>2. slab[b.page].cache = b.size
    BY <2>1 DEF IInv, Headers, Exact
  <2>3. QED  BY <1>1, <1>2, <2>2 DEF OldSize
<1>3. CASE b.slot = 0
  <2>1. page_alloc_count[b.page] = b.size - Len(Objects)
    BY <1>3, HeldTyped DEF IInv, Accounted
  <2>2. b.size \in Nat /\ Len(Objects) \in Nat
    BY <1>1, Constants DEF Block
  <2>3. QED  BY <1>1, <1>3, <2>1, <2>2 DEF OldSize, kmalloc_size
<1>4. QED  BY <1>2, <1>3

(* krealloc of a size that fits leaves the caller with the block it had.    *)
LEMMA FitsIs ==
    ASSUME IInv, NEW t \in Thread, NEW b \in live, NEW s \in Size, kreallocFits(t, b, s)
    PROVE  UNCHANGED vars
<1>1. b \in Held /\ b \in Block /\ b.size \in Nat /\ s \in Nat
  BY HeldTyped, Constants DEF IInv, Block
<1>2. s <= b.size
  BY <1>1, SizeIs DEF kreallocFits
<1>3. Max({b.size, s}) = b.size
  <2>1. Max({b.size, s}) \in {b.size, s} /\ \A y \in {b.size, s} : Max({b.size, s}) >= y
    <3>1. b.size \in {b.size, s} /\ \A y \in {b.size, s} : b.size >= y
      BY <1>1, <1>2
    <3>2. QED  BY <3>1, Zenon DEF Max
  <2>2. QED  BY <1>1, <1>2, <2>1
<1>4. live' = (live \ {b}) \union {[b EXCEPT !.size = b.size]}
  BY <1>3 DEF kreallocFits
<1>5. [b EXCEPT !.size = b.size] = b
  BY <1>1 DEF Block
<1>6. live' = live
  BY <1>4, <1>5
<1>7. QED  BY <1>6 DEF kreallocFits, vars, heapVars, slabVars

(* The object kmem_alloc takes from a partial slab.                         *)
LEMMA TakeIs ==
    ASSUME IInv, NEW t \in Thread, HasPartial(t),
           NEW c, c = size[t], NEW p, p = lists.partial[c]
    PROVE  /\ c \in Cache /\ p \in Page /\ p \in slabs[c]
           /\ slab[p].num_free # 0 /\ Exact(c, p)
           /\ slab[p].free_list \in Seq(Slot) /\ slab[p].free_list # <<>>
           /\ slab[p].free_list[1] \in 1 .. Objects[c]
           /\ slab[p].free_list[1] \notin HeldSlots(p)
           /\ [page |-> p, slot |-> slab[p].free_list[1], size |-> c] \in Block \ Held
<1>1. c \in Cache /\ p # NULL
  BY DEF IInv, Locals, Local, HasPartial
<1>2. p \in slabs[c] /\ slab[p].num_free # 0
  BY <1>1 DEF IInv, ListsLinked, InOrder, AllLinked, Linked, Partial
<1>3. p \in Page /\ Exact(c, p)
  BY <1>1, <1>2 DEF IInv, Headers, TypeOK
<1> DEFINE free == slab[p].free_list
<1>4. free \in Seq(Slot)
  BY <1>3 DEF IInv, TypeOK
<1>5. Len(free) # 0 /\ free # <<>>
  BY <1>2, <1>3, <1>4, EmptySeq DEF Exact
<1>6. 1 \in DOMAIN free
  BY <1>4, <1>5, LenProperties
<1>7. free[1] \in 1 .. Objects[c] /\ free[1] \notin HeldSlots(p)
  BY <1>3, <1>6 DEF Exact
<1>8. [page |-> p, slot |-> free[1], size |-> c] \in Block
  BY <1>1, <1>3, <1>7, Constants DEF Block, Size
<1>9. [page |-> p, slot |-> free[1], size |-> c] \notin Held
  <2>1. SUFFICES ASSUME [page |-> p, slot |-> free[1], size |-> c] \in Held PROVE FALSE
    OBVIOUS
  <2> DEFINE b == [page |-> p, slot |-> free[1], size |-> c]
  <2>2. b \in Objs /\ b.page = p /\ b.slot = free[1]
    BY <1>7, <2>1, Constants, <1>1, HeldTyped
  <2>3. QED  BY <1>7, <2>2 DEF HeldSlots, Objs
<1>10. QED  BY <1>1, <1>2, <1>3, <1>4, <1>5, <1>7, <1>8, <1>9

(* The object kmem_free gives back, and its slab.                           *)
LEMMA FreeIs ==
    ASSUME IInv, NEW t \in Thread, MayFree(t), NEW b, b = old[t],
           NEW p, p = b.page, NEW c, c = slab[p].cache
    PROVE  /\ b \in Objs /\ b \in Held /\ b \in Block /\ b # NULL
           /\ b.size = c /\ c \in Cache /\ p \in Page /\ p \in slabs[c]
           /\ b.slot \in 1 .. Objects[c] /\ b.slot # 0
           /\ Exact(c, p) /\ slab[p].free_list \in Seq(Slot)
           /\ slab[p].num_free \in Nat
           /\ new[t] = NULL \/ new[t] # b
<1>1. b # NULL /\ b.slot # 0
  BY DEF IInv, Locals, Local, MayFree
<1>2. b \in Held
  BY <1>1, HeldIs
<1>3. b \in Objs /\ b \in Block
  BY <1>1, <1>2, HeldTyped DEF IInv
<1>4. b.size \in Cache /\ p \in slabs[b.size] /\ b.slot \in 1 .. Objects[b.size]
  BY <1>3 DEF IInv, Layout
<1>5. Exact(b.size, p) /\ p \in Page
  BY <1>3, <1>4 DEF IInv, Headers, Block
<1>6. b.size = c
  BY <1>5 DEF Exact
<1>7. slab[p].free_list \in Seq(Slot) /\ slab[p].num_free \in Nat
  BY <1>5 DEF IInv, TypeOK
<1>8. new[t] = NULL \/ new[t] # b
  BY DEF IInv, Holders
<1>9. QED  BY <1>1, <1>2, <1>3, <1>4, <1>5, <1>6, <1>7, <1>8

(* The page of a slab that is being made is nobody else's.                  *)
LEMMA GrowIs ==
    ASSUME IInv, NEW t \in Thread, pc[t] = "init_slab",
           NEW c, c = size[t], NEW p, p = page[t]
    PROVE  /\ c \in Cache /\ p \in Page /\ p # NULL /\ Growing = {p}
           /\ p \notin SlabPages /\ slab_lock = t /\ new[t] = NULL
           /\ \A b \in Runs : p \notin PagesOf(b)
           /\ 1 \in 1 .. Objects[c]
           /\ [page |-> p, slot |-> 1, size |-> c] \in Block \ Held
<1>1. c \in Cache /\ p # NULL /\ p \in Page /\ slab_lock = t /\ new[t] = NULL
  BY DEF IInv, Locals, Local, SlabLockHeldToGrow, TypeOK
<1>2. \A u \in Thread : page[u] # NULL => u = t
  BY <1>1 DEF IInv, Locals, Local, SlabLockHeldToGrow
<1>3. Growing = {p}
  BY <1>1, <1>2 DEF Growing
<1>4. p \notin SlabPages /\ \A b \in Runs : p \notin PagesOf(b)
  BY <1>3 DEF IInv, Layout
<1>5. 1 \in 1 .. Objects[c]
  BY <1>1, Constants
<1>6. [page |-> p, slot |-> 1, size |-> c] \in Block
  BY <1>1, <1>5, Constants DEF Block, Size
<1>7. [page |-> p, slot |-> 1, size |-> c] \notin Held
  <2>1. SUFFICES ASSUME NEW b \in Objs, b.page = p, b.size = c PROVE FALSE
    BY HeldTyped
  <2>2. p \in slabs[c]
    BY <2>1 DEF IInv, Layout
  <2>3. QED  BY <1>1, <1>4, <2>2 DEF SlabPages
<1>8. QED  BY <1>1, <1>3, <1>4, <1>5, <1>6, <1>7

(* krealloc's copy goes into the pages of the new run only.                 *)
LEMMA CopyIs ==
    ASSUME IInv, NEW t \in Thread, FreeReplaced(t)
    PROVE  /\ magic' \in [Page -> BOOLEAN]
           /\ \A p \in Page : new[t].slot # 0 \/ p \notin PagesOf(new[t]) =>
                  magic'[p] = magic[p]
<1> DEFINE b == old[t]
           c == new[t]
           m == b.size - Len(Objects)
           k == c.size - Len(Objects)
<1>1. pc[t] = "copy" /\ b # NULL /\ c # NULL
  BY DEF IInv, Locals, Local, FreeReplaced
<1>2. b \in Held /\ c \in Held /\ b \in Block /\ c \in Block
  BY <1>1, HeldIs, HeldTyped DEF IInv
<1>3. /\ magic \in [Page -> BOOLEAN] /\ Len(Objects) \in Nat /\ Page \subseteq Nat
      /\ b.page \in Page /\ c.page \in Page /\ b.size \in Nat /\ c.size \in Nat
  BY <1>2, Constants DEF IInv, TypeOK, Block
<1>4. magic' \in Copied(b, c)
  BY DEF FreeReplaced
<1>5. CASE c.slot # 0
  <2>1. magic' = magic
    BY <1>4, <1>5 DEF Copied
  <2>2. QED  BY <1>3, <1>5, <2>1
<1>6. CASE c.slot = 0 /\ b.slot # 0
  <2>1. PICK w \in BOOLEAN : magic' = [magic EXCEPT ![c.page] = w]
    BY <1>4, <1>6 DEF Copied
  <2>2. c \in Runs
    BY <1>2, <1>6, HeldTyped
  <2>3. c.page \in PagesOf(c)
    BY <2>2, RunHasFirst DEF IInv
  <2>4. magic' \in [Page -> BOOLEAN]
    BY <1>3, <2>1
  <2>5. \A p \in Page : p \notin PagesOf(c) => magic'[p] = magic[p]
    BY <1>3, <2>1, <2>3
  <2>6. QED  BY <1>6, <2>4, <2>5
<1>7. CASE c.slot = 0 /\ b.slot = 0
  <2>1. b \in Runs /\ c \in Runs
    BY <1>2, <1>7, HeldTyped
  <2>2. kmalloc_size(b) = m /\ b.size > Len(Objects)
    BY <2>1 DEF IInv, Accounted, Layout, kmalloc_size
  <2>3. c.size > b.size
    BY <1>1, <1>7 DEF IInv, Grows, GrowsOf
  <2>4. m \in Nat /\ k \in Nat /\ m < k /\ PagesOf(b) \subseteq Page
        /\ PagesOf(b) = b.page .. b.page + m - 1 /\ PagesOf(c) = c.page .. c.page + k - 1
    BY <1>3, <2>1, <2>2, <2>3 DEF PagesOf, IInv, Layout
  <2>5. magic' = [p \in Page |-> magic[IF p \in c.page .. c.page + m - 1
                                      THEN p - c.page + b.page ELSE p]]
    BY <1>4, <1>7, <2>2 DEF Copied
  <2> DEFINE bp == b.page
             cp == c.page
  <2>0. /\ bp \in Nat /\ cp \in Nat /\ m \in Nat /\ k \in Nat /\ m < k
        /\ PagesOf(b) = bp .. bp + m - 1 /\ PagesOf(c) = cp .. cp + k - 1
        /\ PagesOf(b) \subseteq Page /\ Page \subseteq Nat
    BY <1>3, <2>4
  <2>10. magic' = [p \in Page |-> magic[IF p \in cp .. cp + m - 1 THEN p - cp + bp ELSE p]]
    BY <2>5
  <2> HIDE DEF b, c, m, k, bp, cp
  <2>6. \A p \in Page : p \in cp .. cp + m - 1 =>
            p - cp + bp \in Page /\ p \in PagesOf(c)
    <3>1. \A p \in Page : p \in cp .. cp + m - 1 => p - cp + bp \in bp .. bp + m - 1
      BY <2>0
    <3>2. \A p \in Page : p \in cp .. cp + m - 1 => p \in cp .. cp + k - 1
      BY <2>0
    <3>3. QED  BY <2>0, <3>1, <3>2
  <2>7. magic' \in [Page -> BOOLEAN]
    BY <1>3, <2>10, <2>6
  <2>8. \A p \in Page : p \notin PagesOf(c) => magic'[p] = magic[p]
    BY <2>10, <2>6
  <2>9. QED  BY <1>7, <2>7, <2>8 DEF c
<1>8. QED  BY <1>5, <1>6, <1>7

(* The first free run of n pages.                                           *)
LEMMA FreeRunIs ==
    ASSUME NEW n \in Nat \ {0}, FreeRuns(n) # {}, NEW p, p = Min(FreeRuns(n))
    PROVE  /\ p \in Page /\ p .. p + n - 1 \subseteq Page \ bitmap
           /\ p \in p .. p + n - 1
<1>1. FreeRuns(n) \in SUBSET Nat
  BY Constants DEF FreeRuns
<1>2. p \in FreeRuns(n)
  BY <1>1, MinOfNaturals
<1>3. p \in Page /\ p .. p + n - 1 \subseteq Page \ bitmap
  BY <1>2 DEF FreeRuns
<1>4. QED  BY <1>3, Constants

(* The pages kmalloc asks for are at least one and enough for the request.  *)
LEMMA RunLengthIs ==
    ASSUME NEW s \in Size
    PROVE  /\ RunLength(s) \in Nat \ {0}
           /\ Len(Objects) + RunLength(s) \in Size
           /\ s <= Len(Objects) + RunLength(s)
<1>1. CASE s \in Cache
  BY <1>1, Constants DEF RunLength, Size
<1>2. CASE s \notin Cache
  BY <1>2, Constants DEF RunLength, Size
<1>3. QED  BY <1>1, <1>2

(* The run that kmalloc's heap section finds.                               *)
LEMMA RunIs ==
    ASSUME IInv, NEW t \in Thread, pc[t] = "get_pages",
           NEW n, n = RunLength(size[t]), FreeRuns(n) # {},
           NEW p, p = Min(FreeRuns(n)),
           NEW b, b = [page |-> p, slot |-> 0, size |-> Len(Objects) + n]
    PROVE  /\ n \in Nat \ {0} /\ p \in Page /\ p .. p + n - 1 \subseteq Page \ bitmap
           /\ PagesOf(b) = p .. p + n - 1 /\ p \in PagesOf(b)
           /\ b \in Block \ Held /\ new[t] = NULL
           /\ b.page = p /\ b.slot = 0 /\ b.size = Len(Objects) + n /\ size[t] <= b.size
<1>1. size[t] \in Size /\ new[t] = NULL
  BY DEF IInv, Locals, Local
<1>2. /\ n \in Nat \ {0} /\ Len(Objects) + n \in Size
      /\ size[t] <= Len(Objects) + n
  BY <1>1, RunLengthIs
<1>3. p \in Page /\ p .. p + n - 1 \subseteq Page \ bitmap /\ p \in p .. p + n - 1
  BY <1>2, FreeRunIs
<1>4. PagesOf(b) = p .. p + n - 1
  BY <1>2, <1>3, Constants DEF PagesOf
<1>5. b \in Block
  BY <1>2, <1>3, Constants DEF Block
<1>6. b \notin Held
  <2>1. SUFFICES ASSUME b \in Runs PROVE FALSE
    BY HeldTyped
  <2>2. PagesOf(b) \subseteq bitmap
    BY <2>1 DEF IInv, Accounted
  <2>3. QED  BY <1>3, <1>4, <2>2
<1>7. QED  BY <1>1, <1>2, <1>3, <1>4, <1>5, <1>6

(* The run that kmem_free_auto's heap section frees.                        *)
LEMMA FreedRunIs ==
    ASSUME IInv, NEW t \in Thread, pc[t] = "free_pages",
           NEW b, b = old[t], NEW p, p = b.page
    PROVE  /\ b \in Runs /\ b \in Block /\ b # NULL /\ p \in Page /\ p \in PagesOf(b)
           /\ p .. p + page_alloc_count[p] - 1 = PagesOf(b)
<1>1. b \in Runs /\ b \in Block /\ b # NULL
  BY HeldIs, HeldTyped DEF IInv, Locals, Local
<1>2. page_alloc_count[p] = b.size - Len(Objects) /\ b.size > Len(Objects)
  BY <1>1 DEF IInv, Accounted, Layout
<1>3. p \in Page /\ p \in Nat /\ b.size \in Nat /\ Len(Objects) \in Nat
  BY <1>1, Constants DEF Block
<1>4. p .. p + page_alloc_count[p] - 1 = PagesOf(b)
  BY <1>2, <1>3 DEF PagesOf
<1>5. p \in PagesOf(b)
  BY <1>1, RunHasFirst DEF IInv
<1>6. QED  BY <1>1, <1>3, <1>4, <1>5

-----------------------------------------------------------------------------
(* The actions in which one thread acts, but for the one that changes       *)
(* nothing.                                                                 *)
Acts(t) ==
    \/ \E s \in Size : kmalloc(t, s)
    \/ \E b \in live, s \in Size : krealloc(t, b, s)
    \/ \E b \in live : kmem_free_auto(t, b)
    \/ Step(t)

(* A step is one of a thread that acts, a run's holder writing, or nothing: *)
(* krealloc of a size that fits changes nothing.                            *)
LEMMA StepKinds ==
    ASSUME IInv, [Next]_vars
    PROVE  \/ \E t \in Thread : Acts(t)
           \/ \E b \in live, p \in Page : Scribble(b, p)
           \/ UNCHANGED vars
  BY FitsIs DEF Next, Call, Acts

(* A thread that acts leaves the locals of the others alone.                *)
LEMMA ActsAlone ==
    ASSUME TypeOK, NEW t \in Thread, Acts(t)
    PROVE  Others(t)
<1>1. CASE (\E s \in Size : kmalloc(t, s)) \/ (\E b \in live, s \in Size : krealloc(t, b, s))
           \/ (\E b \in live : kmem_free_auto(t, b))
  BY <1>1 DEF kmalloc, krealloc, kmem_free_auto, Dispatch, Route, Goto, Others, TypeOK
<1>2. CASE TakeObject(t) \/ NeedSlab(t) \/ NewSlabPage(t) \/ NoSlabPage(t)
  BY <1>2 DEF TakeObject, Take, NeedSlab, NewSlabPage, NoSlabPage, Found, Goto, Others, TypeOK
<1>3. CASE InitSlab(t) \/ GetPages(t) \/ OutOfMemory(t)
  BY <1>3 DEF InitSlab, GetPages, OutOfMemory, Found, Failed, Goto, Others, TypeOK
<1>4. CASE Memset(t) \/ FreeReplaced(t) \/ EmptySlab(t) \/ ReturnObject(t) \/ FreePages(t)
  BY <1>4 DEF Memset, FreeReplaced, EmptySlab, Empty, ReturnObject, FreePages, ReleasePages,
              Freed, Route, Goto, Others, TypeOK
<1>5. QED  BY <1>1, <1>2, <1>3, <1>4 DEF Acts, Step

(* Found, Failed and Freed keep the types of the locals.                    *)
Labels == {"idle", "kmem_alloc", "new_slab", "init_slab",
           "get_pages", "copy", "memset", "kmem_free", "free_pages"}
LocalTypes ==
    /\ pc \in [Thread -> Labels]
    /\ size \in [Thread -> Size \union {0}]
    /\ page \in [Thread -> Page \union {NULL}]
    /\ old \in [Thread -> Block \union {NULL}]
    /\ new \in [Thread -> Block \union {NULL}]
    /\ live \subseteq Block

(* However kmalloc or kmem_free_auto ends, the locals keep their types.     *)
LEMMA EndTypes ==
    ASSUME LocalTypes, NEW t \in Thread
    PROVE  /\ \A b \in Block : Found(t, b) => LocalTypes'
           /\ Failed(t) => LocalTypes'
           /\ Freed(t) /\ size' = size /\ page' = page => LocalTypes'
<1>1. ASSUME NEW b \in Block, Found(t, b) PROVE LocalTypes'
  BY <1>1 DEF LocalTypes, Labels, Found, Goto
<1>2. ASSUME Failed(t) PROVE LocalTypes'
  BY <1>2 DEF LocalTypes, Labels, Failed, Goto
<1>3. ASSUME Freed(t), size' = size, page' = page PROVE LocalTypes'
  BY <1>3 DEF LocalTypes, Labels, Freed, Goto
<1>4. QED  BY <1>1, <1>2, <1>3

(* A header with another free list.                                         *)
SlabHeader == [cache : Cache \union {NULL}, num_free : Nat, free_list : Seq(Slot)]
WithFree(f, p, l, n) == [f EXCEPT ![p].free_list = l, ![p].num_free = n]

(* The header gets the list and the count, and nothing else changes.        *)
LEMMA HeaderUpdate ==
    ASSUME NEW f \in [Page -> SlabHeader], NEW p \in Page, NEW n \in Nat,
           NEW l \in Seq(Slot),
           NEW g, g = WithFree(f, p, l, n)
    PROVE  /\ g \in [Page -> SlabHeader]
           /\ g[p].cache = f[p].cache /\ g[p].num_free = n /\ g[p].free_list = l
           /\ \A x \in Page : x # p => g[x] = f[x]
<1> DEFINE h == [f EXCEPT ![p].free_list = l]
<1>1. /\ h \in [Page -> SlabHeader]
      /\ h[p].cache = f[p].cache /\ h[p].free_list = l
      /\ \A x \in Page : x # p => h[x] = f[x]
  BY DEF SlabHeader
<1>2. g = [h EXCEPT ![p].num_free = n]
  BY DEF WithFree
<1> HIDE DEF h
<1> DEFINE r == [h[p] EXCEPT !.num_free = n]
<1>3. g = [h EXCEPT ![p] = r]
  BY <1>2
<1>4. h[p] \in SlabHeader
  BY <1>1
<1>5. r \in SlabHeader /\ r.cache = h[p].cache /\ r.num_free = n /\ r.free_list = h[p].free_list
  BY <1>4 DEF SlabHeader
<1> HIDE DEF r
<1>6. QED  BY <1>1, <1>3, <1>5

(* A step that changes the slabs keeps their types.                         *)
MemoryTypes ==
    /\ bitmap \subseteq Page
    /\ page_alloc_count \in [Page -> Nat]
    /\ slab_available \in BOOLEAN
    /\ magic \in [Page -> BOOLEAN]
    /\ slab \in [Page -> SlabHeader]
    /\ lists \in Links
    /\ num_slabs \in [Cache -> Int] /\ total_slabs \in Int
    /\ outstanding \in Int
    /\ slab_lock \in Thread \union {NoThread}
    /\ slabs \in [Cache -> SUBSET Page]

(* The type invariant is that of the memory and that of the locals.         *)
LEMMA TypesAre ==
    /\ TypeOK <=> MemoryTypes /\ LocalTypes
    /\ TypeOK' <=> MemoryTypes' /\ LocalTypes'
  BY DEF TypeOK, MemoryTypes, LocalTypes, Labels, SlabHeader

(* Every step keeps the variables' types: the free list stays a list of     *)
(* slots, and num_free never goes below zero.                               *)
LEMMA TypesStep == IInv /\ [Next]_vars => TypeOK'
<1> SUFFICES ASSUME IInv, [Next]_vars PROVE MemoryTypes' /\ LocalTypes'
  BY TypesAre
<1>0. MemoryTypes /\ LocalTypes /\ TypeOK
  BY TypesAre DEF IInv
<1> USE DEF heapVars, slabVars
<1>1. ASSUME NEW t \in Thread, NEW s \in Size, kmalloc(t, s)
      PROVE  MemoryTypes' /\ LocalTypes'
  BY <1>0, <1>1 DEF kmalloc, Dispatch, Goto, MemoryTypes, LocalTypes, Labels
<1>2. ASSUME NEW t \in Thread, NEW b \in live, NEW s \in Size, krealloc(t, b, s)
      PROVE  MemoryTypes' /\ LocalTypes'
  BY <1>0, <1>2 DEF krealloc, Dispatch, Goto, MemoryTypes, LocalTypes, Labels
<1>3. ASSUME NEW t \in Thread, NEW b \in live, kmem_free_auto(t, b)
      PROVE  MemoryTypes' /\ LocalTypes'
  BY <1>0, <1>3 DEF kmem_free_auto, Route, Goto, MemoryTypes, LocalTypes, Labels
<1>4. ASSUME NEW t \in Thread, TakeObject(t) PROVE MemoryTypes' /\ LocalTypes'
  <2> DEFINE c == size[t]
             p == lists.partial[c]
             free == slab[p].free_list
             b == [page |-> p, slot |-> free[1], size |-> c]
  <2>1. /\ c \in Cache /\ p \in Page /\ slab[p].num_free # 0
        /\ free \in Seq(Slot) /\ free # <<>> /\ b \in Block
    BY <1>4, TakeIs DEF TakeObject
  <2>2. Head(free) = free[1] /\ Tail(free) \in Seq(Slot)
    BY <2>1, HeadTailProperties
  <2>3. LocalTypes'
    <3>1. Found(t, b)
      BY <1>4, <2>2 DEF TakeObject, Take
    <3>2. QED  BY <1>0, <2>1, <3>1, EndTypes
  <2>4. lists' \in Links
    <3> DEFINE R == remove_slab_from_list(lists, "partial", c, p)
    <3>1. lists \in Links
      BY <1>0 DEF MemoryTypes
    <3>2. R \in Links
      BY <2>1, <3>1, ListsTyped
    <3>3. add_slab_to_list(R, "full", c, p) \in Links
      <4> HIDE DEF R
      <4>1. QED  BY <2>1, <3>2, ListsTyped
    <3>4. lists' = lists \/ lists' = add_slab_to_list(R, "full", c, p)
      BY <1>4 DEF TakeObject, Take
    <3>5. QED  BY <3>1, <3>3, <3>4
  <2>5. slab' \in [Page -> SlabHeader]
    <3>1. slab' = WithFree(slab, p, Tail(free), slab[p].num_free - 1)
      BY <1>4 DEF TakeObject, Take, WithFree
    <3>2. slab \in [Page -> SlabHeader] /\ slab[p].num_free - 1 \in Nat
      BY <1>0, <2>1 DEF MemoryTypes, SlabHeader
    <3> HIDE DEF p, free
    <3>3. QED  BY <2>1, <2>2, <3>1, <3>2, HeaderUpdate
  <2>6. QED  BY <1>0, <1>4, <2>3, <2>4, <2>5 DEF TakeObject, Take, MemoryTypes
<1>5. ASSUME NEW t \in Thread, NeedSlab(t) PROVE MemoryTypes' /\ LocalTypes'
  BY <1>0, <1>5 DEF NeedSlab, Goto, MemoryTypes, LocalTypes, Labels
<1>6. ASSUME NEW t \in Thread, NewSlabPage(t) PROVE MemoryTypes' /\ LocalTypes'
  <2> DEFINE p == Min(FreeRuns(1))
  <2>1. p \in Page /\ p .. p + 1 - 1 \subseteq Page /\ 1 \in Nat
    BY <1>6, FreeRunIs DEF NewSlabPage
  <2>2. /\ bitmap' = bitmap \union p .. p + 1 - 1
        /\ page_alloc_count' = [page_alloc_count EXCEPT ![p] = 1]
        /\ page' = [page EXCEPT ![t] = p]
    BY <1>6 DEF NewSlabPage, Reserve
  <2> HIDE DEF p
  <2>3. MemoryTypes'
    BY <1>0, <1>6, <2>1, <2>2 DEF NewSlabPage, MemoryTypes
  <2>4. LocalTypes'
    BY <1>0, <1>6, <2>1, <2>2 DEF NewSlabPage, Goto, LocalTypes, Labels
  <2>5. QED  BY <2>3, <2>4
<1>7. ASSUME NEW t \in Thread, NoSlabPage(t) PROVE MemoryTypes' /\ LocalTypes'
  BY <1>0, <1>7 DEF NoSlabPage, Goto, MemoryTypes, LocalTypes, Labels
<1>8. ASSUME NEW t \in Thread, InitSlab(t) PROVE MemoryTypes' /\ LocalTypes'
  <2> DEFINE c == size[t]
             p == page[t]
             b == [page |-> p, slot |-> 1, size |-> c]
  <2>1. c \in Cache /\ p \in Page /\ b \in Block /\ Objects[c] \in Nat \ {0}
        /\ 1 .. Objects[c] \subseteq Slot
    BY <1>8, GrowIs, Constants DEF InitSlab
  <2>2. LocalTypes'
    <3>1. Found(t, b)
      BY <1>8 DEF InitSlab
    <3>2. QED  BY <1>0, <2>1, <3>1, EndTypes
  <2>3. lists' \in Links
    <3>1. lists \in Links
      BY <1>0 DEF MemoryTypes
    <3>2. /\ add_slab_to_list(lists, "full", c, p) \in Links
          /\ add_slab_to_list(lists, "partial", c, p) \in Links
      BY <2>1, <3>1, ListsTyped
    <3>3. \/ lists' = add_slab_to_list(lists, "full", c, p)
          \/ lists' = add_slab_to_list(lists, "partial", c, p)
      BY <1>8 DEF InitSlab
    <3>4. QED  BY <3>2, <3>3
  <2>4. Header(c) \in SlabHeader
    <3> DEFINE free == [i \in 1 .. Objects[c] - 1 |-> i + 1]
    <3>1. Objects[c] - 1 \in Nat /\ \A i \in 1 .. Objects[c] - 1 : i + 1 \in Slot
      BY <2>1
    <3>2. free \in Seq(Slot)
      BY <3>1, IsASeq
    <3>3. QED  BY <2>1, <3>1, <3>2 DEF Header, SlabHeader
  <2>5. /\ slab' = [slab EXCEPT ![p] = Header(c)]
        /\ magic' = [magic EXCEPT ![p] = TRUE]
        /\ slabs' = [slabs EXCEPT ![c] = @ \union {p}]
        /\ slab_lock' = NoThread
        /\ num_slabs' = [num_slabs EXCEPT ![c] = @ + 1] /\ total_slabs' = total_slabs + 1
        /\ outstanding' = outstanding + 1
        /\ UNCHANGED <<heapVars, slab_available>>
    BY <1>8 DEF InitSlab, CountSlab
  <2>6. MemoryTypes'
    BY <1>0, <2>1, <2>3, <2>4, <2>5 DEF MemoryTypes
  <2>7. QED  BY <2>2, <2>6
<1>9. ASSUME NEW t \in Thread, GetPages(t) PROVE MemoryTypes' /\ LocalTypes'
  <2> DEFINE n == RunLength(size[t])
             p == Min(FreeRuns(n))
             b == [page |-> p, slot |-> 0, size |-> Len(Objects) + n]
  <2>1. n \in Nat \ {0} /\ p \in Page /\ p .. p + n - 1 \subseteq Page /\ b \in Block
    BY <1>9, RunIs DEF GetPages
  <2>2. /\ bitmap' = bitmap \union p .. p + n - 1
        /\ page_alloc_count' = [page_alloc_count EXCEPT ![p] = n]
        /\ Found(t, b)
    BY <1>9 DEF GetPages, Reserve
  <2>3. LocalTypes'
    BY <1>0, <2>1, <2>2, EndTypes
  <2> HIDE DEF n, p
  <2>4. MemoryTypes'
    BY <1>0, <1>9, <2>1, <2>2 DEF GetPages, MemoryTypes
  <2>5. QED  BY <2>3, <2>4
<1>10. ASSUME NEW t \in Thread, OutOfMemory(t) PROVE MemoryTypes' /\ LocalTypes'
  <2>1. LocalTypes'
    BY <1>0, <1>10, EndTypes DEF OutOfMemory
  <2>2. QED  BY <1>0, <1>10, <2>1 DEF OutOfMemory, MemoryTypes
<1>11. ASSUME NEW t \in Thread, Memset(t) PROVE MemoryTypes' /\ LocalTypes'
  <2>1. LocalTypes'
    BY <1>0, <1>11, EndTypes DEF Memset
  <2>2. magic' \in [Page -> BOOLEAN]
    BY <1>11 DEF Memset
  <2>3. QED  BY <1>0, <1>11, <2>1, <2>2 DEF Memset, MemoryTypes
<1>12. ASSUME NEW t \in Thread, FreeReplaced(t) PROVE MemoryTypes' /\ LocalTypes'
  <2>1. LocalTypes'
    BY <1>0, <1>12 DEF FreeReplaced, Route, Goto, LocalTypes, Labels
  <2>2. magic' \in [Page -> BOOLEAN]
    BY <1>12, CopyIs
  <2>3. QED  BY <1>0, <1>12, <2>1, <2>2 DEF FreeReplaced, MemoryTypes
<1>13. ASSUME NEW t \in Thread, EmptySlab(t) PROVE MemoryTypes' /\ LocalTypes'
  <2> DEFINE p == old[t].page
             c == slab[p].cache
             r == [page |-> p, slot |-> 0, size |-> Len(Objects) + 1]
  <2>1. /\ c \in Cache /\ p \in Page /\ slab[p].free_list \in Seq(Slot) /\ old[t] \in Block
        /\ slab[p].num_free \in Nat
    BY <1>13, FreeIs DEF EmptySlab
  <2>2. r \in Block /\ old[t].slot \in Slot
    BY <2>1, Constants DEF Block, Size
  <2>3. LocalTypes'
    BY <1>0, <1>13, <2>2 DEF EmptySlab, Empty, Goto, LocalTypes, Labels
  <2>4. lists' \in Links
    <3>1. lists \in Links
      BY <1>0 DEF MemoryTypes
    <3>2. /\ remove_slab_from_list(lists, "full", c, p) \in Links
          /\ remove_slab_from_list(lists, "partial", c, p) \in Links
      BY <2>1, <3>1, ListsTyped
    <3>3. \/ lists' = remove_slab_from_list(lists, "full", c, p)
          \/ lists' = remove_slab_from_list(lists, "partial", c, p)
      BY <1>13 DEF EmptySlab, Empty
    <3>4. QED  BY <3>2, <3>3
  <2>5. slab' \in [Page -> SlabHeader]
    <3> DEFINE free == <<old[t].slot>> \o slab[p].free_list
               n == slab[p].num_free + 1
    <3>1. slab' = WithFree(slab, p, free, n)
      BY <1>13 DEF EmptySlab, Empty, WithFree
    <3>2. slab \in [Page -> SlabHeader]
      BY <1>0 DEF MemoryTypes
    <3>3. free \in Seq(Slot) /\ n \in Nat
      BY <2>1, <2>2, ConcatProperties
    <3> HIDE DEF p, n, free
    <3>4. QED  BY <2>1, <3>1, <3>2, <3>3, HeaderUpdate
  <2>6. /\ slabs' = [slabs EXCEPT ![c] = @ \ {p}]
        /\ magic' = [magic EXCEPT ![p] = FALSE]
        /\ num_slabs' = [num_slabs EXCEPT ![c] = @ + -1] /\ total_slabs' = total_slabs + -1
        /\ outstanding' = outstanding - 1
        /\ UNCHANGED <<heapVars, slab_available, slab_lock>>
    BY <1>13 DEF EmptySlab, Empty, CountSlab
  <2>7. MemoryTypes'
    BY <1>0, <2>1, <2>4, <2>5, <2>6 DEF MemoryTypes
  <2>8. QED  BY <2>3, <2>7
<1>14. ASSUME NEW t \in Thread, ReturnObject(t) PROVE MemoryTypes' /\ LocalTypes'
  <2> DEFINE p == old[t].page
             c == slab[p].cache
  <2>1. /\ c \in Cache /\ p \in Page /\ slab[p].free_list \in Seq(Slot) /\ old[t] \in Block
        /\ slab[p].num_free \in Nat
    BY <1>14, FreeIs DEF ReturnObject
  <2>2. old[t].slot \in Slot
    BY <2>1 DEF Block
  <2>3. LocalTypes'
    BY <1>0, <1>14, EndTypes DEF ReturnObject
  <2>4. lists' \in Links
    <3> DEFINE R == remove_slab_from_list(lists, "full", c, p)
    <3>1. lists \in Links
      BY <1>0 DEF MemoryTypes
    <3>2. R \in Links
      BY <2>1, <3>1, ListsTyped
    <3>3. add_slab_to_list(R, "partial", c, p) \in Links
      <4> HIDE DEF R
      <4>1. QED  BY <2>1, <3>2, ListsTyped
    <3>4. lists' = lists \/ lists' = add_slab_to_list(R, "partial", c, p)
      BY <1>14 DEF ReturnObject
    <3>5. QED  BY <3>1, <3>3, <3>4
  <2>5. slab' \in [Page -> SlabHeader]
    <3> DEFINE free == <<old[t].slot>> \o slab[p].free_list
               n == slab[p].num_free + 1
    <3>1. slab' = WithFree(slab, p, free, n)
      BY <1>14 DEF ReturnObject, WithFree
    <3>2. slab \in [Page -> SlabHeader]
      BY <1>0 DEF MemoryTypes
    <3>3. free \in Seq(Slot) /\ n \in Nat
      BY <2>1, <2>2, ConcatProperties
    <3> HIDE DEF p, n, free
    <3>4. QED  BY <2>1, <3>1, <3>2, <3>3, HeaderUpdate
  <2>6. QED  BY <1>0, <1>14, <2>3, <2>4, <2>5 DEF ReturnObject, MemoryTypes
<1>15. ASSUME NEW t \in Thread, FreePages(t) PROVE MemoryTypes' /\ LocalTypes'
  <2>1. LocalTypes'
    BY <1>0, <1>15, EndTypes DEF FreePages, ReleasePages
  <2>2. QED  BY <1>0, <1>15, <2>1 DEF FreePages, ReleasePages, MemoryTypes
<1>16. ASSUME NEW b \in live, NEW p \in Page, Scribble(b, p)
       PROVE  MemoryTypes' /\ LocalTypes'
  BY <1>0, <1>16 DEF Scribble, MemoryTypes, LocalTypes
<1>17. ASSUME UNCHANGED vars PROVE MemoryTypes' /\ LocalTypes'
  BY <1>0, <1>17 DEF vars, MemoryTypes, LocalTypes
<1>18. QED
  BY <1>1, <1>2, <1>3, <1>4, <1>5, <1>6, <1>7, <1>8, <1>9, <1>10, <1>11, <1>12, <1>13,
     <1>14, <1>15, <1>16, <1>17, StepKinds DEF Acts, Step

-----------------------------------------------------------------------------
(* The lock and the locals of the threads that do not act stay as they are. *)
LEMMA LocalsKept ==
    ASSUME TypeOK, Locals, Grows, NEW t \in Thread, Others(t), Local(t)', GrowsOf(t)',
           \/ slab_lock' = slab_lock /\ (pc[t] \in {"new_slab", "init_slab"} <=>
                                            pc'[t] \in {"new_slab", "init_slab"})
           \/ slab_lock = NoThread /\ slab_lock' = t /\ pc'[t] = "new_slab"
           \/ slab_lock = t /\ slab_lock' = NoThread /\ pc'[t] \notin {"new_slab", "init_slab"}
    PROVE  Locals' /\ Grows'
<1>1. ASSUME NEW u \in Thread, u # t PROVE Local(u)' /\ GrowsOf(u)'
  BY <1>1 DEF Others, Locals, Local, Grows, GrowsOf
<1>2. SlabLockHeldToGrow'
  <2>1. ASSUME NEW u \in Thread
        PROVE  slab_lock' = u <=> pc'[u] \in {"new_slab", "init_slab"}
    BY Constants DEF Others, Locals, SlabLockHeldToGrow
  <2>2. QED  BY <2>1 DEF SlabLockHeldToGrow
<1>3. QED  BY <1>1, <1>2 DEF Locals, Grows

(* The run that is replaced is larger than any object.                      *)
LEMMA NoRunForObject ==
    ASSUME IInv, NEW t \in Thread, size[t] \in Cache,
           pc[t] \in {"kmem_alloc", "new_slab", "init_slab"}
    PROVE  old[t] = NULL \/ old[t].slot # 0
<1>1. SUFFICES ASSUME old[t] # NULL, old[t].slot = 0 PROVE FALSE
  OBVIOUS
<1>2. old[t] \in Runs /\ old[t] \in Block
  BY <1>1, HeldIs, HeldTyped DEF IInv
<1>3. old[t].size > Len(Objects) /\ size[t] > old[t].size
  BY <1>1, <1>2 DEF IInv, Layout, Grows, GrowsOf
<1>4. old[t].size \in Nat /\ size[t] \in 1 .. Len(Objects) /\ Len(Objects) \in Nat
  BY <1>2, Constants DEF Block
<1>5. QED  BY <1>3, <1>4

(* What a step makes of the locals of the thread that acts.                 *)
LEMMA LocalsStep == IInv /\ [Next]_vars => Locals' /\ Grows'
<1> SUFFICES ASSUME IInv, [Next]_vars PROVE Locals' /\ Grows'
  OBVIOUS
<1> DEFINE Kept == slab_lock' = slab_lock
<1>0. TypeOK /\ Locals /\ Grows /\ Layout /\ Marked /\ NoThread \notin Thread
      /\ NULL \notin Block
  BY Constants DEF IInv
<1>1. ASSUME NEW t \in Thread, Acts(t) PROVE Others(t) /\ Local(t) /\ GrowsOf(t)
  BY <1>0, <1>1, ActsAlone DEF Locals, Grows
<1>2. ASSUME NEW t \in Thread, NEW s \in Size, kmalloc(t, s) PROVE Locals' /\ Grows'
  <2>1. /\ pc[t] = "idle" /\ pc'[t] \in {"kmem_alloc", "get_pages"}
        /\ size'[t] = s /\ (pc'[t] = "kmem_alloc" => s \in Cache)
        /\ UNCHANGED <<page, old, new, slab_lock>>
    BY <1>0, <1>2 DEF kmalloc, Dispatch, Goto, TypeOK
  <2>2. Others(t) /\ Local(t)
    BY <1>1, <1>2 DEF Acts
  <2>3. Local(t)' /\ GrowsOf(t)'
    BY <2>1, <2>2 DEF Local, GrowsOf
  <2>4. QED  BY <1>0, <2>1, <2>2, <2>3, LocalsKept
<1>3. ASSUME NEW t \in Thread, NEW b \in live, NEW s \in Size, krealloc(t, b, s)
      PROVE  Locals' /\ Grows'
  <2>0. OldSize(b) = b.size
    BY <1>0, SizeIs, HeldTyped
  <2>1. /\ pc[t] = "idle" /\ pc'[t] \in {"kmem_alloc", "get_pages"}
        /\ size'[t] = s /\ (pc'[t] = "kmem_alloc" => s \in Cache)
        /\ old'[t] = b /\ s > b.size
        /\ UNCHANGED <<page, new, slab_lock>>
    BY <1>0, <1>3, <2>0 DEF krealloc, Dispatch, Goto, TypeOK
  <2>2. Others(t) /\ Local(t)
    BY <1>1, <1>3 DEF Acts
  <2>3. Local(t)' /\ GrowsOf(t)'
    BY <2>1, <2>2 DEF Local, GrowsOf
  <2>4. QED  BY <1>0, <2>1, <2>2, <2>3, LocalsKept
<1>4. ASSUME NEW t \in Thread, NEW b \in live, kmem_free_auto(t, b) PROVE Locals' /\ Grows'
  <2>0. b # NULL /\ (is_slab_address(b) <=> b.slot # 0)
    BY <1>0, RouteIs, HeldTyped
  <2>1. /\ pc[t] = "idle" /\ old'[t] = b
        /\ pc'[t] = IF b.slot # 0 THEN "kmem_free" ELSE "free_pages"
        /\ UNCHANGED <<size, page, new, slab_lock>>
    BY <1>0, <1>4, <2>0 DEF kmem_free_auto, Route, Goto, TypeOK
  <2>2. Others(t) /\ Local(t)
    BY <1>1, <1>4 DEF Acts
  <2>3. Local(t)' /\ GrowsOf(t)'
    BY <2>0, <2>1, <2>2 DEF Local, GrowsOf
  <2>4. QED  BY <1>0, <2>1, <2>2, <2>3, LocalsKept
<1>5. ASSUME NEW t \in Thread, NEW b \in Block, Found(t, b), Acts(t), new[t] = NULL,
             pc[t] \in {"kmem_alloc", "init_slab", "get_pages"},
             old[t] # NULL /\ old[t].slot = 0 => b.slot = 0 /\ b.size > old[t].size
      PROVE  Local(t)' /\ GrowsOf(t)' /\ pc'[t] \in {"idle", "copy", "memset"}
  <2>1. /\ size'[t] = 0 /\ page'[t] = NULL /\ old' = old
        /\ \/ old[t] = NULL /\ pc'[t] = "idle" /\ new'[t] = NULL
           \/ old[t] = NULL /\ pc'[t] = "memset" /\ new'[t] = b
           \/ old[t] # NULL /\ pc'[t] = "copy" /\ new'[t] = b
    BY <1>0, <1>5 DEF Found, Goto, TypeOK
  <2>2. b # NULL
    BY <1>0
  <2>3. Local(t)'
    BY <2>1, <2>2 DEF Local
  <2>4. GrowsOf(t)'
    BY <1>5, <2>1 DEF GrowsOf
  <2>5. QED  BY <2>1, <2>3, <2>4
<1>6. ASSUME NEW t \in Thread, TakeObject(t) PROVE Locals' /\ Grows'
  <2> DEFINE c == size[t]
             p == lists.partial[c]
             b == [page |-> p, slot |-> slab[p].free_list[1], size |-> c]
  <2>1. c \in Cache /\ b \in Block /\ slab[p].free_list # <<>>
        /\ slab[p].free_list \in Seq(Slot)
    BY <1>6, TakeIs DEF TakeObject
  <2>2. Found(t, b)
    BY <1>6, <2>1, HeadTailProperties DEF TakeObject, Take
  <2>3. pc[t] = "kmem_alloc" /\ slab_lock' = slab_lock /\ Acts(t)
    BY <1>6 DEF TakeObject, Take, HasPartial, Acts, Step
  <2>4. Others(t) /\ new[t] = NULL /\ (old[t] = NULL \/ old[t].slot # 0)
    BY <1>1, <2>1, <2>3, NoRunForObject DEF Local
  <2> HIDE DEF b
  <2>5. Local(t)' /\ GrowsOf(t)' /\ pc'[t] \in {"idle", "copy", "memset"}
    BY <1>5, <2>1, <2>2, <2>3, <2>4
  <2>6. QED  BY <1>0, <2>3, <2>4, <2>5, LocalsKept
<1>7. ASSUME NEW t \in Thread, NeedSlab(t) PROVE Locals' /\ Grows'
  <2>1. /\ pc[t] = "kmem_alloc" /\ pc'[t] = "new_slab"
        /\ slab_lock = NoThread /\ slab_lock' = t
        /\ UNCHANGED <<size, page, old, new>>
    BY <1>0, <1>7 DEF NeedSlab, Goto, TypeOK
  <2>2. Others(t) /\ Local(t) /\ GrowsOf(t)
    BY <1>1, <1>7 DEF Acts, Step
  <2>3. Local(t)' /\ GrowsOf(t)'
    BY <2>1, <2>2 DEF Local, GrowsOf
  <2>4. QED  BY <1>0, <2>1, <2>2, <2>3, LocalsKept
<1>8. ASSUME NEW t \in Thread, NewSlabPage(t) PROVE Locals' /\ Grows'
  <2>1. /\ pc[t] = "new_slab" /\ pc'[t] = "init_slab" /\ slab_lock' = slab_lock
        /\ page'[t] = Min(FreeRuns(1))
        /\ UNCHANGED <<size, old, new>>
    BY <1>0, <1>8 DEF NewSlabPage, Goto, TypeOK
  <2>2. page'[t] # NULL
    BY <1>8, <2>1, FreeRunIs, Constants DEF NewSlabPage
  <2>3. Others(t) /\ Local(t) /\ GrowsOf(t)
    BY <1>1, <1>8 DEF Acts, Step
  <2>4. Local(t)' /\ GrowsOf(t)'
    BY <2>1, <2>2, <2>3 DEF Local, GrowsOf
  <2>5. QED  BY <1>0, <2>1, <2>3, <2>4, LocalsKept
<1>9. ASSUME NEW t \in Thread, NoSlabPage(t) PROVE Locals' /\ Grows'
  <2>1. /\ pc[t] = "new_slab" /\ pc'[t] = "get_pages" /\ slab_lock' = NoThread
        /\ UNCHANGED <<size, page, old, new>>
    BY <1>0, <1>9 DEF NoSlabPage, Goto, TypeOK
  <2>2. Others(t) /\ Local(t) /\ GrowsOf(t) /\ slab_lock = t
    BY <1>0, <1>1, <1>9, <2>1 DEF Acts, Step, Locals, SlabLockHeldToGrow
  <2>3. size[t] \in Size
    BY <2>1, <2>2, Constants DEF Local, Size
  <2>4. Local(t)' /\ GrowsOf(t)'
    BY <2>1, <2>2, <2>3 DEF Local, GrowsOf
  <2>5. QED  BY <1>0, <2>1, <2>2, <2>4, LocalsKept
<1>10. ASSUME NEW t \in Thread, InitSlab(t) PROVE Locals' /\ Grows'
  <2> DEFINE b == [page |-> page[t], slot |-> 1, size |-> size[t]]
  <2>1. size[t] \in Cache /\ b \in Block /\ slab_lock = t /\ new[t] = NULL
    BY <1>10, GrowIs DEF InitSlab
  <2>2. pc[t] = "init_slab" /\ slab_lock' = NoThread /\ Acts(t) /\ Found(t, b)
    BY <1>10 DEF InitSlab, Acts, Step
  <2>3. Others(t) /\ (old[t] = NULL \/ old[t].slot # 0)
    BY <1>1, <2>1, <2>2, NoRunForObject
  <2> HIDE DEF b
  <2>4. Local(t)' /\ GrowsOf(t)' /\ pc'[t] \in {"idle", "copy", "memset"}
    BY <1>5, <2>1, <2>2, <2>3
  <2>5. QED  BY <1>0, <2>1, <2>2, <2>3, <2>4, LocalsKept
<1>11. ASSUME NEW t \in Thread, GetPages(t) PROVE Locals' /\ Grows'
  <2> DEFINE n == RunLength(size[t])
             p == Min(FreeRuns(n))
             b == [page |-> p, slot |-> 0, size |-> Len(Objects) + n]
  <2>1. b \in Block /\ new[t] = NULL /\ b.slot = 0 /\ size[t] <= b.size
    BY <1>11, RunIs DEF GetPages
  <2>2. pc[t] = "get_pages" /\ slab_lock' = slab_lock /\ Acts(t) /\ Found(t, b)
    BY <1>11 DEF GetPages, Acts, Step
  <2>3. Others(t) /\ GrowsOf(t) /\ Local(t) /\ size[t] \in Nat
    BY <1>1, <2>2, Constants DEF Local
  <2> HIDE DEF b
  <2>4. old[t] # NULL /\ old[t].slot = 0 => b.slot = 0 /\ b.size > old[t].size
    <3>1. SUFFICES ASSUME old[t] # NULL, old[t].slot = 0 PROVE b.size > old[t].size
      BY <2>1
    <3>2. old[t] \in Block /\ b.size \in Nat /\ old[t].size \in Nat
      BY <1>0, <2>1, <3>1, Constants DEF TypeOK, Block
    <3>3. size[t] > old[t].size
      BY <2>2, <2>3, <3>1 DEF GrowsOf
    <3>4. QED  BY <2>1, <2>3, <3>2, <3>3
  <2>5. Local(t)' /\ GrowsOf(t)' /\ pc'[t] \in {"idle", "copy", "memset"}
    BY <1>5, <2>1, <2>2, <2>3, <2>4
  <2>6. QED  BY <1>0, <2>2, <2>3, <2>5, LocalsKept
<1>12. ASSUME NEW t \in Thread, OutOfMemory(t) PROVE Locals' /\ Grows'
  <2>1. /\ pc[t] = "get_pages" /\ pc'[t] = "idle" /\ slab_lock' = slab_lock
        /\ size'[t] = 0 /\ old'[t] = NULL /\ UNCHANGED <<page, new>>
    BY <1>0, <1>12 DEF OutOfMemory, Failed, Goto, TypeOK
  <2>2. Others(t) /\ Local(t)
    BY <1>1, <1>12 DEF Acts, Step
  <2>3. Local(t)' /\ GrowsOf(t)'
    BY <2>1, <2>2 DEF Local, GrowsOf
  <2>4. QED  BY <1>0, <2>1, <2>2, <2>3, LocalsKept
<1>13. ASSUME NEW t \in Thread, Memset(t) \/ ReturnObject(t) \/ FreePages(t)
       PROVE  Locals' /\ Grows'
  <2>1. /\ pc[t] \in {"memset", "kmem_free", "free_pages"} /\ pc'[t] = "idle"
        /\ slab_lock' = slab_lock
        /\ old'[t] = NULL /\ new'[t] = NULL /\ UNCHANGED <<page, size>>
    <3>1. Freed(t) /\ UNCHANGED <<page, size, slab_lock>>
          /\ pc[t] \in {"memset", "kmem_free", "free_pages"}
      BY <1>13 DEF Memset, ReturnObject, MayFree, FreePages, ReleasePages
    <3>2. QED  BY <1>0, <3>1 DEF Freed, Goto, TypeOK
  <2>2. Others(t) /\ Local(t)
    BY <1>1, <1>13 DEF Acts, Step
  <2>3. size[t] = 0
    BY <2>1, <2>2 DEF Local
  <2>4. Local(t)' /\ GrowsOf(t)'
    BY <2>1, <2>2, <2>3 DEF Local, GrowsOf
  <2>5. QED  BY <1>0, <2>1, <2>2, <2>4, LocalsKept
<1>14. ASSUME NEW t \in Thread, FreeReplaced(t) PROVE Locals' /\ Grows'
  <2>0. Others(t) /\ Local(t)
    BY <1>1, <1>14 DEF Acts, Step
  <2>1. pc[t] = "copy" /\ old[t] # NULL
    BY <1>14, <2>0 DEF FreeReplaced, Local
  <2>2. is_slab_address(old[t]) <=> old[t].slot # 0
    BY <1>0, <2>1, RouteIs, HeldIs
  <2>3. /\ pc'[t] = IF old[t].slot # 0 THEN "kmem_free" ELSE "free_pages"
        /\ UNCHANGED <<size, page, old, new, slab_lock>>
    BY <1>0, <1>14, <2>2 DEF FreeReplaced, Route, Goto, TypeOK
  <2>4. Local(t)' /\ GrowsOf(t)'
    BY <2>0, <2>1, <2>3 DEF Local, GrowsOf
  <2>5. QED  BY <1>0, <2>0, <2>1, <2>3, <2>4, LocalsKept
<1>15. ASSUME NEW t \in Thread, EmptySlab(t) PROVE Locals' /\ Grows'
  <2>0. Others(t) /\ Local(t)
    BY <1>1, <1>15 DEF Acts, Step
  <2> DEFINE r == [page |-> old[t].page, slot |-> 0, size |-> Len(Objects) + 1]
  <2>1. /\ pc[t] = "kmem_free" /\ pc'[t] = "free_pages" /\ old'[t] = r
        /\ UNCHANGED <<size, page, new, slab_lock>>
    BY <1>0, <1>15 DEF EmptySlab, Empty, MayFree, Goto, TypeOK
  <2>2. r # NULL
    <3>1. old[t].page \in Page
      BY <1>15, FreeIs DEF EmptySlab
    <3>2. r \in Block
      BY <3>1, Constants DEF Block, Size
    <3>3. QED  BY <1>0, <3>2
  <2>3. Local(t)' /\ GrowsOf(t)'
    BY <2>0, <2>1, <2>2 DEF Local, GrowsOf
  <2>4. QED  BY <1>0, <2>0, <2>1, <2>3, LocalsKept
<1>16. ASSUME UNCHANGED <<pc, size, page, old, new, slab_lock>> PROVE Locals' /\ Grows'
  BY <1>0, <1>16 DEF Locals, Local, SlabLockHeldToGrow, Grows, GrowsOf
<1>17. ASSUME NEW b \in live, NEW p \in Page, Scribble(b, p) PROVE Locals' /\ Grows'
  BY <1>16, <1>17 DEF Scribble
<1>18. ASSUME UNCHANGED vars PROVE Locals' /\ Grows'
  BY <1>16, <1>18 DEF vars
<1>19. QED
  BY <1>2, <1>3, <1>4, <1>6, <1>7, <1>8, <1>9, <1>10, <1>11, <1>12, <1>13,
     <1>14, <1>15, <1>17, <1>18, StepKinds DEF Acts, Step

-----------------------------------------------------------------------------
(* The slots of a page whose objects are held.                              *)
LEMMA SlotsIs ==
    /\ \A p, s : s \in HeldSlots(p) <=> \E b \in Objs : b.page = p /\ b.slot = s
    /\ \A p, s : s \in HeldSlots(p)' <=> \E b \in Objs' : b.page = p /\ b.slot = s
<1>1. \A p, s : s \in HeldSlots(p) <=> \E b \in Objs : b.page = p /\ b.slot = s
  BY DEF HeldSlots, Objs
<1>2. \A p, s : s \in HeldSlots(p)' <=> \E b \in Objs' : b.page = p /\ b.slot = s
  BY DEF HeldSlots, Objs
<1>3. QED  BY <1>1, <1>2

(* The part of the invariant that says what memory is used for.             *)
Memory == Layout /\ Accounted /\ Headers /\ ListsLinked /\ Marked /\ Counted

(* What depends on the slabs alone stays true with them and their objects.  *)
LEMMA SlabsSame ==
    ASSUME IInv, UNCHANGED slabVars, Objs' = Objs,
           \A p \in SlabPages : magic'[p] = magic[p]
    PROVE  Headers' /\ ListsLinked' /\ Marked' /\ Counted' /\ SlabPages' = SlabPages
<1>0. slabs' = slabs /\ slab' = slab /\ lists' = lists /\ num_slabs' = num_slabs
      /\ total_slabs' = total_slabs /\ outstanding' = outstanding
  BY DEF slabVars
<1>1. SlabPages' = SlabPages
  BY <1>0 DEF SlabPages
<1>2. Headers'
  <2>1. \A p : HeldSlots(p)' = HeldSlots(p)
    BY DEF HeldSlots, Objs
  <2>2. \A c, p : Exact(c, p)' <=> Exact(c, p)
    BY <1>0, <2>1 DEF Exact
  <2>3. QED  BY <1>0, <2>2 DEF IInv, Headers
<1>3. ListsLinked'
  BY <1>0 DEF IInv, ListsLinked, InOrder, AllLinked, Ranked, Partial, Full
<1>4. Marked'
  BY <1>1 DEF IInv, Marked
<1>5. Counted'
  BY <1>0, <1>1 DEF IInv, Counted, CountersExact, Objs
<1>6. QED  BY <1>1, <1>2, <1>3, <1>4, <1>5

(* A step that leaves memory and its holders alone.                         *)
LEMMA QuietStep ==
    ASSUME IInv, Held' = Held, Growing' = Growing, UNCHANGED <<heapVars, slabVars>>,
           \A p \in SlabPages : magic'[p] = magic[p]
    PROVE  Memory'
<1>1. Runs' = Runs /\ Objs' = Objs
  BY DEF Runs, Objs
<1>2. Headers' /\ ListsLinked' /\ Marked' /\ Counted' /\ SlabPages' = SlabPages
  BY <1>1, SlabsSame
<1>3. Layout'
  BY <1>1, <1>2 DEF IInv, Layout, slabVars, PagesOf
<1>4. Accounted'
  BY <1>1, <1>2 DEF IInv, Accounted, heapVars, PagesOf
<1>5. QED  BY <1>2, <1>3, <1>4 DEF Memory

(* The page of a slab being made stays the same.                            *)
LEMMA GrowingSame ==
    /\ page' = page => Growing' = Growing
    /\ \A t \in Thread : TypeOK /\ page[t] = NULL /\ page' = [page EXCEPT ![t] = NULL]
                             => Growing' = Growing
<1>1. ASSUME NEW t \in Thread, TypeOK, page[t] = NULL, page' = [page EXCEPT ![t] = NULL]
      PROVE  page' = page
  BY <1>1 DEF TypeOK
<1>2. QED  BY <1>1 DEF Growing

(* The page for a new slab comes from the free pages, is used by nobody,    *)
(* and is not yet a slab.                                                   *)
LEMMA NewSlabPageStep ==
    ASSUME IInv, NEW t \in Thread, NewSlabPage(t)
    PROVE  Holders' /\ Memory'
<1> DEFINE p == Min(FreeRuns(1))
<1>1. p \in Page /\ p .. p + 1 - 1 \subseteq Page \ bitmap /\ 1 \in Nat /\ p \in Nat
  BY FreeRunIs, Constants DEF NewSlabPage
<1>2. p .. p + 1 - 1 = {p}
  <2> HIDE DEF p
  <2>1. QED  BY <1>1
<1>3. /\ bitmap' = bitmap \union {p}
      /\ page_alloc_count' = [page_alloc_count EXCEPT ![p] = 1]
      /\ page' = [page EXCEPT ![t] = p]
      /\ UNCHANGED <<old, new, live, slabVars, magic>>
  BY <1>2 DEF NewSlabPage, Reserve
<1>4. p \in Page /\ p \notin bitmap /\ p # NULL
  BY <1>1, <1>2, Constants
<1> HIDE DEF p
<1>5. Growing = {} /\ Growing' = {p}
  <2>1. \A u \in Thread : page[u] = NULL
    BY DEF IInv, Locals, Local, SlabLockHeldToGrow, NewSlabPage
  <2>2. page \in [Thread -> Page \union {NULL}]
    BY DEF IInv, TypeOK
  <2>3. QED  BY <1>3, <1>4, <2>1, <2>2 DEF Growing
<1>6. Holders' /\ Held' = Held
  BY <1>3, HeldSame DEF IInv
<1>7. Runs' = Runs /\ Objs' = Objs /\ slabs' = slabs
  BY <1>3, <1>6 DEF Runs, Objs, slabVars
<1>8. Headers' /\ ListsLinked' /\ Marked' /\ Counted' /\ SlabPages' = SlabPages
  BY <1>3, <1>7, SlabsSame
<1>9. p \notin SlabPages /\ \A b \in Runs : p \notin PagesOf(b) /\ p # b.page
  <2>1. p \notin SlabPages /\ \A b \in Runs : p \notin PagesOf(b)
    BY <1>4 DEF IInv, Accounted
  <2>2. \A b \in Runs : b.page \in PagesOf(b)
    BY RunHasFirst DEF IInv
  <2>3. QED  BY <2>1, <2>2
<1>10. Layout'
  BY <1>5, <1>7, <1>8, <1>9 DEF IInv, Layout, PagesOf
<1>11. Accounted'
  <2>1. bitmap' = SlabPages \union {p} \union UNION {PagesOf(b) : b \in Runs}
    BY <1>3, <1>5 DEF IInv, Accounted
  <2>2. \A x \in Page : page_alloc_count'[x] = IF x = p THEN 1 ELSE page_alloc_count[x]
    BY <1>3 DEF IInv, TypeOK
  <2>3. \A b \in Runs : b.page \in Page
    BY HeldTyped DEF IInv, Block
  <2>4. SlabPages \subseteq Page
    BY DEF IInv, TypeOK, SlabPages
  <2>5. \A b \in Runs : page_alloc_count'[b.page] = b.size - Len(Objects)
    BY <1>9, <2>2, <2>3 DEF IInv, Accounted
  <2>6. \A x \in SlabPages \union {p} : page_alloc_count'[x] = 1
    BY <1>4, <1>5, <2>2, <2>4 DEF IInv, Accounted
  <2>7. \A x \in Page : x \notin SlabPages \union {p} \union {b.page : b \in Runs} =>
            page_alloc_count'[x] = 0
    BY <1>5, <2>2 DEF IInv, Accounted
  <2>8. QED  BY <1>5, <1>7, <1>8, <2>1, <2>5, <2>6, <2>7 DEF Accounted, PagesOf
<1>12. QED  BY <1>6, <1>8, <1>10, <1>11 DEF Memory

(* A run of pages comes from the free pages and is nobody else's.           *)
LEMMA GetPagesStep ==
    ASSUME IInv, NEW t \in Thread, GetPages(t)
    PROVE  Holders' /\ Memory'
<1> DEFINE n == RunLength(size[t])
           p == Min(FreeRuns(n))
           b == [page |-> p, slot |-> 0, size |-> Len(Objects) + n]
<1>1. /\ n \in Nat \ {0} /\ p \in Page /\ p .. p + n - 1 \subseteq Page \ bitmap
      /\ PagesOf(b) = p .. p + n - 1 /\ p \in PagesOf(b)
      /\ b \in Block /\ b \notin Held /\ new[t] = NULL
      /\ b.page = p /\ b.slot = 0 /\ b.size = Len(Objects) + n
  BY RunIs DEF GetPages
<1>2. /\ bitmap' = bitmap \union PagesOf(b)
      /\ page_alloc_count' = [page_alloc_count EXCEPT ![p] = n]
      /\ Found(t, b) /\ UNCHANGED <<slabVars, magic>>
  BY <1>1 DEF GetPages, Reserve
<1>3. Len(Objects) \in Nat /\ n = b.size - Len(Objects) /\ b.size > Len(Objects)
  <2> HIDE DEF b, n
  <2>1. QED  BY <1>1, Constants
<1> HIDE DEF b, n, p
<1>4. Holders' /\ Held' = Held \union {b}
  BY <1>1, <1>2, HeldFound DEF IInv
<1>5. Growing' = Growing
  <2>1. page[t] = NULL /\ page' = [page EXCEPT ![t] = NULL]
    BY <1>2 DEF IInv, Locals, Local, GetPages, Found
  <2>2. QED  BY <2>1, GrowingSame DEF IInv
<1>6. Objs' = Objs /\ Runs' = Runs \union {b} /\ slabs' = slabs
  <2>1. \A x : x \in Runs' <=> x \in Runs \union {b}
    BY <1>1, <1>4, HeldTyped, RunsIs
  <2>2. \A x : x \in Objs' <=> x \in Objs
    BY <1>1, <1>4, HeldTyped, RunsIs
  <2>3. QED  BY <1>2, <2>1, <2>2 DEF slabVars
<1>7. Headers' /\ ListsLinked' /\ Marked' /\ Counted' /\ SlabPages' = SlabPages
  BY <1>2, <1>6, SlabsSame
<1>8. /\ PagesOf(b) \intersect (SlabPages \union Growing) = {}
      /\ \A a \in Runs : PagesOf(a) \intersect PagesOf(b) = {}
      /\ PagesOf(b) \subseteq Page
  BY <1>1 DEF IInv, Accounted
<1>9. Layout'
  <2>1. \A x : PagesOf(x)' = PagesOf(x)
    BY DEF PagesOf
  <2>2. \A a, c \in Runs' : a # c => PagesOf(a) \intersect PagesOf(c) = {}
    BY <1>6, <1>8 DEF IInv, Layout
  <2>3. \A a \in Runs' : /\ a.size > Len(Objects) /\ PagesOf(a) \subseteq Page
                         /\ PagesOf(a) \intersect (SlabPages \union Growing) = {}
    BY <1>3, <1>6, <1>8 DEF IInv, Layout
  <2>4. QED  BY <1>5, <1>6, <1>7, <2>1, <2>2, <2>3 DEF IInv, Layout
<1>10. Accounted'
  <2>1. bitmap' = SlabPages \union Growing \union UNION {PagesOf(a) : a \in Runs \union {b}}
    BY <1>2 DEF IInv, Accounted
  <2>2. \A x \in Page : page_alloc_count'[x] = IF x = p THEN n ELSE page_alloc_count[x]
    BY <1>2 DEF IInv, TypeOK
  <2>3. \A a \in Runs : a.page \in Page /\ a.page # p
    BY <1>1, <1>8, RunHasFirst DEF IInv
  <2>4. SlabPages \union Growing \subseteq Page /\ p \notin SlabPages \union Growing
    BY <1>1, <1>8 DEF IInv, TypeOK, SlabPages, Growing
  <2>5. \A a \in Runs \union {b} : page_alloc_count'[a.page] = a.size - Len(Objects)
    BY <1>1, <1>3, <2>2, <2>3 DEF IInv, Accounted
  <2>6. \A x \in SlabPages \union Growing : page_alloc_count'[x] = 1
    BY <2>2, <2>4 DEF IInv, Accounted
  <2>7. \A x \in Page : x \notin SlabPages \union Growing \union {a.page : a \in Runs \union {b}} =>
            page_alloc_count'[x] = 0
    BY <1>1, <2>2 DEF IInv, Accounted
  <2>8. QED  BY <1>5, <1>6, <1>7, <2>1, <2>5, <2>6, <2>7 DEF Accounted, PagesOf
<1>11. QED  BY <1>4, <1>7, <1>9, <1>10 DEF Memory

(* Freeing a run gives back its pages, all of them and no other's.          *)
LEMMA FreePagesStep ==
    ASSUME IInv, NEW t \in Thread, FreePages(t)
    PROVE  Holders' /\ Memory'
<1> DEFINE b == old[t]
           p == b.page
<1>1. /\ b \in Runs /\ b \in Block /\ b # NULL /\ p \in Page /\ p \in PagesOf(b)
      /\ p .. p + page_alloc_count[p] - 1 = PagesOf(b)
  BY FreedRunIs DEF FreePages, ReleasePages
<1>2. /\ bitmap' = bitmap \ PagesOf(b)
      /\ page_alloc_count' = [page_alloc_count EXCEPT ![p] = 0]
      /\ Freed(t) /\ UNCHANGED <<slabVars, magic, page>>
  BY <1>1 DEF FreePages, ReleasePages
<1>3. Holders' /\ Held' = Held \ {b}
  BY <1>2, HeldFreed DEF IInv
<1>4. Growing' = Growing
  BY <1>2, GrowingSame
<1> HIDE DEF b
<1>5. Objs' = Objs /\ Runs' = Runs \ {b} /\ slabs' = slabs
  <2>1. \A x : x \in Runs' <=> x \in Runs \ {b}
    BY <1>3, HeldTyped, RunsIs
  <2>2. \A x : x \in Objs' <=> x \in Objs
    BY <1>1, <1>3, HeldTyped, RunsIs
  <2>3. QED  BY <1>2, <2>1, <2>2 DEF slabVars
<1>6. Headers' /\ ListsLinked' /\ Marked' /\ Counted' /\ SlabPages' = SlabPages
  BY <1>2, <1>5, SlabsSame
<1>7. /\ PagesOf(b) \intersect (SlabPages \union Growing) = {}
      /\ \A a \in Runs \ {b} : PagesOf(a) \intersect PagesOf(b) = {}
  BY <1>1 DEF IInv, Layout
<1>8. Layout'
  BY <1>4, <1>5, <1>6 DEF IInv, Layout, PagesOf
<1>9. Accounted'
  <2>1. bitmap' = SlabPages \union Growing \union UNION {PagesOf(a) : a \in Runs \ {b}}
    BY <1>1, <1>2, <1>7 DEF IInv, Accounted
  <2>2. \A x \in Page : page_alloc_count'[x] = IF x = p THEN 0 ELSE page_alloc_count[x]
    BY <1>2 DEF IInv, TypeOK
  <2>3. \A a \in Runs \ {b} : a.page \in Page /\ a.page # p
    BY <1>1, <1>7, RunHasFirst DEF IInv
  <2>4. SlabPages \union Growing \subseteq Page /\ p \notin SlabPages \union Growing
    BY <1>1, <1>7 DEF IInv, TypeOK, SlabPages, Growing
  <2>5. \A a \in Runs \ {b} : page_alloc_count'[a.page] = a.size - Len(Objects)
    BY <2>2, <2>3 DEF IInv, Accounted
  <2>6. \A x \in SlabPages \union Growing : page_alloc_count'[x] = 1
    BY <2>2, <2>4 DEF IInv, Accounted
  <2>7. \A x \in Page : x \notin SlabPages \union Growing \union {a.page : a \in Runs \ {b}} =>
            page_alloc_count'[x] = 0
    BY <1>1, <2>2 DEF IInv, Accounted
  <2>8. QED  BY <1>4, <1>5, <1>6, <2>1, <2>5, <2>6, <2>7 DEF Accounted, PagesOf
<1>10. QED  BY <1>3, <1>6, <1>8, <1>9 DEF Memory

-----------------------------------------------------------------------------
(* Free lists: no slot is on one twice, and what is on it.                  *)
OneEach(l) == \A i, j \in DOMAIN l : l[i] = l[j] => i = j
Content(l) == {l[i] : i \in DOMAIN l}

(* The first slot is taken off a free list.                                 *)
LEMMA TailKeeps ==
    ASSUME NEW S, NEW l \in Seq(S), l # <<>>, OneEach(l),
           NEW k, k = Tail(l)
    PROVE  /\ k \in Seq(S) /\ Len(k) = Len(l) - 1 /\ OneEach(k)
           /\ Content(k) = Content(l) \ {l[1]}
<1>1. /\ Len(l) \in Nat \ {0} /\ DOMAIN l = 1 .. Len(l)
      /\ k \in Seq(S) /\ Len(k) = Len(l) - 1 /\ DOMAIN k = 1 .. Len(l) - 1
      /\ \A i \in 1 .. Len(l) - 1 : k[i] = l[i + 1]
  <2>1. /\ k \in Seq(S) /\ Len(k) = Len(l) - 1
        /\ \A i \in 1 .. Len(k) : k[i] = l[i + 1]
    BY HeadTailProperties
  <2>2. DOMAIN l = 1 .. Len(l) /\ DOMAIN k = 1 .. Len(k)
    BY <2>1, LenProperties
  <2>3. Len(l) \in Nat /\ Len(l) # 0
    BY EmptySeq, LenProperties
  <2>4. QED  BY <2>1, <2>2, <2>3
<1> DEFINE n == Len(l)
<1>2. n \in Nat \ {0} /\ DOMAIN l = 1 .. n /\ DOMAIN k = 1 .. n - 1
      /\ \A i \in 1 .. n - 1 : k[i] = l[i + 1]
  BY <1>1
<1> HIDE DEF n
<1>3. OneEach(k)
  <2>1. SUFFICES ASSUME NEW i \in 1 .. n - 1, NEW j \in 1 .. n - 1, k[i] = k[j]
                 PROVE  i = j
    BY <1>2 DEF OneEach
  <2>2. l[i + 1] = l[j + 1] /\ i + 1 \in 1 .. n /\ j + 1 \in 1 .. n
    BY <1>2, <2>1
  <2>3. i + 1 = j + 1
    BY <1>2, <2>2 DEF OneEach
  <2>4. QED  BY <2>3
<1>4. ASSUME NEW x \in Content(k) PROVE x \in Content(l) \ {l[1]}
  <2>1. PICK i \in 1 .. n - 1 : x = l[i + 1]
    BY <1>2, <1>4 DEF Content
  <2>2. i + 1 \in 1 .. n /\ 1 \in 1 .. n /\ i + 1 # 1
    BY <1>2
  <2>3. x # l[1]
    BY <1>2, <2>1, <2>2 DEF OneEach
  <2>4. QED  BY <1>2, <2>1, <2>2, <2>3 DEF Content
<1>5. ASSUME NEW x \in Content(l), x # l[1] PROVE x \in Content(k)
  <2>1. PICK i \in 1 .. n : x = l[i]
    BY <1>2, <1>5 DEF Content
  <2>2. i - 1 \in 1 .. n - 1 /\ (i - 1) + 1 = i
    BY <1>2, <1>5, <2>1
  <2>3. x = k[i - 1]
    BY <1>2, <2>1, <2>2
  <2>4. QED  BY <1>2, <2>2, <2>3 DEF Content
<1>6. Content(k) = Content(l) \ {l[1]}
  BY <1>4, <1>5
<1>7. QED  BY <1>1, <1>3, <1>6

Before(s, l) == <<s>> \o l

(* A slot that is not on a free list is put in front of it.                 *)
LEMMA ConsKeeps ==
    ASSUME NEW S, NEW l \in Seq(S), NEW s \in S, OneEach(l), s \notin Content(l),
           NEW k, k = Before(s, l)
    PROVE  /\ k \in Seq(S) /\ Len(k) = Len(l) + 1 /\ OneEach(k)
           /\ Content(k) = Content(l) \union {s}
<1> DEFINE n == Len(l)
<1>1. /\ k \in Seq(S) /\ Len(k) = n + 1 /\ n \in Nat
      /\ \A i \in 1 .. n + 1 : k[i] = IF i <= 1 THEN s ELSE l[i - 1]
  BY ConcatProperties, LenProperties DEF Before
<1>2. DOMAIN l = 1 .. n /\ DOMAIN k = 1 .. n + 1
  BY <1>1, LenProperties
<1> HIDE DEF n
<1>3. k[1] = s /\ \A i \in 2 .. n + 1 : k[i] = l[i - 1] /\ i - 1 \in 1 .. n
  BY <1>1
<1>4. \A i \in 2 .. n + 1 : k[i] \in Content(l) /\ k[i] # s
  BY <1>2, <1>3 DEF Content
<1>5. OneEach(k)
  <2>1. SUFFICES ASSUME NEW i \in 1 .. n + 1, NEW j \in 1 .. n + 1, k[i] = k[j]
                 PROVE  i = j
    BY <1>2 DEF OneEach
  <2>2. CASE i = 1 \/ j = 1
    BY <1>1, <1>3, <1>4, <2>1, <2>2
  <2>3. CASE i # 1 /\ j # 1
    <3>1. i \in 2 .. n + 1 /\ j \in 2 .. n + 1
      BY <1>1, <2>3
    <3>2. l[i - 1] = l[j - 1] /\ i - 1 \in 1 .. n /\ j - 1 \in 1 .. n
      BY <1>3, <2>1, <3>1
    <3>3. i - 1 = j - 1
      BY <1>2, <3>2 DEF OneEach
    <3>4. QED  BY <3>1, <3>3
  <2>4. QED  BY <2>2, <2>3
<1>6. ASSUME NEW x \in Content(k) PROVE x \in Content(l) \union {s}
  <2>1. PICK i \in 1 .. n + 1 : x = k[i]
    BY <1>2, <1>6 DEF Content
  <2>2. i = 1 \/ i \in 2 .. n + 1
    BY <1>1
  <2>3. QED  BY <1>3, <1>4, <2>1, <2>2
<1>7. ASSUME NEW x \in Content(l) PROVE x \in Content(k)
  <2>1. PICK i \in 1 .. n : x = l[i]
    BY <1>2, <1>7 DEF Content
  <2>2. i + 1 \in 2 .. n + 1 /\ (i + 1) - 1 = i /\ i + 1 \in 1 .. n + 1
    BY <1>1
  <2>3. x = k[i + 1]
    BY <1>3, <2>1, <2>2
  <2>4. QED  BY <1>2, <2>2, <2>3 DEF Content
<1>8. s \in Content(k)
  BY <1>1, <1>2, <1>3 DEF Content
<1>9. Content(k) = Content(l) \union {s}
  BY <1>6, <1>7, <1>8
<1>10. QED  BY <1>1, <1>5, <1>9 DEF n

(* Exact in these terms, now and after a step.                              *)
LEMMA ExactIs ==
    /\ \A c, p : Exact(c, p) <=>
          /\ slab[p].cache = c /\ slab[p].num_free = Len(slab[p].free_list)
          /\ Len(slab[p].free_list) < Objects[c] /\ OneEach(slab[p].free_list)
          /\ Content(slab[p].free_list) = (1 .. Objects[c]) \ HeldSlots(p)
    /\ \A c, p : Exact(c, p)' <=>
          /\ slab'[p].cache = c /\ slab'[p].num_free = Len(slab'[p].free_list)
          /\ Len(slab'[p].free_list) < Objects[c] /\ OneEach(slab'[p].free_list)
          /\ Content(slab'[p].free_list) = (1 .. Objects[c]) \ HeldSlots(p)'
  BY DEF Exact, OneEach, Content

(* The headers of the slabs that a step does not touch.                     *)
LEMMA OtherHeaders ==
    ASSUME NEW p, \A b : b.page # p => (b \in Objs' <=> b \in Objs),
           NEW x, x # p, slab'[x] = slab[x], NEW c
    PROVE  Exact(c, x)' <=> Exact(c, x)
<1>1. \A s : s \in HeldSlots(x)' <=> s \in HeldSlots(x)
  BY SlotsIs
<1>2. HeldSlots(x)' = HeldSlots(x)
  BY <1>1 DEF HeldSlots
<1>3. QED  BY <1>2, ExactIs

(* Partial and full slabs are different ones, of different caches too.      *)
LEMMA PartialFullApart ==
    ASSUME IInv
    PROVE  Apart(Partial, Full)
<1>1. slabs \in [Cache -> SUBSET Page]
  BY DEF IInv, TypeOK
<1>2. \A c, d \in Cache : c # d => slabs[c] \intersect slabs[d] = {}
  BY DEF IInv, Layout
<1>3. Partial \in [Cache -> SUBSET Page] /\ Full \in [Cache -> SUBSET Page]
  BY <1>1 DEF Partial, Full
<1>4. \A c \in Cache : /\ Partial[c] = {p \in slabs[c] : slab[p].num_free # 0}
                       /\ Full[c] = {p \in slabs[c] : slab[p].num_free = 0}
  BY DEF Partial, Full
<1>5. QED  BY <1>2, <1>3, <1>4 DEF Apart

(* A slab goes from one list of its cache to the other.                     *)
LEMMA MoveInOrder ==
    ASSUME NEW L \in Links, NEW P, NEW F, Apart(P, F), InOrder(L, P, F),
           NEW c \in Cache
    PROVE  /\ \A p \in P[c] :
                  InOrder(add_slab_to_list(remove_slab_from_list(L, "partial", c, p),
                                             "full", c, p),
                            [P EXCEPT ![c] = @ \ {p}], [F EXCEPT ![c] = @ \union {p}])
           /\ \A p \in F[c] :
                  InOrder(add_slab_to_list(remove_slab_from_list(L, "full", c, p),
                                             "partial", c, p),
                            [P EXCEPT ![c] = @ \union {p}], [F EXCEPT ![c] = @ \ {p}])
<1>1. ASSUME NEW p \in P[c]
      PROVE  InOrder(add_slab_to_list(remove_slab_from_list(L, "partial", c, p), "full", c, p),
                       [P EXCEPT ![c] = @ \ {p}], [F EXCEPT ![c] = @ \union {p}])
  <2> DEFINE R == remove_slab_from_list(L, "partial", c, p)
             Q == [P EXCEPT ![c] = @ \ {p}]
  <2>1. R \in Links /\ InOrder(R, Q, F)
    BY <1>1, RemoveInOrder
  <2>2. P \in [Cache -> SUBSET Page] /\ p \in Page
    BY <1>1 DEF Apart
  <2>3. \A d \in Cache : Q[d] = IF d = c THEN P[c] \ {p} ELSE P[d]
    BY <2>2
  <2>4. Q \in [Cache -> SUBSET Page]
    BY <2>2
  <2> HIDE DEF Q, R
  <2>5. Apart(Q, F) /\ \A d \in Cache : p \notin Q[d] \union F[d]
    BY <1>1, <2>2, <2>3, <2>4 DEF Apart
  <2>6. QED  BY <2>1, <2>2, <2>5, AddInOrder DEF Q, R
<1>2. ASSUME NEW p \in F[c]
      PROVE  InOrder(add_slab_to_list(remove_slab_from_list(L, "full", c, p), "partial", c, p),
                       [P EXCEPT ![c] = @ \union {p}], [F EXCEPT ![c] = @ \ {p}])
  <2> DEFINE R == remove_slab_from_list(L, "full", c, p)
             Q == [F EXCEPT ![c] = @ \ {p}]
  <2>1. R \in Links /\ InOrder(R, P, Q)
    BY <1>2, RemoveInOrder
  <2>2. F \in [Cache -> SUBSET Page] /\ p \in Page
    BY <1>2 DEF Apart
  <2>3. \A d \in Cache : Q[d] = IF d = c THEN F[c] \ {p} ELSE F[d]
    BY <2>2
  <2>4. Q \in [Cache -> SUBSET Page]
    BY <2>2
  <2> HIDE DEF Q, R
  <2>5. Apart(P, Q) /\ \A d \in Cache : p \notin P[d] \union Q[d]
    BY <1>2, <2>2, <2>3, <2>4 DEF Apart
  <2>6. QED  BY <2>1, <2>2, <2>5, AddInOrder DEF Q, R
<1>3. QED  BY <1>1, <1>2

(* What the lists are to have when one slab's count changes.                *)
LEMMA ListsAre ==
    ASSUME slabs \in [Cache -> SUBSET Page], UNCHANGED slabs,
           NEW c \in Cache, NEW p \in slabs[c],
           \A d \in Cache : p \in slabs[d] => d = c,
           \A x \in Page : x # p => slab'[x] = slab[x]
    PROVE  /\ slab'[p].num_free = 0 =>
                  /\ Partial' = [Partial EXCEPT ![c] = @ \ {p}]
                  /\ Full' = [Full EXCEPT ![c] = @ \union {p}]
           /\ slab'[p].num_free # 0 =>
                  /\ Partial' = [Partial EXCEPT ![c] = @ \union {p}]
                  /\ Full' = [Full EXCEPT ![c] = @ \ {p}]
<1>1. ASSUME NEW d \in Cache
      PROVE  /\ Partial[d] = {x \in slabs[d] : slab[x].num_free # 0}
             /\ Full[d] = {x \in slabs[d] : slab[x].num_free = 0}
             /\ Partial'[d] = {x \in slabs[d] : slab'[x].num_free # 0}
             /\ Full'[d] = {x \in slabs[d] : slab'[x].num_free = 0}
  BY DEF Partial, Full
<1>2. ASSUME NEW d \in Cache, d # c PROVE Partial'[d] = Partial[d] /\ Full'[d] = Full[d]
  <2>1. \A x \in slabs[d] : slab'[x] = slab[x]
    BY <1>2
  <2>2. Partial'[d] = Partial[d]
    <3>1. {x \in slabs[d] : slab'[x].num_free # 0} = {x \in slabs[d] : slab[x].num_free # 0}
      BY <2>1
    <3>2. QED  BY <1>1, <3>1
  <2>3. Full'[d] = Full[d]
    <3>1. {x \in slabs[d] : slab'[x].num_free = 0} = {x \in slabs[d] : slab[x].num_free = 0}
      BY <2>1
    <3>2. QED  BY <1>1, <3>1
  <2>4. QED  BY <2>2, <2>3
<1>3. /\ slab'[p].num_free = 0 => Partial'[c] = Partial[c] \ {p} /\ Full'[c] = Full[c] \union {p}
      /\ slab'[p].num_free # 0 => Partial'[c] = Partial[c] \union {p} /\ Full'[c] = Full[c] \ {p}
  BY <1>1
<1>4. /\ Partial = [d \in Cache |-> Partial[d]] /\ Full = [d \in Cache |-> Full[d]]
      /\ Partial' = [d \in Cache |-> Partial'[d]] /\ Full' = [d \in Cache |-> Full'[d]]
  BY DEF Partial, Full
<1>5. QED  BY <1>2, <1>3, <1>4

(* What depends on the pages of runs and slabs alone stays true with them,  *)
(* if the objects that are new lie where objects of their size do.          *)
LEMMA PagesSame ==
    ASSUME IInv, UNCHANGED <<heapVars, slabs>>, Runs' = Runs, Growing' = Growing,
           \A b \in Objs' : \/ b \in Objs
                            \/ /\ b.size \in Cache /\ b.page \in slabs[b.size]
                               /\ b.slot \in 1 .. Objects[b.size]
    PROVE  Layout' /\ Accounted' /\ SlabPages' = SlabPages
<1>1. SlabPages' = SlabPages
  BY DEF SlabPages
<1>2. Layout'
  BY <1>1 DEF IInv, Layout, PagesOf
<1>3. Accounted'
  BY <1>1 DEF IInv, Accounted, PagesOf, heapVars
<1>4. QED  BY <1>1, <1>2, <1>3

(* One object more, or one less, once the slabs are counted.                *)
SlabsCounted ==
    /\ \A c \in Cache : num_slabs[c] = Cardinality(slabs[c])
    /\ total_slabs = Cardinality(SlabPages)

(* outstanding follows the objects held.                                    *)
LEMMA ObjectCounted ==
    ASSUME IInv, SlabsCounted'
    PROVE  /\ \A b : /\ b \notin Objs /\ Objs' = Objs \union {b}
                     /\ outstanding' = outstanding + 1
                     => Counted'
           /\ \A b : /\ b \in Objs /\ Objs' = Objs \ {b}
                     /\ outstanding' = outstanding - 1
                     => Counted'
<1>1. IsFiniteSet(Objs) /\ outstanding = Cardinality(Objs)
  BY DEF IInv, Counted, CountersExact, Objs
<1>2. ASSUME IsFiniteSet(Objs'), outstanding' = Cardinality(Objs') PROVE Counted'
  BY <1>1, <1>2 DEF SlabsCounted, Counted, CountersExact, Objs
<1>3. ASSUME NEW b, b \notin Objs, Objs' = Objs \union {b}, outstanding' = outstanding + 1
      PROVE  Counted'
  BY <1>1, <1>2, <1>3, FS_AddElement
<1>4. ASSUME NEW b, b \in Objs, Objs' = Objs \ {b}, outstanding' = outstanding - 1
      PROVE  Counted'
  BY <1>1, <1>2, <1>4, FS_RemoveElement
<1>5. QED  BY <1>3, <1>4

(* The counts of slabs are exact, and stay so when a slab is made or freed. *)
LEMMA SlabCounted ==
    ASSUME IInv
    PROVE  /\ UNCHANGED <<num_slabs, total_slabs, slabs>> => SlabsCounted'
           /\ \A c \in Cache, p \in Page :
                 /\ p \notin SlabPages
                 /\ num_slabs' = [num_slabs EXCEPT ![c] = @ + 1]
                 /\ total_slabs' = total_slabs + 1
                 /\ slabs' = [slabs EXCEPT ![c] = @ \union {p}]
                 /\ SlabPages' = SlabPages \union {p}
                 => SlabsCounted'
           /\ \A c \in Cache : \A p \in slabs[c] :
                 /\ num_slabs' = [num_slabs EXCEPT ![c] = @ + -1]
                 /\ total_slabs' = total_slabs + -1
                 /\ slabs' = [slabs EXCEPT ![c] = @ \ {p}]
                 /\ SlabPages' = SlabPages \ {p}
                 => SlabsCounted'
<1>1. SlabsCounted /\ slabs \in [Cache -> SUBSET Page] /\ num_slabs \in [Cache -> Int]
  BY DEF IInv, TypeOK, Counted, CountersExact, SlabsCounted
<1>2. \A S : S \subseteq Page => IsFiniteSet(S)
  <2>1. IsFiniteSet(Page)
    <3>1. 1 \in Int /\ Pages \in Int
      BY Constants
    <3>2. QED  BY <3>1, FS_Interval DEF Page
  <2>2. QED  BY <2>1, FS_Subset
<1>3. SlabPages \subseteq Page
  BY <1>1 DEF SlabPages
<1>4. IsFiniteSet(SlabPages) /\ \A c \in Cache : IsFiniteSet(slabs[c])
  BY <1>1, <1>2, <1>3
<1>5. ASSUME UNCHANGED <<num_slabs, total_slabs, slabs>> PROVE SlabsCounted'
  BY <1>1, <1>5 DEF SlabsCounted, SlabPages
<1>6. ASSUME NEW c \in Cache, NEW p \in Page, p \notin SlabPages,
             num_slabs' = [num_slabs EXCEPT ![c] = @ + 1], total_slabs' = total_slabs + 1,
             slabs' = [slabs EXCEPT ![c] = @ \union {p}], SlabPages' = SlabPages \union {p}
      PROVE  SlabsCounted'
  <2>1. p \notin slabs[c]
    BY <1>6 DEF SlabPages
  <2>2. Cardinality(slabs[c] \union {p}) = Cardinality(slabs[c]) + 1
    BY <1>4, <2>1, FS_AddElement
  <2>3. Cardinality(SlabPages \union {p}) = Cardinality(SlabPages) + 1
    BY <1>4, <1>6, FS_AddElement
  <2>4. \A d \in Cache : num_slabs'[d] = Cardinality(slabs'[d])
    BY <1>1, <1>6, <2>2 DEF SlabsCounted
  <2>5. QED  BY <1>1, <1>6, <2>3, <2>4 DEF SlabsCounted
<1>7. ASSUME NEW c \in Cache, NEW p \in slabs[c],
             num_slabs' = [num_slabs EXCEPT ![c] = @ + -1], total_slabs' = total_slabs + -1,
             slabs' = [slabs EXCEPT ![c] = @ \ {p}], SlabPages' = SlabPages \ {p}
      PROVE  SlabsCounted'
  <2>1. p \in SlabPages
    BY DEF SlabPages
  <2>2. Cardinality(slabs[c] \ {p}) = Cardinality(slabs[c]) - 1
    BY <1>4, FS_RemoveElement
  <2>3. Cardinality(SlabPages \ {p}) = Cardinality(SlabPages) - 1
    BY <1>4, <2>1, FS_RemoveElement
  <2>4. \A d \in Cache : num_slabs'[d] = Cardinality(slabs'[d])
    <3>1. \A d \in Cache : num_slabs[d] = Cardinality(slabs[d])
      BY <1>1 DEF SlabsCounted
    <3>2. num_slabs'[c] = num_slabs[c] - 1 /\ slabs'[c] = slabs[c] \ {p}
      BY <1>1, <1>7
    <3>3. QED  BY <1>1, <1>7, <2>2, <3>1, <3>2
  <2>5. total_slabs' = Cardinality(SlabPages')
    <3>1. total_slabs' = total_slabs - 1
      BY <1>7, TypesAre DEF IInv, MemoryTypes
    <3>2. QED  BY <1>1, <1>7, <2>3, <3>1 DEF SlabsCounted
  <2>6. QED  BY <2>4, <2>5 DEF SlabsCounted
<1>8. QED  BY <1>5, <1>6, <1>7

(* The slots held of the page of an object that is taken or given back.     *)
LEMMA SlotsMore ==
    ASSUME NEW b, Objs' = Objs \union {b}, NEW p, b.page = p
    PROVE  HeldSlots(p)' = HeldSlots(p) \union {b.slot}
<1>1. ASSUME NEW s \in HeldSlots(p)' PROVE s \in HeldSlots(p) \union {b.slot}
  <2>1. PICK a \in Objs' : a.page = p /\ a.slot = s
    BY SlotsIs
  <2>2. QED  BY <2>1, SlotsIs
<1>2. ASSUME NEW s \in HeldSlots(p) PROVE s \in HeldSlots(p)'
  <2>1. PICK a \in Objs : a.page = p /\ a.slot = s
    BY SlotsIs
  <2>2. a \in Objs'
    OBVIOUS
  <2>3. QED  BY <2>1, <2>2, SlotsIs
<1>3. b.slot \in HeldSlots(p)'
  <2>1. b \in Objs'
    OBVIOUS
  <2>2. QED  BY <2>1, SlotsIs
<1>4. QED  BY <1>1, <1>2, <1>3

(* No other object has the page and the slot of the one that is given back. *)
LEMMA SlotsLess ==
    ASSUME IInv, NEW b \in Objs, Objs' = Objs \ {b}, NEW p, b.page = p
    PROVE  HeldSlots(p)' = HeldSlots(p) \ {b.slot}
<1>1. ASSUME NEW a \in Objs, a.page = p, a.slot = b.slot PROVE a = b
  <2>1. a \in Block /\ b \in Block
    BY HeldTyped DEF IInv
  <2>2. a.size = b.size
    BY <1>1 DEF IInv, Layout
  <2>3. QED  BY <1>1, <2>1, <2>2 DEF Block
<1>2. ASSUME NEW s \in HeldSlots(p)' PROVE s \in HeldSlots(p) \ {b.slot}
  <2>1. PICK a \in Objs' : a.page = p /\ a.slot = s
    BY SlotsIs
  <2>2. a \in Objs /\ a # b
    OBVIOUS
  <2>3. s # b.slot
    BY <1>1, <2>1, <2>2
  <2>4. QED  BY <2>1, <2>2, <2>3, SlotsIs
<1>3. ASSUME NEW s \in HeldSlots(p), s # b.slot PROVE s \in HeldSlots(p)'
  <2>1. PICK a \in Objs : a.page = p /\ a.slot = s
    BY SlotsIs
  <2>2. a \in Objs'
    BY <1>3, <2>1
  <2>3. QED  BY <2>1, <2>2, SlotsIs
<1>4. QED  BY <1>2, <1>3

(* kmem_alloc from a partial slab: the object comes off the free list, and  *)
(* the slab changes lists when it was the last.                             *)
LEMMA TakeObjectStep ==
    ASSUME IInv, NEW t \in Thread, TakeObject(t)
    PROVE  Holders' /\ Memory'
<1>21. PICK c : c = size[t]
  OBVIOUS
<1>22. PICK p : p = lists.partial[c]
  OBVIOUS
<1>23. PICK free : free = slab[p].free_list
  OBVIOUS
<1>24. PICK b : b = [page |-> p, slot |-> free[1], size |-> c]
  OBVIOUS
<1>1. /\ c \in Cache /\ p \in Page /\ p \in slabs[c]
      /\ slab[p].num_free # 0 /\ Exact(c, p)
      /\ free \in Seq(Slot) /\ free # <<>> /\ free[1] \in 1 .. Objects[c]
      /\ b \in Block /\ b \notin Held
  BY <1>21, <1>22, <1>23, <1>24, TakeIs DEF TakeObject
<1>2. /\ b.page = p /\ b.slot = free[1] /\ b.size = c /\ b.slot # 0
      /\ Head(free) = free[1]
  BY <1>1, <1>24, HeadTailProperties, Constants
<1>3. /\ slab' = WithFree(slab, p, Tail(free), slab[p].num_free - 1)
      /\ lists' = IF slab[p].num_free = 1
                  THEN add_slab_to_list(
                           remove_slab_from_list(lists, "partial", c, p), "full", c, p)
                  ELSE lists
      /\ outstanding' = outstanding + 1
      /\ Found(t, b) /\ pc[t] = "kmem_alloc"
      /\ UNCHANGED <<heapVars, magic, num_slabs, total_slabs, slabs>>
  BY <1>2, <1>21, <1>22, <1>23, <1>24 DEF TakeObject, Take, WithFree, HasPartial
<1>4. slab \in [Page -> SlabHeader] /\ slab[p].num_free \in Nat
  BY <1>1, TypesAre DEF IInv, MemoryTypes, SlabHeader
<1>5. page[t] = NULL /\ new[t] = NULL
  BY <1>3 DEF IInv, Locals, Local
<1>6. Holders' /\ Held' = Held \union {b}
  BY <1>1, <1>3, <1>5, HeldFound DEF IInv
<1>7. Growing' = Growing
  BY <1>3, <1>5, GrowingSame DEF IInv, Found
<1>8. Runs' = Runs /\ Objs' = Objs \union {b} /\ b \notin Objs
  <2>1. \A x : x \in Runs' <=> x \in Runs
    BY <1>2, <1>6, HeldTyped, RunsIs
  <2>2. \A x : x \in Objs' <=> x \in Objs \union {b}
    BY <1>2, <1>6, HeldTyped, RunsIs
  <2>3. QED  BY <1>1, <2>1, <2>2, HeldTyped
<1>9. Layout' /\ Accounted' /\ SlabPages' = SlabPages
  BY <1>1, <1>2, <1>3, <1>7, <1>8, PagesSame
<1>10. Marked'
  BY <1>3, <1>9 DEF IInv, Marked
<1>11. Counted'
  BY <1>3, <1>8, ObjectCounted, SlabCounted
<1>12. /\ slab'[p].cache = c /\ slab'[p].num_free = slab[p].num_free - 1
       /\ slab'[p].free_list \in Seq(Slot) /\ slab'[p].num_free = Len(slab'[p].free_list)
       /\ Len(slab'[p].free_list) = Len(free) - 1 /\ Len(free) \in Nat
       /\ OneEach(slab'[p].free_list)
       /\ Content(slab'[p].free_list) = Content(free) \ {free[1]}
       /\ \A x \in Page : x # p => slab'[x] = slab[x]
  <2> DEFINE l == Tail(free)
             n == slab[p].num_free - 1
  <2>1. slab[p].cache = c /\ slab[p].num_free = Len(free) /\ OneEach(free)
    BY <1>1, <1>23, ExactIs
  <2>2. l \in Seq(Slot) /\ Len(l) = Len(free) - 1 /\ OneEach(l)
        /\ Content(l) = Content(free) \ {free[1]}
    BY <1>1, <2>1, TailKeeps
  <2>3. n \in Nat
    BY <1>1, <1>4
  <2>4. slab' = WithFree(slab, p, l, n)
    BY <1>3
  <2> HIDE DEF l, n
  <2>5. /\ slab'[p].cache = slab[p].cache /\ slab'[p].num_free = n /\ slab'[p].free_list = l
        /\ \A x \in Page : x # p => slab'[x] = slab[x]
    BY <1>1, <1>4, <2>2, <2>3, <2>4, HeaderUpdate
  <2>6. n = slab[p].num_free - 1 /\ Len(free) \in Nat
    BY <1>4, <2>1 DEF n
  <2>7. QED  BY <2>1, <2>2, <2>5, <2>6
<1>13. Headers'
  <2>1. HeldSlots(p)' = HeldSlots(p) \union {free[1]}
    BY <1>2, <1>8, SlotsMore
  <2>2. Exact(c, p)'
    <3>1. /\ Len(free) < Objects[c] /\ Objects[c] \in Nat
          /\ Content(free) = (1 .. Objects[c]) \ HeldSlots(p)
      BY <1>1, <1>23, ExactIs, Constants
    <3>2. Len(slab'[p].free_list) < Objects[c]
      BY <1>12, <3>1
    <3>3. Content(slab'[p].free_list) = (1 .. Objects[c]) \ HeldSlots(p)'
      BY <1>12, <2>1, <3>1
    <3>4. QED  BY <1>12, <3>2, <3>3, ExactIs
  <2>3. ASSUME NEW d \in Cache, NEW x \in slabs[d], x # p PROVE Exact(d, x)'
    <3>1. x \in Page /\ Exact(d, x)
      BY <2>3 DEF IInv, Headers, TypeOK
    <3>2. \A y : y.page # p => (y \in Objs' <=> y \in Objs)
      BY <1>2, <1>8
    <3>3. QED  BY <1>12, <2>3, <3>1, <3>2, OtherHeaders
  <2>4. \A d \in Cache : p \in slabs[d] => d = c
    BY <1>1 DEF IInv, Layout
  <2>5. QED  BY <1>3, <2>2, <2>3, <2>4 DEF Headers
<1>14. ListsLinked'
  <2>1. slabs \in [Cache -> SUBSET Page] /\ lists \in Links
    BY TypesAre DEF IInv, MemoryTypes
  <2>2. \A d \in Cache : p \in slabs[d] => d = c
    BY <1>1 DEF IInv, Layout
  <2>3. CASE slab[p].num_free = 1
    <3>1. Partial' = [Partial EXCEPT ![c] = @ \ {p}]
          /\ Full' = [Full EXCEPT ![c] = @ \union {p}]
      <4>1. slab'[p].num_free = 0
        BY <1>12, <2>3
      <4>2. QED  BY <1>1, <1>3, <1>12, <2>1, <2>2, <4>1, ListsAre
    <3>3. p \in Partial[c]
      BY <1>1 DEF Partial
    <3>4. InOrder(lists', [Partial EXCEPT ![c] = @ \ {p}], [Full EXCEPT ![c] = @ \union {p}])
      BY <1>1, <1>3, <2>1, <2>3, <3>3, MoveInOrder, PartialFullApart DEF IInv, ListsLinked
    <3>5. QED  BY <3>1, <3>4 DEF ListsLinked
  <2>4. CASE slab[p].num_free # 1
    <3>1. slab'[p].num_free # 0 /\ slab[p].num_free # 0
      BY <1>1, <1>4, <1>12, <2>4
    <3>2. Partial' = Partial /\ Full' = Full
      BY <1>3, <1>12, <2>1, <3>1 DEF Partial, Full
    <3>3. lists' = lists
      BY <1>3, <2>4
    <3>4. QED  BY <3>2, <3>3 DEF IInv, ListsLinked
  <2>5. QED  BY <2>3, <2>4
<1>15. QED  BY <1>6, <1>9, <1>10, <1>11, <1>13, <1>14 DEF Memory

(* kmem_free: the object goes back on its slab's free list, and a slab that *)
(* was full changes lists.                                                  *)
LEMMA ReturnObjectStep ==
    ASSUME IInv, NEW t \in Thread, ReturnObject(t)
    PROVE  Holders' /\ Memory'
<1>21. PICK b : b = old[t]
  OBVIOUS
<1>22. PICK p : p = b.page
  OBVIOUS
<1>23. PICK c : c = slab[p].cache
  OBVIOUS
<1>24. PICK free : free = slab[p].free_list
  OBVIOUS
<1>25. PICK n : n = slab[p].num_free
  OBVIOUS
<1>1. /\ b \in Objs /\ b \in Block /\ b \in Held /\ b.slot # 0
      /\ b.size = c /\ c \in Cache /\ p \in Page /\ p \in slabs[c]
      /\ b.slot \in 1 .. Objects[c] /\ b.slot \in Slot
      /\ Exact(c, p) /\ free \in Seq(Slot) /\ n \in Nat
  BY <1>21, <1>22, <1>23, <1>24, <1>25, FreeIs DEF ReturnObject, Block
<1>2. /\ slab' = WithFree(slab, p, Before(b.slot, free), n + 1)
      /\ lists' = IF n = 0
                  THEN add_slab_to_list(
                           remove_slab_from_list(lists, "full", c, p), "partial", c, p)
                  ELSE lists
      /\ outstanding' = outstanding - 1
      /\ Freed(t) /\ n + 1 # Objects[c]
      /\ UNCHANGED <<heapVars, magic, num_slabs, total_slabs, slabs, page>>
  BY <1>21, <1>22, <1>23, <1>24, <1>25 DEF ReturnObject, WithFree, LastInUse, Before
<1>3. slab \in [Page -> SlabHeader]
  BY TypesAre DEF IInv, MemoryTypes
<1>4. Holders' /\ Held' = Held \ {b}
  BY <1>2, <1>21, HeldFreed DEF IInv
<1>5. Growing' = Growing
  BY <1>2, GrowingSame
<1>6. Runs' = Runs /\ Objs' = Objs \ {b}
  <2>1. \A x : x \in Runs' <=> x \in Runs
    BY <1>1, <1>4, HeldTyped, RunsIs
  <2>2. \A x : x \in Objs' <=> x \in Objs \ {b}
    BY <1>1, <1>4, HeldTyped, RunsIs
  <2>3. QED  BY <2>1, <2>2
<1>7. Layout' /\ Accounted' /\ SlabPages' = SlabPages
  BY <1>2, <1>5, <1>6, PagesSame
<1>8. Marked'
  BY <1>2, <1>7 DEF IInv, Marked
<1>9. Counted'
  BY <1>1, <1>2, <1>6, ObjectCounted, SlabCounted
<1>10. /\ n = Len(free) /\ OneEach(free) /\ slab[p].cache = c /\ Len(free) < Objects[c]
       /\ Content(free) = (1 .. Objects[c]) \ HeldSlots(p)
       /\ b.slot \in HeldSlots(p) /\ Objects[c] \in Nat
  <2>1. b.slot \in HeldSlots(p)
    BY <1>1, <1>22, SlotsIs
  <2>2. QED  BY <1>1, <1>24, <1>25, <2>1, ExactIs, Constants
<1>11. /\ slab'[p].cache = c /\ slab'[p].num_free = n + 1
       /\ slab'[p].free_list \in Seq(Slot) /\ Len(slab'[p].free_list) = n + 1
       /\ OneEach(slab'[p].free_list)
       /\ Content(slab'[p].free_list) = Content(free) \union {b.slot}
       /\ \A x \in Page : x # p => slab'[x] = slab[x]
  <2> DEFINE l == Before(b.slot, free)
             m == n + 1
  <2>1. /\ l \in Seq(Slot) /\ Len(l) = Len(free) + 1 /\ OneEach(l)
        /\ Content(l) = Content(free) \union {b.slot}
    <3>1. b.slot \notin Content(free)
      BY <1>10
    <3>2. QED  BY <1>1, <1>10, <3>1, ConsKeeps
  <2>2. m \in Nat
    BY <1>1
  <2>3. slab' = WithFree(slab, p, l, m)
    BY <1>2
  <2> HIDE DEF l, m
  <2>4. /\ slab'[p].cache = slab[p].cache /\ slab'[p].num_free = m /\ slab'[p].free_list = l
        /\ \A x \in Page : x # p => slab'[x] = slab[x]
    BY <1>1, <1>3, <2>1, <2>2, <2>3, HeaderUpdate
  <2>5. m = n + 1
    BY DEF m
  <2>6. QED  BY <1>10, <2>1, <2>4, <2>5
<1>12. Headers'
  <2>1. HeldSlots(p)' = HeldSlots(p) \ {b.slot}
    BY <1>1, <1>6, <1>22, SlotsLess
  <2>2. Exact(c, p)'
    <3>1. Len(slab'[p].free_list) < Objects[c]
      BY <1>1, <1>2, <1>10, <1>11
    <3>2. Content(slab'[p].free_list) = (1 .. Objects[c]) \ HeldSlots(p)'
      BY <1>1, <1>10, <1>11, <2>1
    <3>3. QED  BY <1>11, <3>1, <3>2, ExactIs
  <2>3. ASSUME NEW d \in Cache, NEW x \in slabs[d], x # p PROVE Exact(d, x)'
    <3>1. x \in Page /\ Exact(d, x)
      BY <2>3 DEF IInv, Headers, TypeOK
    <3>2. \A y : y.page # p => (y \in Objs' <=> y \in Objs)
      BY <1>6, <1>22
    <3>3. QED  BY <1>11, <2>3, <3>1, <3>2, OtherHeaders
  <2>4. \A d \in Cache : p \in slabs[d] => d = c
    BY <1>1 DEF IInv, Layout
  <2>5. QED  BY <1>2, <2>2, <2>3, <2>4 DEF Headers
<1>13. ListsLinked'
  <2>1. slabs \in [Cache -> SUBSET Page] /\ lists \in Links
    BY TypesAre DEF IInv, MemoryTypes
  <2>2. \A d \in Cache : p \in slabs[d] => d = c
    BY <1>1 DEF IInv, Layout
  <2>3. slab'[p].num_free # 0
    BY <1>1, <1>11
  <2>4. CASE n = 0
    <3>1. Partial' = [Partial EXCEPT ![c] = @ \union {p}]
          /\ Full' = [Full EXCEPT ![c] = @ \ {p}]
      BY <1>1, <1>2, <1>11, <2>1, <2>2, <2>3, ListsAre
    <3>2. p \in Full[c]
      BY <1>1, <1>25, <2>4 DEF Full
    <3>3. InOrder(lists', [Partial EXCEPT ![c] = @ \union {p}], [Full EXCEPT ![c] = @ \ {p}])
      BY <1>1, <1>2, <2>1, <2>4, <3>2, MoveInOrder, PartialFullApart DEF IInv, ListsLinked
    <3>4. QED  BY <3>1, <3>3 DEF ListsLinked
  <2>5. CASE n # 0
    <3>1. Partial' = Partial /\ Full' = Full
      BY <1>2, <1>11, <1>25, <2>1, <2>3, <2>5 DEF Partial, Full
    <3>2. lists' = lists
      BY <1>2, <2>5
    <3>3. QED  BY <3>1, <3>2 DEF IInv, ListsLinked
  <2>6. QED  BY <2>4, <2>5
<1>14. QED  BY <1>4, <1>7, <1>8, <1>9, <1>12, <1>13 DEF Memory

(* A new slab: all objects but the one taken are free, and it is on the     *)
(* list that its count asks for.                                            *)
LEMMA InitSlabStep ==
    ASSUME IInv, NEW t \in Thread, InitSlab(t)
    PROVE  Holders' /\ Memory'
<1>21. PICK c : c = size[t]
  OBVIOUS
<1>22. PICK p : p = page[t]
  OBVIOUS
<1>23. PICK b : b = [page |-> p, slot |-> 1, size |-> c]
  OBVIOUS
<1>1. /\ c \in Cache /\ p \in Page /\ p # NULL /\ Growing = {p}
      /\ p \notin SlabPages /\ slab_lock = t /\ new[t] = NULL
      /\ \A a \in Runs : p \notin PagesOf(a)
      /\ b \in Block /\ b \notin Held
  BY <1>21, <1>22, <1>23, GrowIs DEF InitSlab
<1>2. /\ slab' = [slab EXCEPT ![p] = Header(c)]
      /\ magic' = [magic EXCEPT ![p] = TRUE]
      /\ lists' = add_slab_to_list(
                      lists, IF Objects[c] = 1 THEN "full" ELSE "partial", c, p)
      /\ num_slabs' = [num_slabs EXCEPT ![c] = @ + 1] /\ total_slabs' = total_slabs + 1
      /\ outstanding' = outstanding + 1
      /\ slabs' = [slabs EXCEPT ![c] = @ \union {p}]
      /\ Found(t, b) /\ pc[t] = "init_slab" /\ UNCHANGED heapVars
  BY <1>21, <1>22, <1>23 DEF InitSlab, CountSlab
<1>3. b.page = p /\ b.slot = 1 /\ b.size = c
  BY <1>23
<1>4. /\ slabs \in [Cache -> SUBSET Page] /\ magic \in [Page -> BOOLEAN]
      /\ slab \in [Page -> SlabHeader] /\ lists \in Links
      /\ page \in [Thread -> Page \union {NULL}]
      /\ Objects[c] \in Nat \ {0} /\ \A d \in Cache : p \notin slabs[d]
  BY <1>1, TypesAre, Constants DEF IInv, MemoryTypes, LocalTypes, SlabPages
<1>5. Holders' /\ Held' = Held \union {b}
  BY <1>1, <1>2, HeldFound DEF IInv
<1>6. Growing' = {}
  <2>1. \A u \in Thread : page[u] # NULL => u = t
    BY <1>1 DEF IInv, Locals, Local, SlabLockHeldToGrow
  <2>2. QED  BY <1>2, <1>4, <2>1 DEF Growing, Found
<1>7. Runs' = Runs /\ Objs' = Objs \union {b} /\ b \notin Objs
  <2>1. \A x : x \in Runs' <=> x \in Runs
    BY <1>3, <1>5, HeldTyped, RunsIs
  <2>2. \A x : x \in Objs' <=> x \in Objs \union {b}
    BY <1>3, <1>5, HeldTyped, RunsIs
  <2>3. QED  BY <1>1, <2>1, <2>2, HeldTyped
<1>8. /\ SlabPages' = SlabPages \union {p}
      /\ \A d \in Cache : slabs'[d] = IF d = c THEN slabs[c] \union {p} ELSE slabs[d]
  <2>1. \A d \in Cache : slabs'[d] = IF d = c THEN slabs[c] \union {p} ELSE slabs[d]
    BY <1>2, <1>4
  <2>2. \A x : x \in SlabPages' <=> x \in SlabPages \union {p}
    BY <1>1, <2>1 DEF SlabPages
  <2>3. QED  BY <2>1, <2>2
<1>9. Layout'
  <2>1. \A x : PagesOf(x)' = PagesOf(x)
    BY DEF PagesOf
  <2>2. \A a \in Runs : /\ a.size > Len(Objects) /\ PagesOf(a) \subseteq Page
                        /\ PagesOf(a) \intersect (SlabPages' \union Growing') = {}
    BY <1>1, <1>6, <1>8 DEF IInv, Layout
  <2>3. \A a \in Objs' : /\ a.size \in Cache /\ a.page \in slabs'[a.size]
                         /\ a.slot \in 1 .. Objects[a.size]
    BY <1>1, <1>3, <1>4, <1>7, <1>8 DEF IInv, Layout
  <2>4. \A d, e \in Cache : d # e => slabs'[d] \intersect slabs'[e] = {}
    BY <1>4, <1>8 DEF IInv, Layout
  <2>5. QED  BY <1>6, <1>7, <2>1, <2>2, <2>3, <2>4 DEF IInv, Layout
<1>10. Accounted'
  <2>1. SlabPages' \union Growing' = SlabPages \union Growing
    BY <1>1, <1>6, <1>8
  <2>2. QED  BY <1>2, <1>7, <2>1 DEF IInv, Accounted, heapVars, PagesOf
<1>11. slab'[p] = Header(c) /\ \A x \in Page : x # p => slab'[x] = slab[x]
  BY <1>1, <1>2, <1>4
<1>12. Headers'
  <2>1. Exact(c, p)'
    <3>1. HeldSlots(p)' = {1}
      <4>1. HeldSlots(p)' = HeldSlots(p) \union {1}
        BY <1>3, <1>7, SlotsMore
      <4>2. \A a \in Objs : a.page # p
        BY <1>4 DEF IInv, Layout
      <4>3. HeldSlots(p) = {}
        BY <4>2, SlotsIs
      <4>4. QED  BY <4>1, <4>3
    <3> DEFINE N == Objects[c]
               l == [i \in 1 .. N - 1 |-> i + 1]
    <3>2. slab'[p].cache = c /\ slab'[p].num_free = N - 1 /\ slab'[p].free_list = l
      BY <1>11 DEF Header
    <3>3. N \in Nat \ {0}
      BY <1>4
    <3> HIDE DEF N
    <3>4. Len(l) = N - 1 /\ DOMAIN l = 1 .. N - 1
      <4>1. N - 1 \in Nat
        BY <3>3
      <4>2. l \in Seq(Nat)
        BY <3>3, <4>1, IsASeq
      <4>3. DOMAIN l = 1 .. N - 1
        OBVIOUS
      <4> HIDE DEF l
      <4>4. Len(l) \in Nat /\ DOMAIN l = 1 .. Len(l)
        BY <4>2, LenProperties
      <4>5. Len(l) = N - 1
        BY <4>1, <4>3, <4>4
      <4>6. QED  BY <4>3, <4>5
    <3>5. OneEach(l)
      BY <3>3, <3>4 DEF OneEach
    <3>6. Content(l) = (1 .. N) \ {1}
      <4>1. \A x \in 2 .. N : x - 1 \in 1 .. N - 1 /\ l[x - 1] = x
        BY <3>3
      <4>2. \A x \in 2 .. N : x \in Content(l)
        BY <3>4, <4>1 DEF Content
      <4>3. \A x \in Content(l) : x \in 2 .. N
        BY <3>3, <3>4 DEF Content
      <4>4. (1 .. N) \ {1} = 2 .. N
        BY <3>3
      <4>5. QED  BY <4>2, <4>3, <4>4
    <3> HIDE DEF l
    <3>7. N - 1 < N
      BY <3>3
    <3>8. QED  BY <3>1, <3>2, <3>4, <3>5, <3>6, <3>7, ExactIs DEF N
  <2>2. ASSUME NEW d \in Cache, NEW x \in slabs[d] PROVE Exact(d, x)'
    <3>1. x \in Page /\ x # p /\ Exact(d, x)
      BY <1>4 DEF IInv, Headers
    <3>2. \A y : y.page # p => (y \in Objs' <=> y \in Objs)
      BY <1>3, <1>7
    <3>3. QED  BY <1>11, <3>1, <3>2, OtherHeaders
  <2>3. QED  BY <1>1, <1>8, <2>1, <2>2 DEF Headers
<1>13. ListsLinked'
  <2>1. Apart(Partial, Full) /\ InOrder(lists, Partial, Full)
    BY PartialFullApart DEF IInv, ListsLinked
  <2>2. \A d \in Cache : p \notin Partial[d] \union Full[d]
    BY <1>4 DEF Partial, Full
  <2>3. slab'[p].num_free = Objects[c] - 1
    BY <1>11 DEF Header
  <2>4. \A d \in Cache : /\ Partial'[d] = {x \in slabs'[d] : slab'[x].num_free # 0}
                         /\ Full'[d] = {x \in slabs'[d] : slab'[x].num_free = 0}
                         /\ Partial[d] = {x \in slabs[d] : slab[x].num_free # 0}
                         /\ Full[d] = {x \in slabs[d] : slab[x].num_free = 0}
    BY DEF Partial, Full
  <2>5. \A d \in Cache : \A x \in slabs[d] : slab'[x] = slab[x]
    BY <1>4, <1>11
  <2>6. ASSUME NEW d \in Cache, d # c PROVE Partial'[d] = Partial[d] /\ Full'[d] = Full[d]
    <3>1. {x \in slabs[d] : slab'[x].num_free # 0} = {x \in slabs[d] : slab[x].num_free # 0}
      BY <2>5
    <3>2. {x \in slabs[d] : slab'[x].num_free = 0} = {x \in slabs[d] : slab[x].num_free = 0}
      BY <2>5
    <3>3. QED  BY <1>8, <2>4, <2>6, <3>1, <3>2
  <2>7. /\ Partial = [d \in Cache |-> Partial[d]] /\ Full = [d \in Cache |-> Full[d]]
        /\ Partial' = [d \in Cache |-> Partial'[d]] /\ Full' = [d \in Cache |-> Full'[d]]
    BY DEF Partial, Full
  <2>8. slabs'[c] = slabs[c] \union {p} /\ \A x \in slabs[c] : slab'[x] = slab[x]
    BY <1>1, <1>8, <2>5
  <2>9. CASE Objects[c] = 1
    <3>1. slab'[p].num_free = 0
      BY <2>3, <2>9
    <3>2. Partial'[c] = Partial[c] /\ Full'[c] = Full[c] \union {p}
      <4>1. \A x : x \in Partial'[c] <=> x \in Partial[c]
        BY <1>1, <2>4, <2>8, <3>1
      <4>2. \A x : x \in Full'[c] <=> x \in Full[c] \union {p}
        BY <1>1, <2>4, <2>8, <3>1
      <4>3. QED  BY <4>1, <4>2
    <3>3. Partial' = Partial /\ Full' = [Full EXCEPT ![c] = @ \union {p}]
      BY <2>6, <2>7, <3>2
    <3>4. InOrder(lists', Partial, [Full EXCEPT ![c] = @ \union {p}])
      BY <1>1, <1>2, <1>4, <2>1, <2>2, <2>9, AddInOrder
    <3>5. QED  BY <3>3, <3>4 DEF ListsLinked
  <2>10. CASE Objects[c] # 1
    <3>1. slab'[p].num_free # 0
      BY <1>4, <2>3, <2>10
    <3>2. Partial'[c] = Partial[c] \union {p} /\ Full'[c] = Full[c]
      <4>1. \A x : x \in Partial'[c] <=> x \in Partial[c] \union {p}
        BY <1>1, <2>4, <2>8, <3>1
      <4>2. \A x : x \in Full'[c] <=> x \in Full[c]
        BY <1>1, <2>4, <2>8, <3>1
      <4>3. QED  BY <4>1, <4>2
    <3>3. Partial' = [Partial EXCEPT ![c] = @ \union {p}] /\ Full' = Full
      BY <2>6, <2>7, <3>2
    <3>4. InOrder(lists', [Partial EXCEPT ![c] = @ \union {p}], Full)
      BY <1>1, <1>2, <1>4, <2>1, <2>2, <2>10, AddInOrder
    <3>5. QED  BY <3>3, <3>4 DEF ListsLinked
  <2>11. QED  BY <2>9, <2>10
<1>14. Marked'
  BY <1>1, <1>2, <1>4, <1>8 DEF IInv, Marked, SlabPages
<1>15. Counted'
  <2>1. SlabsCounted'
    BY <1>1, <1>2, <1>8, SlabCounted
  <2>2. QED  BY <1>2, <1>7, <2>1, ObjectCounted
<1>16. QED  BY <1>5, <1>9, <1>10, <1>12, <1>13, <1>14, <1>15 DEF Memory

(* A free list with all objects but one leaves no room for two.             *)
LEMMA AllButOne ==
    ASSUME NEW N \in Nat \ {0}, NEW n \in Nat, n + 1 = N,
           NEW S, NEW l \in Seq(S), Len(l) = n, OneEach(l), Content(l) \subseteq 1 .. N,
           NEW x \in 1 .. N, NEW y \in 1 .. N, x \notin Content(l), y \notin Content(l)
    PROVE  x = y
<1>1. SUFFICES ASSUME x # y PROVE FALSE
  OBVIOUS
<1> DEFINE I == 1 .. n
           T == ((1 .. N) \ {x}) \ {y}
<1>2. IsFiniteSet(1 .. N) /\ Cardinality(1 .. N) = N
  <2>1. 1 \in Int /\ N \in Int
    OBVIOUS
  <2>2. QED  BY <2>1, FS_Interval
<1>3. IsFiniteSet((1 .. N) \ {x}) /\ Cardinality((1 .. N) \ {x}) = N - 1
  BY <1>2, FS_RemoveElement
<1>4. IsFiniteSet(T) /\ Cardinality(T) = (N - 1) - 1
  <2>1. y \in (1 .. N) \ {x}
    BY <1>1
  <2>2. PICK U : U = (1 .. N) \ {x}
    OBVIOUS
  <2>3. IsFiniteSet(U) /\ Cardinality(U) = N - 1 /\ y \in U
    BY <1>3, <2>1, <2>2
  <2>4. IsFiniteSet(U \ {y}) /\ Cardinality(U \ {y}) = Cardinality(U) - 1
    BY <2>3, FS_RemoveElement
  <2>5. QED  BY <2>2, <2>3, <2>4
<1>5. IsFiniteSet(I) /\ Cardinality(I) = n
  <2>1. 1 \in Int /\ n \in Int
    OBVIOUS
  <2>2. QED  BY <2>1, FS_Interval
<1>6. DOMAIN l = I /\ l = [i \in DOMAIN l |-> l[i]]
  BY LenProperties
<1>7. l \in [I -> T]
  <2>1. \A i \in I : l[i] \in T
    BY <1>6 DEF Content
  <2> HIDE DEF I, T
  <2>2. QED  BY <1>6, <2>1
<1>8. Cardinality(T) < Cardinality(I)
  BY <1>4, <1>5
<1> HIDE DEF I, T
<1>9. \E i, j \in I : i # j /\ l[i] = l[j]
  BY <1>4, <1>5, <1>7, <1>8, FS_PigeonHole
<1>10. QED  BY <1>6, <1>9 DEF OneEach

(* The last object in use of a slab is the only one held of its page.       *)
LEMMA LastIs ==
    ASSUME IInv, NEW b \in Objs, NEW p, b.page = p, NEW c \in Cache, p \in slabs[c],
           slab[p].num_free + 1 = Objects[c]
    PROVE  \A a \in Objs : a.page = p => a = b
<1>1. SUFFICES ASSUME NEW a \in Objs, a.page = p PROVE a = b
  OBVIOUS
<1>2. a \in Block /\ b \in Block /\ p \in Page
  BY HeldTyped DEF IInv, Block
<1>3. a.size = c /\ b.size = c /\ a.slot \in 1 .. Objects[c] /\ b.slot \in 1 .. Objects[c]
  BY <1>1 DEF IInv, Layout
<1>4. PICK free : free = slab[p].free_list
  OBVIOUS
<1>5. /\ Len(free) + 1 = Objects[c] /\ OneEach(free)
      /\ Content(free) = (1 .. Objects[c]) \ HeldSlots(p)
  <2>1. Exact(c, p)
    BY DEF IInv, Headers
  <2>2. QED  BY <1>4, <2>1, ExactIs
<1>6. a.slot \in HeldSlots(p) /\ b.slot \in HeldSlots(p)
  BY <1>1, SlotsIs
<1>7. free \in Seq(Slot) /\ Len(free) \in Nat /\ Objects[c] \in Nat \ {0}
  <2>1. free \in Seq(Slot)
    BY <1>2, <1>4 DEF IInv, TypeOK
  <2>2. QED  BY <2>1, LenProperties, Constants
<1>8. PICK x, y : x = a.slot /\ y = b.slot
  OBVIOUS
<1>9. /\ Content(free) \subseteq 1 .. Objects[c]
      /\ x \in 1 .. Objects[c] /\ y \in 1 .. Objects[c]
      /\ x \notin Content(free) /\ y \notin Content(free)
  BY <1>3, <1>5, <1>6, <1>8
<1>10. x = y
  <2>1. PICK N, n : N = Objects[c] /\ n = Len(free)
    OBVIOUS
  <2>2. N \in Nat \ {0} /\ n \in Nat /\ n + 1 = N
    BY <1>5, <1>7, <2>1
  <2>3. x \in 1 .. N /\ y \in 1 .. N /\ Content(free) \subseteq 1 .. N
    BY <1>9, <2>1
  <2>4. QED  BY <1>5, <1>7, <1>9, <2>1, <2>2, <2>3, AllButOne
<1>11. a.page = b.page /\ a.slot = b.slot /\ a.size = b.size
  BY <1>1, <1>3, <1>8, <1>10
<1>12. QED  BY <1>2, <1>11 DEF Block

(* kmem_free of the last object: the slab leaves its list and its page is a *)
(* run of the thread that frees it.                                         *)
LEMMA EmptySlabStep ==
    ASSUME IInv, NEW t \in Thread, EmptySlab(t)
    PROVE  Holders' /\ Memory'
<1>21. PICK b : b = old[t]
  OBVIOUS
<1>22. PICK p : p = b.page
  OBVIOUS
<1>23. PICK c : c = slab[p].cache
  OBVIOUS
<1>24. PICK r : r = [page |-> p, slot |-> 0, size |-> Len(Objects) + 1]
  OBVIOUS
<1>1. /\ b \in Objs /\ b \in Block /\ b \in Held /\ b # NULL /\ b.slot # 0
      /\ b.size = c /\ c \in Cache /\ p \in Page /\ p \in slabs[c]
      /\ b.slot \in Slot /\ slab[p].free_list \in Seq(Slot) /\ slab[p].num_free \in Nat
      /\ slab[p].num_free + 1 = Objects[c]
  BY <1>21, <1>22, <1>23, FreeIs DEF EmptySlab, Block, LastInUse
<1>2. /\ slab' = WithFree(slab, p, Before(b.slot, slab[p].free_list), slab[p].num_free + 1)
      /\ lists' = remove_slab_from_list(
                      lists, IF Objects[c] = 1 THEN "full" ELSE "partial", c, p)
      /\ num_slabs' = [num_slabs EXCEPT ![c] = @ + -1] /\ total_slabs' = total_slabs + -1
      /\ slabs' = [slabs EXCEPT ![c] = @ \ {p}]
      /\ magic' = [magic EXCEPT ![p] = FALSE]
      /\ outstanding' = outstanding - 1
      /\ old' = [old EXCEPT ![t] = r]
      /\ UNCHANGED <<heapVars, page, new, live>>
  BY <1>21, <1>22, <1>23, <1>24 DEF EmptySlab, Empty, CountSlab, WithFree, Before
<1>3. /\ slabs \in [Cache -> SUBSET Page] /\ magic \in [Page -> BOOLEAN]
      /\ slab \in [Page -> SlabHeader] /\ lists \in Links
      /\ Objects[c] \in Nat \ {0} /\ \A d \in Cache : p \in slabs[d] => d = c
      /\ p \in SlabPages /\ SlabPages \subseteq Page
  BY <1>1, TypesAre, Constants DEF IInv, MemoryTypes, SlabPages, Layout
<1>4. /\ r.page = p /\ r.slot = 0 /\ r.size = Len(Objects) + 1 /\ r \in Block
      /\ r.size - Len(Objects) = 1 /\ r.size > Len(Objects)
  BY <1>1, <1>24, Constants DEF Block, Size
<1>5. PagesOf(r) = {p}
  <2>1. PagesOf(r) = p .. p + (Len(Objects) + 1) - Len(Objects) - 1
    BY <1>4 DEF PagesOf
  <2>2. QED  BY <1>1, <2>1, Constants
<1>6. r \notin Held
  <2>1. SUFFICES ASSUME r \in Runs PROVE FALSE
    BY <1>4, HeldTyped
  <2>2. QED  BY <1>3, <1>5, <2>1 DEF IInv, Layout
<1>7. Holders' /\ Held' = (Held \ {b}) \union {r}
  BY <1>1, <1>2, <1>4, <1>6, <1>21, HeldReplaced DEF IInv
<1>8. Growing' = Growing
  BY <1>2, GrowingSame
<1>9. Runs' = Runs \union {r} /\ Objs' = Objs \ {b} /\ r \notin Runs
  <2>1. \A x : x \in Runs' <=> x \in Runs \union {r}
    BY <1>1, <1>4, <1>7, HeldTyped, RunsIs
  <2>2. \A x : x \in Objs' <=> x \in Objs \ {b}
    BY <1>1, <1>4, <1>7, HeldTyped, RunsIs
  <2>3. QED  BY <1>6, <2>1, <2>2, HeldTyped
<1>10. \A a \in Objs' : a \in Objs /\ a.page # p
  BY <1>1, <1>9, <1>22, LastIs
<1>11. /\ SlabPages' = SlabPages \ {p}
       /\ \A d \in Cache : slabs'[d] = IF d = c THEN slabs[c] \ {p} ELSE slabs[d]
  <2>1. \A d \in Cache : slabs'[d] = IF d = c THEN slabs[c] \ {p} ELSE slabs[d]
    BY <1>2, <1>3
  <2>2. \A x : x \in SlabPages' <=> x \in SlabPages \ {p}
    BY <1>1, <1>3, <2>1 DEF SlabPages
  <2>3. QED  BY <2>1, <2>2
<1>12. /\ \A a \in Runs : PagesOf(a) \intersect {p} = {} /\ a.page \in Page /\ a.page # p
       /\ p \notin Growing
  <2>1. p \notin Growing /\ \A a \in Runs : PagesOf(a) \intersect {p} = {}
    BY <1>3 DEF IInv, Layout
  <2>2. \A a \in Runs : a.page \in PagesOf(a) /\ a.page \in Page
    BY RunHasFirst DEF IInv
  <2>3. QED  BY <2>1, <2>2
<1>13. Layout'
  <2>1. \A x : PagesOf(x)' = PagesOf(x)
    BY DEF PagesOf
  <2>2. \A a, e \in Runs' : a # e => PagesOf(a) \intersect PagesOf(e) = {}
    BY <1>5, <1>9, <1>12 DEF IInv, Layout
  <2>3. \A a \in Runs' : /\ a.size > Len(Objects) /\ PagesOf(a) \subseteq Page
                         /\ PagesOf(a) \intersect (SlabPages' \union Growing') = {}
    BY <1>1, <1>4, <1>5, <1>8, <1>9, <1>11, <1>12 DEF IInv, Layout
  <2>4. \A a \in Objs' : /\ a.size \in Cache /\ a.page \in slabs'[a.size]
                         /\ a.slot \in 1 .. Objects[a.size]
    BY <1>10, <1>11 DEF IInv, Layout
  <2>5. \A d, e \in Cache : d # e => slabs'[d] \intersect slabs'[e] = {}
    BY <1>11 DEF IInv, Layout
  <2>6. Growing' \intersect SlabPages' = {}
    BY <1>8, <1>11 DEF IInv, Layout
  <2>7. QED  BY <2>1, <2>2, <2>3, <2>4, <2>5, <2>6 DEF Layout
<1>14. Accounted'
  <2>1. bitmap' = SlabPages' \union Growing' \union UNION {PagesOf(a) : a \in Runs'}
    <3>1. UNION {PagesOf(a) : a \in Runs'} = (UNION {PagesOf(a) : a \in Runs}) \union {p}
      BY <1>5, <1>9
    <3>2. bitmap' = SlabPages \union Growing \union UNION {PagesOf(a) : a \in Runs}
      BY <1>2 DEF IInv, Accounted, heapVars
    <3>3. QED  BY <1>3, <1>8, <1>11, <3>1, <3>2
  <2>2. page_alloc_count' = page_alloc_count /\ page_alloc_count[p] = 1
    BY <1>2, <1>3 DEF IInv, Accounted, heapVars
  <2>3. \A a \in Runs' : page_alloc_count'[a.page] = a.size - Len(Objects)
    BY <1>4, <1>9, <2>2 DEF IInv, Accounted
  <2>4. \A x \in SlabPages' \union Growing' : page_alloc_count'[x] = 1
    BY <1>8, <1>11, <2>2 DEF IInv, Accounted
  <2>5. \A x \in Page : x \notin SlabPages' \union Growing' \union {a.page : a \in Runs'} =>
            page_alloc_count'[x] = 0
    BY <1>4, <1>8, <1>9, <1>11, <2>2 DEF IInv, Accounted
  <2>6. QED  BY <2>1, <2>3, <2>4, <2>5 DEF Accounted, PagesOf
<1>15. \A x \in Page : x # p => slab'[x] = slab[x]
  <2> DEFINE l == Before(b.slot, slab[p].free_list)
             n == slab[p].num_free + 1
  <2>1. l \in Seq(Slot) /\ n \in Nat
    BY <1>1, ConcatProperties DEF Before
  <2>2. slab' = WithFree(slab, p, l, n)
    BY <1>2
  <2> HIDE DEF l, n
  <2>3. QED  BY <1>1, <1>3, <2>1, <2>2, HeaderUpdate
<1>16. Headers'
  <2>1. ASSUME NEW d \in Cache, NEW x \in slabs'[d] PROVE Exact(d, x)'
    <3>1. x \in Page /\ x # p /\ x \in slabs[d]
      BY <1>3, <1>11, <2>1
    <3>2. Exact(d, x)
      BY <3>1 DEF IInv, Headers
    <3>3. \A y : y.page # p => (y \in Objs' <=> y \in Objs)
      BY <1>9, <1>22
    <3>4. QED  BY <1>15, <3>1, <3>2, <3>3, OtherHeaders
  <2>2. QED  BY <2>1 DEF Headers
<1>17. ListsLinked'
  <2>1. Apart(Partial, Full) /\ InOrder(lists, Partial, Full)
    BY PartialFullApart DEF IInv, ListsLinked
  <2>2. \A d \in Cache : /\ Partial'[d] = {x \in slabs'[d] : slab'[x].num_free # 0}
                         /\ Full'[d] = {x \in slabs'[d] : slab'[x].num_free = 0}
                         /\ Partial[d] = {x \in slabs[d] : slab[x].num_free # 0}
                         /\ Full[d] = {x \in slabs[d] : slab[x].num_free = 0}
    BY DEF Partial, Full
  <2>3. \A d \in Cache : \A x \in slabs'[d] : slab'[x] = slab[x]
    BY <1>3, <1>11, <1>15
  <2>4. ASSUME NEW d \in Cache PROVE Partial'[d] = Partial[d] \ {p} /\ Full'[d] = Full[d] \ {p}
    <3>1. slabs'[d] = slabs[d] \ {p}
      BY <1>3, <1>11
    <3>2. {x \in slabs[d] \ {p} : slab'[x].num_free # 0}
              = {x \in slabs[d] : slab[x].num_free # 0} \ {p}
      BY <2>3, <3>1
    <3>3. {x \in slabs[d] \ {p} : slab'[x].num_free = 0}
              = {x \in slabs[d] : slab[x].num_free = 0} \ {p}
      BY <2>3, <3>1
    <3>4. QED  BY <2>2, <3>1, <3>2, <3>3
  <2>5. /\ Partial = [d \in Cache |-> Partial[d]] /\ Full = [d \in Cache |-> Full[d]]
        /\ Partial' = [d \in Cache |-> Partial'[d]] /\ Full' = [d \in Cache |-> Full'[d]]
    BY DEF Partial, Full
  <2>6. \A d \in Cache : d # c => p \notin Partial[d] /\ p \notin Full[d]
    BY <1>3, <2>2
  <2>7. CASE Objects[c] = 1
    <3>1. slab[p].num_free = 0
      BY <1>1, <2>7
    <3>2. p \in Full[c] /\ p \notin Partial[c]
      BY <1>1, <2>2, <3>1
    <3>3. Partial' = Partial /\ Full' = [Full EXCEPT ![c] = @ \ {p}]
      <4>1. ASSUME NEW d \in Cache PROVE Partial'[d] = Partial[d]
        <5>1. Partial'[d] = Partial[d] \ {p}
          BY <2>4
        <5>2. p \notin Partial[d]
          BY <2>6, <3>2
        <5>3. QED  BY <5>1, <5>2
      <4>2. \A d \in Cache : Full'[d] = IF d = c THEN Full[c] \ {p} ELSE Full[d]
        BY <2>4, <2>6
      <4>3. QED  BY <2>5, <4>1, <4>2
    <3>4. InOrder(lists', Partial, [Full EXCEPT ![c] = @ \ {p}])
      BY <1>1, <1>2, <1>3, <2>1, <2>7, <3>2, RemoveInOrder
    <3>5. QED  BY <3>3, <3>4 DEF ListsLinked
  <2>8. CASE Objects[c] # 1
    <3>1. slab[p].num_free # 0
      BY <1>1, <2>8
    <3>2. p \in Partial[c] /\ p \notin Full[c]
      BY <1>1, <2>2, <3>1
    <3>3. Full' = Full /\ Partial' = [Partial EXCEPT ![c] = @ \ {p}]
      <4>1. ASSUME NEW d \in Cache PROVE Full'[d] = Full[d]
        <5>1. Full'[d] = Full[d] \ {p}
          BY <2>4
        <5>2. p \notin Full[d]
          BY <2>6, <3>2
        <5>3. QED  BY <5>1, <5>2
      <4>2. \A d \in Cache : Partial'[d] = IF d = c THEN Partial[c] \ {p} ELSE Partial[d]
        BY <2>4, <2>6
      <4>3. QED  BY <2>5, <4>1, <4>2
    <3>4. InOrder(lists', [Partial EXCEPT ![c] = @ \ {p}], Full)
      BY <1>1, <1>2, <1>3, <2>1, <2>8, <3>2, RemoveInOrder
    <3>5. QED  BY <3>3, <3>4 DEF ListsLinked
  <2>9. QED  BY <2>7, <2>8
<1>18. Marked'
  BY <1>2, <1>3, <1>11 DEF IInv, Marked
<1>19. Counted'
  <2>1. SlabsCounted'
    BY <1>1, <1>2, <1>11, SlabCounted
  <2>2. QED  BY <1>1, <1>2, <1>9, <2>1, ObjectCounted
<1>20. QED  BY <1>7, <1>13, <1>14, <1>16, <1>17, <1>18, <1>19 DEF Memory

-----------------------------------------------------------------------------
(* Every step keeps the holders and the memory accounted for.               *)
LEMMA MemoryStep == IInv /\ [Next]_vars => Holders' /\ Memory'
<1> SUFFICES ASSUME IInv, [Next]_vars PROVE Holders' /\ Memory'
  OBVIOUS
<1>0. TypeOK /\ Holders /\ Layout /\ Marked /\ Locals
  BY DEF IInv
<1>1. ASSUME NEW t \in Thread, NEW s \in Size, kmalloc(t, s) PROVE Holders' /\ Memory'
  <2>1. UNCHANGED <<heapVars, magic, slabVars, page, old, new, live>>
    BY <1>1 DEF kmalloc
  <2>2. Holders' /\ Held' = Held
    BY <1>0, <2>1, HeldSame
  <2>3. QED  BY <2>1, <2>2, QuietStep, GrowingSame
<1>2. ASSUME NEW t \in Thread, NEW b \in live,
             pc[t] = "idle", old' = [old EXCEPT ![t] = b], live' = live \ {b},
             UNCHANGED <<heapVars, magic, slabVars, page, new>>
      PROVE  Holders' /\ Memory'
  <2>1. old[t] = NULL
    BY <1>0, <1>2 DEF Locals, Local
  <2>2. Holders' /\ Held' = Held
    BY <1>0, <1>2, <2>1, HeldTaken
  <2>3. QED  BY <1>2, <2>2, QuietStep, GrowingSame
<1>3. ASSUME NEW t \in Thread, NEW b \in live, NEW s \in Size, krealloc(t, b, s)
      PROVE  Holders' /\ Memory'
  <2>1. /\ pc[t] = "idle" /\ old' = [old EXCEPT ![t] = b] /\ live' = live \ {b}
        /\ UNCHANGED <<heapVars, magic, slabVars, page, new>>
    BY <1>3 DEF krealloc
  <2>2. QED  BY <1>2, <2>1
<1>4. ASSUME NEW t \in Thread, NEW b \in live, kmem_free_auto(t, b)
      PROVE  Holders' /\ Memory'
  <2>1. /\ pc[t] = "idle" /\ old' = [old EXCEPT ![t] = b] /\ live' = live \ {b}
        /\ UNCHANGED <<heapVars, magic, slabVars, page, new>>
    BY <1>4 DEF kmem_free_auto
  <2>2. QED  BY <1>2, <2>1
<1>5. ASSUME NEW t \in Thread, NeedSlab(t) \/ NoSlabPage(t) PROVE Holders' /\ Memory'
  <2>1. UNCHANGED <<heapVars, magic, slabVars, page, old, new, live>>
    BY <1>5 DEF NeedSlab, NoSlabPage
  <2>2. Holders' /\ Held' = Held
    BY <1>0, <2>1, HeldSame
  <2>3. QED  BY <2>1, <2>2, QuietStep, GrowingSame
<1>6. ASSUME NEW t \in Thread, OutOfMemory(t) PROVE Holders' /\ Memory'
  <2>1. Failed(t) /\ UNCHANGED <<heapVars, magic, slabVars, page>>
    BY <1>6 DEF OutOfMemory, Failed
  <2>2. Holders' /\ Held' = Held
    BY <1>0, <2>1, HeldFailed
  <2>3. QED  BY <2>1, <2>2, QuietStep, GrowingSame
<1>7. ASSUME NEW b \in Held, NEW p \in SlabPages, b.slot = 0 PROVE p \notin PagesOf(b)
  <2>1. b \in Runs
    BY <1>7, HeldTyped
  <2>2. QED  BY <1>0, <2>1 DEF Layout
<1>8. SlabPages \subseteq Page
  BY <1>0 DEF TypeOK, SlabPages
<1>9. ASSUME NEW t \in Thread, Memset(t) PROVE Holders' /\ Memory'
  <2>0. PICK end :
            magic' = [p \in Page |->
                         magic[p] /\ ~(new[t].slot = 0 /\ p \in PagesOf(new[t]) /\ p < end)]
    BY <1>9 DEF Memset
  <2>1. pc[t] = "memset" /\ Freed(t) /\ UNCHANGED <<heapVars, slabVars, page>>
    BY <1>9 DEF Memset
  <2>2. old[t] = NULL /\ new[t] \in Held
    BY <1>0, <2>1, HeldIs DEF Locals, Local
  <2>3. Holders' /\ Held' = Held
    <3>1. Holders' /\ Held' = Held \ {NULL} /\ NULL \notin Held
      BY <1>0, <2>1, <2>2, HeldFreed, HeldTyped
    <3>2. QED  BY <3>1
  <2>4. \A p \in SlabPages : magic'[p] = magic[p]
    <3>1. SUFFICES ASSUME NEW p \in SlabPages PROVE magic'[p] = magic[p]
      OBVIOUS
    <3>2. ~(new[t].slot = 0 /\ p \in PagesOf(new[t])) /\ p \in Page
      BY <1>7, <1>8, <2>2
    <3>3. magic'[p] = (magic[p] /\ ~(new[t].slot = 0 /\ p \in PagesOf(new[t]) /\ p < end))
      BY <2>0, <3>2, Zenon
    <3>4. magic[p] = TRUE
      BY <1>0 DEF Marked
    <3>5. QED  BY <3>2, <3>3, <3>4, Zenon
  <2>5. QED  BY <2>1, <2>3, <2>4, QuietStep, GrowingSame
<1>10. ASSUME NEW t \in Thread, FreeReplaced(t) PROVE Holders' /\ Memory'
  <2>1. UNCHANGED <<heapVars, slabVars, page, old, new, live>> /\ pc[t] = "copy"
    BY <1>10 DEF FreeReplaced
  <2>2. Holders' /\ Held' = Held
    BY <1>0, <2>1, HeldSame
  <2>3. new[t] \in Held
    BY <1>0, <2>1, HeldIs DEF Locals, Local
  <2>4. \A p \in SlabPages : magic'[p] = magic[p]
    BY <1>7, <1>8, <1>10, <2>3, CopyIs
  <2>5. QED  BY <2>1, <2>2, <2>4, QuietStep, GrowingSame
<1>11. ASSUME NEW b \in live, NEW p \in Page, Scribble(b, p) PROVE Holders' /\ Memory'
  <2>1. /\ UNCHANGED <<heapVars, slabVars, page, old, new, live>>
        /\ b.slot = 0 /\ p \in PagesOf(b) /\ magic' = [magic EXCEPT ![p] = ~@]
    BY <1>11 DEF Scribble
  <2>2. Holders' /\ Held' = Held
    BY <1>0, <2>1, HeldSame
  <2>3. p \notin SlabPages
    BY <1>0, <1>7, <2>1, HeldTyped
  <2>4. \A x \in SlabPages : magic'[x] = magic[x]
    BY <1>0, <1>8, <2>1, <2>3 DEF TypeOK
  <2>5. QED  BY <2>1, <2>2, <2>4, QuietStep, GrowingSame
<1>12. ASSUME UNCHANGED vars PROVE Holders' /\ Memory'
  <2>1. UNCHANGED <<heapVars, magic, slabVars, page, old, new, live>>
    BY <1>12 DEF vars
  <2>2. Holders' /\ Held' = Held
    BY <1>0, <2>1, HeldSame
  <2>3. QED  BY <2>1, <2>2, QuietStep, GrowingSame
<1>13. QED
  BY <1>1, <1>3, <1>4, <1>5, <1>6, <1>9, <1>10, <1>11, <1>12, StepKinds, NewSlabPageStep,
     GetPagesStep, FreePagesStep, TakeObjectStep, ReturnObjectStep, InitSlabStep, EmptySlabStep
     DEF Acts, Step

(* The heap starts with every page free and no slab.                        *)
LEMMA InitialInv == Init => IInv
<1> SUFFICES ASSUME Init PROVE IInv
  OBVIOUS
<1>1. TypeOK
  <2>1. NoSlab \in [cache : Cache \union {NULL}, num_free : Nat, free_list : Seq(Slot)]
    <3>1. << >> \in Seq(Slot)
      BY EmptySeq
    <3>2. QED  BY <3>1 DEF NoSlab
  <2>2. lists \in Links
    BY DEF Init, Links
  <2>3. QED  BY <2>1, <2>2 DEF Init, TypeOK
<1>2. /\ Held = {} /\ Runs = {} /\ Objs = {} /\ Growing = {} /\ SlabPages = {}
      /\ \A c \in Cache : slabs[c] = {}
  <2>1. Held = {}
    BY DEF Init, Held
  <2>2. Growing = {}
    BY DEF Init, Growing
  <2>3. SlabPages = {} /\ \A c \in Cache : slabs[c] = {}
    BY DEF Init, SlabPages
  <2>4. QED  BY <2>1, <2>2, <2>3 DEF Runs, Objs
<1>3. Locals /\ Grows
  BY Constants DEF Init, Locals, Local, SlabLockHeldToGrow, Grows, GrowsOf
<1>4. Holders
  BY DEF Init, Holders
<1>5. Layout
  BY <1>2 DEF Layout
<1>6. Accounted
  BY <1>2 DEF Init, Accounted
<1>7. Headers
  BY <1>2 DEF Headers
<1>8. ListsLinked
  <2>1. \A c \in Cache : Partial[c] = {} /\ Full[c] = {}
    BY <1>2 DEF Partial, Full
  <2>2. \A c \in Cache : lists.partial[c] = NULL /\ lists.full[c] = NULL
    BY DEF Init
  <2>3. AllLinked(lists, Partial, Full)
    BY <2>1, <2>2 DEF AllLinked, Linked
  <2>4. Ranked(lists.next, Partial, Full)
    <3>1. [p \in Page |-> 0] \in [Page -> 0 .. 0]
      OBVIOUS
    <3>2. \A c \in Cache : Partial[c] \union Full[c] = {}
      BY <2>1
    <3>3. QED  BY <3>1, <3>2 DEF Ranked
  <2>5. QED  BY <2>3, <2>4 DEF ListsLinked, InOrder
<1>9. Marked
  BY <1>2 DEF Marked
<1>10. Counted
  <2>1. IsFiniteSet({}) /\ Cardinality({}) = 0
    BY FS_EmptySet
  <2>2. Held \ Runs = {}
    BY <1>2
  <2>3. QED  BY <1>2, <2>1, <2>2 DEF Init, Counted, CountersExact
<1>11. QED  BY <1>1, <1>3, <1>4, <1>5, <1>6, <1>7, <1>8, <1>9, <1>10 DEF IInv

(* The invariant holds in every state of every behaviour.                   *)
THEOREM Invariant == Spec => []IInv
<1>1. IInv /\ [Next]_vars => IInv'
  <2> SUFFICES ASSUME IInv, [Next]_vars PROVE IInv'
    OBVIOUS
  <2>1. TypeOK'
    BY TypesStep
  <2>2. Locals' /\ Grows'
    BY LocalsStep
  <2>3. Holders' /\ Memory'
    BY MemoryStep
  <2>4. QED  BY <2>1, <2>2, <2>3 DEF IInv, Memory
<1>2. QED  BY InitialInv, <1>1, PTL DEF Spec

-----------------------------------------------------------------------------
(* The variables keep their types: no header, link or count of the slabs    *)
(* and no local of a call ever leaves its range.                            *)
THEOREM TypeCorrect == Spec => []TypeOK
<1>1. IInv => TypeOK
  BY DEF IInv
<1>2. QED  BY Invariant, <1>1, PTL

(* kmalloc, krealloc and kmem_free_auto never let two blocks share memory,  *)
(* nor a free list hold an object that is out, nor lose one.                *)
THEOREM NoOverlapHolds == Spec => []NoOverlap
<1>1. IInv => NoOverlap
  <2> SUFFICES ASSUME IInv PROVE NoOverlap
    OBVIOUS
  <2>1. /\ \A a, b \in Runs : a # b => PagesOf(a) \intersect PagesOf(b) = {}
        /\ \A a \in Runs : PagesOf(a) \intersect SlabPages = {}
        /\ \A b \in Held \ Runs : b.page \in slabs[b.size]
    BY DEF IInv, Layout, Objs
  <2>2. /\ \A t, u \in Thread :
              /\ new[t] # NULL => new[t] # old[u]
              /\ t # u /\ old[t] # NULL => old[t] # old[u]
              /\ t # u /\ new[t] # NULL => new[t] # new[u]
        /\ \A t \in Thread : {old[t], new[t]} \intersect live = {}
    BY DEF IInv, Holders
  <2>3. ASSUME NEW c \in Cache, NEW p \in slabs[c] PROVE Exact(c, p)
    BY DEF IInv, Headers
  <2>4. QED  BY <2>1, <2>2, <2>3 DEF NoOverlap, Exact
<1>2. QED  BY Invariant, <1>1, PTL

(* kmem_free_auto and krealloc, looking at the header word without a lock,  *)
(* send every block back to the allocator it came from.                     *)
THEOREM RoutesToOwnerHolds == Spec => []RoutesToOwner
<1>1. IInv => RoutesToOwner
  <2> SUFFICES ASSUME IInv, NEW b \in Held
               PROVE  is_slab_address(b) <=> b.page \in SlabPages /\ b.slot # 0
    BY DEF RoutesToOwner
  <2>1. QED  BY RouteIs DEF IInv
<1>2. QED  BY Invariant, <1>1, PTL

(* The bitmap and page_alloc_count account for every page, also while a     *)
(* slab is being made and after an empty one has given its page back.       *)
THEOREM PagesAccountedForHolds == Spec => []PagesAccountedFor
<1>1. IInv => PagesAccountedFor
  <2> SUFFICES ASSUME IInv PROVE PagesAccountedFor
    OBVIOUS
  <2>1. bitmap = SlabPages \union ({page[t] : t \in Thread} \ {NULL})
                    \union UNION {PagesOf(b) : b \in Runs}
    BY DEF IInv, Accounted, Growing
  <2>2. ASSUME NEW b \in Runs PROVE page_alloc_count[b.page] = Cardinality(PagesOf(b))
    <3>1. /\ b.page \in Nat /\ b.size \in Nat /\ Len(Objects) \in Nat
          /\ b.size > Len(Objects)
      BY RunHasFirst, Constants DEF IInv
    <3>2. PICK lo, n : lo = b.page /\ n = b.size - Len(Objects)
      OBVIOUS
    <3>3. lo \in Int /\ n \in Nat \ {0} /\ lo + n - 1 \in Int
      BY <3>1, <3>2
    <3>4. PagesOf(b) = lo .. lo + n - 1
      BY <3>1, <3>2 DEF PagesOf
    <3>5. Cardinality(lo .. lo + n - 1) = n
      <4>1. PICK hi : hi = lo + n - 1
        OBVIOUS
      <4>2. lo \in Int /\ hi \in Int /\ ~(lo > hi) /\ hi - lo + 1 = n
        BY <3>3, <4>1
      <4>3. Cardinality(lo .. hi) = hi - lo + 1
        BY <4>2, FS_Interval
      <4>4. QED  BY <4>1, <4>2, <4>3
    <3>6. page_alloc_count[b.page] = n
      BY <3>2 DEF IInv, Accounted
    <3>7. QED  BY <3>4, <3>5, <3>6
  <2>3. ASSUME NEW p \in Page, {b \in Runs : b.page = p} = {}
        PROVE  page_alloc_count[p] =
                   IF p \in SlabPages \union {page[t] : t \in Thread} THEN 1 ELSE 0
    <3>1. p # NULL /\ (p \in {page[t] : t \in Thread} <=> p \in Growing)
      BY Constants DEF Growing
    <3>2. p \notin {b.page : b \in Runs}
      BY <2>3
    <3>3. CASE p \in SlabPages \union Growing
      BY <3>1, <3>3 DEF IInv, Accounted
    <3>4. CASE p \notin SlabPages \union Growing
      BY <3>1, <3>2, <3>4 DEF IInv, Accounted
    <3>5. QED  BY <3>3, <3>4
  <2>4. QED  BY <2>1, <2>2, <2>3 DEF PagesAccountedFor
<1>2. QED  BY Invariant, <1>1, PTL

(* num_slabs, g_slab_total_slabs and the number of objects out are exact.   *)
THEOREM CountersExactHolds == Spec => []CountersExact
<1>1. IInv => CountersExact
  BY DEF IInv, Counted
<1>2. QED  BY Invariant, <1>1, PTL

(* No path through kmem_alloc keeps g_slab_lock that is not making a slab,  *)
(* and no other thread's step takes it from the one that is.                *)
THEOREM SlabLockHeldToGrowHolds == Spec => []SlabLockHeldToGrow
<1>1. IInv => SlabLockHeldToGrow
  BY DEF IInv, Locals
<1>2. QED  BY Invariant, <1>1, PTL

-----------------------------------------------------------------------------
(* Following the links from h for n nodes, as Walk does.                    *)
Chain(node, n, next, h) ==
    node = [i \in 1 .. n |-> IF i = 1 THEN h
                             ELSE IF node[i - 1] = NULL THEN NULL ELSE next[node[i - 1]]]

(* From any head the links can be followed for any number of nodes.         *)
LEMMA ChainExists ==
    ASSUME NEW next, NEW h, NEW n \in Nat
    PROVE  \E node : Chain(node, n, next, h)
<1> DEFINE Short == {k \in Nat : ~\E node : Chain(node, k, next, h)}
<1>1. SUFFICES ASSUME Short # {} PROVE FALSE
  OBVIOUS
<1>2. PICK k \in Short : \A j \in Short : k <= j
  <2> HIDE DEF Short
  <2>1. Short \in SUBSET Nat
    BY DEF Short
  <2>2. QED  BY <1>1, <2>1, LeastNumber
<1>3. CASE k = 0
  <2> DEFINE f == [i \in 1 .. 0 |-> h]
  <2>1. f = [i \in 1 .. 0 |-> IF i = 1 THEN h
                              ELSE IF f[i - 1] = NULL THEN NULL ELSE next[f[i - 1]]]
    OBVIOUS
  <2> HIDE DEF f
  <2>2. Chain(f, 0, next, h)
    BY <2>1 DEF Chain
  <2>3. QED  BY <1>3, <2>2
<1>4. CASE k # 0
  <2>1. k \in Nat /\ k - 1 \in Nat /\ ~(k <= k - 1)
    BY <1>4
  <2>2. PICK f : Chain(f, k - 1, next, h)
    BY <1>2, <2>1
  <2>3. PICK z : z = IF k = 1 THEN h ELSE IF f[k - 1] = NULL THEN NULL ELSE next[f[k - 1]]
    OBVIOUS
  <2> DEFINE g == [i \in 1 .. k |-> IF i = k THEN z ELSE f[i]]
  <2>4. \A i \in 1 .. k - 1 :
            f[i] = IF i = 1 THEN h ELSE IF f[i - 1] = NULL THEN NULL ELSE next[f[i - 1]]
    BY <2>2 DEF Chain
  <2>5. \A i \in 1 .. k :
            g[i] = IF i = 1 THEN h ELSE IF g[i - 1] = NULL THEN NULL ELSE next[g[i - 1]]
    <3>1. g[k] = z /\ \A i \in 1 .. k - 1 : g[i] = f[i]
      BY <2>1
    <3> HIDE DEF g
    <3>2. ASSUME NEW i \in 1 .. k
          PROVE  g[i] = IF i = 1 THEN h ELSE IF g[i - 1] = NULL THEN NULL ELSE next[g[i - 1]]
      <4>1. i # 1 => i - 1 \in 1 .. k - 1
        BY <2>1
      <4>2. CASE i = k
        BY <2>3, <3>1, <4>1, <4>2
      <4>3. CASE i # k
        <5>1. i \in 1 .. k - 1
          BY <2>1, <4>3
        <5>2. QED  BY <2>4, <3>1, <4>1, <5>1
      <4>4. QED  BY <4>2, <4>3
    <3>3. QED  BY <3>2
  <2>6. Chain(g, k, next, h)
    <3>1. g = [i \in 1 .. k |-> g[i]]
      OBVIOUS
    <3> HIDE DEF g
    <3>2. QED  BY <2>5, <3>1 DEF Chain
  <2>7. QED  BY <2>6
<1>5. QED  BY <1>3, <1>4

(* Following a linked list whose links lead down in rank, one comes past    *)
(* each of its slabs once, from behind each one its prev names, to NULL.    *)
LEMMA ChainLists ==
    ASSUME NEW S \in SUBSET Page, NEW next, NEW prev, NEW h, Linked(next, prev, h, S),
           NEW K \in Nat, NEW r \in [Page -> 0 .. K],
           \A p \in S : next[p] # NULL => r[next[p]] < r[p],
           NEW node, Chain(node, Pages + 1, next, h)
    PROVE  /\ {node[i] : i \in DOMAIN node} \ {NULL} = S
           /\ node[Cardinality(S) + 1] = NULL
           /\ \A i \in 1 .. Cardinality(S) :
                  prev[node[i]] = IF i = 1 THEN NULL ELSE node[i - 1]
<1>0. NULL \notin Page /\ Pages \in Nat /\ Page = 1 .. Pages
  BY Constants DEF Page
<1>1. PICK N : N = Pages + 1
  OBVIOUS
<1>2. /\ N \in Nat /\ N >= 1 /\ DOMAIN node = 1 .. N
      /\ node[1] = h
      /\ \A i \in 2 .. N : node[i] = IF node[i - 1] = NULL THEN NULL ELSE next[node[i - 1]]
  <2>1. N \in Nat /\ N >= 1
    BY <1>0, <1>1
  <2>2. node = [i \in 1 .. N |-> IF i = 1 THEN h
                                 ELSE IF node[i - 1] = NULL THEN NULL ELSE next[node[i - 1]]]
    BY <1>1 DEF Chain
  <2>3. DOMAIN node = 1 .. N
    BY <2>2
  <2>4. \A i \in 1 .. N : node[i] = IF i = 1 THEN h
                                    ELSE IF node[i - 1] = NULL THEN NULL ELSE next[node[i - 1]]
    BY <2>2
  <2>5. QED  BY <2>1, <2>3, <2>4
<1>3. ASSUME NEW i \in 1 .. N PROVE node[i] \in S \union {NULL}
  <2> DEFINE Off == {j \in 1 .. N : node[j] \notin S \union {NULL}}
  <2>1. SUFFICES ASSUME Off # {} PROVE FALSE
    OBVIOUS
  <2>2. PICK j \in Off : \A k \in Off : j <= k
    <3> HIDE DEF Off
    <3>1. Off \in SUBSET Nat
      BY <1>2 DEF Off
    <3>2. QED  BY <2>1, <3>1, LeastNumber
  <2>3. CASE j = 1
    BY <1>2, <2>2, <2>3 DEF Linked
  <2>4. CASE j # 1
    <3>1. j \in 2 .. N /\ j - 1 \in 1 .. N /\ ~(j <= j - 1)
      BY <1>2, <2>4
    <3>2. node[j - 1] \in S \union {NULL}
      BY <2>2, <3>1
    <3>3. QED  BY <1>2, <2>2, <3>1, <3>2 DEF Linked
  <2>5. QED  BY <2>3, <2>4
<1>4. ASSUME NEW i \in 2 .. N, node[i] # NULL
      PROVE  /\ i - 1 \in 1 .. N /\ node[i - 1] \in S
             /\ next[node[i - 1]] = node[i]
             /\ prev[node[i]] = node[i - 1]
             /\ r[node[i]] < r[node[i - 1]]
  <2>1. i - 1 \in 1 .. N /\ node[i - 1] # NULL /\ node[i] = next[node[i - 1]]
    BY <1>2, <1>4
  <2>2. node[i - 1] \in S
    BY <1>3, <2>1
  <2>3. QED  BY <1>4, <2>1, <2>2 DEF Linked
<1>5. ASSUME NEW j \in 1 .. N, NEW i \in 1 .. N, i < j, node[j] # NULL
      PROVE  node[i] # NULL /\ r[node[j]] < r[node[i]]
  <2> DEFINE Bad == {k \in 1 .. N : /\ i < k /\ node[k] # NULL
                                    /\ ~(node[i] # NULL /\ r[node[k]] < r[node[i]])}
  <2>1. SUFFICES ASSUME Bad # {} PROVE FALSE
    BY <1>5
  <2>2. PICK k \in Bad : \A l \in Bad : k <= l
    <3> HIDE DEF Bad
    <3>1. Bad \in SUBSET Nat
      BY <1>2 DEF Bad
    <3>2. QED  BY <2>1, <3>1, LeastNumber
  <2>3. k \in 2 .. N /\ k - 1 \in 1 .. N /\ ~(k <= k - 1) /\ node[k] # NULL
        /\ (i = k - 1 \/ i < k - 1)
    BY <1>2, <2>2
  <2>4. node[k - 1] \in S /\ node[k - 1] # NULL /\ r[node[k]] < r[node[k - 1]]
    BY <1>0, <1>4, <2>3
  <2>5. CASE i = k - 1
    BY <2>2, <2>4, <2>5
  <2>6. CASE i < k - 1
    <3>1. node[i] # NULL /\ r[node[k - 1]] < r[node[i]]
      BY <2>2, <2>3, <2>4, <2>6
    <3>2. node[i] \in S /\ node[k] \in S
      BY <1>3, <2>3, <3>1
    <3>3. r[node[i]] \in Int /\ r[node[k]] \in Int /\ r[node[k - 1]] \in Int
      BY <2>4, <3>2
    <3>4. r[node[k]] < r[node[i]]
      BY <2>4, <3>1, <3>3
    <3>5. QED  BY <2>2, <3>1, <3>4
  <2>7. QED  BY <2>3, <2>5, <2>6
<1>6. ASSUME NEW i \in 1 .. N, NEW j \in 1 .. N, node[i] = node[j], node[i] # NULL
      PROVE  i = j
  <2>1. r[node[i]] \in Int
    BY <1>3, <1>6
  <2>2. i < j \/ j < i \/ i = j
    BY <1>2
  <2>3. QED  BY <1>5, <1>6, <2>1, <2>2
<1>7. node[N] = NULL
  <2>1. SUFFICES ASSUME node[N] # NULL PROVE FALSE
    OBVIOUS
  <2>2. ASSUME NEW i \in 1 .. N PROVE node[i] \in Page
    <3>1. node[i] # NULL
      BY <1>2, <1>5, <2>1
    <3>2. QED  BY <1>3, <3>1
  <2>3. node \in [1 .. N -> Page]
    <3>1. node = [i \in 1 .. N |-> node[i]]
      BY <1>1, <1>2 DEF Chain
    <3>2. QED  BY <2>2, <3>1
  <2>4. IsFiniteSet(1 .. N) /\ Cardinality(1 .. N) = N
    <3>1. 1 \in Int /\ N \in Int /\ ~(1 > N)
      BY <1>2
    <3>2. QED  BY <1>2, <3>1, FS_Interval
  <2>5. IsFiniteSet(Page) /\ Cardinality(Page) = Pages
    <3>1. 1 \in Int /\ Pages \in Int /\ (1 > Pages => Pages = 0)
      BY <1>0
    <3>2. QED  BY <1>0, <3>1, FS_Interval
  <2>6. Cardinality(Page) < Cardinality(1 .. N)
    BY <1>0, <1>1, <2>4, <2>5
  <2>7. PICK i \in 1 .. N, j \in 1 .. N : i # j /\ node[i] = node[j]
    BY <2>3, <2>4, <2>5, <2>6, FS_PigeonHole
  <2>8. node[i] # NULL
    BY <1>0, <2>2
  <2>9. QED  BY <1>6, <2>7, <2>8
<1>8. ASSUME NEW p \in S PROVE \E i \in 1 .. N : node[i] = p
  <2> DEFINE Lost == {q \in S : \A i \in 1 .. N : node[i] # q}
             Heights == {K - r[q] : q \in Lost}
  <2>1. SUFFICES ASSUME Lost # {} PROVE FALSE
    OBVIOUS
  <2>2. PICK q \in Lost : \A x \in Lost : r[x] <= r[q]
    <3>1. \A x \in Lost : K - r[x] \in Nat /\ r[x] \in 0 .. K
      OBVIOUS
    <3> HIDE DEF Lost
    <3>2. Heights \in SUBSET Nat /\ Heights # {}
      BY <2>1, <3>1
    <3>3. PICK x \in Heights : \A y \in Heights : x <= y
      BY <3>2, LeastNumber
    <3>4. PICK q \in Lost : x = K - r[q]
      BY <3>3
    <3>5. ASSUME NEW y \in Lost PROVE r[y] <= r[q]
      <4>1. K - r[q] <= K - r[y]
        BY <3>3, <3>4
      <4>2. QED  BY <3>1, <4>1
    <3>6. QED  BY <3>5
  <2>3. prev[q] # NULL
    <3>1. SUFFICES ASSUME prev[q] = NULL PROVE FALSE
      OBVIOUS
    <3>2. q = h
      BY <3>1 DEF Linked
    <3>3. 1 \in 1 .. N /\ node[1] = q
      BY <1>2, <3>2
    <3>4. QED  BY <3>3
  <2>4. prev[q] \in S /\ next[prev[q]] = q /\ q # NULL
    BY <1>0, <2>3 DEF Linked
  <2>5. r[q] < r[prev[q]] /\ r[q] \in Int /\ r[prev[q]] \in Int
    BY <2>4
  <2>6. prev[q] \notin Lost
    BY <2>2, <2>5
  <2>7. PICK i \in 1 .. N : node[i] = prev[q]
    BY <2>4, <2>6
  <2>8. i # N /\ node[i] # NULL
    BY <1>7, <2>3, <2>7
  <2>9. i + 1 \in 2 .. N /\ i + 1 - 1 = i /\ i + 1 \in 1 .. N
    BY <1>2, <2>8
  <2>10. node[i + 1] = q
    BY <1>2, <2>4, <2>7, <2>8, <2>9
  <2>11. QED  BY <2>9, <2>10
<1>9. PICK m \in Nat : /\ m + 1 \in 1 .. N /\ node[m + 1] = NULL
                       /\ \A i \in 1 .. m : node[i] \in S
                       /\ \A i \in 1 .. N : node[i] # NULL => i \in 1 .. m
  <2> DEFINE Ends == {i \in 1 .. N : node[i] = NULL}
  <2>1. Ends \in SUBSET Nat /\ N \in Ends
    BY <1>2, <1>7
  <2>2. PICK k \in Ends : \A i \in Ends : k <= i
    <3> HIDE DEF Ends
    <3>1. QED  BY <2>1, LeastNumber
  <2>3. k \in 1 .. N /\ k - 1 \in Nat /\ k - 1 + 1 = k /\ node[k] = NULL
    BY <1>2, <2>2
  <2>4. ASSUME NEW i \in 1 .. k - 1 PROVE node[i] \in S
    <3>1. i \in 1 .. N /\ ~(k <= i)
      BY <1>2, <2>3
    <3>2. QED  BY <1>3, <2>2, <3>1
  <2>5. ASSUME NEW i \in 1 .. N, node[i] # NULL PROVE i \in 1 .. k - 1
    <3>1. k # i /\ ~(k < i)
      BY <1>5, <2>3, <2>5
    <3>2. QED  BY <1>2, <2>3, <3>1
  <2>6. QED  BY <2>3, <2>4, <2>5
<1>10. Cardinality(S) = m
  <2> DEFINE f == [i \in 1 .. m |-> node[i]]
  <2>1. f \in [1 .. m -> S]
    BY <1>9
  <2>2. \A i, j \in 1 .. m : f[i] = f[j] => i = j
    <3>1. ASSUME NEW i \in 1 .. m, NEW j \in 1 .. m, f[i] = f[j] PROVE i = j
      <4>1. i \in 1 .. N /\ j \in 1 .. N
        BY <1>2, <1>9
      <4>2. node[i] = node[j] /\ node[i] \in S
        BY <1>9, <3>1
      <4>3. QED  BY <1>0, <1>6, <4>1, <4>2
    <3>2. QED  BY <3>1
  <2>3. \A p \in S : \E i \in 1 .. m : f[i] = p
    <3>1. ASSUME NEW p \in S PROVE \E i \in 1 .. m : f[i] = p
      <4>1. PICK i \in 1 .. N : node[i] = p
        BY <1>8
      <4>2. i \in 1 .. m
        BY <1>0, <1>9, <4>1
      <4>3. QED  BY <4>1, <4>2
    <3>2. QED  BY <3>1
  <2> HIDE DEF f
  <2>4. f \in Bijection(1 .. m, S)
    BY <2>1, <2>2, <2>3 DEF Bijection, Injection, IsInjective, Surjection
  <2>5. ExistsBijection(1 .. m, S)
    BY <2>4 DEF ExistsBijection
  <2>6. QED  BY <2>5, FS_CountingElements
<1>11. {node[i] : i \in DOMAIN node} \ {NULL} = S
  <2>1. ASSUME NEW x \in {node[i] : i \in DOMAIN node} \ {NULL} PROVE x \in S
    BY <1>2, <1>3, <2>1
  <2>2. ASSUME NEW x \in S PROVE x \in {node[i] : i \in DOMAIN node} \ {NULL}
    <3>1. x # NULL /\ \E i \in DOMAIN node : node[i] = x
      BY <1>0, <1>2, <1>8
    <3>2. QED  BY <3>1
  <2>3. QED  BY <2>1, <2>2
<1>12. ASSUME NEW i \in 1 .. m PROVE prev[node[i]] = IF i = 1 THEN NULL ELSE node[i - 1]
  <2>0. i \in 1 .. N
    BY <1>2, <1>9
  <2>1. i \in 1 .. N /\ node[i] \in S /\ node[i] # NULL
    BY <1>0, <1>9, <2>0
  <2>2. CASE i = 1
    BY <1>2, <2>1, <2>2 DEF Linked
  <2>3. CASE i # 1
    <3>1. i \in 2 .. N
      BY <1>2, <2>1, <2>3
    <3>2. QED  BY <1>4, <2>1, <2>3, <3>1
  <2>4. QED  BY <2>2, <2>3
<1>13. QED  BY <1>9, <1>10, <1>11, <1>12

(* What Lists asks of each list is so of each linked and ranked one.        *)
LEMMA ListedIs ==
    ASSUME NEW S \in SUBSET Page, NEW h, Linked(lists.next, lists.prev, h, S),
           NEW K \in Nat, NEW r \in [Page -> 0 .. K],
           \A p \in S : lists.next[p] # NULL => r[lists.next[p]] < r[p]
    PROVE  Lists(h, S)
<1>1. Chain(Walk(h), Pages + 1, lists.next, h)
  <2>1. Pages + 1 \in Nat
    BY Constants
  <2>2. PICK f : Chain(f, Pages + 1, lists.next, h)
    BY <2>1, ChainExists
  <2>3. Walk(h) = CHOOSE node : node = [i \in 1 .. Pages + 1 |->
            IF i = 1 THEN h ELSE IF node[i - 1] = NULL THEN NULL ELSE lists.next[node[i - 1]]]
    BY DEF Walk
  <2>4. Walk(h) = CHOOSE node : Chain(node, Pages + 1, lists.next, h)
    BY <2>3 DEF Chain
  <2>5. QED  BY ONLY <2>2, <2>4, Zenon
<1>2. PICK node : node = Walk(h)
  OBVIOUS
<1>3. PICK next, prev : next = lists.next /\ prev = lists.prev
  OBVIOUS
<1>4. /\ Chain(node, Pages + 1, next, h)
      /\ Linked(next, prev, h, S)
      /\ \A p \in S : next[p] # NULL => r[next[p]] < r[p]
  BY <1>1, <1>2, <1>3
<1>5. /\ {node[i] : i \in DOMAIN node} \ {NULL} = S
      /\ node[Cardinality(S) + 1] = NULL
      /\ \A i \in 1 .. Cardinality(S) :
             prev[node[i]] = IF i = 1 THEN NULL ELSE node[i - 1]
  BY <1>4, ChainLists
<1>6. QED  BY <1>2, <1>3, <1>5 DEF Lists

(* Each cache's partial list holds just its slabs with a free object and    *)
(* its full list those with none, once each, with links both ways right:    *)
(* kmem_alloc and kmem_free move slabs between lists without losing one or  *)
(* closing a cycle, whatever the order in which threads allocate and free.  *)
THEOREM SlabListsExactHolds == Spec => []SlabListsExact
<1>1. IInv => SlabListsExact
  <2> SUFFICES ASSUME IInv PROVE SlabListsExact
    OBVIOUS
  <2>1. Ranked(lists.next, Partial, Full) /\ AllLinked(lists, Partial, Full)
    BY DEF IInv, ListsLinked, InOrder
  <2>2. PICK K \in Nat : \E r \in [Page -> 0 .. K] :
            \A c \in Cache : \A p \in Partial[c] \union Full[c] :
                lists.next[p] # NULL => r[lists.next[p]] < r[p]
    BY <2>1 DEF Ranked
  <2>3. PICK r \in [Page -> 0 .. K] :
            \A c \in Cache : \A p \in Partial[c] \union Full[c] :
                lists.next[p] # NULL => r[lists.next[p]] < r[p]
    BY <2>2
  <2>4. SUFFICES ASSUME NEW c \in Cache
                 PROVE  /\ Lists(lists.partial[c], {p \in slabs[c] : slab[p].num_free # 0})
                        /\ Lists(lists.full[c], {p \in slabs[c] : slab[p].num_free = 0})
                        /\ \A p \in slabs[c] : slab[p].cache = c /\ slab[p].num_free < Objects[c]
    BY DEF SlabListsExact
  <2>5. /\ Partial[c] = {p \in slabs[c] : slab[p].num_free # 0}
        /\ Full[c] = {p \in slabs[c] : slab[p].num_free = 0}
        /\ Partial[c] \in SUBSET Page /\ Full[c] \in SUBSET Page
    BY DEF Partial, Full, IInv, TypeOK
  <2>6. Linked(lists.next, lists.prev, lists.partial[c], Partial[c])
        /\ Linked(lists.next, lists.prev, lists.full[c], Full[c])
    BY <2>1 DEF AllLinked
  <2>7. Lists(lists.partial[c], Partial[c]) /\ Lists(lists.full[c], Full[c])
    BY <2>3, <2>5, <2>6, ListedIs
  <2>8. ASSUME NEW p \in slabs[c] PROVE slab[p].cache = c /\ slab[p].num_free < Objects[c]
    BY DEF IInv, Headers, Exact
  <2>9. QED  BY <2>5, <2>7, <2>8
<1>2. QED  BY Invariant, <1>1, PTL
=============================================================================
