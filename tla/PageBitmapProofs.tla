-------------------------- MODULE PageBitmapProofs --------------------------
(***************************************************************************)
(* Proofs about PageBitmap for any number of clients, any word size, any    *)
(* number of words and any run lengths.                                     *)
(***************************************************************************)
EXTENDS PageBitmap, SetLemmas

(* Words of the bitmap are words of pages.                                  *)
LEMMA PageCount ==
    /\ TOTAL_PAGES \in Nat \ {0}
    /\ Words <= TOTAL_PAGES
    /\ Kernel \subseteq Page
    /\ Page \subseteq Nat
<1>1. TOTAL_PAGES \in Nat /\ Words <= TOTAL_PAGES
  BY BitmapAssumption, WordWithin DEF TOTAL_PAGES
<1>2. KernelPages \in 0 .. TOTAL_PAGES
  BY BitmapAssumption DEF TOTAL_PAGES
<1>3. QED  BY <1>1, <1>2, BitmapAssumption DEF Kernel, Page

(* The bits of a word are WordBits consecutive pages of the bitmap.         *)
LEMMA BitsArePages ==
    ASSUME NEW w \in 0 .. Words - 1
    PROVE  /\ Bits(w) \subseteq Page
           /\ Bits(w) = {p \in Nat : w * WordBits <= p /\ p < (w + 1) * WordBits}
           /\ w * WordBits \in Nat
           /\ (w + 1) * WordBits = w * WordBits + WordBits
<1>1. /\ w * WordBits \in Nat
      /\ (w + 1) * WordBits = w * WordBits + WordBits
      /\ w * WordBits + WordBits <= TOTAL_PAGES
      /\ TOTAL_PAGES \in Nat
  BY BitmapAssumption, WordWithin DEF TOTAL_PAGES
<1>2. WordBits \in Nat
  BY BitmapAssumption
<1>3. QED  BY <1>1, <1>2 DEF Bits, Page

(* The lowest clear bit of a word that is not full is a clear bit of it.    *)
LEMMA FirstClearIs ==
    ASSUME NEW w \in 0 .. Words - 1, NEW word \in SUBSET Bits(w), word # Bits(w)
    PROVE  /\ FirstClear(word, w) \in Bits(w) \ word
           /\ \A p \in Bits(w) \ word : FirstClear(word, w) <= p
  BY BitsArePages, PageCount, MinOfNaturals DEF FirstClear

-----------------------------------------------------------------------------
(* What the locals of a call are while it is in progress.                   *)
Locals ==
    \A x \in Client :
        /\ pc[x] = "idle" => at[x] = 0 /\ first[x] = 0 /\ done[x] = 0 /\ undo[x] = 0
        /\ pc[x] \in {"load", "cas"} => at[x] <= Words
        /\ pc[x] = "cas" =>
               at[x] < Words /\ seen[x] \subseteq Bits(at[x]) /\ seen[x] # Bits(at[x])
        /\ pc[x] \in {"scan", "claim", "unclaim", "free", "refill"} => done[x] < count[x]
        /\ pc[x] = "scan" => first[x] + done[x] = at[x]
        /\ pc[x] \in {"claim", "unclaim"} => first[x] + count[x] <= TOTAL_PAGES
        /\ pc[x] \in {"free", "refill"} => first[x] + done[x] <= TOTAL_PAGES
        /\ pc[x] \in {"scan", "claim", "free"} => undo[x] = 0
        /\ pc[x] \in {"unclaim", "refill"} => undo[x] <= done[x]
Typed == TypeOK /\ Locals

(* A new allocator has no call in progress.                                 *)
LEMMA TypedInit == Init => Typed
  BY PageCount DEF Init, Typed, TypeOK, Locals, Kernel

(* A call that returns leaves its client idle with its locals cleared.      *)
LEMMA ReturnTyped ==
    ASSUME Typed, NEW x \in Client, Return(x), heap_lock' = heap_lock,
           used' \subseteq Page, owned' \in [Client -> SUBSET Page]
    PROVE  Typed'
<1> USE DEF Return, Goto, Typed
<1>1. TypeOK'
  <2>1. /\ pc' \in [Client -> {"idle", "load", "cas", "scan", "claim", "unclaim",
                                "free", "refill"}]
        /\ seen' \in [Client -> SUBSET Page]
    BY DEF TypeOK
  <2>2. at' \in [Client -> 0 .. TOTAL_PAGES] /\ first' \in [Client -> 0 .. TOTAL_PAGES]
    BY PageCount DEF TypeOK
  <2>3. done' \in [Client -> Nat] /\ count' \in [Client -> Nat] /\ undo' \in [Client -> Nat]
    BY DEF TypeOK
  <2>4. QED  BY <2>1, <2>2, <2>3 DEF TypeOK
<1>2. Locals'
  BY DEF TypeOK, Locals
<1>3. QED  BY <1>1, <1>2

(* Every step of a call keeps the types and the bounds of its locals.       *)
LEMMA TypedStep == Typed /\ [Next]_vars => Typed'
<1> SUFFICES ASSUME Typed, [Next]_vars PROVE Typed'
  OBVIOUS
<1> USE PageCount DEF Typed, TypeOK, Locals, Goto, locals
<1>0. heap_lock' = heap_lock
  BY DEF Next, vars
<1>1. ASSUME NEW x \in Client, Alloc(x) PROVE Typed'
  BY <1>0, <1>1, BitmapAssumption DEF Alloc, MayCall
<1>2. ASSUME NEW x \in Client, pc[x] \in {"load", "cas"}, Inspect(x), at[x] < Words,
             UNCHANGED <<used, first, done, count, undo, owned>>
      PROVE  Typed'
  <2>1. Bits(at[x]) \subseteq Page
    <3>1. at[x] \in 0 .. Words - 1
      BY <1>2, BitmapAssumption
    <3>2. QED  BY <3>1, BitsArePages
  <2>2. QED  BY <1>0, <1>2, <2>1, BitmapAssumption DEF Inspect, CurrentWord
<1>3. ASSUME NEW x \in Client, CasWins(x) PROVE Typed'
  <2>1. FirstClear(seen[x], at[x]) \in Page
    <3>1. at[x] \in 0 .. Words - 1 /\ seen[x] \subseteq Bits(at[x]) /\ seen[x] # Bits(at[x])
      BY <1>3, BitmapAssumption DEF CasWins
    <3>2. QED  BY <3>1, FirstClearIs, BitsArePages
  <2>2. /\ used' \subseteq Page
        /\ owned' \in [Client -> SUBSET Page]
        /\ Return(x)
    BY <1>3, <2>1 DEF CasWins
  <2>3. QED  BY <1>0, <2>2, ReturnTyped
<1>4. ASSUME NEW x \in Client, AllocFails(x) \/ ScanFails(x) PROVE Typed'
  BY <1>0, <1>4, ReturnTyped DEF AllocFails, ScanFails
<1>5. ASSUME NEW x \in Client, NEW c \in Counts, AllocContiguous(x, c) PROVE Typed'
  BY <1>0, <1>5, BitmapAssumption DEF AllocContiguous, MayCall
<1>6. ASSUME NEW x \in Client, ScanUsed(x) PROVE Typed'
  BY <1>0, <1>6 DEF ScanUsed, Page
<1>7. ASSUME NEW x \in Client, ScanFree(x) PROVE Typed'
  BY <1>0, <1>7 DEF ScanFree
<1>8. ASSUME NEW x \in Client, Claim(x) PROVE Typed'
  <2>1. /\ first[x] + done[x] \in Page
        /\ Run(x) \subseteq Page
    BY <1>8 DEF Claim, Run, Page
  <2>2. used' \subseteq Page
    BY <1>8, <2>1 DEF Claim
  <2>3. CASE done[x] + 1 = count[x]
    <3>1. Return(x) /\ owned' \in [Client -> SUBSET Page]
      BY <1>8, <2>1, <2>3 DEF Claim
    <3>2. QED  BY <1>0, <2>2, <3>1, ReturnTyped
  <2>4. CASE done[x] + 1 # count[x]
    <3>1. /\ done' = [done EXCEPT ![x] = @ + 1]
          /\ UNCHANGED <<pc, at, seen, first, count, undo, owned>>
      BY <1>8, <2>4 DEF Claim
    <3>2. QED  BY <1>0, <1>8, <2>2, <2>4, <3>1 DEF Claim
  <2>5. QED  BY <2>3, <2>4
<1>9. ASSUME NEW x \in Client, ClaimConflict(x) PROVE Typed'
  BY <1>0, <1>9 DEF ClaimConflict
<1>10. ASSUME NEW x \in Client, Unclaim(x) PROVE Typed'
  <2>1. /\ used' \subseteq Page
        /\ undo' = [undo EXCEPT ![x] = @ + 1]
        /\ UNCHANGED <<pc, at, seen, first, done, count, owned>>
        /\ pc[x] = "unclaim" /\ undo[x] < done[x]
    BY <1>10 DEF Unclaim
  <2>2. QED  BY <1>0, <2>1
<1>11. ASSUME NEW x \in Client, Rescan(x) PROVE Typed'
  BY <1>0, <1>11 DEF Rescan
<1>12. ASSUME NEW x \in Client, NEW p \in Page, Free(x, p) PROVE Typed'
  BY <1>0, <1>12 DEF Free
<1>13. ASSUME NEW x \in Client, NEW p \in Page, NEW c \in Counts, FreeContiguous(x, p, c)
       PROVE  Typed'
  BY <1>0, <1>13, BitmapAssumption DEF FreeContiguous, MayCall, Page
<1>14. ASSUME NEW x \in Client, FreePage(x) PROVE Typed'
  <2>1. /\ first[x] + done[x] \in Page
        /\ used' \subseteq Page
        /\ owned' \in [Client -> SUBSET Page]
    BY <1>14 DEF FreePage
  <2>2. CASE done[x] + 1 = count[x]
    BY <1>0, <1>14, <2>1, <2>2, ReturnTyped DEF FreePage
  <2>3. CASE done[x] + 1 # count[x]
    <3>1. /\ done' = [done EXCEPT ![x] = @ + 1]
          /\ UNCHANGED <<pc, at, seen, first, count, undo>>
          /\ pc[x] = "free"
      BY <1>14, <2>3 DEF FreePage
    <3>2. first[x] + done[x] + 1 <= TOTAL_PAGES
      BY <2>1 DEF Page
    <3>3. TypeOK'
      BY <1>0, <2>1, <3>1
    <3>4. Locals'
      BY <2>3, <3>1, <3>2
    <3>5. QED  BY <3>3, <3>4
  <2>4. QED  BY <2>2, <2>3
<1>15. ASSUME NEW x \in Client, FreeConflict(x) PROVE Typed'
  BY <1>0, <1>15 DEF FreeConflict, Page
<1>16. ASSUME NEW x \in Client, Refill(x) PROVE Typed'
  <2>1. CASE undo[x] < done[x]
    <3>1. first[x] + undo[x] \in Page
      BY <1>16, <2>1 DEF Refill, Page
    <3>2. /\ used' \subseteq Page /\ undo' = [undo EXCEPT ![x] = @ + 1]
          /\ UNCHANGED <<pc, at, seen, first, done, count, owned>>
          /\ pc[x] = "refill"
      BY <1>16, <2>1, <3>1 DEF Refill
    <3>3. QED  BY <1>0, <2>1, <3>2
  <2>2. CASE ~(undo[x] < done[x])
    BY <1>0, <1>16, <2>2, ReturnTyped DEF Refill
  <2>3. QED  BY <2>1, <2>2
<1>17. CASE UNCHANGED vars
  BY <1>17 DEF vars
<1>18. QED
  BY <1>1, <1>2, <1>3, <1>4, <1>5, <1>6, <1>7, <1>8, <1>9, <1>10, <1>11, <1>12, <1>13,
     <1>14, <1>15, <1>16, <1>17 DEF Next, Call, Step, LoadWord, CasLoses

(* The allocator's variables always have their types.                       *)
THEOREM TypeCorrect == Spec => []TypeOK
<1>1. Spec => []Typed
  BY TypedInit, TypedStep, PTL DEF Spec
<1>2. Typed => TypeOK
  BY DEF Typed
<1>3. QED  BY <1>1, <1>2, PTL
-----------------------------------------------------------------------------
(* With the heap lock at most one call is in progress.                      *)
Serialised ==
    heap_lock => \A x, y \in Client : pc[x] # "idle" /\ pc[y] # "idle" => x = y

(* At the start nobody is in a call.                                        *)
LEMMA SerialisedInit == Init => Serialised
  BY DEF Init, Serialised

(* A call starts only while nobody is in one.                               *)
LEMMA SerialisedStep == Typed /\ Serialised /\ [Next]_vars => Serialised'
<1> SUFFICES ASSUME Typed, Serialised, [Next]_vars PROVE Serialised'
  OBVIOUS
<1>0. heap_lock' = heap_lock
  BY DEF Next, vars
<1>1. ASSUME NEW x \in Client, Call(x) PROVE Serialised'
  <2>1. /\ heap_lock => \A y \in Client : pc[y] = "idle"
        /\ \A y \in Client \ {x} : pc'[y] = pc[y]
    BY <1>1 DEF Call, Alloc, AllocContiguous, Free, FreeContiguous, MayCall, Goto,
       Typed, TypeOK
  <2>2. QED  BY <1>0, <2>1 DEF Serialised
<1>2. ASSUME NEW x \in Client, Step(x) PROVE Serialised'
  <2>1. /\ pc[x] # "idle"
        /\ \A y \in Client \ {x} : pc'[y] = pc[y]
    BY <1>2 DEF Step, LoadWord, CasWins, CasLoses, AllocFails, ScanUsed, ScanFree, ScanFails,
       Claim, ClaimConflict, Unclaim, Rescan, FreePage, FreeConflict, Refill, Inspect,
       Return, Goto, Typed, TypeOK
  <2>2. QED  BY <1>0, <2>1 DEF Serialised
<1>3. CASE UNCHANGED vars
  BY <1>3 DEF vars, Serialised
<1>4. QED  BY <1>1, <1>2, <1>3 DEF Next

-----------------------------------------------------------------------------
(* How far a serialised search has got: below the word it is at every page  *)
(* is used, the run it has found so far is free, and no free run of the     *)
(* length asked for starts before it.                                       *)
Exact ==
    heap_lock => \A x \in Client :
        /\ pc[x] \in {"load", "cas"} => \A p \in Page : p < at[x] * WordBits => p \in used
        /\ pc[x] = "cas" => seen[x] = CurrentWord(at[x])
        /\ pc[x] = "scan" =>
               /\ (first[x] .. at[x] - 1) \intersect used = {}
               /\ \A p \in Page : FreeRun(p, count[x]) => p >= first[x]
        /\ pc[x] = "claim" =>
               (first[x] + done[x] .. first[x] + count[x] - 1) \intersect used = {}
        /\ pc[x] # "unclaim"

(* No search is in progress at first.                                       *)
LEMMA ExactInit == Init => Exact
  BY DEF Init, Exact

(* A free run that starts no earlier than the one found so far does not     *)
(* start before a used page that ends it.                                   *)
LEMMA RunPastUsed ==
    ASSUME NEW S, NEW f \in Nat, NEW d \in Nat, NEW n \in Nat, d < n, f + d \in S,
           NEW p \in Nat, p >= f, p .. p + n - 1 \subseteq Page \ S
    PROVE  p >= f + d + 1
<1>1. SUFFICES ASSUME p < f + d + 1 PROVE FALSE
  OBVIOUS
<1>2. f + d \in p .. p + n - 1
  BY <1>1
<1>3. QED  BY <1>2

(* Each step of a search extends what it knows; the other calls, which the  *)
(* heap lock keeps out, could spoil it.                                     *)
LEMMA ExactStep == Typed /\ Serialised /\ Exact /\ [Next]_vars => Exact'
<1> SUFFICES ASSUME Typed, Serialised, Exact, [Next]_vars, heap_lock PROVE Exact'
  BY DEF Exact, Next, vars
<1> USE DEF Goto
<1>0. heap_lock' = heap_lock
  BY DEF Next, vars
<1>1. ASSUME NEW x \in Client, \A y \in Client \ {x} : pc'[y] = "idle",
             pc'[x] \in {"idle", "free", "refill"}
      PROVE  Exact'
  BY <1>1 DEF Exact
<1>2. ASSUME NEW x \in Client, Call(x) \/ Step(x)
      PROVE  /\ \A y \in Client \ {x} : pc[y] = "idle"
             /\ \A y \in Client \ {x} : pc'[y] = "idle"
  <2>1. \A y \in Client \ {x} : pc[y] = "idle"
    <3>1. CASE Call(x)
      BY <3>1 DEF Call, Alloc, AllocContiguous, Free, FreeContiguous, MayCall
    <3>2. CASE Step(x)
      <4>1. pc[x] # "idle"
        BY <3>2 DEF Step, LoadWord, CasWins, CasLoses, AllocFails, ScanUsed, ScanFree,
           ScanFails, Claim, ClaimConflict, Unclaim, Rescan, FreePage, FreeConflict, Refill
      <4>2. QED  BY <4>1 DEF Serialised
    <3>3. QED  BY <1>2, <3>1, <3>2
  <2>2. \A y \in Client \ {x} : pc'[y] = pc[y]
    BY <1>2 DEF Call, Alloc, AllocContiguous, Free, FreeContiguous, Step, LoadWord, CasWins,
       CasLoses, AllocFails, ScanUsed, ScanFree, ScanFails, Claim, ClaimConflict, Unclaim,
       Rescan, FreePage, FreeConflict, Refill, Inspect, Return, Typed, TypeOK
  <2>3. QED  BY <2>1, <2>2
<1>3. ASSUME NEW x \in Client, Alloc(x) PROVE Exact'
  <2>1. at'[x] = 0 /\ pc'[x] = "load"
    BY <1>3 DEF Alloc, MayCall, Typed, TypeOK, Locals, locals
  <2>2. at'[x] * WordBits = 0
    BY <2>1, BitmapAssumption
  <2>3. QED  BY <1>2, <1>3, <2>1, <2>2, PageCount DEF Exact, Call
<1>4. ASSUME NEW x \in Client, pc[x] \in {"load", "cas"}, Inspect(x), at[x] < Words,
             UNCHANGED <<used, first, done, count, undo, owned>>,
             \A y \in Client \ {x} : pc'[y] = "idle"
      PROVE  Exact'
  <2>1. at[x] \in 0 .. Words - 1
    BY <1>4, BitmapAssumption DEF Typed, TypeOK, Locals
  <2>2. \A p \in Page : p < at[x] * WordBits => p \in used
    BY <1>4 DEF Exact
  <2>3. CASE CurrentWord(at[x]) = Bits(at[x])
    <3>1. pc'[x] = "load" /\ at'[x] = at[x] + 1
      BY <1>4, <2>3 DEF Inspect, Typed, TypeOK
    <3>2. \A p \in Page : p < (at[x] + 1) * WordBits => p \in used
      BY <2>1, <2>2, <2>3, BitsArePages, PageCount DEF CurrentWord
    <3>3. QED  BY <1>4, <3>1, <3>2 DEF Exact
  <2>4. CASE CurrentWord(at[x]) # Bits(at[x])
    <3>1. /\ pc'[x] = "cas" /\ at'[x] = at[x] /\ seen'[x] = CurrentWord(at[x])
      BY <1>4, <2>4 DEF Inspect, Typed, TypeOK
    <3>2. QED  BY <1>4, <2>2, <3>1 DEF Exact, CurrentWord
  <2>5. QED  BY <2>3, <2>4
<1>5. ASSUME NEW x \in Client, NEW c \in Counts, AllocContiguous(x, c) PROVE Exact'
  <2>1. first'[x] = 0 /\ at'[x] = 0 /\ pc'[x] = "scan"
    BY <1>5 DEF AllocContiguous, MayCall, Typed, TypeOK, Locals
  <2>2. QED  BY <1>2, <1>5, <2>1, PageCount DEF Exact, Call
<1>6. ASSUME NEW x \in Client, ScanUsed(x) PROVE Exact'
  <2>1. /\ pc[x] = "scan" /\ at[x] \in used /\ first[x] + done[x] = at[x]
        /\ done[x] < count[x] /\ first[x] \in Nat /\ done[x] \in Nat /\ count[x] \in Nat
        /\ pc'[x] = "scan" /\ first'[x] = at[x] + 1 /\ at'[x] = at[x] + 1
        /\ count' = count /\ used' = used
    BY <1>6, PageCount DEF ScanUsed, Typed, TypeOK, Locals
  <2>2. ASSUME NEW p \in Page, FreeRun(p, count[x]) PROVE p >= at[x] + 1
    <3>1. p >= first[x]
      BY <2>1, <2>2 DEF Exact
    <3>2. QED  BY <2>1, <2>2, <3>1, RunPastUsed, PageCount DEF FreeRun
  <2>3. QED  BY <1>2, <1>6, <2>1, <2>2 DEF Exact, Step, FreeRun
<1>7. ASSUME NEW x \in Client, ScanFree(x) PROVE Exact'
  <2>1. /\ pc[x] = "scan" /\ at[x] \notin used /\ first[x] + done[x] = at[x]
        /\ done[x] < count[x] /\ first[x] \in Nat /\ done[x] \in Nat /\ count[x] \in Nat
        /\ count' = count /\ used' = used /\ first' = first
        /\ (first[x] .. at[x] - 1) \intersect used = {}
        /\ \A p \in Page : FreeRun(p, count[x]) => p >= first[x]
    BY <1>7, PageCount DEF ScanFree, Typed, TypeOK, Locals, Exact
  <2>2. (first[x] .. at[x]) \intersect used = {}
    BY <2>1
  <2>3. \/ pc'[x] = "claim" /\ done[x] + 1 >= count[x] /\ done'[x] = 0
        \/ pc'[x] = "scan" /\ at'[x] = at[x] + 1
    BY <1>7 DEF ScanFree, Typed, TypeOK
  <2>4. QED  BY <1>2, <1>7, <2>1, <2>2, <2>3 DEF Exact, Step, FreeRun
<1>8. ASSUME NEW x \in Client, Claim(x) PROVE Exact'
  <2>1. CASE done[x] + 1 = count[x]
    BY <1>1, <1>2, <1>8, <2>1 DEF Claim, Return, Step, Typed, TypeOK
  <2>2. CASE done[x] + 1 # count[x]
    <3>1. /\ pc[x] = "claim" /\ pc'[x] = "claim" /\ done'[x] = done[x] + 1
          /\ used' = used \union {first[x] + done[x]}
          /\ first' = first /\ count' = count
          /\ (first[x] + done[x] .. first[x] + count[x] - 1) \intersect used = {}
          /\ first[x] \in Nat /\ done[x] \in Nat /\ count[x] \in Nat
      BY <1>8, <2>2, PageCount DEF Claim, Typed, TypeOK, Exact
    <3>2. (first[x] + done[x] + 1 .. first[x] + count[x] - 1) \intersect used' = {}
      BY <3>1
    <3>3. QED  BY <1>2, <1>8, <3>1, <3>2 DEF Exact, Step
  <2>3. QED  BY <2>1, <2>2
<1>9. ASSUME NEW x \in Client, ClaimConflict(x) \/ Unclaim(x) \/ Rescan(x) PROVE FALSE
  BY <1>9, PageCount DEF ClaimConflict, Unclaim, Rescan, Typed, TypeOK, Locals, Exact
<1>10. ASSUME NEW x \in Client,
              \/ CasWins(x) \/ AllocFails(x) \/ ScanFails(x)
              \/ FreePage(x) \/ FreeConflict(x) \/ Refill(x)
              \/ \E p \in Page : Free(x, p)
              \/ \E p \in Page, c \in Counts : FreeContiguous(x, p, c)
       PROVE  Exact'
  <2>1. pc'[x] \in {"idle", "free", "refill"}
    BY <1>10 DEF CasWins, AllocFails, ScanFails, FreePage, FreeConflict, Refill, Free,
       FreeContiguous, MayCall, Return, Typed, TypeOK
  <2>2. QED  BY <1>1, <1>2, <1>10, <2>1 DEF Step, Call
<1>11. CASE UNCHANGED vars
  <2>1. UNCHANGED <<used, pc, at, seen, first, done, count, heap_lock>>
    BY <1>11 DEF vars, locals
  <2>2. QED  BY <2>1, Zenon DEF Exact, FreeRun, CurrentWord
<1>12. ASSUME NEW x \in Client, LoadWord(x) \/ CasLoses(x) PROVE Exact'
  <2>1. at[x] < Words /\ pc[x] \in {"load", "cas"} /\ Inspect(x)
    BY <1>12 DEF LoadWord, CasLoses, Typed, Locals
  <2>2. UNCHANGED <<used, first, done, count, undo, owned>>
    BY <1>12 DEF LoadWord, CasLoses
  <2>3. \A y \in Client \ {x} : pc'[y] = "idle"
    BY <1>2, <1>12 DEF Step
  <2>4. QED  BY <1>4, <2>1, <2>2, <2>3
<1>13. QED
  BY <1>3, <1>5, <1>6, <1>7, <1>8, <1>9, <1>10, <1>11, <1>12 DEF Next, Call, Step

(* The three invariants that the exactness of the searches rests on.        *)
LEMMA SearchInvariants == Spec => [](Typed /\ Serialised /\ Exact)
  BY TypedInit, TypedStep, SerialisedInit, SerialisedStep, ExactInit, ExactStep, PTL
     DEF Spec

(* Under the heap lock bitmap_alloc fails only on a full bitmap and else    *)
(* takes the lowest free page; bitmap_alloc_contiguous fails only if there  *)
(* is no free run of the length asked for and else finds the first.         *)
THEOREM SearchIsExactHolds == Spec => SearchIsExact
<1>1. ASSUME Typed, Serialised, Exact, [Next]_vars, heap_lock, NEW x \in Client
      PROVE  /\ AllocFails(x) => used = Page
             /\ CasWins(x) => used' = used \union {Min(Page \ used)}
             /\ ScanFails(x) => \A p \in Page : ~FreeRun(p, count[x])
             /\ pc[x] = "scan" /\ pc'[x] = "claim" =>
                    /\ FreeRun(first[x], count[x])
                    /\ \A p \in Page : FreeRun(p, count[x]) => p >= first[x]
  <2>1. ASSUME AllocFails(x) PROVE used = Page
    <3>1. \A p \in Page : p < TOTAL_PAGES => p \in used
      BY <1>1, <2>1 DEF AllocFails, Exact, TOTAL_PAGES
    <3>2. \A p \in Page : p < TOTAL_PAGES
      BY PageCount DEF Page
    <3>3. QED  BY <1>1, <3>1, <3>2 DEF Typed, TypeOK
  <2>2. ASSUME CasWins(x) PROVE used' = used \union {Min(Page \ used)}
    <3> DEFINE w == at[x]
               p == FirstClear(seen[x], w)
    <3>1. /\ w \in 0 .. Words - 1
          /\ seen[x] = used \intersect Bits(w) /\ seen[x] # Bits(w)
          /\ \A q \in Page : q < w * WordBits => q \in used
          /\ used' = used \union {p}
      BY <1>1, <2>2, BitmapAssumption DEF CasWins, Typed, TypeOK, Locals, Exact, CurrentWord
    <3> HIDE DEF w, p
    <3>2. /\ p \in Bits(w) \ seen[x]
          /\ \A q \in Bits(w) \ seen[x] : p <= q
      BY <3>1, FirstClearIs DEF p, w
    <3>3. /\ Bits(w) \subseteq Page
          /\ Bits(w) = {q \in Nat : w * WordBits <= q /\ q < (w + 1) * WordBits}
          /\ w * WordBits \in Nat /\ (w + 1) * WordBits \in Nat
      BY <3>1, BitsArePages, BitmapAssumption
    <3>4. p \in Page \ used
      BY <3>1, <3>2, <3>3
    <3>5. ASSUME NEW q \in Page \ used PROVE p <= q
      <4>1. q \in Nat /\ w * WordBits <= q
        <5>1. q \in Nat
          BY PageCount
        <5>2. ~(q < w * WordBits)
          BY <3>1
        <5>3. QED  BY <3>3, <5>1, <5>2
      <4>2. CASE q \in Bits(w)
        BY <3>1, <3>2, <4>2
      <4>3. CASE q \notin Bits(w)
        BY <3>2, <3>3, <4>1, <4>3
      <4>4. QED  BY <4>2, <4>3
    <3>6. Min(Page \ used) = p
      BY <3>4, <3>5, MinIs, PageCount
    <3>7. QED  BY <3>1, <3>6
  <2>3. ASSUME ScanFails(x), NEW p \in Page, FreeRun(p, count[x]) PROVE FALSE
    <3>1. /\ p >= first[x] /\ first[x] + done[x] = TOTAL_PAGES /\ done[x] < count[x]
          /\ first[x] \in Nat /\ done[x] \in Nat /\ count[x] \in Nat
      BY <1>1, <2>3, PageCount DEF ScanFails, Typed, TypeOK, Locals, Exact
    <3>2. TOTAL_PAGES \in p .. p + count[x] - 1
      BY <3>1, PageCount DEF Page
    <3>3. TOTAL_PAGES \in Page
      BY <2>3, <3>2 DEF FreeRun
    <3>4. QED  BY <3>3, PageCount DEF Page
  <2>4. ASSUME pc[x] = "scan", pc'[x] = "claim"
        PROVE  /\ FreeRun(first[x], count[x])
               /\ \A p \in Page : FreeRun(p, count[x]) => p >= first[x]
    <3>1. \A p \in Page : FreeRun(p, count[x]) => p >= first[x]
      BY <1>1, <2>4 DEF Exact
    <3>2. ScanFree(x)
      <4>1. PICK y \in Client : Call(y) \/ Step(y)
        BY <1>1, <2>4 DEF Next, vars
      <4>2. y = x
        BY <1>1, <2>4, <4>1 DEF Call, Alloc, AllocContiguous, Free, FreeContiguous, Step,
           LoadWord, CasWins, CasLoses, AllocFails, ScanUsed, ScanFree, ScanFails, Claim,
           ClaimConflict, Unclaim, Rescan, FreePage, FreeConflict, Refill, Inspect, Return,
           Goto, Typed, TypeOK
      <4>3. ScanUsed(x) \/ ScanFree(x) \/ ScanFails(x)
        BY <2>4, <4>1, <4>2 DEF Call, Alloc, AllocContiguous, Free, FreeContiguous,
           MayCall, Step, LoadWord, CasWins, CasLoses, AllocFails, Claim,
           ClaimConflict, Unclaim, Rescan, FreePage, FreeConflict, Refill
      <4>4. QED
        BY <1>1, <2>4, <4>3 DEF ScanUsed, ScanFails, Return, Goto, Typed, TypeOK
    <3>3. /\ first[x] + done[x] = at[x] /\ at[x] \in Page \ used
          /\ done[x] + 1 = count[x]
          /\ (first[x] .. at[x] - 1) \intersect used = {}
          /\ first[x] \in Nat /\ done[x] \in Nat /\ count[x] \in Nat
      BY <1>1, <2>4, <3>2, PageCount DEF ScanFree, Typed, TypeOK, Locals, Exact, Page
    <3>4. first[x] .. first[x] + count[x] - 1 \subseteq Page \ used
      BY <3>3, PageCount DEF Page
    <3>5. QED  BY <3>1, <3>4 DEF FreeRun
  <2>5. QED  BY <2>1, <2>2, <2>3, <2>4
<1>2. Typed /\ Serialised /\ Exact /\ [Next]_vars =>
        [heap_lock => \A x \in Client :
           /\ AllocFails(x) => used = Page
           /\ CasWins(x) => used' = used \union {Min(Page \ used)}
           /\ ScanFails(x) => \A p \in Page : ~FreeRun(p, count[x])
           /\ pc[x] = "scan" /\ pc'[x] = "claim" =>
                  /\ FreeRun(first[x], count[x])
                  /\ \A p \in Page : FreeRun(p, count[x]) => p >= first[x]]_vars
  BY <1>1
<1>3. QED  BY <1>2, SearchInvariants, PTL DEF Spec, SearchIsExact

-----------------------------------------------------------------------------
(* A run being freed: its pages are the client's own up to some page and,   *)
(* in a wrong free under the heap lock, free from there on. A failed free   *)
(* owns again what it freed.                                                *)
FreesOf(x) ==
    /\ pc[x] = "free" =>
           /\ \E k \in done[x] .. count[x] :
                 /\ first[x] + done[x] .. first[x] + k - 1 \subseteq owned[x]
                 /\ (first[x] + k .. first[x] + count[x] - 1) \intersect used = {}
                 /\ k < count[x] => heap_lock
           /\ heap_lock => (first[x] .. first[x] + done[x] - 1) \intersect used = {}
    /\ pc[x] = "refill" =>
           /\ heap_lock
           /\ first[x] .. first[x] + done[x] - 1 \subseteq owned[x]

Frees == \A x \in Client : FreesOf(x)

(* The pages nobody else may be granted, and those whose bit x keeps set.   *)
Holds(x) == owned[x] \union Claimed(x)
Marked(x) == (owned[x] \ Cleared(x)) \union Claimed(x)

(* Wrong frees happen only under the heap lock.                             *)
Disciplined == StaleFrees => heap_lock

Owners == Frees /\ ExclusiveOwnership /\ BitmapTracksOwners

(* The pages a call holds besides those owned, before and after a step.     *)
LEMMA ClaimedIs ==
    ASSUME NEW x \in Client
    PROVE  /\ pc[x] = "claim" => Claimed(x) = first[x] .. first[x] + done[x] - 1
           /\ pc[x] = "unclaim" => Claimed(x) = first[x] + undo[x] .. first[x] + done[x] - 1
           /\ pc[x] \notin {"claim", "unclaim"} => Claimed(x) = {}
           /\ pc[x] = "refill" => Cleared(x) = first[x] + undo[x] .. first[x] + done[x] - 1
           /\ pc[x] # "refill" => Cleared(x) = {}
  BY DEF Claimed, Cleared

(* The same of the next state.                                              *)
LEMMA ClaimedNext ==
    ASSUME NEW x \in Client
    PROVE  /\ pc'[x] = "claim" => Claimed(x)' = first'[x] .. first'[x] + done'[x] - 1
           /\ pc'[x] = "unclaim" =>
                  Claimed(x)' = first'[x] + undo'[x] .. first'[x] + done'[x] - 1
           /\ pc'[x] \notin {"claim", "unclaim"} => Claimed(x)' = {}
           /\ pc'[x] = "refill" =>
                  Cleared(x)' = first'[x] + undo'[x] .. first'[x] + done'[x] - 1
           /\ pc'[x] # "refill" => Cleared(x)' = {}
  BY DEF Claimed, Cleared

(* BitmapTracksOwners page by page.                                         *)
LEMMA TracksPages ==
    BitmapTracksOwners <=>
        \A p : p \in used <=> p \in Kernel \/ \E x \in Client : p \in Marked(x)
  BY DEF BitmapTracksOwners, Marked

(* The same of the next state.                                              *)
LEMMA TracksPagesNext ==
    BitmapTracksOwners' <=>
        \A p : p \in used' <=> p \in Kernel \/ \E x \in Client : p \in Marked(x)'
  BY DEF BitmapTracksOwners, Marked, Kernel

(* What a client keeps set is set.                                          *)
LEMMA MarkedIsUsed ==
    ASSUME BitmapTracksOwners, NEW x \in Client
    PROVE  Marked(x) \subseteq used
  BY TracksPages

(* A page that is not used is nobody's, unless a failed free has it cleared.*)
LEMMA UnusedIsNobodys ==
    ASSUME BitmapTracksOwners, NEW p, p \notin used, \A y \in Client : Cleared(y) = {}
    PROVE  p \notin Kernel /\ \A y \in Client : p \notin Holds(y)
  BY TracksPages DEF Marked, Holds

(* What x alone is doing when it is in a call that is not a failed free:    *)
(* nobody has a page cleared, since failed frees need the heap lock.        *)
LEMMA NothingCleared ==
    ASSUME Serialised, Frees, NEW x \in Client, pc[x] # "refill",
           pc[x] = "idle" => MayCall(x)
    PROVE  \A y \in Client : Cleared(y) = {}
<1>1. \A y \in Client : pc[y] # "refill"
  BY DEF Serialised, Frees, FreesOf, MayCall
<1>2. QED  BY <1>1, ClaimedIs

(* A step of x leaves the other clients' calls and pages alone. If it sets  *)
(* and clears bits just as the pages that x keeps set change, and what x    *)
(* holds then that it did not hold before is nobody's, all is well.         *)
LEMMA OwnersMove ==
    ASSUME NEW x \in Client,
           ExclusiveOwnership, BitmapTracksOwners,
           \A y \in Client \ {x} : /\ pc'[y] = pc[y] /\ first'[y] = first[y]
                                   /\ done'[y] = done[y] /\ undo'[y] = undo[y]
                                   /\ owned'[y] = owned[y],
           used' = (used \ Marked(x)) \union Marked(x)',
           owned'[x] \intersect Claimed(x)' = {},
           \A p \in Holds(x)' \ Holds(x) : /\ p \notin Kernel
                                          /\ \A y \in Client \ {x} : p \notin Holds(y)
    PROVE  ExclusiveOwnership' /\ BitmapTracksOwners'
<1>1. \A y \in Client \ {x} : /\ Claimed(y)' = Claimed(y)
                              /\ Holds(y)' = Holds(y)
                              /\ Marked(y)' = Marked(y)
  BY DEF Claimed, Cleared, Holds, Marked
<1>2. ExclusiveOwnership'
  <2>1. Kernel' = Kernel
    BY DEF Kernel
  <2>2. \A y, z \in Client :
          /\ Holds(y) \intersect Kernel = {}
          /\ owned[y] \intersect Claimed(y) = {}
          /\ y # z => Holds(y) \intersect Holds(z) = {}
    BY DEF ExclusiveOwnership, Holds
  <2>3. \A y \in Client :
          /\ Holds(y)' \intersect Kernel = {}
          /\ owned'[y] \intersect Claimed(y)' = {}
    BY <1>1, <2>2
  <2>4. \A y, z \in Client : y # z => Holds(y)' \intersect Holds(z)' = {}
    BY <1>1, <2>2
  <2>5. QED  BY <2>1, <2>3, <2>4 DEF ExclusiveOwnership, Holds
<1>3. BitmapTracksOwners'
  <2>1. \A p \in Marked(x) : p \notin Kernel /\ \A y \in Client \ {x} : p \notin Marked(y)
    BY DEF ExclusiveOwnership, Marked
  <2>2. \A p : p \in used' <=> p \in Kernel \/ \E y \in Client : p \in Marked(y)'
    <3>1. \A p : p \in used <=> p \in Kernel \/ \E y \in Client : p \in Marked(y)
      BY TracksPages
    <3>2. QED  BY <1>1, <2>1, <3>1
  <2>3. QED  BY <2>2, TracksPagesNext
<1>4. QED  BY <1>2, <1>3

(* The other clients' frees are undisturbed: without the heap lock they are *)
(* of pages of their own, with it there are none.                           *)
LEMMA FreesFrame ==
    ASSUME Frees, NEW x \in Client, heap_lock' = heap_lock,
           heap_lock => \A y \in Client \ {x} : pc[y] = "idle",
           Typed,
           \A y \in Client \ {x} : /\ pc'[y] = pc[y] /\ first'[y] = first[y]
                                   /\ done'[y] = done[y] /\ count'[y] = count[y]
                                   /\ owned'[y] = owned[y],
           pc'[x] \notin {"free", "refill"} \/ FreesOf(x)'
    PROVE  Frees'
<1>0. FreesOf(x)'
  BY DEF FreesOf
<1>1. \A y \in Client \ {x} :
        pc'[y] \in {"free", "refill"} => pc'[y] = "free" /\ ~heap_lock
  BY DEF Frees, FreesOf
<1>2. SUFFICES ASSUME NEW y \in Client \ {x}, pc'[y] = "free", ~heap_lock
               PROVE  \E k \in done'[y] .. count'[y] :
                        /\ first'[y] + done'[y] .. first'[y] + k - 1 \subseteq owned'[y]
                        /\ (first'[y] + k .. first'[y] + count'[y] - 1) \intersect used' = {}
                        /\ k < count'[y] => heap_lock'
  BY <1>0, <1>1 DEF Frees, FreesOf
<1>3. PICK k \in done[y] .. count[y] :
        /\ first[y] + done[y] .. first[y] + k - 1 \subseteq owned[y]
        /\ k < count[y] => heap_lock
  BY <1>2 DEF Frees, FreesOf
<1>4. k = count[y] /\ first[y] \in Nat /\ count[y] \in Nat
  BY <1>2, <1>3, PageCount DEF Typed, TypeOK
<1>5. (first[y] + count[y] .. first[y] + count[y] - 1) \intersect used' = {}
  BY <1>4
<1>6. QED  BY <1>2, <1>3, <1>4, <1>5

(* A step is one client's: it leaves the others' calls and pages alone, and *)
(* under the heap lock the others are in no call.                           *)
LEMMA OneActs ==
    ASSUME Typed, Serialised, NEW x \in Client, Call(x) \/ Step(x)
    PROVE  /\ heap_lock => \A y \in Client \ {x} : pc[y] = "idle"
           /\ pc[x] = "idle" => MayCall(x)
           /\ \A y \in Client \ {x} :
                 /\ pc'[y] = pc[y] /\ first'[y] = first[y] /\ done'[y] = done[y]
                 /\ undo'[y] = undo[y] /\ count'[y] = count[y] /\ owned'[y] = owned[y]
<1>1. CASE Call(x)
  <2>1. MayCall(x)
    BY <1>1 DEF Call, Alloc, AllocContiguous, Free, FreeContiguous
  <2>2. \A y \in Client \ {x} :
                 /\ pc'[y] = pc[y] /\ first'[y] = first[y] /\ done'[y] = done[y]
                 /\ undo'[y] = undo[y] /\ count'[y] = count[y] /\ owned'[y] = owned[y]
    BY <1>1 DEF Call, Alloc, AllocContiguous, Free, FreeContiguous, Goto, locals, Typed, TypeOK
  <2>3. QED  BY <2>1, <2>2 DEF MayCall
<1>2. CASE Step(x)
  <2>1. pc[x] # "idle"
    BY <1>2 DEF Step, LoadWord, CasWins, CasLoses, AllocFails, ScanUsed, ScanFree,
       ScanFails, Claim, ClaimConflict, Unclaim, Rescan, FreePage, FreeConflict, Refill
  <2>2. \A y \in Client \ {x} :
                 /\ pc'[y] = pc[y] /\ first'[y] = first[y] /\ done'[y] = done[y]
                 /\ undo'[y] = undo[y] /\ count'[y] = count[y] /\ owned'[y] = owned[y]
    BY <1>2 DEF Step, LoadWord, CasWins, CasLoses, AllocFails, ScanUsed, ScanFree,
       ScanFails, Claim, ClaimConflict, Unclaim, Rescan, FreePage, FreeConflict, Refill,
       Inspect, Return, Goto, locals, Typed, TypeOK
  <2>3. QED  BY <2>1, <2>2 DEF Serialised
<1>3. QED  BY <1>1, <1>2

(* At first nobody owns a page and only the kernel's are marked.            *)
LEMMA OwnersInit == Init => Owners
<1> SUFFICES ASSUME Init PROVE Owners
  OBVIOUS
<1>1. \A x \in Client : Claimed(x) = {} /\ Cleared(x) = {} /\ owned[x] = {}
  BY ClaimedIs DEF Init
<1>2. Frees
  BY DEF Init, Frees, FreesOf
<1>3. ExclusiveOwnership
  BY <1>1 DEF ExclusiveOwnership
<1>4. BitmapTracksOwners
  BY <1>1 DEF BitmapTracksOwners, Init
<1>5. QED  BY <1>2, <1>3, <1>4 DEF Owners

(* Steps that change neither a bit nor what their client holds.             *)
LEMMA NothingMoves ==
    ASSUME Typed, Serialised, Owners, NEW x \in Client, heap_lock' = heap_lock,
           UNCHANGED <<used, owned>>,
           \/ Alloc(x) \/ LoadWord(x) \/ CasLoses(x) \/ AllocFails(x)
           \/ \E c \in Counts : AllocContiguous(x, c)
           \/ ScanUsed(x) \/ ScanFree(x) \/ ScanFails(x) \/ ClaimConflict(x) \/ Rescan(x)
    PROVE  Owners'
<1>1. Call(x) \/ Step(x)
  BY DEF Call, Step
<1>2. /\ Claimed(x)' = Claimed(x)
      /\ Cleared(x)' = Cleared(x)
      /\ pc'[x] \notin {"free", "refill"}
  <2>1. CASE pc[x] \notin {"claim", "unclaim"}
    <3>1. /\ pc[x] # "refill" /\ pc'[x] \notin {"free", "refill", "unclaim"}
          /\ pc'[x] = "claim" => done'[x] = 0
      BY <2>1 DEF Alloc, LoadWord, CasLoses, AllocFails, AllocContiguous, ScanUsed, ScanFree,
         ScanFails, ClaimConflict, Rescan, MayCall, Inspect, Return, Goto, Typed, TypeOK
    <3>2. first' = first \/ pc'[x] # "claim"
      BY <2>1 DEF Alloc, LoadWord, CasLoses, AllocFails, AllocContiguous, ScanUsed, ScanFree,
         ScanFails, ClaimConflict, Rescan, MayCall, Inspect, Return, Goto, Typed, TypeOK,
         locals
    <3>3. first[x] .. first[x] + 0 - 1 = {}
      BY PageCount DEF Typed, TypeOK
    <3>4. QED  BY <2>1, <3>1, <3>2, <3>3, ClaimedIs, ClaimedNext
  <2>2. CASE ClaimConflict(x)
    <3>1. /\ pc[x] = "claim" /\ pc'[x] = "unclaim" /\ undo[x] = 0
          /\ first' = first /\ done' = done /\ undo' = undo /\ first[x] + 0 = first[x]
      BY <2>2, PageCount DEF ClaimConflict, Goto, Typed, TypeOK, Locals, locals
    <3>2. QED  BY <3>1, ClaimedIs, ClaimedNext
  <2>3. CASE Rescan(x)
    <3>1. /\ pc[x] = "unclaim" /\ pc'[x] = "scan"
          /\ first[x] + undo[x] .. first[x] + done[x] - 1 = {}
      BY <2>3, PageCount DEF Rescan, Goto, Typed, TypeOK
    <3>2. QED  BY <3>1, ClaimedIs, ClaimedNext
  <2>4. QED
    BY <2>1, <2>2, <2>3 DEF Alloc, LoadWord, CasLoses, AllocFails, AllocContiguous, ScanUsed,
       ScanFree, ScanFails, MayCall
<1>3. Marked(x)' = Marked(x) /\ Holds(x)' = Holds(x)
  BY <1>2 DEF Marked, Holds
<1>4. ExclusiveOwnership' /\ BitmapTracksOwners'
  <2>1. owned'[x] \intersect Claimed(x)' = {}
    BY <1>2 DEF Owners, ExclusiveOwnership
  <2>2. used' = (used \ Marked(x)) \union Marked(x)'
    BY <1>3, MarkedIsUsed DEF Owners
  <2>3. QED  BY <1>1, <1>3, <2>1, <2>2, OneActs, OwnersMove DEF Owners
<1>5. Frees'
  BY <1>1, <1>2, OneActs, FreesFrame DEF Owners
<1>6. QED  BY <1>4, <1>5 DEF Owners

(* bitmap_alloc takes a page that was nobody's.                             *)
LEMMA CasWinsOwners ==
    ASSUME Typed, Serialised, Owners, NEW x \in Client, heap_lock' = heap_lock, CasWins(x)
    PROVE  Owners'
<1> DEFINE p == FirstClear(seen[x], at[x])
<1>0. Call(x) \/ Step(x)
  BY DEF Call, Step
<1>1. /\ pc[x] = "cas" /\ pc'[x] = "idle"
      /\ CurrentWord(at[x]) = seen[x]
      /\ used' = used \union {p}
      /\ owned'[x] = owned[x] \union {p}
  BY DEF CasWins, Return, Goto, Typed, TypeOK
<1>2. p \notin used
  <2>1. at[x] \in 0 .. Words - 1 /\ seen[x] \subseteq Bits(at[x]) /\ seen[x] # Bits(at[x])
    BY <1>1, BitmapAssumption DEF Typed, TypeOK, Locals
  <2>2. p \in Bits(at[x]) \ seen[x]
    BY <2>1, FirstClearIs
  <2>3. QED  BY <1>1, <2>2 DEF CurrentWord
<1> HIDE DEF p
<1>3. /\ p \notin Kernel
      /\ \A y \in Client : p \notin Holds(y)
  BY <1>1, <1>2, NothingCleared, UnusedIsNobodys DEF Owners
<1>4. /\ Claimed(x) = {} /\ Claimed(x)' = {} /\ Cleared(x) = {} /\ Cleared(x)' = {}
  BY <1>1, ClaimedIs, ClaimedNext
<1>5. /\ Holds(x)' = Holds(x) \union {p}
      /\ Marked(x)' = Marked(x) \union {p}
      /\ used' = (used \ Marked(x)) \union Marked(x)'
  BY <1>1, <1>4, MarkedIsUsed DEF Owners, Holds, Marked
<1>6. ExclusiveOwnership' /\ BitmapTracksOwners'
  BY <1>0, <1>3, <1>4, <1>5, OneActs, OwnersMove DEF Owners
<1>7. Frees'
  BY <1>0, <1>1, OneActs, FreesFrame DEF Owners
<1>8. QED  BY <1>6, <1>7 DEF Owners

(* Claiming one more page of a run takes a page that was nobody's.          *)
LEMMA ClaimOwners ==
    ASSUME Typed, Serialised, Owners, NEW x \in Client, heap_lock' = heap_lock, Claim(x)
    PROVE  Owners'
<1> DEFINE p == first[x] + done[x]
<1>0. Call(x) \/ Step(x)
  BY DEF Call, Step
<1>1. /\ pc[x] = "claim" /\ p \notin used /\ used' = used \union {p}
      /\ first[x] \in Nat /\ done[x] \in Nat /\ count[x] \in Nat
  BY PageCount DEF Claim, Typed, TypeOK
<1>2. /\ p \notin Kernel
      /\ \A y \in Client : p \notin Holds(y)
  BY <1>1, NothingCleared, UnusedIsNobodys DEF Owners
<1>3. Claimed(x) = first[x] .. first[x] + done[x] - 1 /\ Cleared(x) = {}
  BY <1>1, ClaimedIs
<1>4. /\ pc'[x] \notin {"free", "refill"}
      /\ Cleared(x)' = {}
      /\ \/ Claimed(x)' = {} /\ owned'[x] = (owned[x] \union Claimed(x)) \union {p}
         \/ Claimed(x)' = Claimed(x) \union {p} /\ owned'[x] = owned[x]
  <2>1. CASE done[x] + 1 = count[x]
    <3>1. pc'[x] = "idle" /\ owned'[x] = owned[x] \union Run(x)
      BY <2>1 DEF Claim, Return, Goto, Typed, TypeOK
    <3>2. Run(x) = Claimed(x) \union {p}
      BY <1>1, <1>3, <2>1 DEF Run
    <3>3. QED  BY <3>1, <3>2, ClaimedNext
  <2>2. CASE done[x] + 1 # count[x]
    <3>1. /\ pc'[x] = "claim" /\ first'[x] = first[x] /\ done'[x] = done[x] + 1
          /\ owned'[x] = owned[x]
      BY <1>1, <2>2 DEF Claim, Typed, TypeOK
    <3>2. first[x] .. first[x] + (done[x] + 1) - 1 = Claimed(x) \union {p}
      BY <1>1, <1>3
    <3>3. QED  BY <3>1, <3>2, ClaimedNext
  <2>3. QED  BY <2>1, <2>2
<1> HIDE DEF p
<1>5. /\ Holds(x)' = Holds(x) \union {p}
      /\ Marked(x)' = Marked(x) \union {p}
      /\ used' = (used \ Marked(x)) \union Marked(x)'
  BY <1>1, <1>3, <1>4, MarkedIsUsed DEF Owners, Holds, Marked
<1>6. owned'[x] \intersect Claimed(x)' = {}
  <2>1. owned[x] \intersect Claimed(x) = {} /\ p \notin owned[x]
    BY <1>2 DEF Owners, ExclusiveOwnership, Holds
  <2>2. QED  BY <1>4, <2>1
<1>7. ExclusiveOwnership' /\ BitmapTracksOwners'
  <2>1. \A q \in Holds(x)' \ Holds(x) : /\ q \notin Kernel
                                         /\ \A y \in Client \ {x} : q \notin Holds(y)
    BY <1>2, <1>5
  <2>2. QED  BY <1>0, <1>5, <1>6, <2>1, OneActs, OwnersMove DEF Owners
<1>8. Frees'
  BY <1>0, <1>4, OneActs, FreesFrame DEF Owners
<1>9. QED  BY <1>7, <1>8 DEF Owners

(* A rollback gives back the lowest page the search still claims.           *)
LEMMA UnclaimOwners ==
    ASSUME Typed, Serialised, Owners, NEW x \in Client, heap_lock' = heap_lock, Unclaim(x)
    PROVE  Owners'
<1> DEFINE p == first[x] + undo[x]
<1>0. Call(x) \/ Step(x)
  BY DEF Call, Step
<1>1. /\ pc[x] = "unclaim" /\ undo[x] < done[x] /\ used' = used \ {p}
      /\ pc'[x] = "unclaim" /\ undo'[x] = undo[x] + 1 /\ first'[x] = first[x]
      /\ done'[x] = done[x] /\ owned'[x] = owned[x]
      /\ first[x] \in Nat /\ done[x] \in Nat /\ undo[x] \in Nat
  BY PageCount DEF Unclaim, Typed, TypeOK
<1>2. /\ Claimed(x) = first[x] + undo[x] .. first[x] + done[x] - 1
      /\ Claimed(x)' = first[x] + (undo[x] + 1) .. first[x] + done[x] - 1
      /\ Cleared(x) = {} /\ Cleared(x)' = {}
  BY <1>1, ClaimedIs, ClaimedNext
<1>3. p \in Claimed(x) /\ Claimed(x)' = Claimed(x) \ {p}
  BY <1>1, <1>2
<1> HIDE DEF p
<1>4. owned[x] \intersect Claimed(x) = {}
  BY DEF Owners, ExclusiveOwnership
<1>5. /\ Holds(x)' \subseteq Holds(x)
      /\ used' = (used \ Marked(x)) \union Marked(x)'
      /\ owned'[x] \intersect Claimed(x)' = {}
  BY <1>1, <1>2, <1>3, <1>4, MarkedIsUsed DEF Owners, Holds, Marked
<1>6. ExclusiveOwnership' /\ BitmapTracksOwners'
  <2>1. \A q \in Holds(x)' \ Holds(x) : /\ q \notin Kernel
                                         /\ \A y \in Client \ {x} : q \notin Holds(y)
    BY <1>5
  <2>2. QED  BY <1>0, <1>5, <2>1, OneActs, OwnersMove DEF Owners
<1>7. Frees'
  BY <1>0, <1>1, OneActs, FreesFrame DEF Owners
<1>8. QED  BY <1>6, <1>7 DEF Owners

(* Freeing a page takes it from the client; freeing a page that is free     *)
(* already changes nothing.                                                 *)
LEMMA FreeOwners ==
    ASSUME Typed, Serialised, Owners, NEW x \in Client, heap_lock' = heap_lock,
           NEW p \in Page, Free(x, p)
    PROVE  Owners'
<1>0. Call(x) \/ Step(x)
  BY DEF Call
<1>1. /\ pc[x] = "idle" /\ pc'[x] = "idle" /\ MayCall(x)
      /\ p \in used => p \in owned[x]
      /\ used' = used \ {p}
      /\ owned'[x] = owned[x] \ {p}
  BY DEF Free, MayCall, MayFree, locals, Typed, TypeOK
<1>2. Claimed(x) = {} /\ Claimed(x)' = {} /\ Cleared(x) = {} /\ Cleared(x)' = {}
  BY <1>1, ClaimedIs, ClaimedNext
<1>3. ExclusiveOwnership' /\ BitmapTracksOwners'
  <2>1. /\ \A q \in Holds(x)' \ Holds(x) : FALSE
        /\ used' = (used \ Marked(x)) \union Marked(x)'
        /\ owned'[x] \intersect Claimed(x)' = {}
    BY <1>1, <1>2, MarkedIsUsed DEF Owners, Holds, Marked
  <2>2. QED  BY <1>0, <2>1, OneActs, OwnersMove DEF Owners
<1>4. Frees'
  BY <1>0, <1>1, OneActs, FreesFrame DEF Owners
<1>5. QED  BY <1>3, <1>4 DEF Owners

(* A run to be freed is the client's own, or its wrong part is free.        *)
LEMMA FreeContiguousOwners ==
    ASSUME Disciplined, Typed, Serialised, Owners, NEW x \in Client, heap_lock' = heap_lock,
           NEW p \in Page, NEW c \in Counts, FreeContiguous(x, p, c)
    PROVE  Owners'
<1>0. Call(x) \/ Step(x)
  BY DEF Call
<1>1. /\ pc[x] = "idle" /\ pc'[x] = "free"
      /\ first'[x] = p /\ count'[x] = c /\ done'[x] = 0
      /\ used' = used /\ owned' = owned
      /\ p \in Nat /\ c \in Nat
  BY PageCount, BitmapAssumption
     DEF FreeContiguous, MayCall, Goto, locals, Typed, TypeOK, Locals
<1>2. Claimed(x) = {} /\ Claimed(x)' = {} /\ Cleared(x) = {} /\ Cleared(x)' = {}
  BY <1>1, ClaimedIs, ClaimedNext
<1>3. ExclusiveOwnership' /\ BitmapTracksOwners'
  <2>1. /\ \A q \in Holds(x)' \ Holds(x) : FALSE
        /\ used' = (used \ Marked(x)) \union Marked(x)'
        /\ owned'[x] \intersect Claimed(x)' = {}
    BY <1>1, <1>2, MarkedIsUsed DEF Owners, Holds, Marked
  <2>2. QED  BY <1>0, <2>1, OneActs, OwnersMove DEF Owners
<1>4. FreesOf(x)'
  <2>1. \E k \in 0 .. c :
          /\ p + 0 .. p + k - 1 \subseteq owned[x]
          /\ (p + k .. p + c - 1) \intersect used = {}
          /\ k < c => heap_lock
    <3>1. CASE p .. p + c - 1 \subseteq owned[x]
      <4>1. p + c .. p + c - 1 = {} /\ p + 0 = p /\ c \in 0 .. c /\ ~(c < c)
        BY <1>1
      <4>2. QED  BY <3>1, <4>1
    <3>2. CASE /\ heap_lock
               /\ \E k \in 1 .. c - 1 : /\ p .. p + k - 1 \subseteq owned[x]
                                        /\ (p + k .. p + c - 1) \intersect used = {}
      <4>1. p + 0 = p /\ 1 .. c - 1 \subseteq 0 .. c
        BY <1>1
      <4>2. QED  BY <3>2, <4>1
    <3>3. MayFreeRun(x, p, c)
      BY DEF FreeContiguous
    <3>4. WrongFrees => heap_lock
      BY DEF WrongFrees, Disciplined
    <3>5. QED  BY <3>1, <3>2, <3>3, <3>4 DEF MayFreeRun
  <2>2. p .. p + 0 - 1 = {}
    BY <1>1
  <2>3. QED  BY <1>1, <2>1, <2>2 DEF FreesOf
<1>5. Frees'
  BY <1>0, <1>4, OneActs, FreesFrame DEF Owners
<1>6. QED  BY <1>3, <1>5 DEF Owners

(* A page that a free finds set is the client's own.                        *)
LEMMA FreedIsOwned ==
    ASSUME Typed, Owners, NEW x \in Client, pc[x] = "free", first[x] + done[x] \in used
    PROVE  first[x] + done[x] \in owned[x]
<1>1. PICK k \in done[x] .. count[x] :
        /\ first[x] + done[x] .. first[x] + k - 1 \subseteq owned[x]
        /\ (first[x] + k .. first[x] + count[x] - 1) \intersect used = {}
  BY DEF Owners, Frees, FreesOf
<1>2. /\ first[x] \in Nat /\ done[x] \in Nat /\ count[x] \in Nat /\ done[x] < count[x]
  BY PageCount DEF Typed, TypeOK, Locals
<1>3. k # done[x]
  BY <1>1, <1>2
<1>4. QED  BY <1>1, <1>2, <1>3

(* Freeing a page of a run takes it from the client.                        *)
LEMMA FreePageOwners ==
    ASSUME Typed, Serialised, Owners, NEW x \in Client, heap_lock' = heap_lock, FreePage(x)
    PROVE  Owners'
<1> DEFINE p == first[x] + done[x]
<1>0. Call(x) \/ Step(x)
  BY DEF Call, Step
<1>1. /\ pc[x] = "free" /\ pc'[x] \in {"idle", "free"}
      /\ p \in used /\ used' = used \ {p}
      /\ owned'[x] = owned[x] \ {p}
      /\ pc'[x] = "free" => /\ first'[x] = first[x] /\ count'[x] = count[x]
                            /\ done'[x] = done[x] + 1
  BY DEF FreePage, Return, Goto, Typed, TypeOK
<1>2. /\ first[x] \in Nat /\ done[x] \in Nat /\ count[x] \in Nat /\ done[x] < count[x]
  BY <1>1, PageCount DEF Typed, TypeOK, Locals
<1>3. p \in owned[x]
  BY <1>1, FreedIsOwned
<1>4. Claimed(x) = {} /\ Claimed(x)' = {} /\ Cleared(x) = {} /\ Cleared(x)' = {}
  BY <1>1, ClaimedIs, ClaimedNext
<1>5. ExclusiveOwnership' /\ BitmapTracksOwners'
  <2> HIDE DEF p
  <2>1. /\ \A q \in Holds(x)' \ Holds(x) : FALSE
        /\ used' = (used \ Marked(x)) \union Marked(x)'
        /\ owned'[x] \intersect Claimed(x)' = {}
    BY <1>1, <1>3, <1>4, MarkedIsUsed DEF Owners, Holds, Marked
  <2>2. QED  BY <1>0, <2>1, OneActs, OwnersMove DEF Owners
<1>6. ASSUME pc'[x] = "free" PROVE FreesOf(x)'
  <2>1. PICK k \in done[x] .. count[x] :
          /\ first[x] + done[x] .. first[x] + k - 1 \subseteq owned[x]
          /\ (first[x] + k .. first[x] + count[x] - 1) \intersect used = {}
          /\ k < count[x] => heap_lock
    BY <1>1 DEF Owners, Frees, FreesOf
  <2>2. k \in done[x] + 1 .. count[x]
    BY <1>1, <1>2, <2>1
  <2>3. /\ first[x] + (done[x] + 1) .. first[x] + k - 1 \subseteq owned[x] \ {p}
        /\ (first[x] + k .. first[x] + count[x] - 1) \intersect (used \ {p}) = {}
    BY <1>2, <2>1, <2>2
  <2>4. heap_lock => (first[x] .. first[x] + (done[x] + 1) - 1) \intersect (used \ {p}) = {}
    <3>1. heap_lock => (first[x] .. first[x] + done[x] - 1) \intersect used = {}
      BY <1>1 DEF Owners, Frees, FreesOf
    <3>2. QED  BY <1>2, <3>1
  <2>5. QED  BY <1>1, <1>6, <2>1, <2>2, <2>3, <2>4 DEF FreesOf
<1>7. Frees'
  <2>1. pc'[x] \notin {"free", "refill"} \/ FreesOf(x)'
    BY <1>1, <1>6
  <2>2. QED  BY <1>0, <2>1, OneActs, FreesFrame DEF Owners
<1>8. QED  BY <1>5, <1>7 DEF Owners

(* A free that fails owns again the pages it cleared, which were nobody's   *)
(* in between.                                                              *)
LEMMA FreeConflictOwners ==
    ASSUME Typed, Serialised, Owners, NEW x \in Client, heap_lock' = heap_lock, FreeConflict(x)
    PROVE  /\ Owners'
           /\ (first[x] .. first[x] + done[x] - 1) \intersect used = {}
<1> DEFINE R == first[x] .. first[x] + done[x] - 1
<1>0. Call(x) \/ Step(x)
  BY DEF Call, Step
<1>1. /\ pc[x] = "free" /\ pc'[x] = "refill"
      /\ first[x] + done[x] \notin used /\ used' = used
      /\ owned'[x] = owned[x] \union R
      /\ first'[x] = first[x] /\ done'[x] = done[x] /\ undo'[x] = 0
  BY DEF FreeConflict, Goto, locals, Typed, TypeOK, Locals
<1>2. /\ first[x] \in Nat /\ done[x] \in Nat /\ count[x] \in Nat /\ done[x] < count[x]
  BY <1>1, PageCount DEF Typed, TypeOK, Locals
<1>3. \A y \in Client : Cleared(y) = {}
  BY <1>1, NothingCleared DEF Owners
<1>4. heap_lock
  <2>1. PICK k \in done[x] .. count[x] :
          /\ first[x] + done[x] .. first[x] + k - 1 \subseteq owned[x]
          /\ k < count[x] => heap_lock
    BY <1>1 DEF Owners, Frees, FreesOf
  <2>2. owned[x] \subseteq used
    BY <1>3, MarkedIsUsed DEF Owners, Marked
  <2>3. k = done[x]
    BY <1>1, <1>2, <2>1, <2>2
  <2>4. QED  BY <1>2, <2>1, <2>3
<1>5. R \intersect used = {}
  BY <1>1, <1>4 DEF Owners, Frees, FreesOf
<1>6. Claimed(x) = {} /\ Claimed(x)' = {} /\ Cleared(x) = {} /\ Cleared(x)' = R
  <2>1. first[x] + 0 .. first[x] + done[x] - 1 = R
    BY <1>2
  <2>2. QED  BY <1>1, <2>1, ClaimedIs, ClaimedNext
<1>7. FreesOf(x)'
  BY <1>1, <1>4 DEF FreesOf
<1> HIDE DEF R
<1>8. \A q \in R : /\ q \notin Kernel
                   /\ \A y \in Client \ {x} : q \notin Holds(y)
  BY <1>3, <1>5, UnusedIsNobodys DEF Owners
<1>9. ExclusiveOwnership' /\ BitmapTracksOwners'
  <2>1. /\ \A q \in Holds(x)' \ Holds(x) : q \in R
        /\ owned'[x] \intersect Claimed(x)' = {}
    BY <1>1, <1>6 DEF Holds
  <2>2. used' = (used \ Marked(x)) \union Marked(x)'
    BY <1>1, <1>5, <1>6, MarkedIsUsed DEF Owners, Marked
  <2>3. QED  BY <1>0, <1>8, <2>1, <2>2, OneActs, OwnersMove DEF Owners
<1>10. Frees'
  BY <1>0, <1>7, OneActs, FreesFrame DEF Owners
<1>11. QED  BY <1>5, <1>9, <1>10 DEF Owners, R

(* A rollback of a free sets the bit of one more page of the client's own.  *)
LEMMA RefillOwners ==
    ASSUME Typed, Serialised, Owners, NEW x \in Client, heap_lock' = heap_lock, Refill(x)
    PROVE  Owners'
<1> DEFINE q == first[x] + undo[x]
<1>0. Call(x) \/ Step(x)
  BY DEF Call, Step
<1>1. /\ pc[x] = "refill" /\ owned' = owned /\ undo[x] <= done[x]
      /\ first[x] \in Nat /\ done[x] \in Nat /\ undo[x] \in Nat
      /\ first[x] .. first[x] + done[x] - 1 \subseteq owned[x]
      /\ heap_lock
  BY PageCount DEF Refill, Typed, TypeOK, Locals, Owners, Frees, FreesOf
<1>2. Claimed(x) = {} /\ Cleared(x) = first[x] + undo[x] .. first[x] + done[x] - 1
  BY <1>1, ClaimedIs
<1>3. /\ pc'[x] \notin {"free", "refill"} \/ FreesOf(x)'
      /\ used' = (used \ Marked(x)) \union Marked(x)'
      /\ Claimed(x)' = {}
  <2>1. CASE undo[x] < done[x]
    <3>1. /\ pc'[x] = "refill" /\ used' = used \union {q}
          /\ first'[x] = first[x] /\ done'[x] = done[x] /\ undo'[x] = undo[x] + 1
      BY <1>1, <2>1 DEF Refill, Typed, TypeOK
    <3>2. /\ Claimed(x)' = {}
          /\ Cleared(x)' = first[x] + (undo[x] + 1) .. first[x] + done[x] - 1
      BY <3>1, ClaimedNext
    <3>3. Cleared(x)' = Cleared(x) \ {q} /\ q \in Cleared(x)
      BY <1>1, <1>2, <2>1, <3>2
    <3>4. q \in owned[x]
      BY <1>1, <2>1
    <3>5. FreesOf(x)'
      BY <1>1, <3>1 DEF FreesOf
    <3> HIDE DEF q
    <3>6. used' = (used \ Marked(x)) \union Marked(x)'
      BY <1>1, <1>2, <3>1, <3>2, <3>3, <3>4, MarkedIsUsed DEF Owners, Marked
    <3>7. QED  BY <3>2, <3>5, <3>6
  <2>2. CASE ~(undo[x] < done[x])
    <3>1. pc'[x] = "idle" /\ used' = used
      BY <1>1, <2>2 DEF Refill, Return, Goto, Typed, TypeOK
    <3>2. Claimed(x)' = {} /\ Cleared(x)' = {}
      BY <3>1, ClaimedNext
    <3>3. Cleared(x) = {}
      BY <1>1, <1>2, <2>2
    <3>4. QED  BY <1>1, <1>2, <3>1, <3>2, <3>3, MarkedIsUsed DEF Owners, Marked
  <2>3. QED  BY <2>1, <2>2
<1>4. ExclusiveOwnership' /\ BitmapTracksOwners'
  <2>1. /\ \A p \in Holds(x)' \ Holds(x) : FALSE
        /\ owned'[x] \intersect Claimed(x)' = {}
    BY <1>1, <1>2, <1>3 DEF Holds
  <2>2. QED  BY <1>0, <1>3, <2>1, OneActs, OwnersMove DEF Owners
<1>5. Frees'
  BY <1>0, <1>3, OneActs, FreesFrame DEF Owners
<1>6. QED  BY <1>4, <1>5 DEF Owners

(* Every step keeps ownership exclusive and the bitmap in step with it,     *)
(* unless a free without the heap lock clears a page that is not its own.   *)
LEMMA OwnersStep ==
    Disciplined /\ Typed /\ Serialised /\ Owners /\ [Next]_vars => Owners'
<1> SUFFICES ASSUME Disciplined, Typed, Serialised, Owners, [Next]_vars PROVE Owners'
  OBVIOUS
<1>0. heap_lock' = heap_lock
  BY DEF Next, vars
<1>1. ASSUME NEW x \in Client, Call(x) PROVE Owners'
  <2>1. ASSUME NEW c \in Counts, AllocContiguous(x, c) PROVE Owners'
    BY <1>0, <2>1, NothingMoves DEF AllocContiguous
  <2>2. CASE Alloc(x)
    BY <1>0, <2>2, NothingMoves DEF Alloc
  <2>3. QED  BY <1>0, <1>1, <2>1, <2>2, FreeOwners, FreeContiguousOwners DEF Call
<1>2. ASSUME NEW x \in Client, Step(x) PROVE Owners'
  <2>1. CASE LoadWord(x) \/ CasLoses(x) \/ AllocFails(x) \/ ScanUsed(x) \/ ScanFree(x)
             \/ ScanFails(x) \/ ClaimConflict(x) \/ Rescan(x)
    <3>1. UNCHANGED <<used, owned>>
      BY <2>1 DEF LoadWord, CasLoses, AllocFails, ScanUsed, ScanFree, ScanFails,
         ClaimConflict, Rescan
    <3>2. QED  BY <1>0, <2>1, <3>1, NothingMoves
  <2>2. CASE CasWins(x) \/ Claim(x) \/ Unclaim(x)
    BY <1>0, <2>2, CasWinsOwners, ClaimOwners, UnclaimOwners
  <2>3. CASE FreePage(x) \/ FreeConflict(x) \/ Refill(x)
    BY <1>0, <2>3, FreePageOwners, FreeConflictOwners, RefillOwners
  <2>4. QED  BY <1>2, <2>1, <2>2, <2>3 DEF Step
<1>3. CASE UNCHANGED vars
  <2>1. UNCHANGED <<used, pc, first, done, count, undo, heap_lock, owned>>
    BY <1>3 DEF vars, locals
  <2>2. \A x \in Client : /\ Claimed(x)' = Claimed(x)
                          /\ Cleared(x)' = Cleared(x)
                          /\ FreesOf(x)' <=> FreesOf(x)
    BY <2>1, Zenon DEF FreesOf, Claimed, Cleared
  <2>3. Frees' /\ ExclusiveOwnership'
    BY <2>1, <2>2 DEF Owners, Frees, ExclusiveOwnership, Kernel
  <2>4. BitmapTracksOwners'
    <3>1. \A x \in Client : Marked(x)' = Marked(x)
      BY <2>1, <2>2 DEF Marked
    <3>2. QED  BY <2>1, <3>1, TracksPages, TracksPagesNext DEF Owners
  <2>5. QED  BY <2>3, <2>4 DEF Owners
<1>4. QED  BY <1>1, <1>2, <1>3 DEF Next

(* The whole inductive invariant.                                           *)
LEMMA OwnersAlways == Spec /\ Disciplined => [](Typed /\ Serialised /\ Owners)
<1>1. Disciplined /\ [Next]_vars => Disciplined'
  BY DEF Disciplined, Next, vars
<1>2. QED
  BY <1>1, TypedInit, TypedStep, SerialisedInit, SerialisedStep, OwnersInit, OwnersStep, PTL
     DEF Spec

(* Searches that race, claim, lose and roll back never grant a page twice   *)
(* nor a page of the kernel's. Without the heap lock clients must free only *)
(* pages of their own; with it wrong frees do no harm.                      *)
THEOREM ExclusiveOwnershipHolds ==
    Spec /\ (StaleFrees => heap_lock) => []ExclusiveOwnership
<1>1. Owners => ExclusiveOwnership
  BY DEF Owners
<1>2. QED  BY <1>1, OwnersAlways, PTL DEF Disciplined

(* No rollback and no failed free leaks a page or marks a granted one free, *)
(* under the same condition.                                                *)
THEOREM BitmapTracksOwnersHolds ==
    Spec /\ (StaleFrees => heap_lock) => []BitmapTracksOwners
<1>1. Owners => BitmapTracksOwners
  BY DEF Owners
<1>2. QED  BY <1>1, OwnersAlways, PTL DEF Disciplined

-----------------------------------------------------------------------------
(* The refinement of PageAllocSpec. Owner is the client that owns the page. *)
LEMMA OwnerIs ==
    ASSUME ExclusiveOwnership, NEW p
    PROVE  /\ \A x \in Client : p \in owned[x] => Owner(p) = x
           /\ (\A x \in Client : p \notin owned[x]) => Owner(p) = NoClient
<1>1. ASSUME NEW x \in Client, p \in owned[x] PROVE Owner(p) = x
  <2>1. \A y \in Client : p \in owned[y] => y = x
    BY <1>1 DEF ExclusiveOwnership
  <2>2. QED  BY <1>1, <2>1, Zenon DEF Owner
<1>2. QED  BY <1>1 DEF Owner

(* The same of the state after a step.                                      *)
LEMMA OwnerIsNext ==
    ASSUME ExclusiveOwnership', NEW p
    PROVE  /\ \A x \in Client : p \in owned'[x] => Owner(p)' = x
           /\ (\A x \in Client : p \notin owned'[x]) => Owner(p)' = NoClient
<1>1. ASSUME NEW x \in Client, p \in owned'[x] PROVE Owner(p)' = x
  <2>1. \A y \in Client : p \in owned'[y] => y = x
    BY <1>1 DEF ExclusiveOwnership
  <2>2. QED  BY <1>1, <2>1, Zenon DEF Owner
<1>2. QED  BY <1>1 DEF Owner

(* A step leaves the owner of a page alone if it leaves alone who owns it.  *)
LEMMA OwnerSame ==
    ASSUME ExclusiveOwnership, ExclusiveOwnership', NEW p,
           \A x \in Client : p \in owned'[x] <=> p \in owned[x]
    PROVE  Owner(p)' = Owner(p)
<1>1. CASE \E x \in Client : p \in owned[x]
  BY <1>1, OwnerIs, OwnerIsNext
<1>2. CASE ~\E x \in Client : p \in owned[x]
  BY <1>2, OwnerIs, OwnerIsNext
<1>3. QED  BY <1>1, <1>2

(* The pages the abstract allocator hands out, and its variable.            *)
FreePages == KernelPages .. TOTAL_PAGES - 1
abs == [p \in FreePages |-> Owner(p)]

(* A run that was nobody's and that x is given is a grant.                  *)
LEMMA GrantMaps ==
    ASSUME ExclusiveOwnership, ExclusiveOwnership', NEW x \in Client,
           NEW low \in FreePages, NEW high \in FreePages, low <= high,
           \A y \in Client : \A p \in low .. high : p \notin owned[y],
           owned'[x] = owned[x] \union (low .. high),
           \A y \in Client \ {x} : owned'[y] = owned[y]
    PROVE  Abstract!Next
<1> USE DEF abs, FreePages
<1>1. \A p \in low .. high : p \in FreePages
  BY PageCount, BitmapAssumption
<1>2. \A p \in low .. high : abs[p] = NoClient
  BY <1>1, OwnerIs
<1>3. \A p \in FreePages : abs'[p] = IF p \in low .. high THEN x ELSE abs[p]
  <2> SUFFICES ASSUME NEW p \in FreePages
               PROVE  Owner(p)' = IF p \in low .. high THEN x ELSE Owner(p)
    OBVIOUS
  <2>1. CASE p \in low .. high
    BY <2>1, OwnerIsNext
  <2>2. CASE p \notin low .. high
    <3>1. \A y \in Client : p \in owned'[y] <=> p \in owned[y]
      BY <2>2
    <3>2. QED  BY <2>2, <3>1, OwnerSame
  <2>3. QED  BY <2>1, <2>2
<1>4. abs' = [p \in FreePages |-> IF p \in low .. high THEN x ELSE abs[p]]
  BY <1>3
<1>5. Abstract!Grant(x, low .. high)
  BY <1>2, <1>4 DEF Abstract!Grant
<1>6. QED  BY <1>5 DEF Abstract!Next

(* A page that x owned and gives back is a return.                          *)
LEMMA ReturnMaps ==
    ASSUME ExclusiveOwnership, ExclusiveOwnership', NEW x \in Client, NEW p \in FreePages,
           p \in owned[x], owned'[x] = owned[x] \ {p},
           \A y \in Client \ {x} : owned'[y] = owned[y]
    PROVE  Abstract!Next
<1> USE DEF abs, FreePages
<1>1. abs[p] = x
  BY OwnerIs
<1>2. Owner(p)' = NoClient
  <2>1. \A y \in Client : p \notin owned'[y]
    BY DEF ExclusiveOwnership
  <2>2. QED  BY <2>1, OwnerIsNext
<1>3. ASSUME NEW q \in FreePages, q # p PROVE Owner(q)' = Owner(q)
  BY <1>3, OwnerSame
<1>4. abs' = [abs EXCEPT ![p] = NoClient]
  BY <1>2, <1>3
<1>5. Abstract!Return(x, p)
  BY <1>1, <1>4 DEF Abstract!Return
<1>6. QED  BY <1>5 DEF Abstract!Next

(* Steps that leave what everybody owns alone are internal.                 *)
LEMMA StutterMaps ==
    ASSUME ExclusiveOwnership, ExclusiveOwnership',
           \A y \in Client : owned'[y] = owned[y]
    PROVE  UNCHANGED abs
  BY OwnerSame DEF abs, FreePages, TOTAL_PAGES

(* The bitmap implements the abstract allocator: a successful               *)
(* compare-and-swap and the last claim of a run are grants, the clearing of *)
(* a page of one's own is its return, and a free that fails is granted      *)
(* again what it had given back.                                            *)
THEOREM RefinesPageAllocSpec ==
    Spec /\ (StaleFrees => heap_lock) => ImplementsPageAllocSpec
<1>1. Init => Abstract!Init
  BY DEF Init, Abstract!Init, Owner
<1>2. ASSUME Typed, Serialised, Owners, Typed', Owners', [Next]_vars
      PROVE  [Abstract!Next]_abs
  <2>0. ExclusiveOwnership /\ ExclusiveOwnership'
    BY <1>2 DEF Owners
  <2>1. \A p \in Page : p \in FreePages <=> p \notin Kernel
    BY PageCount, BitmapAssumption DEF Page, Kernel, FreePages
  <2>2. ASSUME NEW x \in Client, Call(x) \/ Step(x), owned'[x] = owned[x]
        PROVE  UNCHANGED abs
    BY <1>2, <2>0, <2>2, OneActs, StutterMaps
  <2>3. ASSUME NEW x \in Client, Call(x) \/ Step(x), NEW p \in Page, p \notin used,
               pc[x] # "refill"
        PROVE  p \in FreePages /\ \A y \in Client : p \notin owned[y]
    BY <1>2, <2>1, <2>3, OneActs, NothingCleared, UnusedIsNobodys DEF Owners, Holds
  <2>4. ASSUME NEW x \in Client, CasWins(x) PROVE Abstract!Next
    <3> DEFINE p == FirstClear(seen[x], at[x])
    <3>1. Step(x)
      BY <2>4 DEF Step
    <3>2. p \in Page \ used
      <4>1. at[x] \in 0 .. Words - 1 /\ seen[x] \subseteq Bits(at[x]) /\ seen[x] # Bits(at[x])
        BY <1>2, <2>4, BitmapAssumption DEF CasWins, Typed, TypeOK, Locals
      <4>2. p \in Bits(at[x]) \ seen[x]
        BY <4>1, FirstClearIs
      <4>3. QED  BY <2>4, <4>1, <4>2, BitsArePages DEF CasWins, CurrentWord
    <3>3. pc[x] = "cas" /\ owned'[x] = owned[x] \union {p}
      BY <1>2, <2>4 DEF CasWins, Typed, TypeOK
    <3> HIDE DEF p
    <3>4. p \in FreePages /\ \A y \in Client : p \notin owned[y]
      BY <2>3, <3>1, <3>2, <3>3
    <3>5. p .. p = {p} /\ p <= p
      BY <3>2, PageCount
    <3>6. /\ owned'[x] = owned[x] \union (p .. p)
          /\ \A y \in Client : \A q \in p .. p : q \notin owned[y]
      BY <3>3, <3>4, <3>5
    <3>7. QED  BY <1>2, <2>0, <3>1, <3>4, <3>5, <3>6, OneActs, GrantMaps
  <2>5. ASSUME NEW x \in Client, Claim(x) PROVE [Abstract!Next]_abs
    <3>1. Step(x)
      BY <2>5 DEF Step
    <3>2. CASE done[x] + 1 = count[x]
      <4> DEFINE low == first[x]
                 high == first[x] + count[x] - 1
      <4>1. /\ pc[x] = "claim" /\ first[x] + done[x] \notin used
            /\ owned'[x] = owned[x] \union (low .. high)
        BY <1>2, <2>5, <3>2 DEF Claim, Run, Typed, TypeOK
      <4>2. /\ first[x] \in Nat /\ done[x] \in Nat /\ count[x] \in Nat
            /\ first[x] + count[x] <= TOTAL_PAGES
        BY <1>2, <4>1, PageCount DEF Typed, TypeOK, Locals
      <4>3. /\ low \in Page /\ high \in Page /\ low <= high
            /\ high = first[x] + done[x]
            /\ low .. high = Claimed(x) \union {high}
            /\ low .. high \subseteq Page
        <5>1. Claimed(x) = first[x] .. first[x] + done[x] - 1
          BY <4>1, ClaimedIs
        <5>2. low \in Page /\ high \in Page /\ low .. high \subseteq Page
          BY <3>2, <4>2, PageCount DEF Page
        <5>3. low <= high /\ high = first[x] + done[x]
          BY <3>2, <4>2
        <5>4. low .. high = Claimed(x) \union {high}
          BY <4>2, <5>1, <5>3
        <5>5. QED  BY <5>2, <5>3, <5>4
      <4> HIDE DEF low, high
      <4>4. high \in FreePages /\ \A y \in Client : high \notin owned[y]
        BY <2>3, <3>1, <4>1, <4>3
      <4>5. \A q \in Claimed(x) : q \notin Kernel /\ \A y \in Client : q \notin owned[y]
        BY <2>0 DEF ExclusiveOwnership
      <4>6. low \in FreePages
        <5>1. low \in low .. high
          BY <4>3, PageCount
        <5>2. QED  BY <2>1, <4>3, <4>4, <4>5, <5>1
      <4>7. QED  BY <1>2, <2>0, <3>1, <4>1, <4>3, <4>4, <4>5, <4>6, OneActs, GrantMaps
    <3>3. CASE done[x] + 1 # count[x]
      <4>1. owned'[x] = owned[x]
        BY <2>5, <3>3 DEF Claim
      <4>2. QED  BY <2>2, <3>1, <4>1
    <3>4. QED  BY <3>2, <3>3
  <2>6. ASSUME NEW x \in Client, NEW p, p \in owned[x], owned'[x] = owned[x] \ {p},
               Call(x) \/ Step(x)
        PROVE  Abstract!Next
    <3>1. p \in FreePages
      <4>1. p \in Page /\ p \notin Kernel
        BY <1>2, <2>0, <2>6 DEF Typed, TypeOK, ExclusiveOwnership
      <4>2. QED  BY <2>1, <4>1
    <3>2. QED  BY <1>2, <2>0, <2>6, <3>1, OneActs, ReturnMaps
  <2>7. ASSUME NEW x \in Client, NEW p \in Page, Free(x, p) PROVE [Abstract!Next]_abs
    <3>1. Call(x) /\ owned'[x] = owned[x] \ {p}
      BY <1>2, <2>7 DEF Call, Free, Typed, TypeOK
    <3>2. CASE p \in owned[x]
      BY <2>6, <3>1, <3>2
    <3>3. CASE p \notin owned[x]
      <4>1. owned'[x] = owned[x]
        BY <3>1, <3>3
      <4>2. QED  BY <2>2, <3>1, <4>1
    <3>4. QED  BY <3>2, <3>3
  <2>8. ASSUME NEW x \in Client, FreePage(x) PROVE Abstract!Next
    <3>1. /\ Step(x) /\ pc[x] = "free" /\ first[x] + done[x] \in used
          /\ owned'[x] = owned[x] \ {first[x] + done[x]}
      BY <1>2, <2>8 DEF Step, FreePage, Typed, TypeOK
    <3>2. first[x] + done[x] \in owned[x]
      BY <1>2, <3>1, FreedIsOwned
    <3>3. QED  BY <2>6, <3>1, <3>2
  <2>9. ASSUME NEW x \in Client, FreeConflict(x) PROVE [Abstract!Next]_abs
    <3> DEFINE low == first[x]
               high == first[x] + done[x] - 1
    <3>1. /\ Step(x) /\ pc[x] = "free"
          /\ owned'[x] = owned[x] \union (low .. high)
      BY <1>2, <2>9 DEF Step, FreeConflict, Typed, TypeOK
    <3>2. /\ first[x] \in Nat /\ done[x] \in Nat
          /\ first[x] + done[x] <= TOTAL_PAGES
      BY <1>2, <3>1, PageCount DEF Typed, TypeOK, Locals
    <3>3. low .. high \subseteq Page
      BY <3>2, PageCount DEF Page
    <3>4. (low .. high) \intersect used = {}
      <4>1. heap_lock' = heap_lock
        BY <1>2 DEF Next, vars
      <4>2. QED  BY <1>2, <2>9, <4>1, FreeConflictOwners
    <3>5. CASE done[x] = 0
      <4>1. low .. high = {}
        BY <3>2, <3>5
      <4>2. owned'[x] = owned[x]
        BY <3>1, <4>1
      <4>3. QED  BY <2>2, <3>1, <4>2
    <3>6. CASE done[x] # 0
      <4>1. low \in low .. high /\ high \in low .. high /\ low <= high
        BY <3>2, <3>6
      <4> HIDE DEF low, high
      <4>2. \A p \in low .. high : p \in FreePages /\ \A y \in Client : p \notin owned[y]
        BY <2>3, <3>1, <3>3, <3>4
      <4>3. QED  BY <1>2, <2>0, <3>1, <4>1, <4>2, OneActs, GrantMaps
    <3>7. QED  BY <3>5, <3>6
  <2>10. ASSUME NEW x \in Client, Call(x) PROVE [Abstract!Next]_abs
    <3>1. (\E p \in Page : Free(x, p)) \/ owned' = owned
      BY <2>10 DEF Call, Alloc, AllocContiguous, FreeContiguous
    <3>2. QED  BY <2>2, <2>7, <2>10, <3>1
  <2>11. ASSUME NEW x \in Client, Step(x) PROVE [Abstract!Next]_abs
    <3>1. \/ CasWins(x) \/ Claim(x) \/ FreePage(x) \/ FreeConflict(x)
          \/ owned' = owned
      BY <2>11 DEF Step, LoadWord, CasLoses, AllocFails, ScanUsed, ScanFree, ScanFails,
         ClaimConflict, Unclaim, Rescan, Refill
    <3>2. QED  BY <2>2, <2>4, <2>5, <2>8, <2>9, <2>11, <3>1
  <2>12. CASE UNCHANGED vars
    BY <2>0, <2>12, StutterMaps DEF vars
  <2>13. QED  BY <1>2, <2>10, <2>11, <2>12 DEF Next
<1>3. QED
  BY <1>1, <1>2, OwnersAlways, PTL
     DEF Spec, Disciplined, ImplementsPageAllocSpec, Abstract!Spec, abs, FreePages
=============================================================================
