----------------------------- MODULE KernelHeap -----------------------------
(***************************************************************************)
(* memory/heap and memory/slab: kmalloc, kcalloc, krealloc, kmem_free_auto   *)
(* over slab caches for small requests and runs of pages for the rest. A step is  *)
(* a section under g_slab_lock or g_heap_lock, or the code between two such; *)
(* a thread keeps g_slab_lock while it gets a page for a new slab, and gives *)
(* it up before it returns an empty slab's page.                             *)
(*                                                                           *)
(* A request is the number of its size class: 1 .. Cardinality of the caches *)
(* for the objects of that cache, and above them one class per page count.   *)
(* A pointer is a page and a slot: slot 0 is the page's first byte, slot i   *)
(* the i-th object after the slab header. The bitmap is searched exactly,    *)
(* as PageBitmap shows of searches under g_heap_lock.                        *)
(***************************************************************************)
EXTENDS Integers, Sequences, FiniteSetsExt

CONSTANTS
    Thread,     \* the CPUs and interrupt handlers that allocate
    NoThread,   \* owner of a free lock
    Pages,      \* number of pages above the kernel image
    Objects,    \* objects_per_slab of each cache, by increasing object size
    MaxRun,     \* the largest number of pages requested
    NULL

ASSUME HeapAssumption ==
    /\ NoThread \notin Thread
    /\ Pages \in Nat \ {0}
    /\ MaxRun \in Nat \ {0}
    /\ Objects \in Seq(Nat \ {0})
    /\ NULL \notin Int

Page == 1 .. Pages
Cache == DOMAIN Objects
Size == 1 .. Len(Objects) + MaxRun
RunLength(size) == IF size \in Cache THEN 1 ELSE size - Len(Objects)
Slot == {0} \union UNION {1 .. Objects[c] : c \in Cache}

(* What a caller of kmalloc holds: a pointer, and how much it may use.      *)
Block == [page : Page, slot : Slot, size : Size]

ASSUME NullAssumption == NULL \notin Block

VARIABLES
    bitmap,             \* the pages that are used
    page_alloc_count,   \* g_page_alloc_count
    slab_available,     \* g_slab_available: whether slab_init succeeded
    magic,              \* whether the page's header word is SLAB_MAGIC
    slab,               \* the rest of the slab headers
    lists,              \* the links of the slab lists and their heads
    num_slabs,          \* slab_cache_t.num_slabs
    total_slabs,        \* g_slab_total_slabs
    outstanding,        \* g_slab_total_allocs - g_slab_total_frees
    slab_lock,          \* the holder of g_slab_lock between two steps
    pc, size, page,     \* locals of a thread's call
    old, new,           \* the blocks it frees and is about to return
    live,               \* history: the blocks callers hold
    slabs               \* history: the pages each cache has made slabs of

heapVars == <<bitmap, page_alloc_count>>
slabVars == <<slab, lists, num_slabs, total_slabs, outstanding, slabs>>
vars == <<heapVars, slab_available, magic, slabVars, slab_lock,
          pc, size, page, old, new, live>>

(* The links of all slabs and the heads of each cache's two lists.          *)
Links == [next : [Page -> Page \union {NULL}], prev : [Page -> Page \union {NULL}],
          partial : [Cache -> Page \union {NULL}], full : [Cache -> Page \union {NULL}]]

NoSlab == [cache |-> NULL, num_free |-> 0, free_list |-> <<>>]

TypeOK ==
    /\ bitmap \subseteq Page
    /\ page_alloc_count \in [Page -> Nat]
    /\ slab_available \in BOOLEAN
    /\ magic \in [Page -> BOOLEAN]
    /\ slab \in [Page -> [cache : Cache \union {NULL}, num_free : Nat,
                          free_list : Seq(Slot)]]
    /\ lists \in Links
    /\ num_slabs \in [Cache -> Int]
    /\ total_slabs \in Int
    /\ outstanding \in Int
    /\ slab_lock \in Thread \union {NoThread}
    /\ pc \in [Thread -> {"idle", "kmem_alloc", "new_slab", "init_slab",
                          "get_pages", "copy", "memset", "kmem_free", "free_pages"}]
    /\ size \in [Thread -> Size \union {0}]
    /\ page \in [Thread -> Page \union {NULL}]
    /\ old \in [Thread -> Block \union {NULL}]
    /\ new \in [Thread -> Block \union {NULL}]
    /\ live \subseteq Block
    /\ slabs \in [Cache -> SUBSET Page]

(* heap_init: every page above the kernel image free, the caches empty.     *)
Init ==
    /\ bitmap = {}
    /\ page_alloc_count = [p \in Page |-> 0]
    /\ slab_available \in BOOLEAN
    /\ magic = [p \in Page |-> FALSE]
    /\ slab = [p \in Page |-> NoSlab]
    /\ lists = [next |-> [p \in Page |-> NULL], prev |-> [p \in Page |-> NULL],
                partial |-> [c \in Cache |-> NULL], full |-> [c \in Cache |-> NULL]]
    /\ num_slabs = [c \in Cache |-> 0]
    /\ total_slabs = 0
    /\ outstanding = 0
    /\ slab_lock = NoThread
    /\ pc = [t \in Thread |-> "idle"]
    /\ size = [t \in Thread |-> 0]
    /\ page = [t \in Thread |-> NULL]
    /\ old = [t \in Thread |-> NULL]
    /\ new = [t \in Thread |-> NULL]
    /\ live = {}
    /\ slabs = [c \in Cache |-> {}]

Goto(t, l) == pc' = [pc EXCEPT ![t] = l]

-----------------------------------------------------------------------------
(* Doubly linked slab lists, headed by lists[which][c].                     *)

(* Mutant: the successor keeps pointing back at the removed slab.           *)
UnlinkForward(L, which, c, p) ==
    LET n == L.next[p]
        q == L.prev[p]
        ahead == IF q = NULL THEN [L EXCEPT ![which][c] = n]
                             ELSE [L EXCEPT !.next[q] = n]
    IN [ahead EXCEPT !.next[p] = NULL, !.prev[p] = NULL]

remove_slab_from_list(L, which, c, p) ==
    LET n == L.next[p]
        q == L.prev[p]
        ahead == IF q = NULL THEN [L EXCEPT ![which][c] = n]
                             ELSE [L EXCEPT !.next[q] = n]
        behind == IF n = NULL THEN ahead ELSE [ahead EXCEPT !.prev[n] = q]
    IN [behind EXCEPT !.next[p] = NULL, !.prev[p] = NULL]

add_slab_to_list(L, which, c, p) ==
    LET h == L[which][c]
        linked == [L EXCEPT !.next[p] = h, !.prev[p] = NULL, ![which][c] = p]
    IN IF h = NULL THEN linked ELSE [linked EXCEPT !.prev[h] = p]

-----------------------------------------------------------------------------
(* kmalloc has found block b, or NULL. It returns to its caller, or to      *)
(* kcalloc, which zeroes the block; krealloc copies and frees what the      *)
(* block replaces, or fails and leaves that with the caller.                *)
Found(t, b) ==
    /\ page' = [page EXCEPT ![t] = NULL]
    /\ size' = [size EXCEPT ![t] = 0]
    /\ \/ /\ old[t] = NULL
          /\ live' = live \union {b}
          /\ Goto(t, "idle")
          /\ UNCHANGED new
       \/ /\ new' = [new EXCEPT ![t] = b]
          /\ Goto(t, IF old[t] = NULL THEN "memset" ELSE "copy")
          /\ UNCHANGED live
    /\ UNCHANGED old

(* Mutant: krealloc frees the old block although it got no new one.         *)
FailedForgetsOld(t) ==
    /\ size' = [size EXCEPT ![t] = 0]
    /\ old' = [old EXCEPT ![t] = NULL]
    /\ Goto(t, "idle")
    /\ UNCHANGED <<live, page, new>>

Failed(t) ==
    /\ size' = [size EXCEPT ![t] = 0]
    /\ live' = live \union ({old[t]} \ {NULL})
    /\ old' = [old EXCEPT ![t] = NULL]
    /\ Goto(t, "idle")
    /\ UNCHANGED <<page, new>>

(* kmem_free_auto is done: it returns, or krealloc does with its new block; *)
(* kcalloc returns.                                                         *)
Freed(t) ==
    /\ old' = [old EXCEPT ![t] = NULL]
    /\ new' = [new EXCEPT ![t] = NULL]
    /\ live' = live \union ({new[t]} \ {NULL})
    /\ Goto(t, "idle")

(* kmalloc(s): the slab path for small sizes, if there are slabs. kcalloc   *)
(* of a product that does not overflow is the same call until it returns;   *)
(* so is kmalloc_align, which ignores alignments up to that of a page.      *)
Dispatch(t, s) ==
    /\ size' = [size EXCEPT ![t] = s]
    /\ Goto(t, IF s \in Cache /\ slab_available THEN "kmem_alloc" ELSE "get_pages")

kmalloc(t, s) ==
    /\ pc[t] = "idle"
    /\ Dispatch(t, s)
    /\ UNCHANGED <<heapVars, slab_available, magic, slabVars, slab_lock, page,
                   old, new, live>>

(* The pages of a run; one that serves a small request may be used whole.   *)
PagesOf(b) == b.page .. b.page + b.size - Len(Objects) - 1
LastPage(b) == b.page + b.size - Len(Objects) - 1

(* kcalloc's memset: it ends in the last page of a run, before or behind    *)
(* the header word of that page, which may be all that a small size needs.  *)
Memset(t) ==
    /\ pc[t] = "memset"
    /\ \E end \in {LastPage(new[t]), LastPage(new[t]) + 1} :
           magic' = [p \in Page |->
                        magic[p] /\ ~(new[t].slot = 0 /\ p \in PagesOf(new[t]) /\ p < end)]
    /\ Freed(t)
    /\ UNCHANGED <<heapVars, slab_available, slabVars, slab_lock, size, page>>

(* Mutant: the header word decides alone, wherever in the page b points.    *)
SlabByMagic(b) == magic[b.page]

is_slab_address(b) == magic[b.page] /\ b.slot # 0

(* kmalloc_size, in pages.                                                  *)
kmalloc_size(b) == page_alloc_count[b.page]

(* Mutant: kmalloc_size also for slab objects, as before the header's size. *)
OldSizeByPages(b) == Len(Objects) + kmalloc_size(b)

(* What krealloc takes for the size of b.                                   *)
OldSize(b) ==
    IF is_slab_address(b) THEN slab[b.page].cache ELSE Len(Objects) + kmalloc_size(b)

(* krealloc(b, s) when s fits: the caller may now use s bytes of b.         *)
kreallocFits(t, b, s) ==
    /\ pc[t] = "idle"
    /\ s <= OldSize(b)
    /\ live' = (live \ {b}) \union {[b EXCEPT !.size = Max({@, s})]}
    /\ UNCHANGED <<heapVars, slab_available, magic, slabVars, slab_lock, pc,
                   size, page, old, new>>

(* krealloc(b, s) when b has to grow: the rest is kmalloc(s).               *)
krealloc(t, b, s) ==
    /\ pc[t] = "idle"
    /\ s > OldSize(b)
    /\ old' = [old EXCEPT ![t] = b]
    /\ live' = live \ {b}
    /\ Dispatch(t, s)
    /\ UNCHANGED <<heapVars, slab_available, magic, slabVars, slab_lock, page, new>>

(* kmem_alloc takes the first object of the first partial slab, which then  *)
(* goes to the full list if it was the last.                                *)
Take(t, listsAfter) ==
    LET p == lists.partial[size[t]]
    IN /\ slab' = [slab EXCEPT ![p].free_list = Tail(@), ![p].num_free = @ - 1]
       /\ lists' = listsAfter
       /\ outstanding' = outstanding + 1
       /\ Found(t, [page |-> p, slot |-> Head(slab[p].free_list), size |-> size[t]])
       /\ UNCHANGED <<heapVars, slab_available, magic, num_slabs, total_slabs,
                      slabs, slab_lock>>

HasPartial(t) ==
    /\ pc[t] = "kmem_alloc"
    /\ slab_lock = NoThread
    /\ lists.partial[size[t]] # NULL

(* Mutant: an exhausted slab stays on the partial list.                     *)
TakeLeavesPartial(t) == HasPartial(t) /\ Take(t, lists)

TakeObject(t) ==
    /\ HasPartial(t)
    /\ LET c == size[t]
           p == lists.partial[c]
       IN Take(t, IF slab[p].num_free = 1
                  THEN add_slab_to_list(
                           remove_slab_from_list(lists, "partial", c, p), "full", c, p)
                  ELSE lists)

(* kmem_alloc without a partial slab: kmalloc(SLAB_SIZE), lock held.        *)
NeedSlab(t) ==
    /\ pc[t] = "kmem_alloc"
    /\ slab_lock = NoThread
    /\ lists.partial[size[t]] = NULL
    /\ slab_lock' = t
    /\ Goto(t, "new_slab")
    /\ UNCHANGED <<heapVars, slab_available, magic, slabVars, size, page, old, new, live>>

(* The section of kmalloc under g_heap_lock: first run of n free pages.     *)
FreeRuns(n) == {p \in Page : p .. p + n - 1 \subseteq Page \ bitmap}

Reserve(p, n) ==
    /\ bitmap' = bitmap \union p .. p + n - 1
    /\ page_alloc_count' = [page_alloc_count EXCEPT ![p] = n]

NewSlabPage(t) ==
    /\ pc[t] = "new_slab"
    /\ FreeRuns(1) # {}
    /\ Reserve(Min(FreeRuns(1)), 1)
    /\ page' = [page EXCEPT ![t] = Min(FreeRuns(1))]
    /\ Goto(t, "init_slab")
    /\ UNCHANGED <<slab_available, magic, slabVars, slab_lock, size, old, new, live>>

(* Mutant: the early return of kmem_alloc keeps g_slab_lock.                *)
NoSlabPageLocked(t) ==
    /\ pc[t] = "new_slab"
    /\ FreeRuns(1) = {}
    /\ Goto(t, "get_pages")
    /\ UNCHANGED <<heapVars, slab_available, magic, slabVars, slab_lock, size,
                   page, old, new, live>>

(* kmem_alloc fails and kmalloc falls through to the pages.                 *)
NoSlabPage(t) ==
    /\ pc[t] = "new_slab"
    /\ FreeRuns(1) = {}
    /\ slab_lock' = NoThread
    /\ Goto(t, "get_pages")
    /\ UNCHANGED <<heapVars, slab_available, magic, slabVars, size, page, old, new, live>>

(* Mutant: the count per cache is forgotten.                                *)
CountTotalOnly(c, n) == total_slabs' = total_slabs + n /\ UNCHANGED num_slabs

CountSlab(c, n) ==
    /\ num_slabs' = [num_slabs EXCEPT ![c] = @ + n]
    /\ total_slabs' = total_slabs + n

(* Mutant: the loop that links the free list runs once too often.           *)
HeaderTooLong(c) ==
    [cache |-> c, num_free |-> Objects[c] - 1,
     free_list |-> [i \in 1 .. Objects[c] |-> i + 1]]

(* The header and free list of a new slab, whose first object is taken.     *)
Header(c) ==
    [cache |-> c, num_free |-> Objects[c] - 1,
     free_list |-> [i \in 1 .. Objects[c] - 1 |-> i + 1]]

(* The rest of kmem_alloc: the slab is made, and listed as full if it has   *)
(* no object left.                                                          *)
InitSlab(t) ==
    LET c == size[t]
        p == page[t]
    IN /\ pc[t] = "init_slab"
       /\ slab' = [slab EXCEPT ![p] = Header(c)]
       /\ magic' = [magic EXCEPT ![p] = TRUE]
       /\ lists' = add_slab_to_list(
                       lists, IF Objects[c] = 1 THEN "full" ELSE "partial", c, p)
       /\ CountSlab(c, 1)
       /\ outstanding' = outstanding + 1
       /\ slabs' = [slabs EXCEPT ![c] = @ \union {p}]
       /\ slab_lock' = NoThread
       /\ Found(t, [page |-> p, slot |-> 1, size |-> c])
       /\ UNCHANGED <<heapVars, slab_available>>

(* A small request served by a page may use all of it.                      *)
GetPages(t) ==
    LET n == RunLength(size[t])
        p == Min(FreeRuns(n))
    IN /\ pc[t] = "get_pages"
       /\ FreeRuns(n) # {}
       /\ Reserve(p, n)
       /\ Found(t, [page |-> p, slot |-> 0, size |-> Len(Objects) + n])
       /\ UNCHANGED <<slab_available, magic, slabVars, slab_lock>>

OutOfMemory(t) ==
    /\ pc[t] = "get_pages"
    /\ FreeRuns(RunLength(size[t])) = {}
    /\ Failed(t)
    /\ UNCHANGED <<heapVars, slab_available, magic, slabVars, slab_lock>>

-----------------------------------------------------------------------------
(* kmem_free_auto looks at the page b points into, with no lock held.       *)
Route(t, b) == Goto(t, IF is_slab_address(b) THEN "kmem_free" ELSE "free_pages")

kmem_free_auto(t, b) ==
    /\ pc[t] = "idle"
    /\ old' = [old EXCEPT ![t] = b]
    /\ live' = live \ {b}
    /\ Route(t, b)
    /\ UNCHANGED <<heapVars, slab_available, magic, slabVars, slab_lock, size, page, new>>

(* The header words after block b was copied to block c: an object's bytes  *)
(* are what its holder wrote.                                               *)
Copied(b, c) ==
    CASE c.slot # 0 -> {magic}
      [] c.slot = 0 /\ b.slot # 0 -> {[magic EXCEPT ![c.page] = w] : w \in BOOLEAN}
      [] c.slot = 0 /\ b.slot = 0 ->
            LET last == c.page + kmalloc_size(b) - 1
            IN  {[p \in Page |-> magic[IF p \in c.page .. last THEN p - c.page + b.page ELSE p]]}

(* krealloc copies the contents and frees the block it replaces.            *)
FreeReplaced(t) ==
    /\ pc[t] = "copy"
    /\ magic' \in Copied(old[t], new[t])
    /\ Route(t, old[t])
    /\ UNCHANGED <<heapVars, slab_available, slabVars, slab_lock, size,
                   page, old, new, live>>

(* kmem_free of a slab's last object in use: the slab leaves its list and   *)
(* then, with g_slab_lock released, its page is freed.                      *)
Empty(t, from) ==
    LET p == old[t].page
        c == slab[p].cache
    IN /\ slab' = [slab EXCEPT ![p].free_list = <<old[t].slot>> \o @, ![p].num_free = @ + 1]
       /\ lists' = remove_slab_from_list(lists, from, c, p)
       /\ CountSlab(c, -1)
       /\ slabs' = [slabs EXCEPT ![c] = @ \ {p}]
       /\ magic' = [magic EXCEPT ![p] = FALSE]
       /\ outstanding' = outstanding - 1
       /\ old' = [old EXCEPT ![t] = [page |-> p, slot |-> 0, size |-> Len(Objects) + 1]]
       /\ Goto(t, "free_pages")
       /\ UNCHANGED <<heapVars, slab_available, slab_lock, size, page, new, live>>

(* Whether freeing old[t] leaves its slab without an object in use.         *)
LastInUse(t) ==
    slab[old[t].page].num_free + 1 = Objects[slab[old[t].page].cache]

(* kmem_free checks the header again, under g_slab_lock, and would ignore   *)
(* the pointer if it failed; RoutesToOwner shows that it never does.        *)
MayFree(t) ==
    /\ pc[t] = "kmem_free"
    /\ slab_lock = NoThread
    /\ is_slab_address(old[t])

(* Mutant: every emptied slab is taken off the partial list.                *)
EmptyFromPartial(t) == MayFree(t) /\ LastInUse(t) /\ Empty(t, "partial")

EmptySlab(t) ==
    /\ MayFree(t)
    /\ LastInUse(t)
    /\ Empty(t, IF Objects[slab[old[t].page].cache] = 1 THEN "full" ELSE "partial")

(* kmem_free otherwise: a slab that was full becomes partial.               *)
ReturnObject(t) ==
    LET p == old[t].page
        c == slab[p].cache
    IN /\ MayFree(t)
       /\ ~LastInUse(t)
       /\ slab' = [slab EXCEPT ![p].free_list = <<old[t].slot>> \o @, ![p].num_free = @ + 1]
       /\ lists' = IF slab[p].num_free = 0
                   THEN add_slab_to_list(
                            remove_slab_from_list(lists, "full", c, p), "partial", c, p)
                   ELSE lists
       /\ outstanding' = outstanding - 1
       /\ Freed(t)
       /\ UNCHANGED <<heapVars, slab_available, magic, num_slabs, total_slabs,
                      slabs, slab_lock, size, page>>

(* The section of kmem_free_auto under g_heap_lock.                         *)
ReleasePages(t, run) ==
    /\ pc[t] = "free_pages"
    /\ page_alloc_count' = [page_alloc_count EXCEPT ![old[t].page] = 0]
    /\ bitmap' = bitmap \ run
    /\ Freed(t)
    /\ UNCHANGED <<slab_available, magic, slabVars, slab_lock, size, page>>

(* Mutant: the forward scan of the bitmap that page_alloc_count replaced.   *)
FreeByScan(t) ==
    ReleasePages(t, {q \in Page : q >= old[t].page /\ old[t].page .. q \subseteq bitmap})

FreePages(t) ==
    LET p == old[t].page
    IN ReleasePages(t, p .. p + page_alloc_count[p] - 1)

(* The holder of a run writes the header word of its pages: any bytes.      *)
Scribble(b, p) ==
    /\ b.slot = 0 /\ p \in PagesOf(b)
    /\ magic' = [magic EXCEPT ![p] = ~@]
    /\ UNCHANGED <<heapVars, slab_available, slabVars, slab_lock, pc, size, page,
                   old, new, live>>

-----------------------------------------------------------------------------
Call(t) ==
    \/ \E s \in Size : kmalloc(t, s)
    \/ \E b \in live, s \in Size : kreallocFits(t, b, s) \/ krealloc(t, b, s)
    \/ \E b \in live : kmem_free_auto(t, b)

Step(t) ==
    \/ TakeObject(t)
    \/ NeedSlab(t)
    \/ NewSlabPage(t)
    \/ NoSlabPage(t)
    \/ InitSlab(t)
    \/ GetPages(t)
    \/ OutOfMemory(t)
    \/ Memset(t)
    \/ FreeReplaced(t)
    \/ EmptySlab(t)
    \/ ReturnObject(t)
    \/ FreePages(t)

Next ==
    \/ \E t \in Thread : Call(t) \/ Step(t)
    \/ \E b \in live, p \in Page : Scribble(b, p)

Spec == Init /\ [][Next]_vars

-----------------------------------------------------------------------------
(* The blocks somebody holds: a caller, or a call that frees or returns it. *)
Held == live \union (({old[t] : t \in Thread} \union {new[t] : t \in Thread}) \ {NULL})
Runs == {b \in Held : b.slot = 0}
HeldSlots(p) == {b.slot : b \in {h \in Held \ Runs : h.page = p}}
SlabPages == UNION {slabs[c] : c \in Cache}

(* No two blocks share memory: runs of pages are disjoint, no run contains  *)
(* a slab, every object lies in a slab of its own cache, no object has two  *)
(* holders or is on a free list while it is held, and none is lost.         *)
NoOverlap ==
    /\ \A a, b \in Runs : a # b => PagesOf(a) \intersect PagesOf(b) = {}
    /\ \A a \in Runs : PagesOf(a) \intersect SlabPages = {}
    /\ \A b \in Held \ Runs : b.page \in slabs[b.size]
    /\ \A t, u \in Thread :
          /\ new[t] # NULL => new[t] # old[u]
          /\ t # u /\ old[t] # NULL => old[t] # old[u]
          /\ t # u /\ new[t] # NULL => new[t] # new[u]
    /\ \A t \in Thread : {old[t], new[t]} \intersect live = {}
    /\ \A c \in Cache : \A p \in slabs[c] :
          LET free == slab[p].free_list
          IN /\ slab[p].num_free = Len(free)
             /\ \A i, j \in DOMAIN free : free[i] = free[j] => i = j
             /\ {free[i] : i \in DOMAIN free} = (1 .. Objects[c]) \ HeldSlots(p)

(* Looking at the header word without a lock tells slab objects from runs,  *)
(* whatever the holders of runs have written there.                         *)
RoutesToOwner ==
    \A b \in Held : is_slab_address(b) <=> b.page \in SlabPages /\ b.slot # 0

(* The nodes of the list headed by h, in order, NULL from its end on.       *)
Walk(h) ==
    LET node[i \in 1 .. Pages + 1] ==
            IF i = 1 THEN h
            ELSE IF node[i - 1] = NULL THEN NULL ELSE lists.next[node[i - 1]]
    IN node

Lists(h, S) ==
    LET node == Walk(h)
    IN /\ {node[i] : i \in DOMAIN node} \ {NULL} = S
       /\ node[Cardinality(S) + 1] = NULL
       /\ \A i \in 1 .. Cardinality(S) :
              lists.prev[node[i]] = IF i = 1 THEN NULL ELSE node[i - 1]

(* Each cache's partial list holds its slabs with a free object, its full   *)
(* list those with none, each slab once and with its links both ways right; *)
(* a slab with no object in use is on neither: its page goes back.          *)
SlabListsExact ==
    \A c \in Cache :
        /\ Lists(lists.partial[c], {p \in slabs[c] : slab[p].num_free # 0})
        /\ Lists(lists.full[c], {p \in slabs[c] : slab[p].num_free = 0})
        /\ \A p \in slabs[c] : slab[p].cache = c /\ slab[p].num_free < Objects[c]

(* The bitmap and page_alloc_count account for every page: used are those   *)
(* of the runs held, of the slabs, and of a slab being made; the count of a *)
(* run's first page is its length and that of any other page is 0.          *)
PagesAccountedFor ==
    /\ bitmap = SlabPages \union ({page[t] : t \in Thread} \ {NULL})
                   \union UNION {PagesOf(b) : b \in Runs}
    /\ \A p \in Page :
          LET runs == {b \in Runs : b.page = p}
          IN IF runs # {}
             THEN \A b \in runs : page_alloc_count[p] = Cardinality(PagesOf(b))
             ELSE page_alloc_count[p] =
                      IF p \in SlabPages \union {page[t] : t \in Thread} THEN 1 ELSE 0

(* The statistics are exact: slabs per cache, slabs in all, objects out.    *)
CountersExact ==
    /\ \A c \in Cache : num_slabs[c] = Cardinality(slabs[c])
    /\ total_slabs = Cardinality(SlabPages)
    /\ outstanding = Cardinality(Held \ Runs)

(* g_slab_lock is held between steps by at most the one thread that makes a *)
(* slab, and no path out of kmem_alloc, such as having no page, keeps it.   *)
SlabLockHeldToGrow ==
    \A t \in Thread : slab_lock = t <=> pc[t] \in {"new_slab", "init_slab"}

(* heap.h of kmalloc_size: "the actual size allocated", kmalloc(1000) having *)
(* got 4096: the memory it reports for two blocks does not overlap.          *)
ReportedSizeIsOwn ==
    \A a, b \in live :
        a # b => (a.page .. a.page + kmalloc_size(a) - 1)
                    \intersect (b.page .. b.page + kmalloc_size(b) - 1) = {}
=============================================================================
