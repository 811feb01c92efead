----------------------------- MODULE PageBitmap -----------------------------
(***************************************************************************)
(* memory/bitmap: one bit per physical page, searched and changed without a *)
(* lock of its own; one step per atomic access to a word of the bitmap.     *)
(*                                                                          *)
(* The heap calls it with g_heap_lock held; the API also lets clients call  *)
(* it directly and relies on its atomic instructions. heap_lock says which: *)
(* with it, a client starts a call only when no other is in one.            *)
(***************************************************************************)
EXTENDS Integers, FiniteSetsExt

CONSTANTS
    Client,         \* the CPUs that call the allocator
    NoClient,       \* owner of a free page
    WordBits,       \* pages per bitmap word, 64 in the code
    Words,          \* BITMAP_WORDS
    KernelPages,    \* pages_to_reserve: those under the kernel image
    Counts,         \* run lengths that are asked for
    StaleFrees      \* whether clients without the heap lock make wrong frees

ASSUME BitmapAssumption ==
    /\ NoClient \notin Client
    /\ WordBits \in Nat \ {0}
    /\ Words \in Nat \ {0}
    /\ KernelPages \in 0 .. Words * WordBits
    /\ Counts \subseteq Nat \ {0}
    /\ StaleFrees \in BOOLEAN

TOTAL_PAGES == Words * WordBits
Page == 0 .. TOTAL_PAGES - 1
Kernel == 0 .. KernelPages - 1
Bits(w) == w * WordBits .. w * WordBits + WordBits - 1

VARIABLES
    used,   \* g_page_bitmap: the pages whose bit is set
    pc,     \* the atomic access a client's call does next
    at,     \* word_idx of bitmap_alloc, page of the scan
    seen,   \* word of bitmap_alloc: its copy of bitmap word at
    first,  \* found_start of a search, page of a free
    done,   \* found_count of a scan, claimed of a search, freed of a free
    count,  \* the count argument
    undo,   \* j of a rollback
    heap_lock,  \* whether calls are serialised by g_heap_lock
    owned   \* history: the pages granted to the client and not yet freed

locals == <<at, seen, first, done, count, undo>>
vars == <<used, pc, locals, heap_lock, owned>>

TypeOK ==
    /\ used \subseteq Page
    /\ pc \in [Client -> {"idle", "load", "cas", "scan", "claim", "unclaim",
                          "free", "refill"}]
    /\ at \in [Client -> 0 .. TOTAL_PAGES]
    /\ seen \in [Client -> SUBSET Page]
    /\ first \in [Client -> 0 .. TOTAL_PAGES]
    /\ done \in [Client -> Nat]
    /\ count \in [Client -> Nat]
    /\ undo \in [Client -> Nat]
    /\ heap_lock \in BOOLEAN
    /\ owned \in [Client -> SUBSET Page]

(* bitmap_init has reserved the kernel image.                               *)
Init ==
    /\ used = Kernel
    /\ pc = [x \in Client |-> "idle"]
    /\ at = [x \in Client |-> 0]
    /\ seen = [x \in Client |-> {}]
    /\ first = [x \in Client |-> 0]
    /\ done = [x \in Client |-> 0]
    /\ count = [x \in Client |-> 0]
    /\ undo = [x \in Client |-> 0]
    /\ heap_lock \in BOOLEAN
    /\ owned = [x \in Client |-> {}]

Goto(x, l) == pc' = [pc EXCEPT ![x] = l]

MayCall(x) ==
    /\ pc[x] = "idle"
    /\ heap_lock => \A y \in Client : pc[y] = "idle"

(* The call returns; its locals are gone.                                   *)
Return(x) ==
    /\ Goto(x, "idle")
    /\ at' = [at EXCEPT ![x] = 0]
    /\ seen' = [seen EXCEPT ![x] = {}]
    /\ first' = [first EXCEPT ![x] = 0]
    /\ done' = [done EXCEPT ![x] = 0]
    /\ count' = [count EXCEPT ![x] = 0]
    /\ undo' = [undo EXCEPT ![x] = 0]

-----------------------------------------------------------------------------
(* bitmap_alloc: the lowest clear bit of each word in turn.                 *)
CurrentWord(w) == used \intersect Bits(w)
FirstClear(word, w) == Min(Bits(w) \ word)

Alloc(x) ==
    /\ MayCall(x)
    /\ Goto(x, "load")
    /\ UNCHANGED <<used, locals, owned>>

(* The copy just read: the next word if it is full, else try to claim.      *)
Inspect(x) ==
    LET word == CurrentWord(at[x])
    IN IF word = Bits(at[x])
       THEN /\ Goto(x, "load")
            /\ at' = [at EXCEPT ![x] = @ + 1]
            /\ seen' = [seen EXCEPT ![x] = {}]
       ELSE /\ Goto(x, "cas")
            /\ seen' = [seen EXCEPT ![x] = word]
            /\ UNCHANGED at

LoadWord(x) ==
    /\ pc[x] = "load"
    /\ at[x] < Words
    /\ Inspect(x)
    /\ UNCHANGED <<used, first, done, count, undo, owned>>

(* Mutant: the bit is set with a plain store of the stale copy.             *)
StoreStale(x) ==
    LET p == FirstClear(seen[x], at[x])
    IN /\ pc[x] = "cas"
       /\ used' = (used \ Bits(at[x])) \union seen[x] \union {p}
       /\ owned' = [owned EXCEPT ![x] = @ \union {p}]
       /\ Return(x)

CasWins(x) ==
    LET p == FirstClear(seen[x], at[x])
    IN /\ pc[x] = "cas"
       /\ CurrentWord(at[x]) = seen[x]
       /\ used' = used \union {p}
       /\ owned' = [owned EXCEPT ![x] = @ \union {p}]
       /\ Return(x)

(* A failed compare-and-swap has refreshed the copy: same word again.       *)
CasLoses(x) ==
    /\ pc[x] = "cas"
    /\ CurrentWord(at[x]) # seen[x]
    /\ Inspect(x)
    /\ UNCHANGED <<used, first, done, count, undo, owned>>

AllocFails(x) ==
    /\ pc[x] = "load"
    /\ at[x] = Words
    /\ Return(x)
    /\ UNCHANGED <<used, owned>>

-----------------------------------------------------------------------------
(* bitmap_alloc_contiguous: scan for a run, then claim it page by page.     *)
AllocContiguous(x, c) ==
    /\ MayCall(x)
    /\ count' = [count EXCEPT ![x] = c]
    /\ Goto(x, "scan")
    /\ UNCHANGED <<used, at, seen, first, done, undo, owned>>

(* Mutant: a used page ends the run without resetting its length.           *)
ScanKeepsCount(x) ==
    /\ pc[x] = "scan"
    /\ at[x] < TOTAL_PAGES
    /\ at[x] \in used
    /\ first' = [first EXCEPT ![x] = at[x] + 1]
    /\ at' = [at EXCEPT ![x] = @ + 1]
    /\ UNCHANGED <<used, pc, seen, done, count, undo, owned>>

ScanUsed(x) ==
    /\ pc[x] = "scan"
    /\ at[x] < TOTAL_PAGES
    /\ at[x] \in used
    /\ first' = [first EXCEPT ![x] = at[x] + 1]
    /\ done' = [done EXCEPT ![x] = 0]
    /\ at' = [at EXCEPT ![x] = @ + 1]
    /\ UNCHANGED <<used, pc, seen, count, undo, owned>>

(* Mutant: the scan stops one page before the run is complete.              *)
ScanShort(x) ==
    /\ pc[x] = "scan"
    /\ at[x] < TOTAL_PAGES
    /\ at[x] \notin used
    /\ IF done[x] + 2 >= count[x]
       THEN /\ Goto(x, "claim")
            /\ done' = [done EXCEPT ![x] = 0]
            /\ UNCHANGED at
       ELSE /\ done' = [done EXCEPT ![x] = @ + 1]
            /\ at' = [at EXCEPT ![x] = @ + 1]
            /\ UNCHANGED pc
    /\ UNCHANGED <<used, seen, first, count, undo, owned>>

ScanFree(x) ==
    /\ pc[x] = "scan"
    /\ at[x] < TOTAL_PAGES
    /\ at[x] \notin used
    /\ IF done[x] + 1 >= count[x]
       THEN /\ Goto(x, "claim")
            /\ done' = [done EXCEPT ![x] = 0]
            /\ UNCHANGED at
       ELSE /\ done' = [done EXCEPT ![x] = @ + 1]
            /\ at' = [at EXCEPT ![x] = @ + 1]
            /\ UNCHANGED pc
    /\ UNCHANGED <<used, seen, first, count, undo, owned>>

ScanFails(x) ==
    /\ pc[x] = "scan"
    /\ at[x] = TOTAL_PAGES
    /\ Return(x)
    /\ UNCHANGED <<used, owned>>

Run(x) == first[x] .. first[x] + count[x] - 1

(* Mutant: the bit is set without looking at its old value.                 *)
ClaimBlind(x) ==
    /\ pc[x] = "claim"
    /\ used' = used \union {first[x] + done[x]}
    /\ IF done[x] + 1 = count[x]
       THEN owned' = [owned EXCEPT ![x] = @ \union Run(x)] /\ Return(x)
       ELSE done' = [done EXCEPT ![x] = @ + 1]
            /\ UNCHANGED <<pc, at, seen, first, count, undo, owned>>

(* __atomic_fetch_or finds the bit clear; the last one completes the run.   *)
Claim(x) ==
    /\ pc[x] = "claim"
    /\ first[x] + done[x] \notin used
    /\ used' = used \union {first[x] + done[x]}
    /\ IF done[x] + 1 = count[x]
       THEN /\ owned' = [owned EXCEPT ![x] = @ \union Run(x)]
            /\ Return(x)
       ELSE /\ done' = [done EXCEPT ![x] = @ + 1]
            /\ UNCHANGED <<pc, at, seen, first, count, undo, owned>>

ClaimConflict(x) ==
    /\ pc[x] = "claim"
    /\ first[x] + done[x] \in used
    /\ Goto(x, "unclaim")
    /\ UNCHANGED <<used, locals, owned>>

Unclaim(x) ==
    /\ pc[x] = "unclaim"
    /\ undo[x] < done[x]
    /\ used' = used \ {first[x] + undo[x]}
    /\ undo' = [undo EXCEPT ![x] = @ + 1]
    /\ UNCHANGED <<pc, at, seen, first, done, count, owned>>

(* Mutant: a lost claim restarts the scan without giving pages back.        *)
RescanEarly(x) ==
    /\ pc[x] = "unclaim"
    /\ at' = [at EXCEPT ![x] = first[x] + done[x] + 1]
    /\ first' = [first EXCEPT ![x] = first[x] + done[x] + 1]
    /\ done' = [done EXCEPT ![x] = 0]
    /\ undo' = [undo EXCEPT ![x] = 0]
    /\ Goto(x, "scan")
    /\ UNCHANGED <<used, seen, count, owned>>

(* The scan restarts behind the page that was lost.                         *)
Rescan(x) ==
    /\ pc[x] = "unclaim"
    /\ undo[x] = done[x]
    /\ at' = [at EXCEPT ![x] = first[x] + done[x] + 1]
    /\ first' = [first EXCEPT ![x] = first[x] + done[x] + 1]
    /\ done' = [done EXCEPT ![x] = 0]
    /\ undo' = [undo EXCEPT ![x] = 0]
    /\ Goto(x, "scan")
    /\ UNCHANGED <<used, seen, count, owned>>

-----------------------------------------------------------------------------
(* What clients free: pages they own or, in error, pages already free.      *)
WrongFrees == heap_lock \/ StaleFrees
MayFree(x, p) == p \in owned[x] \/ (WrongFrees /\ p \notin used)

Free(x, p) ==
    /\ MayCall(x)
    /\ MayFree(x, p)
    /\ used' = used \ {p}
    /\ owned' = [owned EXCEPT ![x] = @ \ {p}]
    /\ UNCHANGED <<pc, locals>>

(* A run of pages of the client's own or, in error, one whose first pages   *)
(* are its own and whose rest is free or beyond the end of memory.          *)
MayFreeRun(x, p, c) ==
    LET run == p .. p + c - 1
    IN \/ run \subseteq owned[x]
       \/ /\ WrongFrees
          /\ \E k \in 1 .. c - 1 :
                /\ p .. p + k - 1 \subseteq owned[x]
                /\ (p + k .. p + c - 1) \intersect used = {}

FreeContiguous(x, p, c) ==
    /\ MayCall(x)
    /\ MayFreeRun(x, p, c)
    /\ first' = [first EXCEPT ![x] = p]
    /\ count' = [count EXCEPT ![x] = c]
    /\ Goto(x, "free")
    /\ UNCHANGED <<used, at, seen, done, undo, owned>>

(* __atomic_fetch_and finds the bit set.                                    *)
FreePage(x) ==
    LET p == first[x] + done[x]
    IN /\ pc[x] = "free"
       /\ p \in used
       /\ used' = used \ {p}
       /\ owned' = [owned EXCEPT ![x] = @ \ {p}]
       /\ IF done[x] + 1 = count[x]
          THEN Return(x)
          ELSE /\ done' = [done EXCEPT ![x] = @ + 1]
               /\ UNCHANGED <<pc, at, seen, first, count, undo>>

(* It finds the bit clear, or the run has left memory: the call will return *)
(* an error, so the client still owns the pages it freed so far.            *)
FreeConflict(x) ==
    /\ pc[x] = "free"
    /\ first[x] + done[x] \notin used
    /\ owned' = [owned EXCEPT ![x] = @ \union first[x] .. first[x] + done[x] - 1]
    /\ Goto(x, "refill")
    /\ UNCHANGED <<used, locals>>

(* Mutant: the rollback also sets the page that was free already.           *)
RefillTooFar(x) ==
    /\ pc[x] = "refill"
    /\ used' = used \union ({first[x] + undo[x]} \intersect Page)
    /\ IF undo[x] = done[x]
       THEN Return(x)
       ELSE /\ undo' = [undo EXCEPT ![x] = @ + 1]
            /\ UNCHANGED <<pc, at, seen, first, done, count>>
    /\ UNCHANGED owned

Refill(x) ==
    /\ pc[x] = "refill"
    /\ IF undo[x] < done[x]
       THEN /\ used' = used \union {first[x] + undo[x]}
            /\ undo' = [undo EXCEPT ![x] = @ + 1]
            /\ UNCHANGED <<pc, at, seen, first, done, count>>
       ELSE Return(x) /\ UNCHANGED used
    /\ UNCHANGED owned

-----------------------------------------------------------------------------
(* What a client does once inside a call.                                   *)
Step(x) ==
    \/ LoadWord(x)
    \/ CasWins(x)
    \/ CasLoses(x)
    \/ AllocFails(x)
    \/ ScanUsed(x)
    \/ ScanFree(x)
    \/ ScanFails(x)
    \/ Claim(x)
    \/ ClaimConflict(x)
    \/ Unclaim(x)
    \/ Rescan(x)
    \/ FreePage(x)
    \/ FreeConflict(x)
    \/ Refill(x)

Call(x) ==
    \/ Alloc(x)
    \/ \E c \in Counts : AllocContiguous(x, c)
    \/ \E p \in Page : Free(x, p)
    \/ \E p \in Page, c \in Counts : FreeContiguous(x, p, c)

Next ==
    /\ \E x \in Client : Call(x) \/ Step(x)
    /\ UNCHANGED heap_lock

Spec == Init /\ [][Next]_vars

-----------------------------------------------------------------------------
(* Pages whose bit a search has set and may still clear again.              *)
Claimed(x) ==
    CASE pc[x] = "claim" -> first[x] .. first[x] + done[x] - 1
      [] pc[x] = "unclaim" -> first[x] + undo[x] .. first[x] + done[x] - 1
      [] OTHER -> {}

(* Pages of the client's own whose bit a failed free has yet to set again.  *)
Cleared(x) ==
    IF pc[x] = "refill" THEN first[x] + undo[x] .. first[x] + done[x] - 1 ELSE {}

(* No page is granted to two clients, none of the kernel's to any, and no   *)
(* page of a run being claimed belongs to anybody, whatever the             *)
(* interleaving of scans, claims and rollbacks (HIGH-004, CRIT-003).        *)
ExclusiveOwnership ==
    \A x, y \in Client :
        /\ (owned[x] \union Claimed(x)) \intersect Kernel = {}
        /\ owned[x] \intersect Claimed(x) = {}
        /\ x # y => (owned[x] \union Claimed(x))
                        \intersect (owned[y] \union Claimed(y)) = {}

(* A bit is set exactly for the pages of the kernel, of the clients, and of *)
(* the runs being claimed: no rollback or failed free leaks a page, and no  *)
(* granted page is marked free.                                             *)
BitmapTracksOwners ==
    used = Kernel \union UNION {(owned[x] \ Cleared(x)) \union Claimed(x) : x \in Client}

(* Serialised searches are exact: one fails only if no run of the length    *)
(* asked for is free, and one that finds a run finds the first (bitmap.h:   *)
(* "first region of 'count' contiguous free pages", "-1 if no ... found").  *)
FreeRun(p, c) == p .. p + c - 1 \subseteq Page \ used
SearchIsExact ==
    [][heap_lock => \A x \in Client :
         /\ AllocFails(x) => used = Page
         /\ CasWins(x) => used' = used \union {Min(Page \ used)}
         /\ ScanFails(x) => \A p \in Page : ~FreeRun(p, count[x])
         /\ pc[x] = "scan" /\ pc'[x] = "claim" =>
                /\ FreeRun(first[x], count[x])
                /\ \A p \in Page : FreeRun(p, count[x]) => p >= first[x]]_vars

(* The bitmap implements the abstract allocator: a run is granted in one    *)
(* atomic step, the last claim, and a page is returned when its bit clears. *)
Owner(p) ==
    IF \E x \in Client : p \in owned[x]
    THEN CHOOSE x \in Client : p \in owned[x]
    ELSE NoClient

Abstract ==
    INSTANCE PageAllocSpec WITH
        Page <- KernelPages .. TOTAL_PAGES - 1,
        owner <- [p \in KernelPages .. TOTAL_PAGES - 1 |-> Owner(p)]
ImplementsPageAllocSpec == Abstract!Spec
=============================================================================
