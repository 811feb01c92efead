--------------------------- MODULE PageAllocSpec ---------------------------
(***************************************************************************)
(* What a page allocator promises: a page has at most one owner, a client   *)
(* is granted a run of free pages all at once, and a page comes back only   *)
(* from the client that owns it. The kernel's own pages are in no run.      *)
(***************************************************************************)
EXTENDS Integers

CONSTANTS
    Client,     \* who asks for pages
    Page,       \* the pages the allocator hands out, an interval
    NoClient    \* owner of a free page, not a client

VARIABLE owner

Init == owner = [p \in Page |-> NoClient]

Grant(x, run) ==
    /\ \A p \in run : owner[p] = NoClient
    /\ owner' = [p \in Page |-> IF p \in run THEN x ELSE owner[p]]

Return(x, p) ==
    /\ owner[p] = x
    /\ owner' = [owner EXCEPT ![p] = NoClient]

Next ==
    \E x \in Client :
        \/ \E low, high \in Page : low <= high /\ Grant(x, low .. high)
        \/ \E p \in Page : Return(x, p)

Spec == Init /\ [][Next]_owner
=============================================================================
