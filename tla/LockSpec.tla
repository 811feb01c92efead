------------------------------ MODULE LockSpec ------------------------------
(***************************************************************************)
(* What spinlock.h promises its clients, without saying how: every lock has *)
(* at most one owner, an execution context that owns a lock cannot be       *)
(* preempted by another context of its own CPU that then takes a lock, and  *)
(* a lock is given back only by its owner.                                  *)
(*                                                                          *)
(* A context is a pair <<CPU, level>>: the code a CPU runs in its main line  *)
(* or in the interrupt handler that suspended it.                           *)
(***************************************************************************)

CONSTANTS
    Context,    \* the execution contexts, pairs whose first part is the CPU
    Lock,       \* the spinlock_t objects
    NoOwner     \* marks a free lock, not a context

VARIABLE owner  \* owner[l]: the context inside l's critical section

TypeOK == owner \in [Lock -> Context \union {NoOwner}]

Init == owner = [l \in Lock |-> NoOwner]

(* The other contexts of x's CPU: those x suspended, or that suspended x.   *)
Siblings(x) == {y \in Context : y[1] = x[1] /\ y # x}

Acquire(x, l) ==
    /\ owner[l] = NoOwner
    /\ \A k \in Lock : owner[k] \notin Siblings(x)
    /\ owner' = [owner EXCEPT ![l] = x]

Release(x, l) ==
    /\ owner[l] = x
    /\ owner' = [owner EXCEPT ![l] = NoOwner]

Next == \E x \in Context, l \in Lock : Acquire(x, l) \/ Release(x, l)

Spec == Init /\ [][Next]_owner
=============================================================================
