------------------------------ MODULE Spinlock ------------------------------
(***************************************************************************)
(* lib/spinlock: the test-and-set spinlock that protects every structure    *)
(* the kernel shares, one step per access to the lock word, to its saved    *)
(* flag or to the interrupt flag of the CPU.                                *)
(*                                                                          *)
(* Each CPU runs two contexts: its main line and the hardware interrupt     *)
(* handler that may suspend it whenever the interrupt flag is set. IRQs use *)
(* interrupt gates, so a handler runs with the flag clear and handlers do   *)
(* not nest. Any context may take any lock and, while it holds one, the     *)
(* locks that MayNest lets it take inside; locks are released innermost     *)
(* first, as every caller in the kernel does.                               *)
(***************************************************************************)
EXTENDS Naturals, SequencesExt

CONSTANTS
    CPU,        \* the processors
    IrqCPU,     \* those the interrupt controller delivers to
    Lock,       \* the spinlock_t objects
    NoLock,     \* operand of a context that is not inside the lock API
    MayNest     \* <<outer, inner>>: the code takes inner while holding outer

Context == CPU \X {"main", "irq"}
Main(c) == <<c, "main">>
Irq(c) == <<c, "irq">>

ASSUME SpinlockAssumption ==
    /\ IrqCPU \subseteq CPU
    /\ NoLock \notin Lock \union Context
    /\ MayNest \subseteq Lock \X Lock

(* The callers nest locks in one direction only: slab.cpp takes g_heap_lock *)
(* inside g_slab_lock, the log takes the locks of its two drivers inside    *)
(* g_log_lock, and nothing takes an outer lock while it holds an inner one. *)
ASSUME LockOrderAssumption ==
    \E order \in SUBSET (Lock \X Lock) :
        /\ MayNest \subseteq order
        /\ \A l \in Lock : <<l, l>> \notin order
        /\ \A k, l, m \in Lock :
               <<k, l>> \in order /\ <<l, m>> \in order => <<k, m>> \in order

VARIABLES
    locked,             \* spinlock_t.locked, 0 or 1
    interrupts_enabled, \* spinlock_t.interrupts_enabled
    iflag,              \* RFLAGS.IF of each CPU
    inIrq,              \* the CPU is inside an interrupt handler
    base,               \* history: the flag the main line chose for itself
    pc,                 \* where a context is inside the lock API
    op,                 \* the operation it is in
    lk,                 \* the lock that operation is on
    flag,               \* its local int_state or was_enabled
    held                \* the locks the context holds, outermost first

lockVars == <<locked, interrupts_enabled>>
cpuVars == <<iflag, inIrq, base>>
callVars == <<op, lk, flag>>
vars == <<lockVars, cpuVars, pc, callVars, held>>

TypeOK ==
    /\ locked \in [Lock -> {0, 1}]
    /\ interrupts_enabled \in [Lock -> BOOLEAN]
    /\ iflag \in [CPU -> BOOLEAN]
    /\ inIrq \in [CPU -> BOOLEAN]
    /\ base \in [CPU -> BOOLEAN]
    /\ pc \in [Context -> {"idle", "cli", "cas", "pause", "mark",
                           "reset", "unlock", "sti"}]
    /\ op \in [Context -> {"none", "acquire", "try", "release"}]
    /\ lk \in [Context -> Lock \union {NoLock}]
    /\ flag \in [Context -> BOOLEAN]
    /\ held \in [Context -> Seq(Lock)]

-----------------------------------------------------------------------------
(* SPINLOCK_INIT for every lock; a CPU starts with its interrupts off.      *)
Init ==
    /\ locked = [l \in Lock |-> 0]
    /\ interrupts_enabled = [l \in Lock |-> FALSE]
    /\ iflag = [c \in CPU |-> FALSE]
    /\ inIrq = [c \in CPU |-> FALSE]
    /\ base = [c \in CPU |-> FALSE]
    /\ pc = [x \in Context |-> "idle"]
    /\ op = [x \in Context |-> "none"]
    /\ lk = [x \in Context |-> NoLock]
    /\ flag = [x \in Context |-> FALSE]
    /\ held = [x \in Context |-> <<>>]

(* The context its CPU is executing: a handler suspends the main line.      *)
Running(x) == (x[2] = "irq") = inIrq[x[1]]

At(x, l) == Running(x) /\ pc[x] = l
Goto(x, l) == pc' = [pc EXCEPT ![x] = l]

(* The operation starts on lock l with f in its local, or returns.          *)
Call(x, o, l, f) ==
    /\ op' = [op EXCEPT ![x] = o]
    /\ lk' = [lk EXCEPT ![x] = l]
    /\ flag' = [flag EXCEPT ![x] = f]

Return(x) == Goto(x, "idle") /\ Call(x, "none", NoLock, FALSE)

(* The lock discipline of the callers.                                      *)
MayTake(x, l) == held[x] # <<>> => <<Last(held[x]), l>> \in MayNest

-----------------------------------------------------------------------------
(* Mutant: the flag is read after cli has cleared it.                       *)
FlagReadLate(x, l, o) ==
    /\ At(x, "idle")
    /\ MayTake(x, l)
    /\ Call(x, o, l, FALSE)
    /\ Goto(x, "cli")
    /\ UNCHANGED <<lockVars, cpuVars, held>>

(* spinlock_acquire and spinlock_try_acquire start alike: pushfq reads the  *)
(* flag and, an interrupt possibly in between, cli clears it.               *)
Pushfq(x, l, o) ==
    /\ At(x, "idle")
    /\ MayTake(x, l)
    /\ Call(x, o, l, iflag[x[1]])
    /\ Goto(x, "cli")
    /\ UNCHANGED <<lockVars, cpuVars, held>>

(* Mutant: the removed fast path, which took the lock with interrupts on.   *)
CliSkipped(x) ==
    /\ At(x, "cli")
    /\ Goto(x, "cas")
    /\ UNCHANGED <<lockVars, cpuVars, callVars, held>>

Cli(x) ==
    /\ At(x, "cli")
    /\ iflag' = [iflag EXCEPT ![x[1]] = FALSE]
    /\ Goto(x, "cas")
    /\ UNCHANGED <<lockVars, inIrq, base, callVars, held>>

(* Mutant: the lock word is written without looking at its old value.       *)
CasBlind(x) ==
    /\ At(x, "cas")
    /\ locked' = [locked EXCEPT ![lk[x]] = 1]
    /\ Goto(x, "mark")
    /\ UNCHANGED <<interrupts_enabled, cpuVars, callVars, held>>

(* Mutant: the lock word counts the attempts, as lock xadd would.           *)
CasCounts(x) ==
    /\ At(x, "cas")
    /\ locked' = [locked EXCEPT ![lk[x]] = @ + 1]
    /\ Goto(x, IF locked[lk[x]] = 0 THEN "mark" ELSE "pause")
    /\ UNCHANGED <<interrupts_enabled, cpuVars, callVars, held>>

(* lock cmpxchg finds the word 0 and makes it 1.                            *)
CasWins(x) ==
    /\ At(x, "cas")
    /\ locked[lk[x]] = 0
    /\ locked' = [locked EXCEPT ![lk[x]] = 1]
    /\ Goto(x, "mark")
    /\ UNCHANGED <<interrupts_enabled, cpuVars, callVars, held>>

(* It does not: spinlock_acquire spins, spinlock_try_acquire gives up.      *)
CasLoses(x) ==
    /\ At(x, "cas")
    /\ locked[lk[x]] # 0
    /\ Goto(x, IF op[x] = "acquire" THEN "pause" ELSE "sti")
    /\ UNCHANGED <<lockVars, cpuVars, callVars, held>>

Pause(x) ==
    /\ At(x, "pause")
    /\ Goto(x, "cas")
    /\ UNCHANGED <<lockVars, cpuVars, callVars, held>>

(* Mutant: the lock keeps the flag an earlier owner left in it.             *)
MarkForgotten(x) ==
    /\ At(x, "mark")
    /\ held' = [held EXCEPT ![x] = Append(@, lk[x])]
    /\ Return(x)
    /\ UNCHANGED <<lockVars, cpuVars>>

(* The winner leaves the flag it saved in the lock it now owns.             *)
MarkSaved(x) ==
    /\ At(x, "mark")
    /\ interrupts_enabled' = [interrupts_enabled EXCEPT ![lk[x]] = flag[x]]
    /\ held' = [held EXCEPT ![x] = Append(@, lk[x])]
    /\ Return(x)
    /\ UNCHANGED <<locked, cpuVars>>

-----------------------------------------------------------------------------
(* spinlock_release of the innermost lock: the saved flag is read, then     *)
(* reset while the lock is still held, then the lock word is cleared.       *)
ReadSaved(x) ==
    /\ At(x, "idle")
    /\ held[x] # <<>>
    /\ LET l == Last(held[x])
       IN Call(x, "release", l, interrupts_enabled[l])
    /\ Goto(x, "reset")
    /\ UNCHANGED <<lockVars, cpuVars, held>>

ResetSaved(x) ==
    /\ At(x, "reset")
    /\ interrupts_enabled' = [interrupts_enabled EXCEPT ![lk[x]] = FALSE]
    /\ Goto(x, "unlock")
    /\ UNCHANGED <<locked, cpuVars, callVars, held>>

(* Mutant: the lock word is never cleared.                                  *)
UnlockForgotten(x) ==
    /\ At(x, "unlock")
    /\ held' = [held EXCEPT ![x] = Front(@)]
    /\ Goto(x, "sti")
    /\ UNCHANGED <<lockVars, cpuVars, callVars>>

Unlock(x) ==
    /\ At(x, "unlock")
    /\ locked' = [locked EXCEPT ![lk[x]] = 0]
    /\ held' = [held EXCEPT ![x] = Front(@)]
    /\ Goto(x, "sti")
    /\ UNCHANGED <<interrupts_enabled, cpuVars, callVars>>

(* Mutants: interrupts are switched on, or left off, whatever was saved.    *)
StiAlways(x) ==
    /\ At(x, "sti")
    /\ iflag' = [iflag EXCEPT ![x[1]] = TRUE]
    /\ Return(x)
    /\ UNCHANGED <<lockVars, inIrq, base, held>>

StiNever(x) ==
    /\ At(x, "sti")
    /\ Return(x)
    /\ UNCHANGED <<lockVars, cpuVars, held>>

(* The sti that ends a release and a failed try, taken if the flag was set. *)
Sti(x) ==
    /\ At(x, "sti")
    /\ iflag' = [iflag EXCEPT ![x[1]] = @ \/ flag[x]]
    /\ Return(x)
    /\ UNCHANGED <<lockVars, inIrq, base, held>>

-----------------------------------------------------------------------------
(* A hardware interrupt through an interrupt gate, and the handler's iretq. *)
Interrupt(c) ==
    /\ iflag[c]
    /\ ~inIrq[c]
    /\ inIrq' = [inIrq EXCEPT ![c] = TRUE]
    /\ iflag' = [iflag EXCEPT ![c] = FALSE]
    /\ UNCHANGED <<lockVars, base, pc, callVars, held>>

Iret(c) ==
    /\ At(Irq(c), "idle")
    /\ held[Irq(c)] = <<>>
    /\ inIrq' = [inIrq EXCEPT ![c] = FALSE]
    /\ iflag' = [iflag EXCEPT ![c] = TRUE]
    /\ UNCHANGED <<lockVars, base, pc, callVars, held>>

(* interrupts_enable(), called by kernel_main with no lock held.            *)
InterruptsEnable(c) ==
    /\ At(Main(c), "idle")
    /\ held[Main(c)] = <<>>
    /\ iflag' = [iflag EXCEPT ![c] = TRUE]
    /\ base' = [base EXCEPT ![c] = TRUE]
    /\ UNCHANGED <<lockVars, inIrq, pc, callVars, held>>

-----------------------------------------------------------------------------
(* What a context does, once inside the lock API, to get out of it.         *)
Step(x) ==
    \/ Cli(x)
    \/ CasWins(x)
    \/ CasLoses(x)
    \/ Pause(x)
    \/ MarkSaved(x)
    \/ ResetSaved(x)
    \/ Unlock(x)
    \/ Sti(x)

Next ==
    \/ \E x \in Context, l \in Lock, o \in {"acquire", "try"} : Pushfq(x, l, o)
    \/ \E x \in Context : Step(x) \/ ReadSaved(x)
    \/ \E c \in IrqCPU : Interrupt(c) \/ Iret(c)
    \/ \E c \in CPU : InterruptsEnable(c)

Spec == Init /\ [][Next]_vars

(* The contexts that ever run.                                              *)
Live == {x \in Context : x[2] = "irq" => x[1] \in IrqCPU}

(* A context inside the API goes on, and its critical sections are finite:  *)
(* one that could release its outermost lock again and again does.          *)
ScheduleFairness ==
    \A x \in Live :
        /\ WF_vars(Step(x))
        /\ WF_vars(ReadSaved(x))
        /\ SF_vars(ReadSaved(x) /\ Len(held[x]) = 1)

(* A context that keeps sampling a lock which keeps becoming free finds it  *)
(* free some time: nothing keeps its cmpxchg in step with the other owners. *)
Spinning(x) == pc[x] \in {"cas", "pause"} /\ op[x] = "acquire"
BusFairness ==
    \A x \in Live :
        []<>(Spinning(x) /\ locked[lk[x]] = 0) => []<>(pc[x] = "mark")

ScheduledSpec == Spec /\ ScheduleFairness
FairSpec == ScheduledSpec /\ BusFairness

-----------------------------------------------------------------------------
(* The context that won the lock word and has not given it back.            *)
Owns(x, l) == l \in Range(held[x]) \/ (pc[x] = "mark" /\ lk[x] = l)

(* Between cli and sti, or holding a lock.                                  *)
Inside(x) ==
    held[x] # <<>> \/ pc[x] \in {"cas", "pause", "mark", "reset", "unlock", "sti"}

(* The flag a context runs with outside every critical section.             *)
Outside(x) == x[2] = "main" /\ base[x[1]]

(* The lock word is 1 exactly while one context owns the lock, and never    *)
(* two contexts own it, over all interleavings of the compare-and-swap, the *)
(* release and the interrupts (spinlock.h: mutual exclusion for SMP).       *)
MutualExclusion ==
    \A l \in Lock :
        /\ locked[l] = 1 <=> \E x \in Context : Owns(x, l)
        /\ \A x, y \in Context : Owns(x, l) /\ Owns(y, l) => x = y

(* No interrupt preempts a context that holds or waits for a lock: its CPU  *)
(* is masked and, if it is the main line, no handler is active on top of it.*)
NotPreempted ==
    \A x \in Context : Inside(x) => ~iflag[x[1]] /\ Running(x)

(* spinlock_release restores the state before the acquire, also when locks  *)
(* nest: outside every critical section the CPU's flag is the one its main  *)
(* line chose, and a handler never runs with interrupts on.                 *)
FlagRestored ==
    \A x \in Context :
        Running(x) /\ ~Inside(x) => iflag[x[1]] = Outside(x)

(* The flag saved in a lock is its present owner's: for the outermost lock  *)
(* the owner's flag outside, for the locks inside FALSE; no release of      *)
(* another owner, whose reset precedes its unlock, ever overwrites it.      *)
SavedFlagOfOwner ==
    \A x \in Context : \A i \in DOMAIN held[x] :
        \/ pc[x] = "unlock" /\ i = Len(held[x])
        \/ interrupts_enabled[held[x][i]] = (i = 1 /\ Outside(x))

(* No context waits for a lock its own CPU holds, which nobody could then   *)
(* release: the deadlock between a handler and the code it interrupted.     *)
NoSelfDeadlock ==
    \A x, y \in Context :
        x[1] = y[1] /\ pc[x] \in {"cas", "pause"} => ~Owns(y, lk[x])

(* The spinlock implements the abstract lock of LockSpec.                   *)
NoOwner == NoLock
Owner(l) ==
    IF \E x \in Context : Owns(x, l)
    THEN CHOOSE x \in Context : Owns(x, l)
    ELSE NoOwner

Abstract == INSTANCE LockSpec WITH owner <- [l \in Lock |-> Owner(l)]
ImplementsLockSpec == Abstract!Spec

(* A context that spins for a lock gets it.                                 *)
WaiterServed ==
    \A x \in Context, l \in Lock :
        Spinning(x) /\ lk[x] = l ~> Owns(x, l)

(* Interrupts are never lost for good: a main line that runs with them on   *)
(* outside its critical sections gets them back.                            *)
InterruptsComeBack ==
    \A c \in CPU : base[c] /\ ~inIrq[c] ~> iflag[c]
=============================================================================
