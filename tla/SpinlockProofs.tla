--------------------------- MODULE SpinlockProofs ---------------------------
(***************************************************************************)
(* Proofs about Spinlock for any set of processors and locks and any        *)
(* nesting relation: type correctness, mutual exclusion, and the handling   *)
(* of the interrupt flag.                                                   *)
(***************************************************************************)
EXTENDS Spinlock, TLAPS

(* Taking a lock: appending to the stack of held locks adds that lock.      *)
LEMMA AppendHeld ==
    ASSUME NEW S, NEW s \in Seq(S), NEW e \in S
    PROVE  /\ Append(s, e) \in Seq(S)
           /\ Append(s, e) # <<>>
           /\ Len(Append(s, e)) = Len(s) + 1
           /\ \A i \in 1 .. Len(s) : Append(s, e)[i] = s[i]
           /\ Append(s, e)[Len(s) + 1] = e
           /\ Range(Append(s, e)) = Range(s) \union {e}
<1>1. /\ Append(s, e) \in Seq(S)
      /\ Append(s, e) # <<>>
      /\ Len(Append(s, e)) = Len(s) + 1
      /\ \A i \in 1 .. Len(s) : Append(s, e)[i] = s[i]
      /\ Append(s, e)[Len(s) + 1] = e
      /\ DOMAIN s = 1 .. Len(s)
      /\ DOMAIN Append(s, e) = 1 .. Len(s) + 1
      /\ Len(s) \in Nat
  OBVIOUS
<1>2. Range(Append(s, e)) \subseteq Range(s) \union {e}
  BY <1>1 DEF Range
<1>3. Range(s) \union {e} \subseteq Range(Append(s, e))
  BY <1>1 DEF Range
<1>4. QED  BY <1>1, <1>2, <1>3

(* The stack without its top: one shorter, otherwise the same.              *)
LEMMA FrontShape ==
    ASSUME NEW S, NEW s \in Seq(S), s # <<>>
    PROVE  /\ Len(s) \in Nat \ {0}
           /\ DOMAIN s = 1 .. Len(s)
           /\ DOMAIN Front(s) = 1 .. Len(s) - 1
           /\ Front(s) = <<>> <=> Len(s) = 1
           /\ \A i \in 1 .. Len(s) - 1 : Front(s)[i] = s[i]
<1>1. /\ Len(s) \in Nat \ {0}
      /\ DOMAIN s = 1 .. Len(s)
  OBVIOUS
<1>2. /\ Front(s) \in Seq(S)
      /\ Len(Front(s)) = Len(s) - 1
      /\ DOMAIN Front(s) = 1 .. Len(s) - 1
      /\ \A i \in 1 .. Len(s) - 1 : Front(s)[i] = s[i]
  BY <1>1 DEF Front
<1>3. Front(s) = <<>> <=> Len(Front(s)) = 0
  BY <1>2
<1>4. QED  BY <1>1, <1>2, <1>3

(* Releasing the innermost lock: the stack loses exactly that lock.         *)
LEMMA FrontHeld ==
    ASSUME NEW S, NEW s \in Seq(S), s # <<>>
    PROVE  /\ Front(s) \in Seq(S)
           /\ Len(Front(s)) = Len(s) - 1
           /\ \A i \in 1 .. Len(s) - 1 : Front(s)[i] = s[i]
           /\ Last(s) \in S
           /\ Last(s) = s[Len(s)]
           /\ Len(s) \in DOMAIN s
           /\ Last(s) \in Range(s)
           /\ (\A i, j \in DOMAIN s : s[i] = s[j] => i = j)
                 => Range(Front(s)) = Range(s) \ {Last(s)}
<1>1. /\ Len(s) \in Nat \ {0}
      /\ DOMAIN s = 1 .. Len(s)
  OBVIOUS
<1>2. /\ Front(s) \in Seq(S)
      /\ Len(Front(s)) = Len(s) - 1
      /\ DOMAIN Front(s) = 1 .. Len(s) - 1
      /\ \A i \in 1 .. Len(s) - 1 : Front(s)[i] = s[i]
  BY <1>1 DEF Front
<1>3. /\ Last(s) = s[Len(s)]
      /\ Len(s) \in DOMAIN s
      /\ Last(s) \in S
      /\ Last(s) \in Range(s)
  BY <1>1 DEF Last, Range
<1>4. ASSUME \A i, j \in DOMAIN s : s[i] = s[j] => i = j
      PROVE  Range(Front(s)) = Range(s) \ {Last(s)}
  <2>1. Range(Front(s)) \subseteq Range(s) \ {Last(s)}
    BY <1>1, <1>2, <1>3, <1>4 DEF Range
  <2>2. Range(s) \ {Last(s)} \subseteq Range(Front(s))
    BY <1>1, <1>2, <1>3 DEF Range
  <2>3. QED  BY <2>1, <2>2
<1>5. QED  BY <1>2, <1>3, <1>4

-----------------------------------------------------------------------------
(* Inside the lock API a context is on a lock, which a release takes from   *)
(* the top of the stack of locks the context holds.                         *)
Operands ==
    \A x \in Context :
        /\ pc[x] # "idle" => lk[x] \in Lock
        /\ pc[x] \in {"reset", "unlock"} => held[x] # <<>> /\ lk[x] = Last(held[x])

Typed == TypeOK /\ Operands

(* Both hold initially, and every step keeps them: one step of the proof    *)
(* per action.                                                              *)
LEMMA TypedInit == Init => Typed
  BY DEF Init, Typed, TypeOK, Operands

(* Every step of the lock API, of an interrupt or of kernel_main keeps them. *)
LEMMA TypedStep == Typed /\ [Next]_vars => Typed'
<1> SUFFICES ASSUME Typed, [Next]_vars PROVE Typed'
  OBVIOUS
<1> USE SpinlockAssumption DEF Typed, TypeOK, Operands, At, Goto, lockVars, cpuVars, callVars
<1>1. ASSUME NEW x \in Context, NEW l \in Lock, NEW o \in {"acquire", "try"},
             Pushfq(x, l, o)
      PROVE  Typed'
  <2>1. x[1] \in CPU
    BY DEF Context
  <2>2. QED  BY <1>1, <2>1 DEF Pushfq, Call
<1>2. ASSUME NEW x \in Context, Cli(x) PROVE Typed'
  BY <1>2 DEF Cli
<1>3. ASSUME NEW x \in Context, CasWins(x) PROVE Typed'
  BY <1>3 DEF CasWins
<1>4. ASSUME NEW x \in Context, CasLoses(x) PROVE Typed'
  BY <1>4 DEF CasLoses
<1>5. ASSUME NEW x \in Context, Pause(x) PROVE Typed'
  BY <1>5 DEF Pause
<1>6. ASSUME NEW x \in Context, MarkSaved(x) PROVE Typed'
  <2>1. /\ lk[x] \in Lock
        /\ Append(held[x], lk[x]) \in Seq(Lock)
    BY <1>6 DEF MarkSaved
  <2>2. QED  BY <1>6, <2>1 DEF MarkSaved, Return, Call
<1>7. ASSUME NEW x \in Context, ReadSaved(x) PROVE Typed'
  <2>1. Last(held[x]) \in Lock
    BY <1>7, FrontHeld DEF ReadSaved
  <2>2. QED  BY <1>7, <2>1 DEF ReadSaved, Call
<1>8. ASSUME NEW x \in Context, ResetSaved(x) PROVE Typed'
  BY <1>8 DEF ResetSaved
<1>9. ASSUME NEW x \in Context, Unlock(x) PROVE Typed'
  <2>1. Front(held[x]) \in Seq(Lock)
    BY <1>9, FrontHeld DEF Unlock
  <2>2. QED  BY <1>9, <2>1 DEF Unlock
<1>10. ASSUME NEW x \in Context, Sti(x) PROVE Typed'
  <2>1. x[1] \in CPU
    BY DEF Context
  <2>2. QED  BY <1>10, <2>1 DEF Sti, Return, Call
<1>11. ASSUME NEW c \in IrqCPU, Interrupt(c) \/ Iret(c) PROVE Typed'
  BY <1>11 DEF Interrupt, Iret
<1>12. ASSUME NEW c \in CPU, InterruptsEnable(c) PROVE Typed'
  BY <1>12 DEF InterruptsEnable
<1>13. CASE UNCHANGED vars
  BY <1>13 DEF vars
<1>14. QED
  BY <1>1, <1>2, <1>3, <1>4, <1>5, <1>6, <1>7, <1>8, <1>9, <1>10, <1>11, <1>12, <1>13
     DEF Next, Step

(* The spinlock's variables always have their types, whatever processors    *)
(* and locks there are.                                                     *)
THEOREM TypeCorrect == Spec => []TypeOK
<1>1. Spec => []Typed
  BY TypedInit, TypedStep, PTL DEF Spec
<1>2. Typed => TypeOK
  BY DEF Typed
<1>3. QED  BY <1>1, <1>2, PTL

-----------------------------------------------------------------------------
(* Mutual exclusion needs two facts about the stack of held locks: it names *)
(* no lock twice, and the lock a context has just won is not yet on it.     *)
HeldOnce ==
    \A x \in Context :
        /\ \A i, j \in DOMAIN held[x] : held[x][i] = held[x][j] => i = j
        /\ pc[x] = "mark" => lk[x] \notin Range(held[x])

Ownership == HeldOnce /\ MutualExclusion

(* With every lock released, nobody owns one.                               *)
LEMMA OwnershipInit == Init => Ownership
<1> SUFFICES ASSUME Init PROVE Ownership
  OBVIOUS
<1>1. \A x \in Context : held[x] = <<>> /\ pc[x] = "idle"
  BY DEF Init
<1>2. \A x \in Context : Range(held[x]) = {} /\ DOMAIN held[x] = {}
  BY <1>1 DEF Range
<1>3. \A x \in Context, l \in Lock : ~Owns(x, l)
  BY <1>1, <1>2 DEF Owns
<1>4. \A l \in Lock : locked[l] = 0
  BY DEF Init
<1>5. QED
  BY <1>1, <1>2, <1>3, <1>4 DEF Ownership, HeldOnce, MutualExclusion

(* Winning the compare-and-swap makes one context own one lock more, which  *)
(* nobody owned.                                                            *)
LEMMA CasWinsOwns ==
    ASSUME Typed, Ownership, NEW x \in Context, CasWins(x)
    PROVE  /\ lk[x] \in Lock
           /\ \A y \in Context : ~Owns(y, lk[x])
           /\ \A y \in Context, l \in Lock :
                 Owns(y, l)' <=> Owns(y, l) \/ (y = x /\ l = lk[x])
<1> USE DEF CasWins, At, Goto, callVars
<1>1. lk[x] \in Lock
  BY DEF Typed, Operands
<1>2. \A y \in Context : ~Owns(y, lk[x])
  BY <1>1 DEF Ownership, MutualExclusion
<1>3. \A y \in Context, l \in Lock :
        Owns(y, l)' <=> Owns(y, l) \/ (y = x /\ l = lk[x])
  BY <1>1 DEF Owns, Typed, TypeOK
<1>4. QED  BY <1>1, <1>2, <1>3

(* Recording the lock that was won leaves every owner what it was: the lock *)
(* goes on top of the winner's stack.                                       *)
LEMMA MarkSavedOwns ==
    ASSUME Typed, Ownership, NEW x \in Context, MarkSaved(x)
    PROVE  /\ lk[x] \in Lock
           /\ lk[x] \notin Range(held[x])
           /\ held'[x] = Append(held[x], lk[x])
           /\ pc'[x] = "idle"
           /\ \A y \in Context \ {x} : held'[y] = held[y] /\ pc'[y] = pc[y]
           /\ DOMAIN held[x] = 1 .. Len(held[x])
           /\ DOMAIN held'[x] = 1 .. Len(held[x]) + 1
           /\ Len(held[x]) \in Nat
           /\ \A i \in 1 .. Len(held[x]) : held'[x][i] = held[x][i]
           /\ held'[x][Len(held[x]) + 1] = lk[x]
           /\ \A y \in Context, l \in Lock : Owns(y, l)' <=> Owns(y, l)
<1> USE DEF MarkSaved, Return, Call, At, Goto
<1>1. /\ lk[x] \in Lock
      /\ held[x] \in Seq(Lock)
      /\ lk[x] \notin Range(held[x])
  BY DEF Typed, TypeOK, Operands, Ownership, HeldOnce
<1>2. /\ held' = [held EXCEPT ![x] = Append(held[x], lk[x])]
      /\ held'[x] = Append(held[x], lk[x])
      /\ pc[x] = "mark" /\ pc'[x] = "idle"
      /\ \A y \in Context \ {x} : /\ held'[y] = held[y]
                                  /\ pc'[y] = pc[y]
                                  /\ lk'[y] = lk[y]
  BY DEF Typed, TypeOK
<1>3. /\ Range(held'[x]) = Range(held[x]) \union {lk[x]}
      /\ \A i \in 1 .. Len(held[x]) : held'[x][i] = held[x][i]
      /\ held'[x][Len(held[x]) + 1] = lk[x]
      /\ DOMAIN held[x] = 1 .. Len(held[x])
      /\ DOMAIN held'[x] = 1 .. Len(held[x]) + 1
      /\ Len(held[x]) \in Nat
  BY <1>1, <1>2, AppendHeld
<1>4. \A y \in Context, l \in Lock : Owns(y, l)' <=> Owns(y, l)
  BY <1>1, <1>2, <1>3 DEF Owns
<1>5. QED  BY <1>1, <1>2, <1>3, <1>4

(* Releasing gives up one lock, which the releasing context owned.          *)
LEMMA UnlockOwns ==
    ASSUME Typed, Ownership, NEW x \in Context, Unlock(x)
    PROVE  /\ lk[x] \in Lock
           /\ Owns(x, lk[x])
           /\ \A y \in Context, l \in Lock :
                 Owns(y, l)' <=> Owns(y, l) /\ ~(y = x /\ l = lk[x])
           /\ pc'[x] = "sti"
           /\ \A y \in Context \ {x} : held'[y] = held[y] /\ pc'[y] = pc[y]
           /\ DOMAIN held[x] = 1 .. Len(held[x])
           /\ DOMAIN held'[x] = 1 .. Len(held[x]) - 1
           /\ Len(held[x]) \in Nat
           /\ \A i \in 1 .. Len(held[x]) - 1 : held'[x][i] = held[x][i]
<1> USE DEF Unlock, At, Goto, callVars
<1>1. /\ lk[x] = Last(held[x])
      /\ held[x] \in Seq(Lock)
      /\ held[x] # <<>>
      /\ \A i, j \in DOMAIN held[x] : held[x][i] = held[x][j] => i = j
  BY DEF Typed, TypeOK, Operands, Ownership, HeldOnce
<1>2. /\ held'[x] = Front(held[x])
      /\ pc[x] = "unlock" /\ pc'[x] = "sti"
      /\ lk' = lk
      /\ \A y \in Context \ {x} : held'[y] = held[y] /\ pc'[y] = pc[y]
  BY DEF Typed, TypeOK
<1>3. /\ Range(held'[x]) = Range(held[x]) \ {lk[x]}
      /\ lk[x] \in Range(held[x])
      /\ lk[x] \in Lock
  BY <1>1, <1>2, FrontHeld
<1>4. /\ DOMAIN held[x] = 1 .. Len(held[x])
      /\ DOMAIN held'[x] = 1 .. Len(held[x]) - 1
      /\ Len(held[x]) \in Nat
      /\ \A i \in 1 .. Len(held[x]) - 1 : held'[x][i] = held[x][i]
  BY <1>1, <1>2, FrontShape
<1>5. \A y \in Context, l \in Lock :
        Owns(y, l)' <=> Owns(y, l) /\ ~(y = x /\ l = lk[x])
  BY <1>2, <1>3 DEF Owns
<1>6. Owns(x, lk[x])
  BY <1>3 DEF Owns
<1>7. QED  BY <1>2, <1>3, <1>4, <1>5, <1>6

(* Every other step leaves every owner what it was.                         *)
OtherStep ==
    \/ \E x \in Context, l \in Lock, o \in {"acquire", "try"} : Pushfq(x, l, o)
    \/ \E x \in Context : \/ Cli(x) \/ CasLoses(x) \/ Pause(x) \/ ReadSaved(x)
                         \/ ResetSaved(x) \/ Sti(x)
    \/ \E c \in CPU : Interrupt(c) \/ Iret(c) \/ InterruptsEnable(c)
    \/ UNCHANGED vars

(* The other steps change no owner.                                         *)
LEMMA OtherStepOwns ==
    ASSUME Typed, OtherStep
    PROVE  /\ UNCHANGED <<locked, held>>
           /\ \A x \in Context : pc'[x] = "mark" <=> pc[x] = "mark"
           /\ \A y \in Context, l \in Lock : Owns(y, l)' <=> Owns(y, l)
<1>1. ASSUME NEW x \in Context,
             UNCHANGED <<locked, held>>,
             \A y \in Context \ {x} : pc'[y] = pc[y] /\ lk'[y] = lk[y],
             pc[x] # "mark", pc'[x] # "mark"
      PROVE  /\ \A y \in Context : pc'[y] = "mark" <=> pc[y] = "mark"
             /\ \A y \in Context, l \in Lock : Owns(y, l)' <=> Owns(y, l)
  BY <1>1 DEF Owns
<1>2. CASE \E x \in Context, l \in Lock, o \in {"acquire", "try"} : Pushfq(x, l, o)
  BY <1>1, <1>2 DEF Pushfq, Call, At, Goto, Typed, TypeOK, lockVars
<1>3. CASE \E x \in Context : \/ Cli(x) \/ CasLoses(x) \/ Pause(x) \/ ReadSaved(x)
                             \/ ResetSaved(x) \/ Sti(x)
  BY <1>1, <1>3 DEF Cli, CasLoses, Pause, ReadSaved, ResetSaved, Sti,
     Return, Call, At, Goto, Typed, TypeOK, lockVars, callVars
<1>4. CASE \E c \in CPU : Interrupt(c) \/ Iret(c) \/ InterruptsEnable(c)
  BY <1>4 DEF Interrupt, Iret, InterruptsEnable, lockVars, callVars, Owns
<1>5. CASE UNCHANGED vars
  BY <1>5 DEF vars, lockVars, callVars, Owns
<1>6. QED  BY <1>2, <1>3, <1>4, <1>5 DEF OtherStep

(* A step takes a lock, records one, gives one up, or is one of the others. *)
LEMMA StepKinds ==
    ASSUME [Next]_vars
    PROVE  \/ \E x \in Context : CasWins(x) \/ MarkSaved(x) \/ Unlock(x)
           \/ OtherStep
  BY SpinlockAssumption DEF Next, Step, OtherStep

(* Acquire, try and release keep the lock word and the owner in step.       *)
LEMMA OwnershipStep == Typed /\ Ownership /\ [Next]_vars => Ownership'
<1> SUFFICES ASSUME Typed, Ownership, [Next]_vars PROVE Ownership'
  OBVIOUS
<1>1. ASSUME NEW x \in Context, CasWins(x) PROVE Ownership'
  <2>1. /\ lk[x] \in Lock
        /\ \A y \in Context : ~Owns(y, lk[x])
        /\ \A y \in Context, l \in Lock :
              Owns(y, l)' <=> Owns(y, l) \/ (y = x /\ l = lk[x])
    BY <1>1, CasWinsOwns
  <2>2. HeldOnce'
    BY <1>1, <2>1 DEF Ownership, HeldOnce, Owns, Typed, TypeOK, CasWins, At, Goto, callVars
  <2>3. \A l \in Lock : locked'[l] = 1 <=> locked[l] = 1 \/ l = lk[x]
    BY <1>1, <2>1 DEF Typed, TypeOK, CasWins
  <2>4. MutualExclusion'
    BY <2>1, <2>3 DEF Ownership, MutualExclusion
  <2>5. QED  BY <2>2, <2>4 DEF Ownership
<1>2. ASSUME NEW x \in Context, MarkSaved(x) PROVE Ownership'
  <2>1. /\ lk[x] \notin Range(held[x])
        /\ pc'[x] = "idle"
        /\ \A y \in Context \ {x} : held'[y] = held[y] /\ pc'[y] = pc[y]
        /\ DOMAIN held[x] = 1 .. Len(held[x])
        /\ DOMAIN held'[x] = 1 .. Len(held[x]) + 1
        /\ Len(held[x]) \in Nat
        /\ \A i \in 1 .. Len(held[x]) : held'[x][i] = held[x][i]
        /\ held'[x][Len(held[x]) + 1] = lk[x]
        /\ \A y \in Context, l \in Lock : Owns(y, l)' <=> Owns(y, l)
    BY <1>2, MarkSavedOwns
  <2>2. \A i \in DOMAIN held[x] : held[x][i] # lk[x]
    BY <2>1 DEF Range
  <2>3. \A i, j \in DOMAIN held'[x] : held'[x][i] = held'[x][j] => i = j
    BY <2>1, <2>2 DEF Ownership, HeldOnce
  <2>4. HeldOnce'
    BY <1>2, <2>1, <2>3 DEF Ownership, HeldOnce, MarkSaved, Return, Call, Typed, TypeOK
  <2>5. MutualExclusion'
    BY <1>2, <2>1 DEF Ownership, MutualExclusion, MarkSaved
  <2>6. QED  BY <2>4, <2>5 DEF Ownership
<1>3. ASSUME NEW x \in Context, Unlock(x) PROVE Ownership'
  <2>1. /\ lk[x] \in Lock
        /\ Owns(x, lk[x])
        /\ \A y \in Context, l \in Lock :
              Owns(y, l)' <=> Owns(y, l) /\ ~(y = x /\ l = lk[x])
        /\ pc'[x] = "sti"
        /\ \A y \in Context \ {x} : held'[y] = held[y] /\ pc'[y] = pc[y]
        /\ DOMAIN held[x] = 1 .. Len(held[x])
        /\ DOMAIN held'[x] = 1 .. Len(held[x]) - 1
        /\ Len(held[x]) \in Nat
        /\ \A i \in 1 .. Len(held[x]) - 1 : held'[x][i] = held[x][i]
    BY <1>3, UnlockOwns
  <2>2. \A i, j \in DOMAIN held'[x] : held'[x][i] = held'[x][j] => i = j
    BY <2>1 DEF Ownership, HeldOnce
  <2>3. HeldOnce'
    BY <1>3, <2>1, <2>2 DEF Ownership, HeldOnce, Unlock, callVars
  <2>4. \A l \in Lock : locked'[l] = 1 <=> locked[l] = 1 /\ l # lk[x]
    BY <1>3, <2>1 DEF Typed, TypeOK, Unlock
  <2>5. MutualExclusion'
    BY <2>1, <2>4 DEF Ownership, MutualExclusion
  <2>6. QED  BY <2>3, <2>5 DEF Ownership
<1>4. CASE OtherStep
  <2>1. /\ UNCHANGED <<locked, held>>
        /\ \A x \in Context : pc'[x] = "mark" <=> pc[x] = "mark"
        /\ \A y \in Context, l \in Lock : Owns(y, l)' <=> Owns(y, l)
    BY <1>4, OtherStepOwns
  <2>2. \A x \in Context : pc'[x] = "mark" => lk'[x] \notin Range(held[x])
    <3>1. \A x \in Context : pc'[x] = "mark" => pc[x] = "mark"
      BY <2>1
    <3>2. \A x \in Context : pc[x] = "mark" /\ pc'[x] = "mark" => lk'[x] = lk[x]
      BY <1>4 DEF OtherStep, Pushfq, Cli, CasLoses, Pause, ReadSaved, ResetSaved, Sti,
         Return, Call, At, Goto, Typed, TypeOK, callVars, Interrupt, Iret,
         InterruptsEnable, vars
    <3>3. QED  BY <3>1, <3>2 DEF Ownership, HeldOnce
  <2>3. HeldOnce'
    BY <2>1, <2>2 DEF Ownership, HeldOnce
  <2>4. MutualExclusion'
    BY <2>1 DEF Ownership, MutualExclusion
  <2>5. QED  BY <2>3, <2>4 DEF Ownership
<1>5. QED
  BY <1>1, <1>2, <1>3, <1>4, StepKinds

(* At every moment the lock word is 1 exactly when one context, and only    *)
(* one, is inside the critical section.                                     *)
THEOREM MutualExclusionHolds == Spec => []MutualExclusion
<1>1. Spec => [](Typed /\ Ownership)
  BY TypedInit, TypedStep, OwnershipInit, OwnershipStep, PTL DEF Spec
<1>2. Typed /\ Ownership => MutualExclusion
  BY DEF Ownership
<1>3. QED  BY <1>1, <1>2, PTL

-----------------------------------------------------------------------------
(* The interrupt flag. While a handler is active the main line it suspended *)
(* is outside every critical section and had interrupts on; while none is,  *)
(* the handler's context is at rest and the CPU's flag is the one the main  *)
(* line chose unless it is inside a critical section.                       *)
Suspension ==
    \A c \in CPU :
        /\ inIrq[c] => base[c] /\ ~iflag[c] /\ ~Inside(Main(c))
        /\ ~inIrq[c] => /\ pc[Irq(c)] = "idle"
                        /\ held[Irq(c)] = <<>>
                        /\ iflag[c] <=> base[c] /\ ~Inside(Main(c))

(* The local copy of the flag is the one outside the critical section when  *)
(* the operation is on the outermost lock, and FALSE on a lock inside.      *)
LocalFlag ==
    \A x \in Context :
        /\ pc[x] \in {"cli", "cas", "pause", "mark", "sti"} =>
               (flag[x] <=> held[x] = <<>> /\ Outside(x))
        /\ pc[x] \in {"reset", "unlock"} =>
               (flag[x] <=> Len(held[x]) = 1 /\ Outside(x))

Flags == Suspension /\ LocalFlag /\ SavedFlagOfOwner

(* A context is the main line or the handler of its CPU, and not both.      *)
LEMMA ContextShape ==
    /\ \A c \in CPU : Main(c) \in Context /\ Irq(c) \in Context /\ Main(c) # Irq(c)
    /\ \A c \in CPU : Main(c)[1] = c /\ Irq(c)[1] = c
    /\ \A c \in CPU : Main(c)[2] = "main" /\ Irq(c)[2] = "irq"
    /\ \A x \in Context : /\ x[1] \in CPU
                          /\ \/ x = Main(x[1]) /\ x[2] = "main"
                             \/ x = Irq(x[1]) /\ x[2] = "irq"
  BY DEF Context, Main, Irq

(* The CPUs start with interrupts off and no flag saved.                    *)
LEMMA FlagsInit == Init => Flags
  BY ContextShape
     DEF Init, Flags, Suspension, LocalFlag, SavedFlagOfOwner, Inside, Outside

(* What the two flag invariants say of the context that is running.         *)
LEMMA RunningFlag ==
    ASSUME Typed, Flags, NEW x \in Context, Running(x)
    PROVE  iflag[x[1]] <=> ~Inside(x) /\ Outside(x)
<1>1. CASE x = Main(x[1]) /\ x[2] = "main"
  BY <1>1, ContextShape DEF Typed, TypeOK, Running, Flags, Suspension, Outside
<1>2. CASE x = Irq(x[1]) /\ x[2] = "irq"
  BY <1>2, ContextShape DEF Typed, TypeOK, Running, Flags, Suspension, Outside
<1>3. QED  BY <1>1, <1>2, ContextShape

(* Every cli, sti, saved flag, interrupt and iretq keeps the invariants.    *)
LEMMA FlagsStep == Typed /\ Ownership /\ Flags /\ [Next]_vars => Flags'
<1> SUFFICES ASSUME Typed, Ownership, Flags, [Next]_vars PROVE Flags'
  OBVIOUS
<1> USE SpinlockAssumption, ContextShape DEF At, Goto, lockVars, cpuVars, callVars
<1>t. Typed'
  BY TypedStep
<1>1. ASSUME NEW x \in Context, NEW l \in Lock, NEW o \in {"acquire", "try"},
             Pushfq(x, l, o)
      PROVE  Flags'
  <2> USE <1>1 DEF Pushfq, Call
  <2>1. iflag[x[1]] <=> held[x] = <<>> /\ Outside(x)
    BY RunningFlag DEF Inside
  <2>2. Suspension'
    BY DEF Typed, TypeOK, Flags, Suspension, Inside, Running
  <2>3. LocalFlag'
    BY <2>1 DEF Typed, TypeOK, Flags, LocalFlag, Outside
  <2>4. SavedFlagOfOwner'
    BY DEF Typed, TypeOK, Flags, SavedFlagOfOwner, Outside
  <2>5. QED  BY <2>2, <2>3, <2>4 DEF Flags
<1>2. ASSUME NEW x \in Context, Cli(x) PROVE Flags'
  <2> USE <1>2 DEF Cli
  <2>1. Suspension'
    BY DEF Typed, TypeOK, Flags, Suspension, Inside, Running
  <2>2. LocalFlag'
    BY DEF Typed, TypeOK, Flags, LocalFlag, Outside
  <2>3. SavedFlagOfOwner'
    BY DEF Typed, TypeOK, Flags, SavedFlagOfOwner, Outside
  <2>4. QED  BY <2>1, <2>2, <2>3 DEF Flags
<1>3. ASSUME NEW x \in Context, CasWins(x) \/ CasLoses(x) \/ Pause(x) PROVE Flags'
  <2> USE <1>3 DEF CasWins, CasLoses, Pause
  <2>1. Suspension'
    BY DEF Typed, TypeOK, Flags, Suspension, Inside, Running
  <2>2. LocalFlag'
    BY DEF Typed, TypeOK, Flags, LocalFlag, Outside
  <2>3. SavedFlagOfOwner'
    BY DEF Typed, TypeOK, Flags, SavedFlagOfOwner, Outside
  <2>4. QED  BY <2>1, <2>2, <2>3 DEF Flags
<1>4. ASSUME NEW x \in Context, MarkSaved(x) PROVE Flags'
  <2> USE <1>4 DEF MarkSaved, Return, Call
  <2>1. /\ lk[x] \in Lock
        /\ held[x] \in Seq(Lock)
        /\ held'[x] = Append(held[x], lk[x])
        /\ pc[x] = "mark" /\ pc'[x] = "idle"
        /\ \A y \in Context \ {x} : held'[y] = held[y] /\ pc'[y] = pc[y]
    BY DEF Typed, TypeOK, Operands
  <2>2. /\ held'[x] # <<>>
        /\ Len(held[x]) \in Nat
        /\ held[x] = <<>> <=> Len(held[x]) = 0
        /\ DOMAIN held[x] = 1 .. Len(held[x])
        /\ DOMAIN held'[x] = 1 .. Len(held[x]) + 1
        /\ \A i \in 1 .. Len(held[x]) : held'[x][i] = held[x][i]
        /\ held'[x][Len(held[x]) + 1] = lk[x]
    BY <2>1, AppendHeld
  <2>3. Suspension'
    BY <2>1, <2>2 DEF Typed, TypeOK, Flags, Suspension, Inside, Running
  <2>4. LocalFlag'
    BY DEF Typed, TypeOK, Flags, LocalFlag, Outside
  <2>5. \A y \in Context : \A i \in DOMAIN held[y] :
          held[y][i] \in Lock /\ held[y][i] # lk[x]
    <3>1. lk[x] \notin Range(held[x]) /\ Owns(x, lk[x])
      BY <2>1 DEF Ownership, HeldOnce, Owns
    <3>2. \A y \in Context : lk[x] \notin Range(held[y])
      BY <2>1, <3>1 DEF Ownership, MutualExclusion, Owns
    <3>3. QED  BY <3>2 DEF Range, Typed, TypeOK
  <2>6. /\ interrupts_enabled'[lk[x]] = flag[x]
        /\ \A l \in Lock \ {lk[x]} : interrupts_enabled'[l] = interrupts_enabled[l]
        /\ UNCHANGED base
    BY <2>1 DEF Typed, TypeOK
  <2>7. flag[x] = (held[x] = <<>> /\ Outside(x))
    <3>1. flag[x] \in BOOLEAN
      BY DEF Typed, TypeOK
    <3>2. flag[x] <=> held[x] = <<>> /\ Outside(x)
      BY DEF Flags, LocalFlag
    <3>3. QED  BY <3>1, <3>2
  <2>8. \A y \in Context \ {x} : \A i \in DOMAIN held'[y] :
          \/ pc'[y] = "unlock" /\ i = Len(held'[y])
          \/ interrupts_enabled'[held'[y][i]] = (i = 1 /\ Outside(y))
    BY <2>1, <2>5, <2>6 DEF Flags, SavedFlagOfOwner
  <2>9. \A i \in 1 .. Len(held[x]) :
          interrupts_enabled'[held'[x][i]] = (i = 1 /\ Outside(x))
    BY <2>1, <2>2, <2>5, <2>6 DEF Flags, SavedFlagOfOwner
  <2>10. interrupts_enabled'[held'[x][Len(held[x]) + 1]]
           = (Len(held[x]) + 1 = 1 /\ Outside(x))
    BY <2>2, <2>6, <2>7
  <2>11. \A i \in DOMAIN held'[x] :
           interrupts_enabled'[held'[x][i]] = (i = 1 /\ Outside(x))
    BY <2>2, <2>9, <2>10
  <2>12. SavedFlagOfOwner'
    BY <2>6, <2>8, <2>11 DEF SavedFlagOfOwner, Outside
  <2>13. QED  BY <2>3, <2>4, <2>12 DEF Flags
<1>5. ASSUME NEW x \in Context, ReadSaved(x) PROVE Flags'
  <2> USE <1>5 DEF ReadSaved, Call
  <2>1. Suspension'
    BY DEF Typed, TypeOK, Flags, Suspension, Inside, Running
  <2>2. /\ held[x] \in Seq(Lock) /\ held[x] # <<>> /\ pc[x] = "idle"
        /\ Last(held[x]) = held[x][Len(held[x])]
        /\ Len(held[x]) \in DOMAIN held[x]
    BY FrontHeld DEF Typed, TypeOK
  <2>3. interrupts_enabled[Last(held[x])] <=> Len(held[x]) = 1 /\ Outside(x)
    <3>1. \A i \in DOMAIN held[x] :
            interrupts_enabled[held[x][i]] = (i = 1 /\ Outside(x))
      BY <2>2 DEF Flags, SavedFlagOfOwner
    <3>2. interrupts_enabled[held[x][Len(held[x])]] = (Len(held[x]) = 1 /\ Outside(x))
      BY <2>2, <3>1
    <3>3. QED  BY <2>2, <3>2
  <2>4. LocalFlag'
    <3>1. /\ flag'[x] = interrupts_enabled[Last(held[x])]
          /\ pc'[x] = "reset"
          /\ \A y \in Context \ {x} : flag'[y] = flag[y] /\ pc'[y] = pc[y]
          /\ UNCHANGED <<held, base>>
      BY DEF Typed, TypeOK
    <3>2. QED  BY <2>3, <3>1 DEF Flags, LocalFlag, Outside
  <2>5. SavedFlagOfOwner'
    BY DEF Typed, TypeOK, Flags, SavedFlagOfOwner, Outside
  <2>6. QED  BY <2>1, <2>4, <2>5 DEF Flags
<1>6. ASSUME NEW x \in Context, ResetSaved(x) PROVE Flags'
  <2>1. Suspension'
    BY <1>6 DEF ResetSaved, Typed, TypeOK, Flags, Suspension, Inside, Running
  <2>2. LocalFlag'
    BY <1>6 DEF ResetSaved, Typed, TypeOK, Flags, LocalFlag, Outside
  <2>3. /\ held[x] \in Seq(Lock) /\ held[x] # <<>>
        /\ lk[x] = Last(held[x])
        /\ \A i, j \in DOMAIN held[x] : held[x][i] = held[x][j] => i = j
    BY <1>6 DEF ResetSaved, Typed, TypeOK, Operands, Ownership, HeldOnce
  <2>4. /\ lk[x] = held[x][Len(held[x])]
        /\ Len(held[x]) \in DOMAIN held[x]
        /\ lk[x] \in Lock
        /\ Owns(x, lk[x])
    <3>1. /\ Last(held[x]) = held[x][Len(held[x])]
          /\ Len(held[x]) \in DOMAIN held[x]
          /\ Last(held[x]) \in Lock
          /\ Last(held[x]) \in Range(held[x])
      BY <2>3, FrontHeld
    <3>2. QED  BY <2>3, <3>1 DEF Owns
  <2>5. /\ \A l \in Lock \ {lk[x]} : interrupts_enabled'[l] = interrupts_enabled[l]
        /\ UNCHANGED <<base, held>>
        /\ pc'[x] = "unlock"
        /\ \A y \in Context \ {x} : pc'[y] = pc[y]
    BY <1>6 DEF ResetSaved, Typed, TypeOK
  <2>6. \A y \in Context \ {x} : \A i \in DOMAIN held[y] :
          held[y][i] \in Lock \ {lk[x]}
    <3>1. \A y \in Context \ {x} : lk[x] \notin Range(held[y])
      BY <2>4 DEF Ownership, MutualExclusion, Owns
    <3>2. QED  BY <3>1 DEF Range, Typed, TypeOK
  <2>7. \A i \in DOMAIN held[x] :
          i # Len(held[x]) => held[x][i] \in Lock \ {lk[x]}
    BY <2>3, <2>4
  <2>8. \A y \in Context \ {x} : \A i \in DOMAIN held[y] :
          \/ pc'[y] = "unlock" /\ i = Len(held[y])
          \/ interrupts_enabled'[held[y][i]] = (i = 1 /\ Outside(y))
    BY <2>5, <2>6 DEF Flags, SavedFlagOfOwner
  <2>9. \A i \in DOMAIN held[x] :
          \/ pc'[x] = "unlock" /\ i = Len(held[x])
          \/ interrupts_enabled'[held[x][i]] = (i = 1 /\ Outside(x))
    BY <2>5, <2>7 DEF Flags, SavedFlagOfOwner, At
  <2>10. SavedFlagOfOwner'
    <3>1. held' = held /\ \A y \in Context : Outside(y)' = Outside(y)
      BY <2>5 DEF Outside
    <3>2. SUFFICES ASSUME NEW y \in Context, NEW i \in DOMAIN held'[y]
                   PROVE  \/ pc'[y] = "unlock" /\ i = Len(held'[y])
                          \/ interrupts_enabled'[held'[y][i]] = (i = 1 /\ Outside(y)')
      BY Zenon DEF SavedFlagOfOwner
    <3>3. i \in DOMAIN held[y]
      BY <3>1
    <3>4. \/ pc'[y] = "unlock" /\ i = Len(held[y])
          \/ interrupts_enabled'[held[y][i]] = (i = 1 /\ Outside(y))
      BY <2>8, <2>9, <3>3, Zenon
    <3>5. QED  BY <3>1, <3>4, Zenon
  <2>11. QED  BY <2>1, <2>2, <2>10 DEF Flags
<1>7. ASSUME NEW x \in Context, Unlock(x) PROVE Flags'
  <2> USE <1>7 DEF Unlock
  <2>1. /\ held[x] \in Seq(Lock) /\ held[x] # <<>>
        /\ pc[x] = "unlock" /\ pc'[x] = "sti"
        /\ held'[x] = Front(held[x])
        /\ \A y \in Context \ {x} : held'[y] = held[y] /\ pc'[y] = pc[y]
        /\ UNCHANGED <<base, flag, interrupts_enabled>>
    BY DEF Typed, TypeOK, Operands
  <2>2. /\ Len(held[x]) \in Nat \ {0}
        /\ DOMAIN held[x] = 1 .. Len(held[x])
        /\ DOMAIN held'[x] = 1 .. Len(held[x]) - 1
        /\ held'[x] = <<>> <=> Len(held[x]) = 1
        /\ \A i \in 1 .. Len(held[x]) - 1 : held'[x][i] = held[x][i]
    BY <2>1, FrontShape
  <2>3. Suspension'
    BY <2>1 DEF Typed, TypeOK, Flags, Suspension, Inside, Running
  <2>4. flag[x] <=> Len(held[x]) = 1 /\ Outside(x)
    BY <2>1 DEF Flags, LocalFlag
  <2>5. LocalFlag'
    BY <2>1, <2>2, <2>4 DEF Flags, LocalFlag, Outside
  <2>6. \A y \in Context \ {x} : \A i \in DOMAIN held'[y] :
          \/ pc'[y] = "unlock" /\ i = Len(held'[y])
          \/ interrupts_enabled'[held'[y][i]] = (i = 1 /\ Outside(y))
    BY <2>1 DEF Flags, SavedFlagOfOwner
  <2>7. \A i \in DOMAIN held'[x] :
          interrupts_enabled'[held'[x][i]] = (i = 1 /\ Outside(x))
    BY <2>1, <2>2 DEF Flags, SavedFlagOfOwner
  <2>8. SavedFlagOfOwner'
    BY <2>1, <2>6, <2>7 DEF SavedFlagOfOwner, Outside
  <2>9. QED  BY <2>3, <2>5, <2>8 DEF Flags
<1>8. ASSUME NEW x \in Context, Sti(x) PROVE Flags'
  <2> USE <1>8 DEF Sti, Return, Call
  <2>1. Suspension'
    BY DEF Typed, TypeOK, Flags, Suspension, LocalFlag, Inside, Outside, Running
  <2>2. LocalFlag'
    BY DEF Typed, TypeOK, Flags, LocalFlag, Outside
  <2>3. SavedFlagOfOwner'
    BY DEF Typed, TypeOK, Flags, SavedFlagOfOwner, Outside
  <2>4. QED  BY <2>1, <2>2, <2>3 DEF Flags
<1>9. ASSUME NEW c \in CPU, Interrupt(c) \/ Iret(c) PROVE Flags'
  <2> USE DEF Interrupt, Iret
  <2>1. Suspension'
    <3>1. CASE Interrupt(c)
      <4>1. /\ base[c] /\ ~Inside(Main(c))
            /\ pc[Irq(c)] = "idle" /\ held[Irq(c)] = <<>>
        BY <3>1 DEF Flags, Suspension
      <4>2. QED
        BY <3>1, <4>1 DEF Typed, TypeOK, Flags, Suspension, Inside
    <3>2. CASE Iret(c)
      <4>1. inIrq[c]
        BY <3>2 DEF Running, Typed, TypeOK
      <4>2. base[c] /\ ~Inside(Main(c))
        BY <4>1 DEF Flags, Suspension
      <4>3. QED
        BY <3>2, <4>2 DEF Typed, TypeOK, Flags, Suspension, Inside
    <3>3. QED  BY <1>9, <3>1, <3>2
  <2>2. LocalFlag'
    BY <1>9 DEF Typed, TypeOK, Flags, LocalFlag, Outside
  <2>3. SavedFlagOfOwner'
    BY <1>9 DEF Typed, TypeOK, Flags, SavedFlagOfOwner, Outside
  <2>4. QED  BY <2>1, <2>2, <2>3 DEF Flags
<1>10. ASSUME NEW c \in CPU, InterruptsEnable(c) PROVE Flags'
  <2> USE <1>10 DEF InterruptsEnable, Running
  <2>1. Suspension'
    BY DEF Typed, TypeOK, Flags, Suspension, Inside
  <2>2. LocalFlag'
    BY DEF Typed, TypeOK, Flags, LocalFlag, Outside
  <2>3. SavedFlagOfOwner'
    BY DEF Typed, TypeOK, Flags, SavedFlagOfOwner, Outside
  <2>4. QED  BY <2>1, <2>2, <2>3 DEF Flags
<1>11. CASE UNCHANGED vars
  BY <1>11 DEF vars, Flags, Suspension, LocalFlag, SavedFlagOfOwner, Inside, Outside
<1>12. QED
  BY <1>1, <1>2, <1>3, <1>4, <1>5, <1>6, <1>7, <1>8, <1>9, <1>10, <1>11
     DEF Next, Step

(* The inductive invariant holds in every reachable state.                  *)
LEMMA AllInvariants == Spec => [](Typed /\ Ownership /\ Flags)
  BY TypedInit, TypedStep, OwnershipInit, OwnershipStep, FlagsInit, FlagsStep, PTL
     DEF Spec

(* While one context of a CPU is inside a critical section, the other owns  *)
(* no lock: the handler has not started, or the main line is outside.       *)
LEMMA SiblingOwnsNothing ==
    ASSUME Typed, Flags, NEW x \in Context, Inside(x),
           NEW y \in Context, y[1] = x[1], y # x
    PROVE  held[y] = <<>> /\ pc[y] # "mark" /\ \A l \in Lock : ~Owns(y, l)
<1> USE ContextShape
<1>1. held[y] = <<>> /\ pc[y] # "mark"
  <2>1. CASE x = Main(x[1])
    <3>1. y = Irq(x[1])
      BY <2>1
    <3>2. ~inIrq[x[1]]
      BY <2>1 DEF Flags, Suspension, Typed, TypeOK
    <3>3. QED  BY <3>1, <3>2 DEF Flags, Suspension, Typed, TypeOK
  <2>2. CASE x = Irq(x[1])
    <3>1. y = Main(x[1])
      BY <2>2
    <3>2. inIrq[x[1]]
      BY <2>2 DEF Flags, Suspension, Inside, Typed, TypeOK
    <3>3. QED  BY <3>1, <3>2 DEF Flags, Suspension, Inside
  <2>3. QED  BY <2>1, <2>2
<1>2. QED  BY <1>1 DEF Owns, Range

(* A context between its cli and its sti is the one its CPU runs, with the  *)
(* interrupt flag clear: no handler ever preempts a critical section.       *)
THEOREM NotPreemptedHolds == Spec => []NotPreempted
<1>1. Typed /\ Ownership /\ Flags => NotPreempted
  <2> SUFFICES ASSUME Typed, Flags, NEW x \in Context, Inside(x)
               PROVE  ~iflag[x[1]] /\ Running(x)
    BY DEF NotPreempted
  <2> USE ContextShape
  <2>1. Running(x)
    <3>1. CASE x = Main(x[1])
      BY <3>1 DEF Flags, Suspension, Running, Typed, TypeOK
    <3>2. CASE x = Irq(x[1])
      BY <3>2 DEF Flags, Suspension, Running, Inside, Typed, TypeOK
    <3>3. QED  BY <3>1, <3>2
  <2>2. QED  BY <2>1, RunningFlag
<1>2. QED  BY <1>1, AllInvariants, PTL

(* A running context outside every critical section has the flag its main   *)
(* line chose: each sti undoes exactly the cli it belongs to.               *)
THEOREM FlagRestoredHolds == Spec => []FlagRestored
<1>1. Typed /\ Ownership /\ Flags => FlagRestored
  <2> SUFFICES ASSUME Typed, Flags, NEW x \in Context, Running(x), ~Inside(x)
               PROVE  iflag[x[1]] = Outside(x)
    BY DEF FlagRestored
  <2>1. iflag[x[1]] <=> Outside(x)
    BY RunningFlag
  <2>2. iflag[x[1]] \in BOOLEAN
    BY ContextShape DEF Typed, TypeOK
  <2>3. Outside(x) \in BOOLEAN
    BY DEF Outside
  <2>4. QED  BY <2>1, <2>2, <2>3
<1>2. QED  BY <1>1, AllInvariants, PTL

(* The flag saved in a lock is that of the context that owns it now.        *)
THEOREM SavedFlagHolds == Spec => []SavedFlagOfOwner
<1>1. Flags => SavedFlagOfOwner
  BY DEF Flags
<1>2. QED  BY <1>1, AllInvariants, PTL

-----------------------------------------------------------------------------
(* No CPU waits for itself because locks nest along an order: the stack of  *)
(* a context climbs it, and so does the lock it asks for.                   *)
IsLockOrder(order) ==
    /\ MayNest \subseteq order
    /\ \A l \in Lock : <<l, l>> \notin order
    /\ \A k, l, m \in Lock :
           <<k, l>> \in order /\ <<l, m>> \in order => <<k, m>> \in order

Climbing(order) ==
    \A x \in Context :
        /\ \A i, j \in DOMAIN held[x] : i < j => <<held[x][i], held[x][j]>> \in order
        /\ held[x] # <<>> /\ pc[x] \in {"cli", "cas", "pause", "mark"} =>
               <<held[x][Len(held[x])], lk[x]>> \in order

(* Every acquire asks for a lock above those held and every release takes   *)
(* the top one off.                                                         *)
LEMMA ClimbingStep ==
    ASSUME NEW order, IsLockOrder(order), Typed, Ownership, Climbing(order), [Next]_vars
    PROVE  Climbing(order)'
<1> USE DEF At, Goto
<1>1. ASSUME NEW x \in Context, CasWins(x) PROVE Climbing(order)'
  BY <1>1 DEF CasWins, Climbing, callVars, Typed, TypeOK
<1>2. ASSUME NEW x \in Context, MarkSaved(x) PROVE Climbing(order)'
  <2>1. /\ lk[x] \in Lock
        /\ pc'[x] = "idle"
        /\ \A y \in Context \ {x} : held'[y] = held[y] /\ pc'[y] = pc[y]
        /\ DOMAIN held[x] = 1 .. Len(held[x])
        /\ DOMAIN held'[x] = 1 .. Len(held[x]) + 1
        /\ Len(held[x]) \in Nat
        /\ \A i \in 1 .. Len(held[x]) : held'[x][i] = held[x][i]
        /\ held'[x][Len(held[x]) + 1] = lk[x]
    BY <1>2, MarkSavedOwns
  <2>2. pc[x] = "mark" /\ \A y \in Context \ {x} : lk'[y] = lk[y]
    BY <1>2 DEF MarkSaved, Return, Call, Typed, TypeOK
  <2>3. \A i \in 1 .. Len(held[x]) : held[x][i] \in Lock
    BY <2>1 DEF Typed, TypeOK
  <2>4. \A i \in 1 .. Len(held[x]) : <<held[x][i], lk[x]>> \in order
    <3>1. SUFFICES ASSUME NEW i \in 1 .. Len(held[x])
                   PROVE  <<held[x][i], lk[x]>> \in order
      OBVIOUS
    <3>2. held[x] # <<>> /\ Len(held[x]) \in 1 .. Len(held[x])
      BY <2>1
    <3>3. <<held[x][Len(held[x])], lk[x]>> \in order
      BY <2>2, <3>2 DEF Climbing
    <3>4. i < Len(held[x]) => <<held[x][i], held[x][Len(held[x])]>> \in order
      BY <2>1, <3>2 DEF Climbing
    <3>5. QED  BY <2>1, <2>3, <3>2, <3>3, <3>4 DEF IsLockOrder
  <2>5. ASSUME NEW i \in DOMAIN held'[x], NEW j \in DOMAIN held'[x], i < j
        PROVE  <<held'[x][i], held'[x][j]>> \in order
    <3>1. i \in 1 .. Len(held[x]) /\ held'[x][i] = held[x][i]
      BY <2>1, <2>5
    <3>2. CASE j = Len(held[x]) + 1
      BY <2>1, <2>4, <3>1, <3>2
    <3>3. CASE j \in 1 .. Len(held[x])
      BY <2>1, <2>5, <3>1, <3>3 DEF Climbing
    <3>4. QED  BY <2>1, <3>2, <3>3
  <2>6. QED  BY <2>1, <2>2, <2>5 DEF Climbing
<1>3. ASSUME NEW x \in Context, Unlock(x) PROVE Climbing(order)'
  <2>1. /\ pc'[x] = "sti"
        /\ \A y \in Context \ {x} : held'[y] = held[y] /\ pc'[y] = pc[y]
        /\ DOMAIN held[x] = 1 .. Len(held[x])
        /\ DOMAIN held'[x] = 1 .. Len(held[x]) - 1
        /\ Len(held[x]) \in Nat
        /\ \A i \in 1 .. Len(held[x]) - 1 : held'[x][i] = held[x][i]
    BY <1>3, UnlockOwns
  <2>2. lk' = lk
    BY <1>3 DEF Unlock, callVars
  <2>3. ASSUME NEW i \in DOMAIN held'[x], NEW j \in DOMAIN held'[x], i < j
        PROVE  <<held'[x][i], held'[x][j]>> \in order
    <3>1. /\ i \in DOMAIN held[x] /\ held'[x][i] = held[x][i]
          /\ j \in DOMAIN held[x] /\ held'[x][j] = held[x][j]
      BY <2>1
    <3>2. QED  BY <2>3, <3>1 DEF Climbing
  <2>4. QED  BY <2>1, <2>2, <2>3 DEF Climbing
<1>4. CASE OtherStep
  <2>1. held' = held
    BY <1>4, OtherStepOwns
  <2>2. ASSUME NEW x \in Context, NEW l \in Lock, NEW o \in {"acquire", "try"},
               Pushfq(x, l, o)
        PROVE  Climbing(order)'
    <3>1. held[x] # <<>> => <<held[x][Len(held[x])], l>> \in order
      BY <2>2 DEF Pushfq, MayTake, Last, IsLockOrder
    <3>2. lk'[x] = l /\ \A y \in Context \ {x} : lk'[y] = lk[y] /\ pc'[y] = pc[y]
      BY <2>2 DEF Pushfq, Call, Typed, TypeOK
    <3>3. QED  BY <2>1, <3>1, <3>2 DEF Climbing
  <2>3. ASSUME NEW x \in Context,
               Cli(x) \/ CasLoses(x) \/ Pause(x) \/ ReadSaved(x) \/ ResetSaved(x) \/ Sti(x)
        PROVE  Climbing(order)'
    <3>1. \A y \in Context :
            pc'[y] \in {"cli", "cas", "pause", "mark"} =>
                pc[y] \in {"cli", "cas", "pause", "mark"} /\ lk'[y] = lk[y]
      BY <2>3 DEF Cli, CasLoses, Pause, ReadSaved, ResetSaved, Sti, Return, Call,
         Typed, TypeOK, callVars
    <3>2. QED  BY <2>1, <3>1 DEF Climbing
  <2>4. CASE (\E c \in CPU : Interrupt(c) \/ Iret(c) \/ InterruptsEnable(c)) \/ UNCHANGED vars
    BY <2>1, <2>4 DEF Interrupt, Iret, InterruptsEnable, vars, callVars, Climbing
  <2>5. QED  BY <1>4, <2>2, <2>3, <2>4 DEF OtherStep
<1>5. QED  BY <1>1, <1>2, <1>3, <1>4, StepKinds

(* No context ever waits for a lock of its own or of the code it suspended: *)
(* the lock order rules out the first, the masked interrupts the second.    *)
THEOREM NoSelfDeadlockHolds == Spec => []NoSelfDeadlock
<1>1. PICK order : IsLockOrder(order)
  BY LockOrderAssumption DEF IsLockOrder
<1>2. Init => Climbing(order)
  BY DEF Init, Climbing
<1>3. Typed /\ Ownership /\ Climbing(order) /\ [Next]_vars => Climbing(order)'
  BY <1>1, ClimbingStep
<1>4. Typed /\ Flags /\ Climbing(order) => NoSelfDeadlock
  <2> SUFFICES ASSUME Typed, Flags, Climbing(order), NEW x \in Context, NEW y \in Context,
                      x[1] = y[1], pc[x] \in {"cas", "pause"}
               PROVE  ~Owns(y, lk[x])
    BY DEF NoSelfDeadlock
  <2>1. lk[x] \in Lock
    BY DEF Typed, Operands
  <2>2. CASE y # x
    BY <2>1, <2>2, SiblingOwnsNothing DEF Inside
  <2>3. CASE y = x
    <3>1. SUFFICES ASSUME NEW i \in DOMAIN held[x], held[x][i] = lk[x] PROVE FALSE
      BY <2>3 DEF Owns, Range
    <3>2. /\ DOMAIN held[x] = 1 .. Len(held[x]) /\ Len(held[x]) \in Nat
          /\ held[x] # <<>> /\ Len(held[x]) \in DOMAIN held[x]
          /\ \A j \in DOMAIN held[x] : held[x][j] \in Lock
      BY DEF Typed, TypeOK
    <3>3. <<held[x][Len(held[x])], lk[x]>> \in order
      BY <3>2 DEF Climbing
    <3>4. i < Len(held[x]) => <<held[x][i], held[x][Len(held[x])]>> \in order
      BY <3>2 DEF Climbing
    <3>5. <<lk[x], lk[x]>> \in order
      <4>1. CASE i = Len(held[x])
        BY <3>1, <3>3, <4>1
      <4>2. CASE i < Len(held[x])
        BY <1>1, <2>1, <3>1, <3>2, <3>3, <3>4, <4>2 DEF IsLockOrder
      <4>3. QED  BY <3>1, <3>2, <4>1, <4>2
    <3>6. QED  BY <1>1, <2>1, <3>5 DEF IsLockOrder
  <2>4. QED  BY <2>2, <2>3
<1>5. QED  BY <1>2, <1>3, <1>4, AllInvariants, PTL DEF Spec

-----------------------------------------------------------------------------
(* The refinement of LockSpec. Owner is the context that owns the lock.     *)
LEMMA OwnerIs ==
    ASSUME MutualExclusion, NEW l \in Lock
    PROVE  /\ \A x \in Context : Owns(x, l) => Owner(l) = x
           /\ (\A x \in Context : ~Owns(x, l)) => Owner(l) = NoOwner
<1>1. ASSUME NEW x \in Context, Owns(x, l) PROVE Owner(l) = x
  BY <1>1, Zenon DEF Owner, MutualExclusion
<1>2. QED  BY <1>1 DEF Owner

(* The same of the state after a step.                                      *)
LEMMA OwnerIsNext ==
    ASSUME MutualExclusion', NEW l \in Lock
    PROVE  /\ \A x \in Context : Owns(x, l)' => Owner(l)' = x
           /\ (\A x \in Context : ~Owns(x, l)') => Owner(l)' = NoOwner
<1>1. ASSUME NEW x \in Context, Owns(x, l)' PROVE Owner(l)' = x
  BY <1>1, Zenon DEF Owner, MutualExclusion
<1>2. QED  BY <1>1 DEF Owner

(* A step leaves the abstract owner of a lock alone if it leaves alone who  *)
(* owns the lock.                                                           *)
LEMMA OwnerSame ==
    ASSUME NEW l \in Lock, \A y \in Context : Owns(y, l)' <=> Owns(y, l)
    PROVE  Owner(l)' = Owner(l)
<1>1. CASE \E x \in Context : Owns(x, l)
  BY <1>1 DEF Owner
<1>2. CASE ~\E x \in Context : Owns(x, l)
  BY <1>2 DEF Owner
<1>3. QED  BY <1>1, <1>2

(* The spinlock implements the abstract lock: winning the compare-and-swap  *)
(* is Acquire, clearing the lock word is Release, every other step is       *)
(* internal. Acquire is allowed because nobody owns the lock, by mutual     *)
(* exclusion, and no sibling owns any, by the handling of interrupts.       *)
THEOREM RefinesLockSpec == Spec => ImplementsLockSpec
<1> DEFINE abs == [l \in Lock |-> Owner(l)]
<1>1. Init => Abstract!Init
  <2> SUFFICES ASSUME Init PROVE Abstract!Init
    OBVIOUS
  <2>1. \A l \in Lock, x \in Context : ~Owns(x, l)
    BY DEF Init, Owns, Range
  <2>2. \A l \in Lock : Owner(l) = NoOwner
    BY <2>1 DEF Owner
  <2>3. QED  BY <2>2 DEF Abstract!Init
<1>2. ASSUME Typed, Ownership, Ownership', Flags, [Next]_vars
      PROVE  [Abstract!Next]_abs
  <2>1. ASSUME NEW x \in Context, CasWins(x), NEW l \in Lock, l = lk[x]
        PROVE  Abstract!Acquire(x, l)
    <3>1. /\ \A y \in Context : ~Owns(y, l)
          /\ \A y \in Context, k \in Lock :
                Owns(y, k)' <=> Owns(y, k) \/ (y = x /\ k = l)
      BY <1>2, <2>1, CasWinsOwns
    <3>2. abs[l] = NoOwner
      BY <1>2, <3>1, OwnerIs DEF Ownership
    <3>3. \A k \in Lock : abs[k] \notin Abstract!Siblings(x)
      <4>1. SUFFICES ASSUME NEW k \in Lock, NEW y \in Context, y[1] = x[1], y # x,
                            Owner(k) = y
                     PROVE  FALSE
        BY DEF Abstract!Siblings
      <4>2. Owns(y, k)
        <5>1. y # NoOwner
          BY SpinlockAssumption DEF NoOwner
        <5>2. PICK z \in Context : Owns(z, k)
          BY <4>1, <5>1 DEF Owner
        <5>3. QED  BY <1>2, <4>1, <5>2, OwnerIs DEF Ownership
      <4>3. Inside(x)
        BY <2>1 DEF CasWins, At, Inside
      <4>4. QED  BY <1>2, <4>1, <4>2, <4>3, SiblingOwnsNothing
    <3>4. Owner(l)' = x
      <4>1. Owns(x, l)'
        BY <3>1
      <4>2. QED  BY <1>2, <4>1, OwnerIsNext DEF Ownership
    <3>5. \A k \in Lock \ {l} : Owner(k)' = Owner(k)
      BY <3>1, OwnerSame
    <3>6. abs' = [abs EXCEPT ![l] = x]
      BY <3>4, <3>5
    <3>7. QED  BY <3>2, <3>3, <3>6 DEF Abstract!Acquire
  <2>2. ASSUME NEW x \in Context, Unlock(x), NEW l \in Lock, l = lk[x]
        PROVE  Abstract!Release(x, l)
    <3>1. /\ Owns(x, l)
          /\ \A y \in Context, k \in Lock :
                Owns(y, k)' <=> Owns(y, k) /\ ~(y = x /\ k = l)
      BY <1>2, <2>2, UnlockOwns
    <3>2. abs[l] = x
      BY <1>2, <3>1, OwnerIs DEF Ownership
    <3>3. Owner(l)' = NoOwner
      <4>1. \A y \in Context : ~Owns(y, l)'
        BY <1>2, <3>1 DEF Ownership, MutualExclusion
      <4>2. QED  BY <1>2, <4>1, OwnerIsNext DEF Ownership
    <3>4. \A k \in Lock \ {l} : Owner(k)' = Owner(k)
      BY <3>1, OwnerSame
    <3>5. abs' = [abs EXCEPT ![l] = NoOwner]
      BY <3>3, <3>4
    <3>6. QED  BY <3>2, <3>5 DEF Abstract!Release
  <2>3. ASSUME NEW x \in Context, MarkSaved(x) PROVE abs' = abs
    <3>1. \A y \in Context, l \in Lock : Owns(y, l)' <=> Owns(y, l)
      BY <1>2, <2>3, MarkSavedOwns
    <3>2. QED  BY <3>1, OwnerSame
  <2>4. CASE OtherStep
    <3>1. \A y \in Context, l \in Lock : Owns(y, l)' <=> Owns(y, l)
      BY <1>2, <2>4, OtherStepOwns
    <3>2. QED  BY <3>1, OwnerSame
  <2>5. \A x \in Context : CasWins(x) \/ Unlock(x) => lk[x] \in Lock
    BY <1>2 DEF Typed, Operands, CasWins, Unlock, At
  <2>6. QED  BY <1>2, <2>1, <2>2, <2>3, <2>4, <2>5, StepKinds DEF Abstract!Next
<1>3. QED
  BY <1>1, <1>2, AllInvariants, PTL DEF Spec, ImplementsLockSpec, Abstract!Spec

=============================================================================
