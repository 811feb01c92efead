-------------------------- MODULE InterruptsProofs --------------------------
(***************************************************************************)
(* Proofs about Interrupts for any set of lines, any nesting limit and any  *)
(* number of requests.                                                      *)
(***************************************************************************)
EXTENDS Interrupts, SequenceTheorems, SetLemmas

(* The lines are finitely many naturals, divided between the two chips.     *)
LEMMA Lines ==
    /\ IsFiniteSet(Irq) /\ Irq \subseteq Nat
    /\ CASCADE \in Master /\ CASCADE \notin Device
    /\ Slave \subseteq Device
    /\ Slave \intersect Master = {} /\ Slave \union Master = Irq
    /\ \A i \in Slave : i > CASCADE
<1>1. Irq \in SUBSET Nat /\ \A i \in Irq : i <= 15
  BY InterruptsAssumption
<1>2. IsFiniteSet(Irq)
  BY <1>1, FS_BoundedSetOfNaturals
<1>3. QED  BY <1>2, InterruptsAssumption DEF CASCADE, Master, Device, Slave

Late == {"eoi", "eoiMaster", "leave", "iret"}
Frame == [irq : Irq, at : {"enter", "handler"} \union Late]

(* Entering an interrupt pushes a frame; the others keep their order.       *)
LEMMA PushFrame ==
    ASSUME NEW s \in Seq(Frame), NEW f \in Frame
    PROVE  /\ <<f>> \o s \in Seq(Frame)
           /\ DOMAIN (<<f>> \o s) = 1 .. Len(s) + 1 /\ Len(<<f>> \o s) = Len(s) + 1
           /\ Len(s) \in Nat /\ DOMAIN s = 1 .. Len(s)
           /\ (<<f>> \o s)[1] = f
           /\ \A k \in 1 .. Len(s) : (<<f>> \o s)[k + 1] = s[k]
<1>1. <<f>> \in Seq(Frame) /\ Len(<<f>>) = 1 /\ <<f>>[1] = f
  OBVIOUS
<1>2. /\ <<f>> \o s \in Seq(Frame)
      /\ Len(<<f>> \o s) = Len(<<f>>) + Len(s)
      /\ \A i \in 1 .. Len(<<f>>) + Len(s) : (<<f>> \o s)[i] =
               IF i <= Len(<<f>>) THEN <<f>>[i] ELSE s[i - Len(<<f>>)]
  BY <1>1, ConcatProperties
<1>3. Len(s) \in Nat /\ DOMAIN s = 1 .. Len(s) /\ DOMAIN (<<f>> \o s) = 1 .. Len(<<f>> \o s)
  BY <1>2, LenProperties
<1> DEFINE t == <<f>> \o s
<1> HIDE DEF t
<1>4. /\ Len(t) = Len(s) + 1
      /\ t[1] = f
      /\ \A k \in 1 .. Len(s) : t[k + 1] = s[k]
  BY <1>1, <1>2, <1>3 DEF t
<1>5. QED  BY <1>2, <1>3, <1>4 DEF t

(* Returning from an interrupt pops its frame.                              *)
LEMMA PopFrame ==
    ASSUME NEW s \in Seq(Frame), s # <<>>
    PROVE  /\ Tail(s) \in Seq(Frame)
           /\ DOMAIN Tail(s) = 1 .. Len(s) - 1 /\ Len(Tail(s)) = Len(s) - 1
           /\ Len(s) \in Nat \ {0} /\ DOMAIN s = 1 .. Len(s)
           /\ \A k \in 1 .. Len(s) - 1 : Tail(s)[k] = s[k + 1]
  BY HeadTailProperties, LenProperties, EmptySeq

(* A step of irq_dispatch changes where the innermost frame is.             *)
LEMMA StepFrame ==
    ASSUME NEW s \in Seq(Frame), s # <<>>, NEW l \in {"handler"} \union Late,
           NEW t, t = [s EXCEPT ![1].at = l]
    PROVE  /\ t \in Seq(Frame) /\ t # <<>>
           /\ DOMAIN t = DOMAIN s /\ Len(t) = Len(s)
           /\ DOMAIN s = 1 .. Len(s) /\ Len(s) \in Nat \ {0} /\ 1 \in DOMAIN s
           /\ t[1] = [irq |-> s[1].irq, at |-> l] /\ s[1] \in Frame
           /\ \A k \in DOMAIN s : k # 1 => t[k] = s[k]
<1>1. Len(s) \in Nat \ {0} /\ DOMAIN s = 1 .. Len(s) /\ s[1] \in Frame
  BY LenProperties, EmptySeq, ElementOfSeq
<1>2. t = [s EXCEPT ![1] = [s[1] EXCEPT !.at = l]] /\ [s[1] EXCEPT !.at = l] \in Frame
  BY <1>1 DEF Frame
<1>3. t \in Seq(Frame) /\ Len(t) = Len(s)
  BY <1>1, <1>2, ExceptSeq
<1>4. [s[1] EXCEPT !.at = l] = [irq |-> s[1].irq, at |-> l]
  BY <1>1 DEF Frame
<1>5. t[1] = [irq |-> s[1].irq, at |-> l] /\ \A k \in DOMAIN s : k # 1 => t[k] = s[k]
  BY <1>1, <1>2, <1>4
<1>6. QED  BY <1>1, <1>3, <1>5, LenProperties, EmptySeq

(* Counting members of a set that is shifted by one.                        *)
LEMMA ShiftCount ==
    ASSUME NEW S \in SUBSET Nat, IsFiniteSet(S)
    PROVE  LET T == {k + 1 : k \in S} IN IsFiniteSet(T) /\ Cardinality(T) = Cardinality(S)
<1> DEFINE T == {k + 1 : k \in S}
           f == [k \in S |-> k + 1]
<1>1. f \in Bijection(S, T)
  BY DEF Bijection, Injection, Surjection, IsInjective
<1>2. ExistsBijection(S, T)
  BY <1>1 DEF ExistsBijection
<1>3. QED  BY <1>2, FS_Bijection

-----------------------------------------------------------------------------
(* Where handlers can be interrupted: all frames but the innermost are past *)
(* their handler, and interrupts are on only if the innermost is too.       *)
Nesting ==
    /\ \A k \in DOMAIN frames : k > 1 => frames[k].at \in Late
    /\ if_flag => frames = <<>> \/ frames[1].at \in Late

(* What an API call has still to do.                                        *)
Calls ==
    /\ main.at = "idle" => main = Idle
    /\ main.at # "idle" => main.op # "none"
    /\ main.todo \subseteq main.irqs
    /\ main.at \in {"read", "write", "readCascade", "writeCascade"} => main.todo # {}
    /\ main.at = "return" => main.todo = {}
    /\ main.at \in {"readCascade", "writeCascade"} =>
           main.op = "enable" /\ Current \in Slave

(* From irq_init on, every frame and every count goes back to a request of  *)
(* its own.                                                                 *)
Started == g_irq_initialized = 1 \/ if_flag \/ frames # <<>>
Entering == IF InFrame("enter") THEN 1 ELSE 0
Requests ==
    /\ Started =>
           /\ Cardinality(irr) + Len(frames) <= raised
           /\ \A i \in Irq : g_irq_counts[i] + Cardinality(irr) + Entering <= raised
    /\ ~if_flag /\ frames = <<>> => \A i \in Irq : g_irq_counts[i] = 0

(* TypeOK less the bounds that Requests implies.                            *)
Types ==
    /\ g_irq_initialized \in 0 .. 1
    /\ g_irq_handlers \in [Irq -> Handler]
    /\ g_irq_counts \in [Irq -> Nat]
    /\ g_irq_mask \subseteq Irq
    /\ main \in [op : {"none", "enable", "disable", "shutdown"},
                 irqs : SUBSET Irq, todo : SUBSET Irq, mask : SUBSET Irq,
                 at : {"idle", "update", "read", "write", "readCascade",
                       "writeCascade", "return"}]
    /\ frames \in Seq(Frame)
    /\ if_flag \in BOOLEAN
    /\ pic_mask \subseteq Irq /\ irr \subseteq Device /\ isr \subseteq Irq
    /\ raised \in 0 .. MaxRaised

(* The line a call is at is one it has still to do.                         *)
LEMMA CurrentIs ==
    ASSUME Types, main.todo # {}
    PROVE  Current \in main.todo /\ Current \in Irq
<1>1. main.todo \in SUBSET Nat /\ main.todo \subseteq Irq
  BY Lines DEF Types
<1>2. QED  BY <1>1, MinOfNaturals DEF Current

(* What an acknowledged interrupt is: requested, unmasked or not, and of a  *)
(* higher priority than whatever its master line would have to wait for.    *)
LEMMA AcknowledgeIs ==
    ASSUME Types, Acknowledge
    PROVE  \E i \in irr, line \in Master :
               /\ line = IF i \in Slave THEN CASCADE ELSE i
               /\ \A j \in isr \intersect Master : line < j
               /\ irr' = irr \ {i}
               /\ isr' = isr \union {line, i}
               /\ frames' = <<[irq |-> i, at |-> "enter"]>> \o frames
<1> DEFINE line == Min(MasterAsks)
           i == IF line = CASCADE THEN Min(SlaveAsks) ELSE line
<1>1. /\ MasterAsks \in SUBSET Nat /\ MasterAsks # {} /\ MasterAsks \subseteq Master
      /\ SlaveAsks \in SUBSET Nat /\ SlaveAsks \subseteq irr \intersect Slave
  BY Lines DEF MasterAsks, SlaveAsks, Asking, Acknowledge, Master, Slave
<1>2. /\ line \in MasterAsks /\ line \in Master
      /\ \A j \in isr \intersect Master : line < j
      /\ line \in irr \/ (line = CASCADE /\ SlaveAsks # {})
  <2>1. line \in MasterAsks
    BY <1>1, MinOfNaturals
  <2>2. QED  BY <1>1, <2>1 DEF MasterAsks, Asking
<1>3. i \in irr /\ line = IF i \in Slave THEN CASCADE ELSE i
  <2>1. CASE line = CASCADE
    <3>1. SlaveAsks # {}
      BY <1>2, <2>1, Lines DEF Types
    <3>2. Min(SlaveAsks) \in SlaveAsks
      BY <1>1, <3>1, MinOfNaturals
    <3>3. QED  BY <1>1, <2>1, <3>2
  <2>2. CASE line # CASCADE
    BY <1>2, <2>2, Lines
  <2>3. QED  BY <2>1, <2>2
<1>4. /\ irr' = irr \ {i}
      /\ isr' = isr \union {line, i}
      /\ frames' = <<[irq |-> i, at |-> "enter"]>> \o frames
  BY DEF Acknowledge
<1>5. QED  BY <1>2, <1>3, <1>4

(* Ending an interrupt takes the lowest line in service of a chip.          *)
LEMMA EndIs ==
    ASSUME NEW chip \in SUBSET Irq
    PROVE  /\ EndOfInterrupt(chip) \subseteq isr
           /\ \A j \in isr \intersect chip :
                 (\A k \in isr \intersect chip : j <= k) => EndOfInterrupt(chip) = isr \ {j}
<1>1. EndOfInterrupt(chip) \subseteq isr
  BY DEF EndOfInterrupt
<1>2. ASSUME NEW j \in isr \intersect chip, \A k \in isr \intersect chip : j <= k
      PROVE  EndOfInterrupt(chip) = isr \ {j}
  <2>1. isr \intersect chip \in SUBSET Nat
    BY Lines
  <2>2. Min(isr \intersect chip) = j
    BY <1>2, <2>1, MinIs
  <2>3. QED  BY <1>2, <2>2 DEF EndOfInterrupt
<1>3. QED  BY <1>1, <1>2

-----------------------------------------------------------------------------
(* Every step keeps the variables' types.                                   *)
LEMMA TypesStep == Types /\ Calls /\ [Next]_vars => Types'
<1> SUFFICES ASSUME Types, Calls, [Next]_vars PROVE Types'
  OBVIOUS
<1> USE DEF Types, software, pic, cpu
<1>1. CASE irq_init
  BY <1>1, Lines DEF irq_init, Handler
<1>2. CASE interrupts_enable \/ irq_reset_counts
  <2>1. CASE interrupts_enable
    BY <2>1 DEF interrupts_enable
  <2>2. CASE irq_reset_counts
    <3>1. g_irq_counts' \in [Irq -> Nat]
      BY <2>2 DEF irq_reset_counts
    <3>2. QED  BY <2>2, <3>1 DEF irq_reset_counts
  <2>3. QED  BY <1>2, <2>1, <2>2
<1>3. ASSUME NEW i \in Device, NEW h \in Handler,
             irq_unregister_handler(i) \/ irq_register_handler(i, h)
      PROVE  Types'
  <2>1. "none" \in Handler
    BY DEF Handler
  <2>2. g_irq_handlers' \in [Irq -> Handler]
    BY <1>3, <2>1 DEF irq_unregister_handler, irq_register_handler
  <2>3. QED  BY <1>3, <2>2 DEF irq_unregister_handler, irq_register_handler
<1>4. ASSUME NEW op \in {"enable", "disable", "shutdown"}, NEW irqs \in SUBSET Irq,
             Begin(op, irqs)
      PROVE  Types'
  <2>1. main' \in [op : {"none", "enable", "disable", "shutdown"},
                   irqs : SUBSET Irq, todo : SUBSET Irq, mask : SUBSET Irq,
                   at : {"idle", "update", "read", "write", "readCascade",
                         "writeCascade", "return"}]
    BY <1>4 DEF Begin
  <2>2. QED  BY <1>4, <2>1 DEF Begin
<1>5. CASE UpdateMask
  <2>1. Current \in Irq
    BY <1>5, CurrentIs DEF UpdateMask
  <2>2. g_irq_mask' \subseteq Irq
    BY <1>5, <2>1 DEF UpdateMask, Changed
  <2>3. QED  BY <1>5, <2>2 DEF UpdateMask
<1>6. CASE ReadPort
  <2>1. Current \in Irq
    BY <1>6, CurrentIs DEF ReadPort, Calls
  <2>2. Changed(pic_mask \intersect Chip, Current) \in SUBSET Irq
    BY <2>1 DEF Changed
  <2>3. QED  BY <1>6, <2>2 DEF ReadPort
<1>7. CASE WritePort \/ ReadCascade \/ WriteCascade
  <2>1. pic_mask' \subseteq Irq
    BY <1>7 DEF WritePort, ReadCascade, WriteCascade
  <2>2. main' \in [op : {"none", "enable", "disable", "shutdown"},
                   irqs : SUBSET Irq, todo : SUBSET Irq, mask : SUBSET Irq,
                   at : {"idle", "update", "read", "write", "readCascade",
                         "writeCascade", "return"}]
    <3>1. main.todo \ {Current} \in SUBSET Irq /\ {} \in SUBSET Irq
      OBVIOUS
    <3>2. CASE WritePort
      BY <3>1, <3>2 DEF WritePort
    <3>3. CASE ReadCascade
      <4>1. (pic_mask \intersect Master) \ {CASCADE} \in SUBSET Irq
        OBVIOUS
      <4>2. QED  BY <3>3, <4>1 DEF ReadCascade
    <3>4. CASE WriteCascade
      BY <3>1, <3>4 DEF WriteCascade
    <3>5. QED  BY <1>7, <3>2, <3>3, <3>4
  <2>3. QED  BY <1>7, <2>1, <2>2 DEF WritePort, ReadCascade, WriteCascade
<1>8. CASE Finish \/ Return
  BY <1>8 DEF Finish, Return, Idle, Handler
<1>9. CASE Acknowledge
  <2>1. PICK i \in irr, line \in Master :
          /\ irr' = irr \ {i}
          /\ isr' = isr \union {line, i}
          /\ frames' = <<[irq |-> i, at |-> "enter"]>> \o frames
    BY <1>9, AcknowledgeIs
  <2>2. frames' \in Seq(Frame)
    BY <2>1, PushFrame DEF Frame, Device
  <2>3. QED  BY <1>9, <2>1, <2>2 DEF Acknowledge, Device, Master
<1>10. ASSUME NEW l \in {"handler"} \union Late, frames # <<>>, FrameGoto(l)
       PROVE  frames' \in Seq(Frame) /\ ThisIrq \in Irq
  BY <1>10, StepFrame DEF FrameGoto, ThisIrq, Frame
<1>11. CASE irq_dispatch
  <2>1. /\ frames' \in Seq(Frame) /\ ThisIrq \in Irq
    BY <1>10, <1>11 DEF irq_dispatch, InFrame, Late
  <2>2. g_irq_counts' \in [Irq -> Nat]
    BY <1>11, <2>1 DEF irq_dispatch
  <2>3. QED  BY <1>11, <2>1, <2>2 DEF irq_dispatch
<1>12. CASE RunHandler \/ EoiSlave \/ EoiMaster \/ Leave
  <2>1. frames' \in Seq(Frame)
    BY <1>10, <1>12 DEF RunHandler, EoiSlave, EoiMaster, Leave, InFrame, Late
  <2>2. isr' \subseteq isr
    BY <1>12, EndIs DEF RunHandler, EoiSlave, EoiMaster, Leave, Slave, Master
  <2>3. if_flag' \in BOOLEAN
    BY <1>12 DEF RunHandler, EoiSlave, EoiMaster, Leave
  <2>4. QED  BY <1>12, <2>1, <2>2, <2>3 DEF RunHandler, EoiSlave, EoiMaster, Leave
<1>13. CASE Iret
  BY <1>13, PopFrame DEF Iret, InFrame
<1>14. ASSUME NEW i \in Device, Raise(i) PROVE Types'
  BY <1>14, InterruptsAssumption DEF Raise
<1>15. CASE UNCHANGED vars
  BY <1>15 DEF vars
<1>16. CASE Call
  <2>1. \A i \in Irq : {i} \in SUBSET Irq
    OBVIOUS
  <2>2. QED
    BY <1>1, <1>2, <1>3, <1>4, <1>16, <2>1 DEF Call, Handler
<1>17. QED
  BY <1>5, <1>6, <1>7, <1>8, <1>9, <1>11, <1>12, <1>13, <1>14, <1>15, <1>16
     DEF Next, MainStep, Dispatch

(* Every step of an API call does the lines that were asked for.            *)
LEMMA CallsStep == Types /\ Calls /\ [Next]_vars => Calls'
<1> SUFFICES ASSUME Types, Calls, [Next]_vars PROVE Calls'
  OBVIOUS
<1> USE DEF Types, Calls
<1>1. CASE main' = main
  BY <1>1 DEF Current, Slave
<1>2. ASSUME NEW op, NEW irqs, op # "none", Begin(op, irqs) PROVE Calls'
  BY <1>2 DEF Begin
<1>3. CASE UpdateMask \/ ReadPort
  BY <1>3 DEF UpdateMask, ReadPort
<1>4. CASE WritePort \/ ReadCascade \/ WriteCascade
  <2>1. main'.todo = main.todo => Current' = Current /\ Slave' = Slave
    BY DEF Current, Slave
  <2>2. QED
    BY <1>4, <2>1 DEF WritePort, ReadCascade, WriteCascade
<1>5. CASE Finish \/ Return
  BY <1>5 DEF Finish, Return, Idle
<1>6. CASE MainStep
  BY <1>3, <1>4, <1>5, <1>6 DEF MainStep
<1>7. CASE Call
  <2>1. CASE \E op \in {"enable", "disable"}, irqs \in {Irq} \union {{i} : i \in Irq} :
                Begin(op, irqs)
    BY <1>2, <2>1
  <2>2. CASE Begin("shutdown", Irq)
    BY <1>2, <2>2
  <2>3. QED
    BY <1>1, <1>7, <2>1, <2>2 DEF Call, irq_init, interrupts_enable, irq_reset_counts,
       irq_unregister_handler, irq_register_handler
<1>8. CASE Acknowledge \/ Dispatch \/ (\E i \in Device : Raise(i)) \/ UNCHANGED vars
  BY <1>1, <1>8 DEF Acknowledge, Dispatch, irq_dispatch, RunHandler, EoiSlave, EoiMaster,
     Leave, Iret, Raise, vars
<1>9. QED  BY <1>6, <1>7, <1>8 DEF Next

(* Handlers are interrupted only once they have switched interrupts on.     *)
LEMMA NestingStep == Types /\ Nesting /\ [Next]_vars => Nesting'
<1> SUFFICES ASSUME Types, Nesting, [Next]_vars PROVE Nesting'
  OBVIOUS
<1> USE DEF Types, Nesting
<1>1. CASE frames' = frames /\ (if_flag' => if_flag \/ frames = <<>>)
  BY <1>1
<1>2. CASE Call \/ MainStep \/ (\E i \in Device : Raise(i)) \/ UNCHANGED vars
  BY <1>1, <1>2 DEF Call, irq_init, interrupts_enable, irq_reset_counts,
       irq_unregister_handler, irq_register_handler, Begin, MayCall, MainStep, UpdateMask,
       ReadPort, WritePort, ReadCascade, WriteCascade, Finish, Return, Raise, vars, cpu
<1>3. CASE Acknowledge
  <2>1. PICK i \in irr : frames' = <<[irq |-> i, at |-> "enter"]>> \o frames
    BY <1>3, AcknowledgeIs
  <2>2. [irq |-> i, at |-> "enter"] \in Frame
    BY DEF Frame, Device
  <2>3. /\ DOMAIN frames' = 1 .. Len(frames) + 1 /\ Len(frames) \in Nat
        /\ DOMAIN frames = 1 .. Len(frames)
        /\ \A k \in 1 .. Len(frames) : frames'[k + 1] = frames[k]
    BY <2>1, <2>2, PushFrame
  <2>4. \A k \in DOMAIN frames : frames[k].at \in Late
    BY <1>3, <2>3 DEF Acknowledge
  <2>5. ASSUME NEW k \in DOMAIN frames', k > 1 PROVE frames'[k].at \in Late
    <3>1. k - 1 \in 1 .. Len(frames) /\ frames'[(k - 1) + 1] = frames[k - 1] /\ (k - 1) + 1 = k
      BY <2>3, <2>5
    <3>2. QED  BY <2>3, <2>4, <3>1
  <2>6. QED  BY <1>3, <2>5 DEF Acknowledge
<1>4. ASSUME NEW l \in {"handler"} \union Late, frames # <<>>, FrameGoto(l),
             if_flag' => l \in Late
      PROVE  Nesting'
  BY <1>4, StepFrame DEF FrameGoto
<1>5. CASE irq_dispatch
  <2>1. ~if_flag' /\ frames # <<>>
    BY <1>5 DEF irq_dispatch, InFrame, Late
  <2>2. FrameGoto("eoi") \/ FrameGoto("handler")
    BY <1>5 DEF irq_dispatch
  <2>3. QED  BY <1>4, <2>1, <2>2 DEF Late
<1>6. CASE RunHandler \/ EoiSlave \/ EoiMaster \/ Leave
  BY <1>4, <1>6 DEF RunHandler, EoiSlave, EoiMaster, Leave, InFrame, Late
<1>7. CASE Iret
  <2>1. /\ frames # <<>> /\ frames' = Tail(frames)
    BY <1>7 DEF Iret, InFrame
  <2>2. /\ DOMAIN frames' = 1 .. Len(frames) - 1 /\ Len(frames) \in Nat
        /\ DOMAIN frames = 1 .. Len(frames)
        /\ \A k \in 1 .. Len(frames) - 1 : frames'[k] = frames[k + 1]
        /\ frames' \in Seq(Frame) /\ Len(frames') = Len(frames) - 1
    BY <2>1, PopFrame
  <2>3. \A k \in 1 .. Len(frames) - 1 : frames'[k].at \in Late
    BY <2>2
  <2>4. frames' # <<>> => 1 \in 1 .. Len(frames) - 1
    BY <2>2, EmptySeq
  <2>5. QED  BY <2>2, <2>3, <2>4
<1>8. QED
  BY <1>2, <1>3, <1>5, <1>6, <1>7 DEF Next, Dispatch

-----------------------------------------------------------------------------
(* The number of requests, frames and counts.                               *)
LEMMA IrrIsFinite ==
    ASSUME Types
    PROVE  IsFiniteSet(irr) /\ Cardinality(irr) \in Nat
  BY Lines, FS_Subset, FS_CardinalityType DEF Types, Device

(* A dispatch is of a request made since irq_init, and counted once.        *)
LEMMA RequestsStep ==
    Types /\ Calls /\ Nesting /\ Requests /\ [Next]_vars => Requests'
<1> SUFFICES ASSUME Types, Calls, Nesting, Requests, [Next]_vars PROVE Requests'
  OBVIOUS
<1> USE DEF software, pic, cpu
<1>0. Cardinality(irr) \in Nat /\ raised \in Nat /\ Len(frames) \in Nat
      /\ \A i \in Irq : g_irq_counts[i] \in Nat
  BY IrrIsFinite, LenProperties, InterruptsAssumption DEF Types
<1>1. CASE /\ UNCHANGED <<frames, irr, g_irq_counts, raised>>
           /\ if_flag' = if_flag \/ g_irq_initialized = 1
           /\ if_flag => if_flag'
           /\ g_irq_initialized' = g_irq_initialized \/ g_irq_initialized' = 0
  BY <1>1 DEF Requests, Started, Entering, InFrame, Types
<1>2. CASE irq_init
  <2>1. /\ irr' = {} /\ Cardinality({}) = 0 /\ frames' = <<>> /\ Len(<<>>) = 0
        /\ \A i \in Irq : g_irq_counts'[i] = 0
        /\ raised' = raised
    BY <1>2, FS_EmptySet DEF irq_init, MayCall
  <2>2. Entering' = 0
    BY <2>1 DEF Entering, InFrame
  <2>3. QED  BY <1>0, <2>1, <2>2 DEF Requests
<1>3. CASE irq_reset_counts
  <2>1. /\ UNCHANGED <<g_irq_initialized, frames, irr, raised, if_flag>>
        /\ \A i \in Irq : g_irq_counts'[i] = 0
        /\ frames = <<>>
    BY <1>3 DEF irq_reset_counts, MayCall
  <2>2. Started => Cardinality(irr) <= raised
    BY <1>0 DEF Requests
  <2>3. Entering' = 0 /\ Started' = Started
    BY <2>1 DEF Entering, InFrame, Started
  <2>4. Len(frames) + Cardinality(irr) <= raised \/ ~Started
    BY <1>0 DEF Requests
  <2>5. QED  BY <1>0, <2>1, <2>2, <2>3, <2>4 DEF Requests
<1>4. CASE Acknowledge
  <2>1. PICK i \in irr : /\ irr' = irr \ {i}
                         /\ frames' = <<[irq |-> i, at |-> "enter"]>> \o frames
    BY <1>4, AcknowledgeIs
  <2>2. Cardinality(irr') = Cardinality(irr) - 1
    BY <2>1, IrrIsFinite, FS_RemoveElement
  <2>3. Len(frames') = Len(frames) + 1 /\ frames' # <<>>
    <3>1. [irq |-> i, at |-> "enter"] \in Frame /\ frames \in Seq(Frame)
      BY DEF Frame, Types, Device
    <3>2. Len(frames') = Len(frames) + 1
      BY <2>1, <3>1, PushFrame
    <3>3. QED  BY <1>0, <3>2
  <2>4. Started /\ Entering = 0 /\ Entering' \in {0, 1} /\ ~InFrame("enter")
    BY <1>4 DEF Acknowledge, Started, Entering, InFrame, Nesting, Late
  <2>5. UNCHANGED <<g_irq_counts, raised>>
    BY <1>4 DEF Acknowledge
  <2>6. QED  BY <1>0, <2>2, <2>3, <2>4, <2>5 DEF Requests
<1>5. ASSUME NEW l \in {"handler"} \union Late, frames # <<>>, FrameGoto(l)
      PROVE  /\ Len(frames') = Len(frames) /\ frames' # <<>> /\ Entering' = 0
             /\ ThisIrq \in Irq /\ Started /\ Started'
  <2>1. /\ frames \in Seq(Frame) /\ frames' = [frames EXCEPT ![1].at = l]
    BY <1>5 DEF Types, FrameGoto
  <2>2. /\ Len(frames') = Len(frames) /\ frames' # <<>>
        /\ frames'[1] = [irq |-> frames[1].irq, at |-> l] /\ frames[1] \in Frame
    BY <1>5, <2>1, StepFrame
  <2>3. QED  BY <1>5, <2>2 DEF Entering, InFrame, Started, ThisIrq, Frame, Late
<1>6. CASE irq_dispatch
  <2>1. /\ Len(frames') = Len(frames) /\ frames' # <<>> /\ Entering' = 0
        /\ ThisIrq \in Irq /\ Started
    BY <1>5, <1>6 DEF irq_dispatch, InFrame, Late
  <2>2. /\ Entering = 1 /\ irr' = irr /\ raised' = raised
        /\ \A i \in Irq : g_irq_counts'[i] <= g_irq_counts[i] + 1
        /\ \A i \in Irq : g_irq_counts'[i] \in Nat
    <3>1. CASE g_irq_counts' = g_irq_counts
      BY <1>0, <1>6, <3>1 DEF irq_dispatch, Entering
    <3>2. CASE g_irq_counts' = [g_irq_counts EXCEPT ![ThisIrq] = @ + 1]
      BY <1>0, <1>6, <2>1, <3>2 DEF irq_dispatch, Entering, Types
    <3>3. QED  BY <1>6, <3>1, <3>2 DEF irq_dispatch
  <2>3. QED  BY <1>0, <2>1, <2>2 DEF Requests
<1>7. CASE RunHandler \/ EoiSlave \/ EoiMaster \/ Leave
  <2>1. /\ Len(frames') = Len(frames) /\ frames' # <<>> /\ Entering' = 0 /\ Started
    BY <1>5, <1>7 DEF RunHandler, EoiSlave, EoiMaster, Leave, InFrame, Late
  <2>2. UNCHANGED <<g_irq_counts, irr, raised>> /\ Entering = 0
    BY <1>7 DEF RunHandler, EoiSlave, EoiMaster, Leave, InFrame, Entering
  <2>3. QED  BY <1>0, <2>1, <2>2 DEF Requests
<1>8. CASE Iret
  <2>1. /\ frames # <<>> /\ frames' = Tail(frames) /\ if_flag' = TRUE
        /\ UNCHANGED <<g_irq_counts, irr, raised>> /\ Started
    BY <1>8 DEF Iret, InFrame, Started
  <2>2. Len(frames') = Len(frames) - 1 /\ Entering' = 0
    <3>1. /\ Len(frames') = Len(frames) - 1 /\ frames' \in Seq(Frame)
          /\ Len(frames) \in Nat /\ DOMAIN frames = 1 .. Len(frames)
          /\ \A k \in 1 .. Len(frames) - 1 : frames'[k] = frames[k + 1]
      BY <2>1, PopFrame DEF Types
    <3>2. frames' # <<>> => frames'[1] = frames[2] /\ 2 \in DOMAIN frames
      BY <3>1, EmptySeq
    <3>3. QED  BY <3>1, <3>2 DEF Nesting, Entering, InFrame, Late
  <2>3. QED  BY <1>0, <2>1, <2>2 DEF Requests, Entering
<1>9. ASSUME NEW i \in Device, Raise(i) PROVE Requests'
  <2>1. /\ Cardinality(irr') = Cardinality(irr) + 1
        /\ raised' = raised + 1
        /\ UNCHANGED <<g_irq_initialized, if_flag, frames, g_irq_counts>>
    BY <1>9, IrrIsFinite, FS_AddElement DEF Raise
  <2>2. Started' = Started /\ Entering' = Entering /\ Entering \in {0, 1}
    BY <2>1 DEF Started, Entering, InFrame
  <2>3. QED  BY <1>0, <2>1, <2>2 DEF Requests
<1>10. CASE Call
  <2>1. CASE irq_init \/ irq_reset_counts
    BY <1>2, <1>3, <2>1
  <2>2. CASE ~(irq_init \/ irq_reset_counts)
    BY <1>1, <1>10, <2>2 DEF Call, interrupts_enable, irq_unregister_handler,
       irq_register_handler, Begin
  <2>3. QED  BY <2>1, <2>2
<1>11. CASE MainStep \/ UNCHANGED vars
  BY <1>1, <1>11 DEF MainStep, UpdateMask, ReadPort, WritePort, ReadCascade, WriteCascade,
     Finish, Return, vars
<1>12. QED
  BY <1>4, <1>6, <1>7, <1>8, <1>9, <1>10, <1>11 DEF Next, Dispatch

-----------------------------------------------------------------------------
(* The dispatches that are counted, and how a step changes their number.    *)
Counted(s) == {k \in DOMAIN s : s[k].at \notin {"enter", "iret"}}

(* The nesting depth is the number of counted frames, and no more than the  *)
(* frames there are.                                                        *)
LEMMA DepthIs ==
    ASSUME Types
    PROVE  /\ Depth = Cardinality(Counted(frames))
           /\ IsFiniteSet(Counted(frames)) /\ Counted(frames) \in SUBSET Nat
           /\ Depth \in Nat /\ Depth <= Len(frames)
<1>1. Depth = Cardinality(Counted(frames))
  BY DEF Depth, Quantify, Counted
<1>2. /\ DOMAIN frames = 1 .. Len(frames) /\ Len(frames) \in Nat
      /\ Counted(frames) \in SUBSET (1 .. Len(frames))
  BY LenProperties DEF Types, Counted
<1>3. IsFiniteSet(1 .. Len(frames)) /\ Cardinality(1 .. Len(frames)) = Len(frames)
  <2>1. 1 \in Int /\ Len(frames) \in Int
    BY <1>2
  <2>2. QED  BY <1>2, <2>1, FS_Interval
<1>4. QED  BY <1>1, <1>2, <1>3, FS_Subset, FS_CardinalityType

(* The counted frames of any stack are finitely many.                       *)
LEMMA CountedIsFinite ==
    ASSUME NEW s \in Seq(Frame)
    PROVE  /\ IsFiniteSet(Counted(s)) /\ Counted(s) \in SUBSET Nat
           /\ Cardinality(Counted(s)) \in Nat
<1>1. /\ DOMAIN s = 1 .. Len(s) /\ Len(s) \in Nat
      /\ Counted(s) \in SUBSET (1 .. Len(s))
  BY LenProperties DEF Counted
<1>2. IsFiniteSet(1 .. Len(s))
  <2>1. 1 \in Int /\ Len(s) \in Int
    BY <1>1
  <2>2. QED  BY <2>1, FS_Interval
<1>3. QED  BY <1>1, <1>2, FS_Subset, FS_CardinalityType

(* A frame just entered is not counted yet.                                 *)
LEMMA PushCount ==
    ASSUME NEW s \in Seq(Frame), NEW f \in Frame, f.at = "enter"
    PROVE  Cardinality(Counted(<<f>> \o s)) = Cardinality(Counted(s))
<1> DEFINE t == <<f>> \o s
<1>1. /\ DOMAIN t = 1 .. Len(s) + 1 /\ DOMAIN s = 1 .. Len(s) /\ Len(s) \in Nat
      /\ t[1] = f
      /\ \A k \in 1 .. Len(s) : t[k + 1] = s[k]
  BY PushFrame
<1> HIDE DEF t
<1>2. Counted(t) = {k + 1 : k \in Counted(s)}
  <2>1. ASSUME NEW k \in Counted(t) PROVE k \in {j + 1 : j \in Counted(s)}
    <3>1. k \in 2 .. Len(s) + 1
      BY <1>1, <2>1 DEF Counted
    <3>2. k - 1 \in 1 .. Len(s) /\ k = (k - 1) + 1
      BY <1>1, <3>1
    <3>3. t[k] = s[k - 1]
      BY <1>1, <3>2
    <3>4. k - 1 \in Counted(s)
      BY <1>1, <2>1, <3>2, <3>3 DEF Counted
    <3>5. QED  BY <3>2, <3>4
  <2>2. ASSUME NEW k \in Counted(s) PROVE k + 1 \in Counted(t)
    BY <1>1, <2>2 DEF Counted
  <2>3. QED  BY <2>1, <2>2
<1>3. QED  BY <1>2, CountedIsFinite, ShiftCount DEF t

(* A frame about to return is not counted any more.                         *)
LEMMA PopCount ==
    ASSUME NEW s \in Seq(Frame), s # <<>>, s[1].at = "iret"
    PROVE  Cardinality(Counted(Tail(s))) = Cardinality(Counted(s))
<1> DEFINE t == Tail(s)
<1>1. /\ DOMAIN t = 1 .. Len(s) - 1 /\ DOMAIN s = 1 .. Len(s) /\ Len(s) \in Nat \ {0}
      /\ \A k \in 1 .. Len(s) - 1 : t[k] = s[k + 1]
      /\ t \in Seq(Frame)
  BY PopFrame
<1> HIDE DEF t
<1>2. Counted(s) = {k + 1 : k \in Counted(t)}
  <2>1. ASSUME NEW k \in Counted(s) PROVE k \in {j + 1 : j \in Counted(t)}
    <3>1. k \in 2 .. Len(s)
      BY <1>1, <2>1 DEF Counted
    <3>2. k - 1 \in 1 .. Len(s) - 1 /\ k = (k - 1) + 1
      BY <1>1, <3>1
    <3>3. t[k - 1] = s[k]
      BY <1>1, <3>2
    <3>4. k - 1 \in Counted(t)
      BY <1>1, <2>1, <3>2, <3>3 DEF Counted
    <3>5. QED  BY <3>2, <3>4
  <2>2. ASSUME NEW k \in Counted(t) PROVE k + 1 \in Counted(s)
    BY <1>1, <2>2 DEF Counted
  <2>3. QED  BY <2>1, <2>2
<1>3. QED  BY <1>1, <1>2, CountedIsFinite, ShiftCount DEF t

(* A step of irq_dispatch is counted from its start to its decrement.       *)
LEMMA StepCount ==
    ASSUME NEW s \in Seq(Frame), s # <<>>, NEW l \in {"handler"} \union Late,
           NEW t, t = [s EXCEPT ![1].at = l]
    PROVE  /\ l = "iret" /\ s[1].at \notin {"enter", "iret"} =>
                  Cardinality(Counted(t)) = Cardinality(Counted(s)) - 1
           /\ l # "iret" /\ s[1].at = "enter" =>
                  Cardinality(Counted(t)) = Cardinality(Counted(s)) + 1
           /\ l # "iret" /\ s[1].at \notin {"enter", "iret"} =>
                  Cardinality(Counted(t)) = Cardinality(Counted(s))
<1>1. /\ DOMAIN t = DOMAIN s /\ 1 \in DOMAIN s
      /\ t[1] = [irq |-> s[1].irq, at |-> l]
      /\ \A k \in DOMAIN s : k # 1 => t[k] = s[k]
  BY StepFrame
<1>2. IsFiniteSet(Counted(s)) /\ Cardinality(Counted(s)) \in Nat
  BY CountedIsFinite
<1>3. 1 \in Counted(s) <=> s[1].at \notin {"enter", "iret"}
  BY <1>1 DEF Counted
<1>4. ASSUME l = "iret", 1 \in Counted(s)
      PROVE  Cardinality(Counted(t)) = Cardinality(Counted(s)) - 1
  <2>1. Counted(t) = Counted(s) \ {1}
    BY <1>1, <1>4 DEF Counted
  <2>2. QED  BY <1>2, <1>4, <2>1, FS_RemoveElement
<1>5. ASSUME l # "iret"
      PROVE  Cardinality(Counted(t)) =
                 IF 1 \in Counted(s) THEN Cardinality(Counted(s)) ELSE Cardinality(Counted(s)) + 1
  <2>1. Counted(t) = Counted(s) \union {1}
    BY <1>1, <1>5 DEF Counted, Late
  <2>2. QED  BY <1>2, <2>1, FS_AddElement
<1>6. QED  BY <1>3, <1>4, <1>5

(* The counter counts the dispatches; beyond the limit nothing can be added *)
(* until the dispatch has taken its count back.                             *)
DepthInv ==
    /\ g_irq_stack_depth = Depth
    /\ Depth <= MAX_IRQ_DEPTH + 1
    /\ if_flag \/ frames = <<>> \/ frames[1].at \in {"enter", "handler", "iret"} =>
           Depth <= MAX_IRQ_DEPTH

(* A dispatch counts itself, its leave discounts it; only a frame let in    *)
(* with the depth within the limit goes on to its handler.                  *)
LEMMA DepthStep == Types /\ Nesting /\ DepthInv /\ [Next]_vars => DepthInv'
<1> SUFFICES ASSUME Types, Nesting, DepthInv, [Next]_vars PROVE DepthInv'
  OBVIOUS
<1> USE DEF cpu
<1>0. /\ Depth = Cardinality(Counted(frames)) /\ Depth \in Nat
      /\ Depth' = Cardinality(Counted(frames'))
      /\ MAX_IRQ_DEPTH \in Nat \ {0}
      /\ frames \in Seq(Frame)
  BY DepthIs, InterruptsAssumption DEF Depth, Quantify, Counted, Types
<1>1. CASE /\ UNCHANGED <<frames, g_irq_stack_depth>>
           /\ if_flag' = if_flag \/ frames = <<>>
  BY <1>1, <1>0 DEF DepthInv
<1>2. CASE Call \/ MainStep \/ (\E i \in Device : Raise(i)) \/ UNCHANGED vars
  BY <1>1, <1>2 DEF Call, irq_init, interrupts_enable, irq_reset_counts,
       irq_unregister_handler, irq_register_handler, Begin, MayCall, MainStep, UpdateMask,
       ReadPort, WritePort, ReadCascade, WriteCascade, Finish, Return, Raise, vars
<1>3. CASE Acknowledge
  <2>1. PICK i \in irr : frames' = <<[irq |-> i, at |-> "enter"]>> \o frames
    BY <1>3, AcknowledgeIs
  <2>2. [irq |-> i, at |-> "enter"] \in Frame
    BY DEF Frame, Device, Types
  <2>3. Depth' = Depth
    BY <1>0, <2>1, <2>2, PushCount
  <2>4. g_irq_stack_depth' = g_irq_stack_depth /\ Depth <= MAX_IRQ_DEPTH
    BY <1>3 DEF Acknowledge, DepthInv
  <2>5. QED  BY <1>0, <2>3, <2>4 DEF DepthInv
<1>4. ASSUME NEW l \in {"handler"} \union Late, frames # <<>>, FrameGoto(l)
      PROVE  /\ l = "iret" /\ frames[1].at \notin {"enter", "iret"} => Depth' = Depth - 1
             /\ l # "iret" /\ frames[1].at = "enter" => Depth' = Depth + 1
             /\ l # "iret" /\ frames[1].at \notin {"enter", "iret"} => Depth' = Depth
             /\ frames' # <<>> /\ frames'[1].at = l
  <2>1. frames' = [frames EXCEPT ![1].at = l] /\ frames \in Seq(Frame)
    BY <1>4 DEF FrameGoto, Types
  <2>2. frames' # <<>> /\ frames'[1] = [irq |-> frames[1].irq, at |-> l]
    BY <1>4, <2>1, StepFrame
  <2>3. /\ l = "iret" /\ frames[1].at \notin {"enter", "iret"} =>
                Cardinality(Counted(frames')) = Cardinality(Counted(frames)) - 1
        /\ l # "iret" /\ frames[1].at = "enter" =>
                Cardinality(Counted(frames')) = Cardinality(Counted(frames)) + 1
        /\ l # "iret" /\ frames[1].at \notin {"enter", "iret"} =>
                Cardinality(Counted(frames')) = Cardinality(Counted(frames))
    BY <1>4, <2>1, StepCount
  <2>4. frames'[1].at = l
    BY <2>2
  <2>5. QED  BY <1>0, <2>2, <2>3, <2>4
<1>5. CASE irq_dispatch
  <2>1. /\ frames # <<>> /\ frames[1].at = "enter" /\ ~if_flag' /\ Depth <= MAX_IRQ_DEPTH
        /\ g_irq_stack_depth' = Depth + 1
    BY <1>5 DEF irq_dispatch, InFrame, DepthInv, Nesting, Late
  <2>2. CASE Depth + 1 > MAX_IRQ_DEPTH
    <3>1. FrameGoto("eoi")
      BY <1>5, <2>1, <2>2 DEF irq_dispatch
    <3>2. Depth' = Depth + 1 /\ frames' # <<>> /\ frames'[1].at = "eoi"
      BY <1>4, <2>1, <3>1 DEF Late
    <3>3. QED  BY <1>0, <2>1, <3>2 DEF DepthInv
  <2>3. CASE Depth + 1 <= MAX_IRQ_DEPTH
    <3>1. FrameGoto("eoi") \/ FrameGoto("handler")
      BY <1>5 DEF irq_dispatch
    <3>2. Depth' = Depth + 1
      BY <1>4, <2>1, <3>1 DEF Late
    <3>3. QED  BY <1>0, <2>1, <2>3, <3>2 DEF DepthInv
  <2>4. QED  BY <1>0, <2>2, <2>3
<1>6. CASE RunHandler
  <2>1. Depth' = Depth /\ frames # <<>> /\ Depth <= MAX_IRQ_DEPTH
    BY <1>4, <1>6 DEF RunHandler, InFrame, Late, DepthInv
  <2>2. QED  BY <1>0, <1>6, <2>1 DEF RunHandler, DepthInv
<1>7. CASE EoiSlave \/ EoiMaster
  <2>1. Depth' = Depth /\ frames # <<>> /\ frames' # <<>> /\ frames'[1].at \in {"eoiMaster", "leave"}
    BY <1>4, <1>7 DEF EoiSlave, EoiMaster, InFrame, Late
  <2>2. QED  BY <1>0, <1>7, <2>1 DEF EoiSlave, EoiMaster, DepthInv
<1>8. CASE Leave
  <2>1. Depth' = Depth - 1
    BY <1>4, <1>8 DEF Leave, InFrame, Late
  <2>2. QED  BY <1>0, <1>8, <2>1 DEF Leave, DepthInv
<1>9. CASE Iret
  <2>1. Depth' = Depth /\ Depth <= MAX_IRQ_DEPTH
    BY <1>0, <1>9, PopCount DEF Iret, InFrame, DepthInv
  <2>2. QED  BY <1>0, <1>9, <2>1 DEF Iret, DepthInv
<1>10. QED
  BY <1>2, <1>3, <1>5, <1>6, <1>7, <1>8, <1>9 DEF Next, Dispatch

-----------------------------------------------------------------------------
(* The first three parts of the inductive invariant with the depth.         *)
Typed == Types /\ Calls /\ Nesting /\ Requests /\ DepthInv

(* The first layers hold before irq_init: no frame and no call.             *)
LEMMA TypedInit == Init => Typed
<1> SUFFICES ASSUME Init PROVE Typed
  OBVIOUS
<1>1. frames = <<>> /\ frames \in Seq(Frame)
  BY DEF Init
<1>2. Types
  <2>1. main \in [op : {"none", "enable", "disable", "shutdown"},
                  irqs : SUBSET Irq, todo : SUBSET Irq, mask : SUBSET Irq,
                  at : {"idle", "update", "read", "write", "readCascade",
                        "writeCascade", "return"}]
    BY DEF Init, Idle
  <2>2. g_irq_handlers \in [Irq -> Handler] /\ g_irq_counts \in [Irq -> Nat]
    BY DEF Init, Handler
  <2>3. raised \in 0 .. MaxRaised
    BY InterruptsAssumption DEF Init
  <2>4. /\ g_irq_initialized \in 0 .. 1 /\ if_flag \in BOOLEAN
        /\ g_irq_mask \subseteq Irq /\ pic_mask \subseteq Irq
        /\ irr \subseteq Device /\ isr \subseteq Irq
    <3>1. if_flag \in BOOLEAN
      BY Zenon DEF Init
    <3>2. QED  BY <3>1 DEF Init
  <2>5. QED  BY <1>1, <2>1, <2>2, <2>3, <2>4 DEF Types
<1>3. Counted(frames) = {}
  BY <1>1 DEF Counted
<1>4. Depth = 0
  BY <1>2, <1>3, DepthIs, FS_EmptySet
<1>5. DepthInv
  BY <1>4, InterruptsAssumption DEF DepthInv, Init
<1>6. Calls /\ Nesting /\ Requests
  BY <1>1 DEF Calls, Nesting, Requests, Started, Init, Idle
<1>7. QED  BY <1>2, <1>5, <1>6 DEF Typed

(* The first layers are an invariant.                                       *)
LEMMA TypedAlways == Spec => []Typed
<1>1. Typed /\ [Next]_vars => Typed'
  BY TypesStep, CallsStep, NestingStep, RequestsStep, DepthStep DEF Typed
<1>2. QED  BY <1>1, TypedInit, PTL DEF Spec

(* The interrupt controller's variables always have their types, and no     *)
(* count and no nesting exceeds the number of requests.                     *)
THEOREM TypeCorrect == Spec => []TypeOK
<1>1. Typed => TypeOK
  <2> SUFFICES ASSUME Typed PROVE TypeOK
    OBVIOUS
  <2> USE DEF Typed
  <2>1. /\ Cardinality(irr) \in Nat /\ raised \in Nat /\ Len(frames) \in Nat
        /\ raised <= MaxRaised /\ MaxRaised \in Nat
        /\ \A i \in Irq : g_irq_counts[i] \in Nat
        /\ Entering \in Nat
    BY IrrIsFinite, LenProperties, InterruptsAssumption DEF Types, Entering
  <2>2. ASSUME NEW i \in Irq PROVE g_irq_counts[i] \in 0 .. MaxRaised
    <3>1. CASE Started
      BY <2>1, <3>1 DEF Requests
    <3>2. CASE ~Started
      BY <2>1, <3>2 DEF Requests, Started
    <3>3. QED  BY <3>1, <3>2
  <2>3. g_irq_counts \in [Irq -> 0 .. MaxRaised]
    BY <2>2 DEF Types
  <2>4. Depth \in Nat /\ Depth <= Len(frames)
    BY DepthIs
  <2>5. Len(frames) <= MaxRaised
    <3>1. CASE Started
      BY <2>1, <3>1 DEF Requests
    <3>2. CASE ~Started
      <4>1. Len(frames) = 0
        BY <3>2 DEF Started
      <4>2. QED  BY <2>1, <4>1
    <3>3. QED  BY <3>1, <3>2
  <2>6. g_irq_stack_depth \in 0 .. MaxRaised
    BY <2>1, <2>4, <2>5 DEF DepthInv
  <2>7. QED  BY <2>3, <2>6 DEF Types, TypeOK, Frame, Late
<1>2. QED  BY <1>1, TypedAlways, PTL

(* However handlers nest, g_irq_stack_depth counts the dispatches under     *)
(* way, one at most is beyond the limit, and that one runs no handler.      *)
THEOREM DepthBoundedHolds == Spec => []DepthBounded
<1>1. Typed => DepthBounded
  <2> SUFFICES ASSUME Typed PROVE DepthBounded
    OBVIOUS
  <2> DEFINE Running == {k \in DOMAIN frames : frames[k].at = "handler"}
  <2>1. Running \subseteq {1}
    <3>1. DOMAIN frames \subseteq Nat \ {0}
      BY LenProperties DEF Typed, Types
    <3>2. QED  BY <3>1 DEF Typed, Nesting, Late
  <2> HIDE DEF Running
  <2>2. Cardinality(Running) <= 1
    <3>1. IsFiniteSet({1}) /\ Cardinality({1}) = 1 /\ Running \in SUBSET {1}
      BY <2>1, FS_Singleton
    <3>2. QED  BY <3>1, FS_Subset
  <2>3. Quantify(DOMAIN frames, LAMBDA k : frames[k].at = "handler") = Cardinality(Running)
    BY DEF Quantify, Running
  <2>4. Quantify(DOMAIN frames, LAMBDA k : frames[k].at = "handler") <= MAX_IRQ_DEPTH
    <3>1. Cardinality(Running) \in Nat
      BY <2>1, FS_Singleton, FS_Subset, FS_CardinalityType
    <3>2. QED  BY <2>2, <2>3, <3>1, InterruptsAssumption
  <2>5. InFrame("handler") => Depth <= MAX_IRQ_DEPTH
    BY DEF InFrame, Typed, DepthInv
  <2>6. QED  BY <2>4, <2>5 DEF DepthBounded, Typed, DepthInv
<1>2. QED  BY <1>1, TypedAlways, PTL

-----------------------------------------------------------------------------
(* The line of the master that a frame's interrupt came in on, and the      *)
(* frames whose EOI to the master is still to come.                         *)
MasterLine(f) == IF f.irq \in Slave THEN CASCADE ELSE f.irq
Pending == {"enter", "handler", "eoi", "eoiMaster"}

(* An interrupt interrupts only those of lower priority on the master.      *)
Order ==
    \A j, k \in DOMAIN frames :
        j < k /\ frames[j].at \in Pending /\ frames[k].at \in Pending =>
            MasterLine(frames[j]) < MasterLine(frames[k])
InService == Order /\ InServiceMatchesFrames

(* What a frame has yet to end: its own line, and on the master its line's. *)
LEMMA UnendedIs ==
    ASSUME NEW f \in Frame
    PROVE  /\ f.irq \in Irq /\ MasterLine(f) \in Master
           /\ f.irq \in Slave => MasterLine(f) = CASCADE
           /\ f.irq \notin Slave => MasterLine(f) = f.irq
           /\ f.at \in {"enter", "handler", "eoi"} => Unended(f) = {f.irq, MasterLine(f)}
           /\ f.at = "eoiMaster" => Unended(f) = {MasterLine(f)}
           /\ f.at \notin Pending => Unended(f) = {}
<1>1. f.irq \in Irq
  BY DEF Frame
<1>2. CASE f.irq \in Slave
  <2>1. f.irq \notin Master
    BY <1>2, Lines
  <2>2. QED  BY <1>1, <1>2, <2>1, Lines DEF MasterLine, Unended, Pending
<1>3. CASE f.irq \notin Slave
  <2>1. f.irq \in Master
    BY <1>1, <1>3, Lines
  <2>2. QED  BY <1>1, <1>3, <2>1, Lines DEF MasterLine, Unended, Pending
<1>4. QED  BY <1>2, <1>3

(* What the frames of a stack have yet to end, the innermost apart.         *)
Rest(s) == UNION {Unended(s[k]) : k \in DOMAIN s \ {1}}
Ends(s) == UNION {Unended(s[k]) : k \in DOMAIN s}

(* A frame pushed on a stack adds its own lines to what the stack has to    *)
(* end.                                                                     *)
LEMMA PushEnds ==
    ASSUME NEW s \in Seq(Frame), NEW f \in Frame
    PROVE  Ends(<<f>> \o s) = Unended(f) \union Ends(s)
<1> DEFINE t == <<f>> \o s
<1>1. /\ DOMAIN t = 1 .. Len(s) + 1 /\ DOMAIN s = 1 .. Len(s) /\ Len(s) \in Nat
      /\ t[1] = f
      /\ \A k \in 1 .. Len(s) : t[k + 1] = s[k]
  BY PushFrame
<1> HIDE DEF t
<1>2. ASSUME NEW x, NEW k \in DOMAIN t, x \in Unended(t[k])
      PROVE  x \in Unended(f) \union Ends(s)
  <2>1. CASE k = 1
    BY <1>1, <1>2, <2>1
  <2>2. CASE k # 1
    <3>1. k - 1 \in DOMAIN s /\ t[(k - 1) + 1] = s[k - 1] /\ (k - 1) + 1 = k
      BY <1>1, <2>2
    <3>2. QED  BY <1>2, <3>1 DEF Ends
  <2>3. QED  BY <2>1, <2>2
<1>3. ASSUME NEW x \in Unended(f) PROVE x \in Ends(t)
  BY <1>1, <1>3 DEF Ends
<1>4. ASSUME NEW x, NEW k \in DOMAIN s, x \in Unended(s[k]) PROVE x \in Ends(t)
  <2>1. k + 1 \in DOMAIN t /\ t[k + 1] = s[k]
    BY <1>1
  <2>2. QED  BY <1>4, <2>1 DEF Ends
<1>5. Ends(t) = Unended(f) \union Ends(s)
  BY <1>2, <1>3, <1>4 DEF Ends
<1>6. QED  BY <1>5 DEF t

(* A frame about to return has nothing left to end.                         *)
LEMMA PopEnds ==
    ASSUME NEW s \in Seq(Frame), s # <<>>, s[1].at = "iret"
    PROVE  Ends(Tail(s)) = Ends(s)
<1> DEFINE t == Tail(s)
<1>1. /\ DOMAIN t = 1 .. Len(s) - 1 /\ DOMAIN s = 1 .. Len(s) /\ Len(s) \in Nat \ {0}
      /\ \A k \in 1 .. Len(s) - 1 : t[k] = s[k + 1]
      /\ s[1] \in Frame
  BY PopFrame, ElementOfSeq
<1> HIDE DEF t
<1>2. ASSUME NEW x, NEW k \in DOMAIN t, x \in Unended(t[k]) PROVE x \in Ends(s)
  <2>1. k + 1 \in DOMAIN s /\ t[k] = s[k + 1]
    BY <1>1
  <2>2. QED  BY <1>2, <2>1 DEF Ends
<1>3. ASSUME NEW x, NEW k \in DOMAIN s, x \in Unended(s[k]) PROVE x \in Ends(t)
  <2>1. k # 1
    BY <1>1, <1>3, UnendedIs DEF Pending
  <2>2. k - 1 \in DOMAIN t /\ t[k - 1] = s[(k - 1) + 1] /\ (k - 1) + 1 = k
    BY <1>1, <2>1
  <2>3. QED  BY <1>3, <2>2 DEF Ends
<1>4. QED  BY <1>2, <1>3 DEF Ends, t

(* A step of the innermost frame changes what it has to end, and not what   *)
(* the frames below it have.                                                *)
LEMMA StepEnds ==
    ASSUME NEW s \in Seq(Frame), s # <<>>, NEW l \in {"handler"} \union Late,
           NEW t, t = [s EXCEPT ![1].at = l]
    PROVE  /\ Ends(s) = Unended(s[1]) \union Rest(s)
           /\ Ends(t) = Unended([irq |-> s[1].irq, at |-> l]) \union Rest(s)
<1>1. /\ DOMAIN t = DOMAIN s /\ 1 \in DOMAIN s
      /\ t[1] = [irq |-> s[1].irq, at |-> l]
      /\ \A k \in DOMAIN s : k # 1 => t[k] = s[k]
  BY StepFrame
<1>2. Ends(s) = Unended(s[1]) \union Rest(s)
  BY <1>1 DEF Ends, Rest
<1>3. Ends(t) = Unended(t[1]) \union Rest(t)
  BY <1>1 DEF Ends, Rest
<1>4. Rest(t) = Rest(s)
  BY <1>1 DEF Rest
<1>5. QED  BY <1>1, <1>2, <1>3, <1>4

(* While the innermost frame is pending, no other has its line to end, and  *)
(* none a line of a higher priority on the same chip.                       *)
LEMMA InnermostFirst ==
    ASSUME Types, Order, frames # <<>>, frames[1].at \in Pending, NEW x \in Rest(frames)
    PROVE  /\ x \in Master => MasterLine(frames[1]) < x
           /\ x \in Slave => frames[1].irq \notin Slave
<1>1. PICK k \in DOMAIN frames \ {1} : x \in Unended(frames[k])
  BY DEF Rest
<1>2. /\ 1 \in DOMAIN frames /\ 1 < k
      /\ frames[1] \in Frame /\ frames[k] \in Frame
  BY <1>1, LenProperties, EmptySeq, ElementOfSeq DEF Types
<1>3. frames[k].at \in Pending /\ x \in {frames[k].irq, MasterLine(frames[k])}
  BY <1>1, <1>2, UnendedIs DEF Pending
<1>4. MasterLine(frames[1]) < MasterLine(frames[k])
  BY <1>2, <1>3 DEF Order
<1>5. x \in Master => x = MasterLine(frames[k])
  BY <1>2, <1>3, UnendedIs, Lines
<1>6. x \in Slave => MasterLine(frames[k]) = CASCADE
  BY <1>2, <1>3, UnendedIs, Lines
<1>7. ~(CASCADE < CASCADE)
  BY DEF CASCADE
<1>8. QED  BY <1>2, <1>4, <1>5, <1>6, <1>7, UnendedIs

(* The lines pending on the master are in service there.                    *)
LEMMA PendingInService ==
    ASSUME Types, InServiceMatchesFrames, NEW k \in DOMAIN frames, frames[k].at \in Pending
    PROVE  MasterLine(frames[k]) \in isr \intersect Master
<1>1. frames[k] \in Frame
  BY ElementOfSeq, LenProperties DEF Types
<1>2. MasterLine(frames[k]) \in Unended(frames[k]) /\ MasterLine(frames[k]) \in Master
  BY <1>1, UnendedIs DEF Pending
<1>3. QED  BY <1>2 DEF InServiceMatchesFrames

(* A step of irq_dispatch makes no frame pending that was not.              *)
LEMMA OrderKept ==
    ASSUME Types, Order, frames # <<>>, NEW l \in {"handler"} \union Late, FrameGoto(l),
           frames[1].at \in Pending \/ l \notin Pending
    PROVE  Order'
<1>1. frames' = [frames EXCEPT ![1].at = l] /\ frames \in Seq(Frame)
  BY DEF FrameGoto, Types
<1>2. /\ DOMAIN frames' = DOMAIN frames /\ 1 \in DOMAIN frames
      /\ frames'[1] = [irq |-> frames[1].irq, at |-> l]
      /\ \A k \in DOMAIN frames : k # 1 => frames'[k] = frames[k]
  BY <1>1, StepFrame
<1>3. \A k \in DOMAIN frames : MasterLine(frames'[k]) = MasterLine(frames[k])
  BY <1>2 DEF MasterLine
<1>4. \A k \in DOMAIN frames : frames'[k].at \in Pending => frames[k].at \in Pending
  BY <1>2
<1>5. QED  BY <1>2, <1>3, <1>4 DEF Order

(* Every EOI is for the interrupt of the frame that sends it.               *)
LEMMA InServiceStep == Types /\ Nesting /\ InService /\ [Next]_vars => InService'
<1> SUFFICES ASSUME Types, Nesting, InService, [Next]_vars PROVE InService'
  OBVIOUS
<1> USE DEF pic, cpu
<1>0. /\ Order /\ InServiceMatchesFrames /\ frames \in Seq(Frame)
      /\ isr = Ends(frames)
  BY DEF InService, Types, InServiceMatchesFrames, Ends
<1>1. isr' = Ends(frames') => InServiceMatchesFrames'
  BY DEF InServiceMatchesFrames, Ends
<1>2. CASE UNCHANGED <<isr, frames>>
  BY <1>0, <1>2 DEF InService, Order, InServiceMatchesFrames
<1>3. CASE irq_init
  <2>1. frames' = <<>> /\ isr' = {} /\ DOMAIN frames' = {}
    BY <1>3 DEF irq_init, MayCall
  <2>2. Order' /\ Ends(frames') = {}
    BY <2>1 DEF Order, Ends
  <2>3. QED  BY <1>1, <2>1, <2>2 DEF InService
<1>4. CASE Call \/ MainStep \/ (\E i \in Device : Raise(i)) \/ UNCHANGED vars
  BY <1>2, <1>3, <1>4 DEF Call, interrupts_enable, irq_reset_counts, irq_unregister_handler,
       irq_register_handler, Begin, MainStep, UpdateMask, ReadPort, WritePort, ReadCascade,
       WriteCascade, Finish, Return, Raise, vars
<1>5. CASE Acknowledge
  <2>1. PICK i \in irr, line \in Master :
          /\ line = IF i \in Slave THEN CASCADE ELSE i
          /\ \A j \in isr \intersect Master : line < j
          /\ isr' = isr \union {line, i}
          /\ frames' = <<[irq |-> i, at |-> "enter"]>> \o frames
    BY <1>5, AcknowledgeIs
  <2> DEFINE f == [irq |-> i, at |-> "enter"]
  <2>2. f \in Frame /\ f.at = "enter" /\ MasterLine(f) = line /\ f.irq = i
    BY <2>1 DEF Frame, Device, Types, MasterLine
  <2> HIDE DEF f
  <2>3. Unended(f) = {line, i}
    BY <2>2, UnendedIs
  <2>4. isr' = Ends(frames')
    BY <1>0, <2>1, <2>2, <2>3, PushEnds DEF f
  <2>5. /\ DOMAIN frames' = 1 .. Len(frames) + 1 /\ DOMAIN frames = 1 .. Len(frames)
        /\ Len(frames) \in Nat /\ frames'[1] = f
        /\ \A k \in 1 .. Len(frames) : frames'[k + 1] = frames[k]
    BY <1>0, <2>1, <2>2, PushFrame DEF f
  <2>6. ASSUME NEW j \in DOMAIN frames', NEW k \in DOMAIN frames', j < k,
               frames'[j].at \in Pending, frames'[k].at \in Pending
        PROVE  MasterLine(frames'[j]) < MasterLine(frames'[k])
    <3>1. k - 1 \in DOMAIN frames /\ frames'[k] = frames[k - 1]
      <4>1. k - 1 \in 1 .. Len(frames) /\ (k - 1) + 1 = k
        BY <2>5, <2>6
      <4>2. QED  BY <2>5, <4>1
    <3>2. CASE j = 1
      <4>1. MasterLine(frames[k - 1]) \in isr \intersect Master
        BY <1>0, <2>6, <3>1, PendingInService
      <4>2. QED  BY <2>1, <2>2, <2>5, <3>1, <3>2, <4>1
    <3>3. CASE j # 1
      <4>1. j - 1 \in 1 .. Len(frames) /\ (j - 1) + 1 = j /\ j - 1 < k - 1
        BY <2>5, <2>6, <3>3
      <4>2. j - 1 \in DOMAIN frames /\ frames'[j] = frames[j - 1]
        BY <2>5, <4>1
      <4>3. QED  BY <1>0, <2>6, <3>1, <4>1, <4>2 DEF Order
    <3>4. QED  BY <3>2, <3>3
  <2>7. Order'
    BY <2>6 DEF Order
  <2>8. QED  BY <1>1, <2>4, <2>7 DEF InService
<1>6. ASSUME NEW l \in {"handler"} \union Late, frames # <<>>, FrameGoto(l)
      PROVE  /\ isr = Unended(frames[1]) \union Rest(frames)
             /\ Ends(frames') = Unended([irq |-> frames[1].irq, at |-> l]) \union Rest(frames)
             /\ frames[1] \in Frame /\ [irq |-> frames[1].irq, at |-> l] \in Frame
  <2>1. frames' = [frames EXCEPT ![1].at = l] /\ frames \in Seq(Frame)
    BY <1>6 DEF FrameGoto, Types
  <2>2. /\ Ends(frames) = Unended(frames[1]) \union Rest(frames)
        /\ Ends(frames') = Unended([irq |-> frames[1].irq, at |-> l]) \union Rest(frames)
    BY <1>6, <2>1, StepEnds
  <2>3. frames[1] \in Frame
    BY <1>6, <2>1, StepFrame
  <2>4. [irq |-> frames[1].irq, at |-> l] \in Frame
    BY <2>3 DEF Frame
  <2>5. QED  BY <1>0, <2>2, <2>3, <2>4
<1>7. CASE irq_dispatch \/ RunHandler
  <2>1. /\ isr' = isr /\ frames # <<>> /\ frames[1].at \in {"enter", "handler"}
        /\ FrameGoto("eoi") \/ FrameGoto("handler")
    <3>1. CASE irq_dispatch
      BY <3>1 DEF irq_dispatch, InFrame
    <3>2. CASE RunHandler
      BY <3>2 DEF RunHandler, InFrame
    <3>3. QED  BY <1>7, <3>1, <3>2
  <2>2. ASSUME NEW l \in {"handler", "eoi"}, FrameGoto(l) PROVE InService'
    <3> DEFINE g == [irq |-> frames[1].irq, at |-> l]
    <3>1. l \in {"handler"} \union Late
      BY DEF Late
    <3>2. /\ isr = Unended(frames[1]) \union Rest(frames)
          /\ Ends(frames') = Unended(g) \union Rest(frames)
          /\ frames[1] \in Frame /\ g \in Frame
      BY <1>6, <2>1, <2>2, <3>1
    <3>3. g.irq = frames[1].irq /\ g.at = l /\ MasterLine(g) = MasterLine(frames[1])
      BY DEF MasterLine
    <3> HIDE DEF g
    <3>4. Unended(g) = Unended(frames[1])
      BY <2>1, <3>2, <3>3, UnendedIs
    <3>5. Order'
      BY <1>0, <2>1, <2>2, <3>1, OrderKept DEF Pending
    <3>6. QED  BY <1>1, <2>1, <3>2, <3>4, <3>5 DEF InService
  <2>3. QED  BY <2>1, <2>2
<1>8. CASE EoiSlave
  <2> DEFINE f == frames[1]
             g == [irq |-> frames[1].irq, at |-> "eoiMaster"]
  <2>1. /\ frames # <<>> /\ f.at = "eoi" /\ FrameGoto("eoiMaster")
        /\ isr' = IF f.irq \in Slave THEN EndOfInterrupt(Slave) ELSE isr
    BY <1>8 DEF EoiSlave, InFrame, ThisIrq
  <2>2. /\ isr = Unended(f) \union Rest(frames)
        /\ Ends(frames') = Unended(g) \union Rest(frames)
        /\ f \in Frame /\ g \in Frame
    BY <1>6, <2>1 DEF Late
  <2>3. g.irq = f.irq /\ g.at = "eoiMaster" /\ MasterLine(g) = MasterLine(f)
    BY DEF MasterLine
  <2>4. Order'
    BY <1>0, <2>1, OrderKept DEF Pending, Late
  <2>5. \A x \in Rest(frames) : x \in Slave => f.irq \notin Slave
    BY <1>0, <2>1, InnermostFirst DEF Pending
  <2> HIDE DEF f, g
  <2>6. Unended(f) = {f.irq, MasterLine(f)} /\ Unended(g) = {MasterLine(f)}
    BY <2>1, <2>2, <2>3, UnendedIs
  <2>7. CASE f.irq \in Slave
    <3>1. MasterLine(f) \notin Slave
      BY <2>2, UnendedIs, Lines
    <3>2. isr \intersect Slave = {f.irq}
      BY <2>2, <2>5, <2>6, <2>7, <3>1
    <3>3. Slave \in SUBSET Irq /\ f.irq \in Nat
      BY <2>7, Lines DEF Slave
    <3>4. isr' = isr \ {f.irq}
      <4>1. \A k \in isr \intersect Slave : f.irq <= k
        BY <3>2, <3>3
      <4>2. EndOfInterrupt(Slave) = isr \ {f.irq}
        BY <3>2, <3>3, <4>1, EndIs
      <4>3. QED  BY <2>1, <2>7, <4>2 DEF f
    <3>5. f.irq \notin Rest(frames) /\ f.irq # MasterLine(f)
      BY <2>5, <2>7, <3>1
    <3>6. isr' = Ends(frames')
      BY <2>2, <2>6, <3>4, <3>5
    <3>7. QED  BY <1>1, <2>4, <3>6 DEF InService
  <2>8. CASE f.irq \notin Slave
    <3>1. MasterLine(f) = f.irq
      BY <2>2, <2>8, UnendedIs
    <3>2. isr' = Ends(frames')
      BY <2>1, <2>2, <2>6, <2>8, <3>1 DEF f
    <3>3. QED  BY <1>1, <2>4, <3>2 DEF InService
  <2>9. QED  BY <2>7, <2>8
<1>9. CASE EoiMaster
  <2> DEFINE f == frames[1]
             g == [irq |-> frames[1].irq, at |-> "leave"]
  <2>1. /\ frames # <<>> /\ f.at = "eoiMaster" /\ FrameGoto("leave")
        /\ isr' = EndOfInterrupt(Master)
    BY <1>9 DEF EoiMaster, InFrame
  <2>2. /\ isr = Unended(f) \union Rest(frames)
        /\ Ends(frames') = Unended(g) \union Rest(frames)
        /\ f \in Frame /\ g \in Frame
    BY <1>6, <2>1 DEF Late
  <2>3. g.at = "leave"
    OBVIOUS
  <2>4. Order'
    BY <1>0, <2>1, OrderKept DEF Pending, Late
  <2>5. \A x \in Rest(frames) : x \in Master => MasterLine(f) < x
    BY <1>0, <2>1, InnermostFirst DEF Pending
  <2> HIDE DEF f, g
  <2>6. /\ Unended(f) = {MasterLine(f)} /\ Unended(g) = {}
        /\ MasterLine(f) \in Master
    BY <2>1, <2>2, <2>3, UnendedIs DEF Pending
  <2>7. Master \in SUBSET Irq /\ Master \subseteq Nat
    BY Lines DEF Master
  <2>8. /\ MasterLine(f) \notin Rest(frames)
        /\ MasterLine(f) \in isr \intersect Master
        /\ \A k \in isr \intersect Master : MasterLine(f) <= k
    <3> DEFINE m == MasterLine(f)
    <3>1. m \in Nat /\ m \in Master /\ ~(m < m)
      <4>1. m \in Master
        BY <2>6
      <4> HIDE DEF m
      <4>2. m \in Nat
        BY <2>7, <4>1
      <4>3. QED  BY <4>1, <4>2
    <3>2. isr = {m} \union Rest(frames)
      BY <2>2, <2>6
    <3>3. \A x \in Rest(frames) : x \in Master => m < x
      BY <2>5
    <3> HIDE DEF m
    <3>4. m \notin Rest(frames) /\ m \in isr \intersect Master
      BY <3>1, <3>2, <3>3
    <3>5. \A k \in isr \intersect Master : m <= k
      BY <2>7, <3>1, <3>2, <3>3
    <3>6. QED  BY <3>4, <3>5 DEF m
  <2>9. isr' = isr \ {MasterLine(f)}
    <3>1. EndOfInterrupt(Master) = isr \ {MasterLine(f)}
      BY <2>7, <2>8, EndIs
    <3>2. QED  BY <2>1, <3>1
  <2>10. isr' = Ends(frames')
    BY <2>2, <2>6, <2>8, <2>9
  <2>11. QED  BY <1>1, <2>4, <2>10 DEF InService
<1>10. CASE Leave
  <2> DEFINE g == [irq |-> frames[1].irq, at |-> "iret"]
  <2>1. /\ frames # <<>> /\ frames[1].at = "leave" /\ FrameGoto("iret") /\ isr' = isr
    BY <1>10 DEF Leave, InFrame
  <2>2. /\ isr = Unended(frames[1]) \union Rest(frames)
        /\ Ends(frames') = Unended(g) \union Rest(frames)
        /\ frames[1] \in Frame /\ g \in Frame
    BY <1>6, <2>1 DEF Late
  <2>3. g.at = "iret"
    OBVIOUS
  <2> HIDE DEF g
  <2>4. Unended(frames[1]) = {} /\ Unended(g) = {}
    BY <2>1, <2>2, <2>3, UnendedIs DEF Pending
  <2>5. Order'
    BY <1>0, <2>1, OrderKept DEF Pending, Late
  <2>6. QED  BY <1>1, <2>1, <2>2, <2>4, <2>5 DEF InService
<1>11. CASE Iret
  <2>1. /\ frames # <<>> /\ frames[1].at = "iret" /\ frames' = Tail(frames) /\ isr' = isr
    BY <1>11 DEF Iret, InFrame
  <2>2. isr' = Ends(frames')
    BY <1>0, <2>1, PopEnds
  <2>3. /\ DOMAIN frames' = 1 .. Len(frames) - 1 /\ DOMAIN frames = 1 .. Len(frames)
        /\ Len(frames) \in Nat \ {0}
        /\ \A k \in 1 .. Len(frames) - 1 : frames'[k] = frames[k + 1]
    BY <1>0, <2>1, PopFrame
  <2>4. ASSUME NEW j \in DOMAIN frames', NEW k \in DOMAIN frames', j < k,
               frames'[j].at \in Pending, frames'[k].at \in Pending
        PROVE  MasterLine(frames'[j]) < MasterLine(frames'[k])
    <3>1. j + 1 \in DOMAIN frames /\ k + 1 \in DOMAIN frames /\ j + 1 < k + 1
      BY <2>3, <2>4
    <3>2. frames'[j] = frames[j + 1] /\ frames'[k] = frames[k + 1]
      BY <2>3
    <3>3. QED  BY <1>0, <2>4, <3>1, <3>2 DEF Order
  <2>5. Order'
    BY <2>4 DEF Order
  <2>6. QED  BY <1>1, <2>2, <2>5 DEF InService
<1>12. QED
  BY <1>4, <1>5, <1>7, <1>8, <1>9, <1>10, <1>11 DEF Next, Dispatch

-----------------------------------------------------------------------------
(* The line whose bit the software has set and the port has yet to get.     *)
Fresh == IF main.at \in {"read", "write"} THEN {Current} ELSE {}

(* Inside a call the masks agree but for that line, what was read from a    *)
(* port is still what it holds, and the lines already done are open.        *)
Masks ==
    g_irq_initialized = 1 =>
        /\ \A i \in Irq \ (Fresh \union {CASCADE}) : i \in pic_mask <=> i \in g_irq_mask
        /\ CASCADE \in pic_mask /\ CASCADE \notin Fresh => CASCADE \in g_irq_mask
        /\ \A i \in Fresh : i \in g_irq_mask <=> main.op # "enable"
        /\ main.at = "write" => main.mask = Changed(pic_mask \intersect Chip, Current)
        /\ main.at \in {"readCascade", "writeCascade"} => Current \notin pic_mask
        /\ main.at = "writeCascade" => main.mask = (pic_mask \intersect Master) \ {CASCADE}
        /\ main.op = "enable" => \A i \in main.irqs \ main.todo : Open(i)

(* A port access that follows its read changes one bit of the masks.        *)
LEMMA PortIs ==
    ASSUME Types, Calls, Masks, g_irq_initialized = 1
    PROVE  /\ WritePort => /\ main.op = "enable" => pic_mask' = pic_mask \ {Current}
                           /\ main.op # "enable" => pic_mask' = pic_mask \union {Current}
           /\ WriteCascade => pic_mask' = pic_mask \ {CASCADE}
<1>1. pic_mask \subseteq Irq
  BY DEF Types
<1>2. ASSUME WritePort
      PROVE  /\ main.op = "enable" => pic_mask' = pic_mask \ {Current}
             /\ main.op # "enable" => pic_mask' = pic_mask \union {Current}
  <2>1. /\ pic_mask' = (pic_mask \ Chip) \union main.mask
        /\ main.mask = Changed(pic_mask \intersect Chip, Current)
    BY <1>2 DEF WritePort, Masks
  <2>2. Current \in Chip
    <3>1. Current \in Irq
      BY <1>2, CurrentIs DEF WritePort, Calls
    <3>2. QED  BY <3>1 DEF Chip, Master
  <2>3. QED  BY <2>1, <2>2 DEF Changed
<1>3. ASSUME WriteCascade PROVE pic_mask' = pic_mask \ {CASCADE}
  <2>1. pic_mask' = (pic_mask \ Master) \union ((pic_mask \intersect Master) \ {CASCADE})
    BY <1>3 DEF WriteCascade, Masks
  <2>2. QED  BY <2>1, Lines
<1>4. QED  BY <1>2, <1>3

(* Every step of an API call keeps the masks in agreement.                  *)
LEMMA MasksStep == Types /\ Calls /\ Masks /\ [Next]_vars => Masks'
<1> SUFFICES ASSUME Types, Calls, Masks, [Next]_vars, g_irq_initialized' = 1 PROVE Masks'
  BY DEF Masks
<1> USE DEF software, pic, cpu
<1>1. CASE UNCHANGED <<main, g_irq_mask, pic_mask, g_irq_initialized>>
  BY <1>1 DEF Masks, Fresh, Current, Chip, Changed, Slave, Master, Open
<1>2. CASE irq_init
  BY <1>2 DEF irq_init, MayCall, Idle, Masks, Fresh
<1>3. ASSUME NEW op, NEW irqs, Begin(op, irqs) PROVE Masks'
  <2>1. /\ main = Idle /\ main'.at = "update" /\ main'.irqs \ main'.todo = {}
        /\ UNCHANGED <<g_irq_mask, pic_mask>> /\ g_irq_initialized = 1
    BY <1>3 DEF Begin, MayCall
  <2>2. Fresh = {} /\ Fresh' = {}
    BY <2>1 DEF Fresh, Idle
  <2>3. QED  BY <2>1, <2>2 DEF Masks
<1>4. CASE Call
  <2>1. CASE \E op \in {"enable", "disable"}, irqs \in {Irq} \union {{i} : i \in Irq} :
                Begin(op, irqs)
    BY <1>3, <2>1
  <2>2. CASE Begin("shutdown", Irq)
    BY <1>3, <2>2
  <2>3. QED
    BY <1>1, <1>2, <1>4, <2>1, <2>2 DEF Call, interrupts_enable, irq_reset_counts,
       irq_unregister_handler, irq_register_handler
<1>5. CASE Acknowledge \/ Dispatch \/ (\E i \in Device : Raise(i)) \/ UNCHANGED vars
  BY <1>1, <1>5 DEF Acknowledge, Dispatch, irq_dispatch, RunHandler, EoiSlave, EoiMaster,
     Leave, Iret, Raise, vars
<1>6. ASSUME main.at \in {"update", "read", "write", "readCascade", "writeCascade"},
             main'.todo = main.todo
      PROVE  Current' = Current /\ Chip' = Chip
  BY <1>6 DEF Current, Chip, Slave, Master
<1>7. CASE UpdateMask
  <2>1. /\ main.at = "update" /\ main'.at = "read" /\ main'.op = main.op
        /\ main'.todo = main.todo /\ main'.irqs = main.irqs
        /\ g_irq_mask' = Changed(g_irq_mask, Current)
        /\ pic_mask' = pic_mask /\ g_irq_initialized = 1
    BY <1>7 DEF UpdateMask, Types
  <2>2. Fresh = {} /\ Fresh' = {Current} /\ Current' = Current
    BY <1>6, <2>1 DEF Fresh
  <2>3. \A i : i # Current => (i \in g_irq_mask' <=> i \in g_irq_mask)
    BY <2>1 DEF Changed
  <2>4. Current \in g_irq_mask' <=> main.op # "enable"
    BY <2>1 DEF Changed
  <2>5. QED  BY <2>1, <2>2, <2>3, <2>4 DEF Masks, Open, Slave
<1>8. CASE ReadPort
  <2>1. /\ main.at = "read" /\ main'.at = "write" /\ main'.op = main.op
        /\ main'.todo = main.todo /\ main'.irqs = main.irqs
        /\ main'.mask = Changed(pic_mask \intersect Chip, Current)
        /\ UNCHANGED <<g_irq_mask, pic_mask>> /\ g_irq_initialized = 1
    BY <1>8 DEF ReadPort, Types
  <2>2. Fresh = {Current} /\ Fresh' = {Current} /\ Current' = Current /\ Chip' = Chip
    BY <1>6, <2>1 DEF Fresh
  <2>3. Changed(pic_mask \intersect Chip, Current)' = Changed(pic_mask \intersect Chip, Current)
    BY <2>1, <2>2 DEF Changed
  <2>4. QED  BY <2>1, <2>2, <2>3 DEF Masks, Open, Slave
<1>9. CASE WritePort
  <2>1. /\ main.at = "write" /\ main'.op = main.op /\ main'.irqs = main.irqs
        /\ g_irq_mask' = g_irq_mask /\ g_irq_initialized = 1
        /\ \/ /\ main.op = "enable" /\ Current \in Slave
              /\ main'.at = "readCascade" /\ main'.todo = main.todo
           \/ /\ ~(main.op = "enable" /\ Current \in Slave)
              /\ main'.at = "update" /\ main'.todo = main.todo \ {Current}
    BY <1>9 DEF WritePort, Types
  <2>2. /\ Fresh = {Current} /\ Fresh' = {} /\ CASCADE \notin Slave
        /\ main.op = "enable" => pic_mask' = pic_mask \ {Current}
        /\ main.op # "enable" => pic_mask' = pic_mask \union {Current}
    BY <1>9, <2>1, PortIs, Lines DEF Fresh
  <2>3. /\ \A i \in Irq \ {Current, CASCADE} : i \in pic_mask <=> i \in g_irq_mask
        /\ CASCADE \in pic_mask /\ CASCADE # Current => CASCADE \in g_irq_mask
        /\ Current \in g_irq_mask <=> main.op # "enable"
    BY <2>1, <2>2 DEF Masks
  <2>4. /\ \A i \in Irq \ {CASCADE} : i \in pic_mask' <=> i \in g_irq_mask'
        /\ CASCADE \in pic_mask' => CASCADE \in g_irq_mask'
    BY <2>1, <2>2, <2>3
  <2>5. main'.at = "readCascade" => Current' \notin pic_mask'
    <3>1. main'.at = "readCascade" => Current' = Current
      BY <1>6, <2>1
    <3>2. QED  BY <2>1, <2>2, <3>1
  <2>6. ASSUME main'.op = "enable", NEW i \in main'.irqs \ main'.todo PROVE Open(i)'
    <3>1. pic_mask' = pic_mask \ {Current} /\ Slave' = Slave
      BY <2>1, <2>2, <2>6 DEF Slave
    <3>2. CASE i \in main.irqs \ main.todo
      BY <2>1, <2>6, <3>1, <3>2 DEF Masks, Open
    <3>3. CASE i = Current /\ Current \notin Slave
      BY <3>1, <3>3 DEF Open
    <3>4. QED  BY <2>1, <2>6, <3>2, <3>3
  <2>7. QED  BY <2>1, <2>2, <2>4, <2>5, <2>6 DEF Masks
<1>10. CASE ReadCascade
  <2>1. /\ main.at = "readCascade" /\ main'.at = "writeCascade" /\ main'.op = main.op
        /\ main'.todo = main.todo /\ main'.irqs = main.irqs
        /\ main'.mask = (pic_mask \intersect Master) \ {CASCADE}
        /\ UNCHANGED <<g_irq_mask, pic_mask>> /\ g_irq_initialized = 1
    BY <1>10 DEF ReadCascade, Types
  <2>2. Fresh = {} /\ Fresh' = {} /\ Current' = Current /\ Master' = Master
    BY <1>6, <2>1 DEF Fresh, Master, Slave
  <2>3. QED  BY <2>1, <2>2 DEF Masks, Open, Slave
<1>11. CASE WriteCascade
  <2>1. /\ main.at = "writeCascade" /\ main'.at = "update" /\ main'.op = main.op
        /\ main'.todo = main.todo \ {Current} /\ main'.irqs = main.irqs
        /\ g_irq_mask' = g_irq_mask /\ g_irq_initialized = 1
    BY <1>11 DEF WriteCascade, Types
  <2>2. pic_mask' = pic_mask \ {CASCADE} /\ Fresh = {} /\ Fresh' = {}
    BY <1>11, <2>1, PortIs DEF Fresh
  <2>3. Current \notin pic_mask
    BY <2>1 DEF Masks
  <2>4. ASSUME main'.op = "enable", NEW i \in main'.irqs \ main'.todo PROVE Open(i)'
    <3>1. CASE i \in main.irqs \ main.todo
      BY <2>1, <2>2, <2>4, <3>1 DEF Masks, Open, Slave
    <3>2. CASE i = Current
      BY <2>2, <2>3, <3>2 DEF Open
    <3>3. QED  BY <2>1, <2>4, <3>1, <3>2
  <2>5. QED  BY <2>1, <2>2, <2>4 DEF Masks
<1>12. CASE Finish \/ Return
  <2>1. /\ main.at \in {"update", "return"} /\ main'.at \in {"return", "idle"}
        /\ UNCHANGED <<g_irq_mask, pic_mask>>
        /\ main'.op = "enable" => main.op = "enable" /\ main'.irqs = main.irqs
                                  /\ main'.todo = main.todo
    BY <1>12 DEF Finish, Return, Idle, Types
  <2>2. g_irq_initialized = 1
    BY <1>12 DEF Finish, Return
  <2>3. Fresh = {} /\ Fresh' = {}
    BY <2>1 DEF Fresh
  <2>4. QED  BY <2>1, <2>2, <2>3 DEF Masks, Open, Slave
<1>13. CASE MainStep
  BY <1>7, <1>8, <1>9, <1>10, <1>11, <1>12, <1>13 DEF MainStep
<1>14. QED  BY <1>4, <1>5, <1>13 DEF Next

-----------------------------------------------------------------------------
(* The EOIs that are still to come are for what is in service: whatever     *)
(* interrupts whatever, no EOI ends another interrupt's line.               *)
THEOREM InServiceHolds == Spec => []InServiceMatchesFrames
<1>1. Init => InService
  BY DEF Init, InService, Order, InServiceMatchesFrames
<1>2. Typed /\ InService /\ [Next]_vars => InService'
  BY InServiceStep DEF Typed
<1>3. InService => InServiceMatchesFrames
  BY DEF InService
<1>4. QED  BY <1>1, <1>2, <1>3, TypedAlways, PTL DEF Spec

(* Between calls irq_is_enabled tells the truth, and the lines that a call  *)
(* was to enable are open when it returns, whatever order they came in.     *)
THEOREM MaskAgreesHolds == Spec => []MaskAgrees
<1>1. Init => Masks
  BY DEF Init, Masks
<1>2. Typed /\ Masks /\ [Next]_vars => Masks'
  BY MasksStep DEF Typed
<1>3. Typed /\ Masks => MaskAgrees
  <2> SUFFICES ASSUME Types, Calls, Masks, g_irq_initialized = 1, main.at \in {"idle", "return"}
               PROVE  /\ pic_mask \ {CASCADE} = g_irq_mask \ {CASCADE}
                      /\ CASCADE \in pic_mask => CASCADE \in g_irq_mask
                      /\ main.op = "enable" => \A i \in main.irqs : Open(i)
    BY DEF Typed, MaskAgrees
  <2>1. Fresh = {} /\ pic_mask \subseteq Irq /\ g_irq_mask \subseteq Irq
    BY DEF Fresh, Types
  <2>2. main.op = "enable" => main.todo = {}
    BY DEF Calls, Idle
  <2>3. QED  BY <2>1, <2>2 DEF Masks
<1>4. QED  BY <1>1, <1>2, <1>3, TypedAlways, PTL DEF Spec
=============================================================================
