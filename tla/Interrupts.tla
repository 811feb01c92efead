----------------------------- MODULE Interrupts -----------------------------
(***************************************************************************)
(* arch/x86_64/idt/irq: handlers, masks and dispatch of the hardware        *)
(* interrupts of one CPU, over its two 8259 interrupt controllers.          *)
(*                                                                          *)
(* The main line calls the API, one step per access to g_irq_mask or to a   *)
(* PIC port; interrupts come between its steps once it has run sti. A       *)
(* handler runs with interrupts off unless it switches them on itself,      *)
(* which is what the nesting limit of irq_dispatch is there for. Handlers   *)
(* do not call the API: none of the kernel's does.                          *)
(***************************************************************************)
EXTENDS Integers, Sequences, FiniteSetsExt

CONSTANTS
    Irq,            \* the interrupt lines that exist, of 0 .. IRQ_COUNT - 1
    MAX_IRQ_DEPTH,  \* nested dispatches that still run their handler
    MaxRaised       \* bound: requests the devices make altogether

CASCADE == 2        \* the master's input that the slave is wired to

ASSUME InterruptsAssumption ==
    /\ Irq \subseteq 0 .. 15
    /\ CASCADE \in Irq
    /\ MAX_IRQ_DEPTH \in Nat \ {0}
    /\ MaxRaised \in Nat

Slave == {i \in Irq : i >= 8}
Master == Irq \ Slave
Device == Irq \ {CASCADE}

(* nullptr, a handler that leaves interrupts off, one that runs sti.        *)
Handler == {"none", "plain", "sti"}

VARIABLES
    g_irq_initialized,
    g_irq_handlers,
    g_irq_counts,
    g_irq_mask,         \* the lines the software holds for disabled
    g_irq_stack_depth,
    main,               \* the API call of the main line
    frames,             \* the interrupt frames on the stack, innermost first
    if_flag,            \* the CPU's interrupt flag
    pic_mask, irr, isr, \* both 8259s: lines masked, requested, in service
    raised              \* requests made so far

software == <<g_irq_initialized, g_irq_handlers, g_irq_counts, g_irq_mask>>
pic == <<pic_mask, irr, isr>>
cpu == <<g_irq_stack_depth, frames, if_flag>>
vars == <<software, main, cpu, pic, raised>>

Idle == [op |-> "none", irqs |-> {}, todo |-> {}, at |-> "idle", mask |-> {}]

TypeOK ==
    /\ g_irq_initialized \in 0 .. 1
    /\ g_irq_handlers \in [Irq -> Handler]
    /\ g_irq_counts \in [Irq -> 0 .. MaxRaised]
    /\ g_irq_mask \subseteq Irq
    /\ g_irq_stack_depth \in 0 .. MaxRaised
    /\ main \in [op : {"none", "enable", "disable", "shutdown"},
                 irqs : SUBSET Irq, todo : SUBSET Irq, mask : SUBSET Irq,
                 at : {"idle", "update", "read", "write", "readCascade",
                       "writeCascade", "return"}]
    /\ frames \in Seq([irq : Irq, at : {"enter", "handler", "eoi", "eoiMaster",
                                        "leave", "iret"}])
    /\ if_flag \in BOOLEAN
    /\ pic_mask \subseteq Irq /\ irr \subseteq Device /\ isr \subseteq Irq
    /\ raised \in 0 .. MaxRaised

(* The firmware left the controllers as it liked, and g_irq_mask is zeroed  *)
(* like all of the BSS; interrupts are off.                                 *)
Init ==
    /\ g_irq_initialized = 0
    /\ g_irq_handlers = [i \in Irq |-> "none"]
    /\ g_irq_counts = [i \in Irq |-> 0]
    /\ g_irq_mask = {}
    /\ g_irq_stack_depth = 0
    /\ main = Idle
    /\ frames = <<>>
    /\ if_flag = FALSE
    /\ pic_mask \in {{}, Irq}
    /\ irr \in SUBSET Device
    /\ isr = {}
    /\ raised = 0

MayCall == main = Idle /\ frames = <<>>

-----------------------------------------------------------------------------
(* irq_init, called with interrupts off. ICW1 drops what was requested or   *)
(* in service; irq_masks_init then masks every line.                        *)
irq_init ==
    /\ MayCall /\ ~if_flag
    /\ g_irq_handlers' = [i \in Irq |-> "none"]
    /\ g_irq_counts' = [i \in Irq |-> 0]
    /\ g_irq_mask' = Irq
    /\ g_irq_initialized' = 1
    /\ pic_mask' = Irq /\ irr' = {} /\ isr' = {}
    /\ UNCHANGED <<main, cpu, raised>>

interrupts_enable ==
    /\ MayCall /\ g_irq_initialized = 1
    /\ ~if_flag /\ if_flag' = TRUE
    /\ UNCHANGED <<software, main, g_irq_stack_depth, frames, pic, raised>>

irq_register_handler(i, h) ==
    /\ MayCall /\ h # "none"
    /\ g_irq_handlers' = [g_irq_handlers EXCEPT ![i] = h]
    /\ UNCHANGED <<g_irq_initialized, g_irq_counts, g_irq_mask, main, cpu, pic, raised>>

irq_unregister_handler(i) ==
    /\ MayCall
    /\ g_irq_handlers' = [g_irq_handlers EXCEPT ![i] = "none"]
    /\ UNCHANGED <<g_irq_initialized, g_irq_counts, g_irq_mask, main, cpu, pic, raised>>

irq_reset_counts ==
    /\ MayCall
    /\ g_irq_counts' = [i \in Irq |-> 0]
    /\ UNCHANGED <<g_irq_initialized, g_irq_handlers, g_irq_mask, main, cpu, pic, raised>>

(* irq_enable and irq_disable of one line, irq_enable_all, irq_disable_all  *)
(* and irq_shutdown: the lines of irqs one after the other, lowest first.   *)
(* Callers have called irq_init; the functions do not ask.                  *)
Begin(op, irqs) ==
    /\ MayCall /\ g_irq_initialized = 1
    /\ main' = [op |-> op, irqs |-> irqs, todo |-> irqs, at |-> "update", mask |-> {}]
    /\ UNCHANGED <<software, cpu, pic, raised>>

Current == Min(main.todo)
Chip == IF Current \in Slave THEN Slave ELSE Master
Changed(mask, i) == IF main.op = "enable" THEN mask \ {i} ELSE mask \union {i}

UpdateMask ==
    /\ main.at = "update" /\ main.todo # {}
    /\ g_irq_mask' = Changed(g_irq_mask, Current)
    /\ main' = [main EXCEPT !.at = "read"]
    /\ UNCHANGED <<g_irq_initialized, g_irq_handlers, g_irq_counts, cpu, pic, raised>>

ReadPort ==
    /\ main.at = "read"
    /\ main' = [main EXCEPT !.at = "write", !.mask = Changed(pic_mask \intersect Chip, Current)]
    /\ UNCHANGED <<software, cpu, pic, raised>>

(* Mutant: a slave line is unmasked on the slave only.                      *)
WriteOneChip ==
    /\ main.at = "write"
    /\ pic_mask' = (pic_mask \ Chip) \union main.mask
    /\ main' = [main EXCEPT !.mask = {}, !.at = "update", !.todo = @ \ {Current}]
    /\ UNCHANGED <<software, cpu, irr, isr, raised>>

(* A slave line is useless with the cascade masked: enabling one opens it.  *)
WritePort ==
    /\ main.at = "write"
    /\ pic_mask' = (pic_mask \ Chip) \union main.mask
    /\ main' = IF main.op = "enable" /\ Current \in Slave
               THEN [main EXCEPT !.mask = {}, !.at = "readCascade"]
               ELSE [main EXCEPT !.mask = {}, !.at = "update", !.todo = @ \ {Current}]
    /\ UNCHANGED <<software, cpu, irr, isr, raised>>

ReadCascade ==
    /\ main.at = "readCascade"
    /\ main' = [main EXCEPT !.at = "writeCascade",
                            !.mask = (pic_mask \intersect Master) \ {CASCADE}]
    /\ UNCHANGED <<software, cpu, pic, raised>>

WriteCascade ==
    /\ main.at = "writeCascade"
    /\ pic_mask' = (pic_mask \ Master) \union main.mask
    /\ main' = [main EXCEPT !.mask = {}, !.at = "update", !.todo = @ \ {Current}]
    /\ UNCHANGED <<software, cpu, irr, isr, raised>>

(* irq_shutdown forgets the handlers once every line is masked.             *)
Finish ==
    /\ main.at = "update" /\ main.todo = {}
    /\ main' = [main EXCEPT !.at = "return"]
    /\ IF main.op = "shutdown"
       THEN g_irq_handlers' = [i \in Irq |-> "none"] /\ g_irq_initialized' = 0
       ELSE UNCHANGED <<g_irq_handlers, g_irq_initialized>>
    /\ UNCHANGED <<g_irq_counts, g_irq_mask, cpu, pic, raised>>

Return ==
    /\ main.at = "return"
    /\ main' = Idle
    /\ UNCHANGED <<software, cpu, pic, raised>>

-----------------------------------------------------------------------------
(* The 8259s: the lowest line of a chip comes first, and only a line below  *)
(* those in service interrupts; an unmasked slave line asks on the cascade. *)
Asking(requests, chip) ==
    {i \in (requests \intersect chip) \ pic_mask : \A j \in isr \intersect chip : i < j}
SlaveAsks == Asking(irr, Slave)
MasterAsks ==
    Asking(irr \union (IF SlaveAsks = {} THEN {} ELSE {CASCADE}), Master)
EndOfInterrupt(chip) ==
    IF isr \intersect chip = {} THEN isr ELSE isr \ {Min(isr \intersect chip)}

Raise(i) ==
    /\ i \notin irr /\ raised < MaxRaised
    /\ irr' = irr \union {i}
    /\ raised' = raised + 1
    /\ UNCHANGED <<software, main, cpu, pic_mask, isr>>

(* The CPU acknowledges and enters the stub through an interrupt gate.      *)
Acknowledge ==
    /\ if_flag /\ MasterAsks # {}
    /\ LET line == Min(MasterAsks)
           i == IF line = CASCADE THEN Min(SlaveAsks) ELSE line
       IN /\ irr' = irr \ {i}
          /\ isr' = isr \union {line, i}
          /\ frames' = <<[irq |-> i, at |-> "enter"]>> \o frames
    /\ if_flag' = FALSE
    /\ UNCHANGED <<software, main, g_irq_stack_depth, pic_mask, raised>>

-----------------------------------------------------------------------------
(* irq_dispatch, in the innermost frame.                                    *)
InFrame(l) == frames # <<>> /\ frames[1].at = l
FrameGoto(l) == frames' = [frames EXCEPT ![1].at = l]
ThisIrq == frames[1].irq

(* Mutant: the nesting limit is tested with the depth before this frame.    *)
DispatchTooDeep ==
    /\ InFrame("enter")
    /\ g_irq_stack_depth' = g_irq_stack_depth + 1
    /\ IF g_irq_stack_depth > MAX_IRQ_DEPTH
       THEN FrameGoto("eoi") /\ UNCHANGED g_irq_counts
       ELSE /\ g_irq_counts' = [g_irq_counts EXCEPT ![ThisIrq] = @ + 1]
            /\ FrameGoto(IF g_irq_handlers[ThisIrq] = "none" THEN "eoi" ELSE "handler")
    /\ UNCHANGED <<g_irq_initialized, g_irq_handlers, g_irq_mask, main, if_flag, pic, raised>>

(* Mutant: a dispatch beyond the limit returns without an EOI.              *)
DispatchNoEoi ==
    /\ InFrame("enter")
    /\ g_irq_stack_depth' = g_irq_stack_depth + 1
    /\ IF g_irq_stack_depth' > MAX_IRQ_DEPTH
       THEN FrameGoto("leave") /\ UNCHANGED g_irq_counts
       ELSE /\ g_irq_counts' = [g_irq_counts EXCEPT ![ThisIrq] = @ + 1]
            /\ FrameGoto(IF g_irq_handlers[ThisIrq] = "none" THEN "eoi" ELSE "handler")
    /\ UNCHANGED <<g_irq_initialized, g_irq_handlers, g_irq_mask, main, if_flag, pic, raised>>

(* The depth is counted; beyond the limit the handler is skipped.           *)
irq_dispatch ==
    /\ InFrame("enter")
    /\ g_irq_stack_depth' = g_irq_stack_depth + 1
    /\ IF g_irq_stack_depth' > MAX_IRQ_DEPTH
       THEN FrameGoto("eoi") /\ UNCHANGED g_irq_counts
       ELSE /\ g_irq_counts' = [g_irq_counts EXCEPT ![ThisIrq] = @ + 1]
            /\ FrameGoto(IF g_irq_handlers[ThisIrq] = "none" THEN "eoi" ELSE "handler")
    /\ UNCHANGED <<g_irq_initialized, g_irq_handlers, g_irq_mask, main, if_flag, pic, raised>>

(* The handler may switch interrupts on and leave them on.                  *)
RunHandler ==
    /\ InFrame("handler")
    /\ if_flag' = (g_irq_handlers[ThisIrq] = "sti")
    /\ FrameGoto("eoi")
    /\ UNCHANGED <<software, main, g_irq_stack_depth, pic, raised>>

(* Mutant: only the master is told.                                         *)
EoiMasterOnly ==
    /\ InFrame("eoi")
    /\ isr' = isr
    /\ FrameGoto("eoiMaster")
    /\ UNCHANGED <<software, main, g_irq_stack_depth, if_flag, pic_mask, irr, raised>>

(* irq_send_eoi: the slave first, if the line is one of its.                *)
EoiSlave ==
    /\ InFrame("eoi")
    /\ isr' = IF ThisIrq \in Slave THEN EndOfInterrupt(Slave) ELSE isr
    /\ FrameGoto("eoiMaster")
    /\ UNCHANGED <<software, main, g_irq_stack_depth, if_flag, pic_mask, irr, raised>>

EoiMaster ==
    /\ InFrame("eoiMaster")
    /\ isr' = EndOfInterrupt(Master)
    /\ FrameGoto("leave")
    /\ UNCHANGED <<software, main, g_irq_stack_depth, if_flag, pic_mask, irr, raised>>

(* Mutant: a dispatch beyond the limit takes its count back twice.          *)
LeaveTwice ==
    /\ InFrame("leave")
    /\ g_irq_stack_depth' = g_irq_stack_depth - (IF g_irq_stack_depth > MAX_IRQ_DEPTH THEN 2 ELSE 1)
    /\ FrameGoto("iret")
    /\ UNCHANGED <<software, main, if_flag, pic, raised>>

Leave ==
    /\ InFrame("leave")
    /\ g_irq_stack_depth' = g_irq_stack_depth - 1
    /\ FrameGoto("iret")
    /\ UNCHANGED <<software, main, if_flag, pic, raised>>

(* iretq restores the flag of the code interrupted, which was on.           *)
Iret ==
    /\ InFrame("iret")
    /\ frames' = Tail(frames)
    /\ if_flag' = TRUE
    /\ UNCHANGED <<software, main, g_irq_stack_depth, pic, raised>>

-----------------------------------------------------------------------------
Dispatch ==
    irq_dispatch \/ RunHandler \/ EoiSlave \/ EoiMaster \/ Leave \/ Iret

(* A step of the main line inside an API call.                              *)
MainStep ==
    /\ frames = <<>>
    /\ \/ UpdateMask
       \/ ReadPort
       \/ WritePort
       \/ ReadCascade
       \/ WriteCascade
       \/ Finish
       \/ Return

Call ==
    \/ irq_init
    \/ interrupts_enable
    \/ irq_reset_counts
    \/ \E i \in Device : irq_unregister_handler(i)
    \/ \E i \in Device, h \in Handler : irq_register_handler(i, h)
    \/ \E op \in {"enable", "disable"}, irqs \in {Irq} \union {{i} : i \in Irq} :
           Begin(op, irqs)
    \/ Begin("shutdown", Irq)

Next ==
    \/ Call
    \/ MainStep
    \/ Acknowledge
    \/ Dispatch
    \/ \E i \in Device : Raise(i)

Spec == Init /\ [][Next]_vars

(* The CPU keeps executing; the devices and the main line need not call.    *)
FairSpec == Spec /\ WF_vars(MainStep) /\ WF_vars(Acknowledge) /\ WF_vars(Dispatch)

-----------------------------------------------------------------------------
(* What is in service is what the frames on the stack have yet to end: no   *)
(* EOI goes to another interrupt's line, none is forgotten, and the slave's *)
(* is in service on both chips until its own part is ended (HIGH-001).      *)
Unended(f) ==
    CASE f.at \in {"enter", "handler", "eoi"} /\ f.irq \in Slave -> {f.irq, CASCADE}
      [] f.at \in {"enter", "handler", "eoi"} /\ f.irq \in Master -> {f.irq}
      [] f.at = "eoiMaster" /\ f.irq \in Slave -> {CASCADE}
      [] f.at = "eoiMaster" /\ f.irq \in Master -> {f.irq}
      [] OTHER -> {}
InServiceMatchesFrames ==
    isr = UNION {Unended(frames[k]) : k \in DOMAIN frames}

(* g_irq_stack_depth counts the dispatches under way, one at most is beyond *)
(* the limit, and never more than MAX_IRQ_DEPTH of them run or have run     *)
(* their handler, however handlers nest (CRIT-002). Frames past the         *)
(* decrement and before iretq are not counted by the code.                  *)
Depth == Quantify(DOMAIN frames, LAMBDA k : frames[k].at \notin {"enter", "iret"})
DepthBounded ==
    /\ g_irq_stack_depth = Depth
    /\ Depth <= MAX_IRQ_DEPTH + 1
    /\ Quantify(DOMAIN frames, LAMBDA k : frames[k].at = "handler") <= MAX_IRQ_DEPTH
    /\ InFrame("handler") => Depth <= MAX_IRQ_DEPTH

(* Between calls irq_is_enabled tells the truth about each line's own bit;  *)
(* for the cascade only that a line reported enabled is open. When a call   *)
(* enables lines, each of them reaches the CPU by the time it returns, so a *)
(* slave line needs no separate irq_enable(2) (MED-006).                    *)
Open(i) == i \notin pic_mask /\ (i \in Slave => CASCADE \notin pic_mask)
MaskAgrees ==
    g_irq_initialized = 1 /\ main.at \in {"idle", "return"} =>
        /\ pic_mask \ {CASCADE} = g_irq_mask \ {CASCADE}
        /\ CASCADE \in pic_mask => CASCADE \in g_irq_mask
        /\ main.op = "enable" => \A i \in main.irqs : Open(i)

(* A request on an open line is served, once the kernel has run sti, unless *)
(* the line is masked first: no line stays in service and no flag off.      *)
PendingServed ==
    \A i \in Device :
        LET Waiting == i \in irr /\ Open(i) /\ (if_flag \/ frames # <<>>)
        IN Waiting ~> ~Waiting
=============================================================================
