------------------------------ MODULE Console ------------------------------
(***************************************************************************)
(* The kernel's output: core/log and core/panic over the serial and the VGA *)
(* driver, each behind a spinlock, with the interrupts, breakpoints, faults *)
(* and panics that cut into it.                                             *)
(*                                                                          *)
(* Each CPU has a stack of frames: the main line and the handlers on top of *)
(* it. A frame runs the instructions of one call, on locks and devices. The *)
(* loop of spinlock_acquire and its saved flag are as in Spinlock, with the *)
(* compare-and-swap and the store of the flag in one step. A run of writes  *)
(* to one device under one lock each, as the panic screens make, is one.    *)
(***************************************************************************)
EXTENDS Naturals, Sequences, FiniteSets

CONSTANTS
    CPU,        \* the processors
    MaxFrames,  \* bound: how deep handlers may nest, with a fault on top
    Misuse      \* uses the code does not stand, and yet does not exclude

ASSUME ConsoleAssumption ==
    /\ MaxFrames \in Nat \ {0}
    /\ Misuse \subseteq {"fault in VGA output", "write inside serial_lock"}

Lock == {"log", "serial", "vga"}
NoLock == "none"

VARIABLES
    locked,             \* spinlock_t.locked
    interrupts_enabled, \* spinlock_t.interrupts_enabled
    iflag,              \* RFLAGS.IF of each CPU
    stack,              \* the frames of each CPU, the running one last
    online              \* the CPUs that have been started

vars == <<locked, interrupts_enabled, iflag, stack, online>>

-----------------------------------------------------------------------------
(* The code, as sequences of instructions.                                  *)
Instruction ==
    ({"cli_save", "take", "write", "reset", "unlock", "force_unlock"} \X Lock)
        \union ({"cli", "halt"} \X {NoLock})

Acquire(l) == << <<"cli_save", l>>, <<"take", l>> >>
Release(l) == << <<"reset", l>>, <<"unlock", l>> >>
Locked(l, code) == Acquire(l) \o code \o Release(l)
Write(l) == << <<"write", l>> >>
cli == << <<"cli", NoLock>> >>
hlt == << <<"halt", NoLock>> >>
serial_force_unlock == << <<"force_unlock", "serial">> >>

vga_put_string == Locked("vga", Write("vga"))

(* Mutant: a transmit timeout is reported on the screen, lock held.         *)
serial_write_strWarns == Locked("serial", Write("serial") \o vga_put_string)

serial_write_str == Locked("serial", Write("serial"))

(* A section between vga_begin_atomic and vga_end_atomic, with a serial call *)
(* in it, and one between serial_lock and serial_unlock.                    *)
vga_atomic == Locked("vga", serial_write_str)
serial_atomic == Locked("serial", serial_write_str)

write_output == serial_write_str \o vga_put_string

(* Mutant: a log line is written without the log lock.                      *)
log_outputUnlocked == write_output

log_output == Locked("log", write_output)

(* log_output at level PANIC.                                               *)
log_panic == log_output \o cli \o hlt

(* Mutant: the lock is opened only once the first line has been tried.      *)
panicOpensLate == cli \o serial_write_str \o serial_force_unlock \o write_output \o hlt

(* panic, and default_exception_handler of every exception but #BP.         *)
panic == cli \o serial_force_unlock \o write_output \o hlt

Fatal == {log_panic, panic}

Calls ==
    {serial_write_str, vga_put_string, vga_atomic, log_output} \union Fatal
        \union {f \in {serial_atomic} : "write inside serial_lock" \in Misuse}

(* What an interrupt handler prints: a line to the serial port, as          *)
(* irq_dispatch does, or a log line.                                        *)
HandlerCalls == {serial_write_str, log_output}

-----------------------------------------------------------------------------
(* A frame: its call, the next instruction, int_state or was_enabled of the *)
(* lock operation in progress, and the flag that iretq will restore.        *)
Frame == [call : Seq(Instruction), pc : Nat \ {0}, flag : BOOLEAN, saved : BOOLEAN]
NewFrame(call, saved) == [call |-> call, pc |-> 1, flag |-> FALSE, saved |-> saved]
Idle == <<NewFrame(<<>>, TRUE)>>

Top(c) == stack[c][Len(stack[c])]
Past(f, i) == \E n \in 1 .. f.pc - 1 : f.call[n] = i
Ahead(f, i) == \E n \in f.pc .. Len(f.call) : f.call[n] = i
At(c, op, l) == Top(c).pc <= Len(Top(c).call) /\ Top(c).call[Top(c).pc] = <<op, l>>

(* The frame has taken the lock and has still to release it.                *)
Holds(f, l) == Past(f, <<"take", l>>) /\ Ahead(f, <<"unlock", l>>)
CpuHolds(c, l) == \E n \in DOMAIN stack[c] : Holds(stack[c][n], l)

Halted(c) == At(c, "halt", NoLock)

(* kernel_main with interrupts enabled and all drivers initialised.         *)
Init ==
    /\ locked = [l \in Lock |-> 0]
    /\ interrupts_enabled = [l \in Lock |-> FALSE]
    /\ iflag = [c \in CPU |-> TRUE]
    /\ stack = [c \in CPU |-> Idle]
    /\ online \in SUBSET CPU \ {{}}

-----------------------------------------------------------------------------
(* The running frame goes on, with flag in its local.                       *)
Advance(c, flag) ==
    LET f == Top(c)
    IN  stack' = [stack EXCEPT ![c][Len(stack[c])] = [f EXCEPT !.pc = f.pc + 1, !.flag = flag]]

CliSave(c, l) ==
    /\ At(c, "cli_save", l)
    /\ Advance(c, iflag[c])
    /\ iflag' = [iflag EXCEPT ![c] = FALSE]
    /\ UNCHANGED <<locked, interrupts_enabled, online>>

(* Mutant: the winner only ever sets the stored flag.                       *)
TakeOrsFlag(c, l) ==
    /\ At(c, "take", l)
    /\ locked[l] = 0
    /\ locked' = [locked EXCEPT ![l] = 1]
    /\ interrupts_enabled' = [interrupts_enabled EXCEPT ![l] = @ \/ Top(c).flag]
    /\ Advance(c, FALSE)
    /\ UNCHANGED <<iflag, online>>

(* Mutant: the lock word is incremented whatever it is.                     *)
TakeBlind(c, l) ==
    /\ At(c, "take", l)
    /\ locked' = [locked EXCEPT ![l] = @ + 1]
    /\ interrupts_enabled' = [interrupts_enabled EXCEPT ![l] = Top(c).flag]
    /\ Advance(c, FALSE)
    /\ UNCHANGED <<iflag, online>>

Take(c, l) ==
    /\ At(c, "take", l)
    /\ locked[l] = 0
    /\ locked' = [locked EXCEPT ![l] = 1]
    /\ interrupts_enabled' = [interrupts_enabled EXCEPT ![l] = Top(c).flag]
    /\ Advance(c, FALSE)
    /\ UNCHANGED <<iflag, online>>

WriteDevice(c, l) ==
    /\ At(c, "write", l)
    /\ Advance(c, FALSE)
    /\ UNCHANGED <<locked, interrupts_enabled, iflag, online>>

Reset(c, l) ==
    /\ At(c, "reset", l)
    /\ Advance(c, interrupts_enabled[l])
    /\ interrupts_enabled' = [interrupts_enabled EXCEPT ![l] = FALSE]
    /\ UNCHANGED <<locked, iflag, online>>

Unlock(c, l) ==
    /\ At(c, "unlock", l)
    /\ locked' = [locked EXCEPT ![l] = 0]
    /\ iflag' = [iflag EXCEPT ![c] = @ \/ Top(c).flag]
    /\ Advance(c, FALSE)
    /\ UNCHANGED <<interrupts_enabled, online>>

(* Mutant: the fatal path goes on with interrupts enabled.                  *)
CliForgotten(c) ==
    /\ At(c, "cli", NoLock)
    /\ Advance(c, FALSE)
    /\ UNCHANGED <<locked, interrupts_enabled, iflag, online>>

Cli(c) ==
    /\ At(c, "cli", NoLock)
    /\ iflag' = [iflag EXCEPT ![c] = FALSE]
    /\ Advance(c, FALSE)
    /\ UNCHANGED <<locked, interrupts_enabled, online>>

ForceUnlock(c) ==
    /\ At(c, "force_unlock", "serial")
    /\ locked' = [locked EXCEPT !["serial"] = 0]
    /\ Advance(c, FALSE)
    /\ UNCHANGED <<interrupts_enabled, iflag, online>>

(* The call is over: the main line goes on, or iretq resumes the frame below. *)
Return(c) ==
    /\ Top(c).pc > Len(Top(c).call)
    /\ stack[c] # Idle
    /\ iflag' = IF Len(stack[c]) = 1 THEN iflag ELSE [iflag EXCEPT ![c] = Top(c).saved]
    /\ stack' = [stack EXCEPT ![c] = IF Len(@) = 1 THEN Idle ELSE SubSeq(@, 1, Len(@) - 1)]
    /\ UNCHANGED <<locked, interrupts_enabled, online>>

-----------------------------------------------------------------------------
(* Fatal code runs while no other CPU does, as on the one CPU the kernel    *)
(* starts.                                                                  *)
Alone(c) == online = {c}

(* The main line calls one of the output functions.                         *)
Call(c, code) ==
    /\ stack[c] = Idle
    /\ code \in Fatal => Alone(c)
    /\ stack' = [stack EXCEPT ![c] = <<NewFrame(code, TRUE)>>]
    /\ UNCHANGED <<locked, interrupts_enabled, iflag, online>>

(* A handler starts on top of the running frame, through an interrupt gate. *)
Enter(c, code) ==
    /\ stack' = [stack EXCEPT ![c] = Append(@, NewFrame(code, iflag[c]))]
    /\ iflag' = [iflag EXCEPT ![c] = FALSE]
    /\ UNCHANGED <<locked, interrupts_enabled, online>>

Interrupt(c, code) ==
    /\ iflag[c]
    /\ Len(stack[c]) < MaxFrames
    /\ Enter(c, code)

(* int3, in code that is not fatal itself, does not hold the serial lock and *)
(* is not the loop that waits for a lock.                                   *)
Breakpoint(c) ==
    /\ \A l \in Lock : ~At(c, "take", l)
    /\ \A n \in DOMAIN stack[c] : stack[c][n].call \notin Fatal
    /\ ~CpuHolds(c, "serial")
    /\ Len(stack[c]) < MaxFrames
    /\ Enter(c, serial_write_str)

(* Any other exception, an NMI included, unless the CPU has already halted. *)
Fault(c) ==
    /\ Alone(c)
    /\ ~Halted(c)
    /\ Len(stack[c]) <= MaxFrames
    /\ CpuHolds(c, "vga") => "fault in VGA output" \in Misuse
    /\ Enter(c, panic)

-----------------------------------------------------------------------------
Step(c) ==
    \/ \E l \in Lock : \/ CliSave(c, l)
                       \/ Take(c, l)
                       \/ WriteDevice(c, l)
                       \/ Reset(c, l)
                       \/ Unlock(c, l)
    \/ Cli(c)
    \/ ForceUnlock(c)
    \/ Return(c)

Next ==
    \E c \in online :
        \/ Step(c)
        \/ \E code \in Calls : Call(c, code)
        \/ \E code \in HandlerCalls : Interrupt(c, code)
        \/ Breakpoint(c)
        \/ Fault(c)

(* A CPU goes on with the frame it is in, at whatever depth: handlers leave *)
(* the interrupted code time, and a frame that finds a lock free again and  *)
(* again takes it (as FairSpec of Spinlock).                                *)
Fairness ==
    \A c \in CPU, depth \in 1 .. MaxFrames + 1 :
        SF_vars(c \in online /\ Len(stack[c]) = depth /\ Step(c))

Spec == Init /\ [][Next]_vars /\ Fairness

-----------------------------------------------------------------------------
(* Type correctness: the variables keep the types of their declarations.    *)
TypeOK ==
    /\ locked \in [Lock -> {0, 1}]
    /\ interrupts_enabled \in [Lock -> BOOLEAN]
    /\ iflag \in [CPU -> BOOLEAN]
    /\ stack \in [CPU -> Seq(Frame)]
    /\ \A c \in CPU : Len(stack[c]) \in 1 .. MaxFrames + 1
    /\ online \in SUBSET CPU \ {{}}

(* Both devices show the log lines in one order: never are two lines out on *)
(* the serial port and not yet on the screen. That is what the log lock is  *)
(* for, each device having one of its own (log_output).                     *)
HalfLogged(f) ==
    /\ f.call \in {log_output, log_panic}
    /\ Past(f, <<"write", "serial">>)
    /\ Ahead(f, <<"write", "vga">>)
LogLinesInOrder ==
    \A c, d \in CPU : \A n \in DOMAIN stack[c], m \in DOMAIN stack[d] :
        HalfLogged(stack[c][n]) /\ HalfLogged(stack[d][m]) => c = d /\ n = m

(* The frames that will run again: those with no fatal frame above them.    *)
Live(c) ==
    {n \in DOMAIN stack[c] : \A m \in n + 1 .. Len(stack[c]) : stack[c][m].call \notin Fatal}

(* From the moment panic or an exception handler has forced the serial lock *)
(* open nobody takes it first: it stays free until the fatal code acquires  *)
(* it (the first precondition of serial_force_unlock).                      *)
ForcedLockStaysFree ==
    \A c \in CPU : \A n \in Live(c) :
        LET f == stack[c][n]
        IN  Past(f, <<"force_unlock", "serial">>) /\ ~Past(f, <<"take", "serial">>)
                => locked["serial"] = 0

(* Fatal code that has disabled interrupts never runs with interrupts       *)
(* enabled again, though it goes through locks whose saved flag the frame   *)
(* it interrupted has set (panic: "Must disable interrupts before any       *)
(* output").                                                                *)
FatalStaysMasked ==
    \A c \in CPU : \A n \in Live(c) :
        stack[c][n].call \in Fatal /\ Past(stack[c][n], <<"cli", NoLock>>) => ~iflag[c]

(* Fatal code writes its message to both devices and halts, whatever it     *)
(* interrupted: no lock stops it for good (panic, default_exception_handler *)
(* and log_output at level PANIC).                                          *)
FatalReports == \A c \in CPU : (Top(c).call \in Fatal) ~> Halted(c)

(* Every call of the main line returns, whatever handlers interrupt it and  *)
(* whatever the other CPU prints, unless fatal code ends the system: the    *)
(* locks are always taken in the order log, vga, serial, which the comment  *)
(* in serial_wait_transmit_empty_timeout protects.                          *)
CallsReturn ==
    \A c \in CPU :
        (stack[c][1].call # <<>>)
            ~> (\/ stack[c] = Idle
                \/ \E n \in DOMAIN stack[c] : stack[c][n].call \in Fatal)
=============================================================================
