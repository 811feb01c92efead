------------------------------- MODULE Timer --------------------------------
(***************************************************************************)
(* drivers/pit: channel 0 of the 8253 timer, the tick and millisecond       *)
(* counters its interrupt advances, and the waits that poll them.           *)
(*                                                                          *)
(* The main line calls the API one store at a time; pit_irq_handler runs    *)
(* whole between two of its steps, since the handler keeps interrupts off.  *)
(* Whether IRQ0 reaches the CPU is one flag here; module Interrupts has the *)
(* way of a request through masks and controllers.                          *)
(***************************************************************************)
EXTENDS Integers, FiniteSetsExt

CONSTANTS
    PIT_BASE_FREQUENCY, \* 1193182
    PIT_MIN_HZ, PIT_MAX_HZ, PIT_DEFAULT_HZ,
    LegacyHz,           \* the 18 of pit_shutdown
    Thousand,           \* milliseconds in a second, microseconds in one of them
    Byte,               \* 256: what one write to the channel's port holds
    Word,               \* 2^64: where ticks and milliseconds wrap
    Argument,           \* 2^32: where the sum in pit_wait_us wraps
    Frequencies,        \* arguments of pit_set_frequency
    MsDelays,           \* arguments of pit_wait_ms, far below Word
    UsDelays,           \* arguments of pit_wait_us
    MaxTorn             \* bound: ticks between two stores that clear the counters

ASSUME TimerAssumption ==
    /\ PIT_MIN_HZ \in Nat \ {0} /\ PIT_MAX_HZ \in Nat
    /\ {PIT_DEFAULT_HZ, LegacyHz} \subseteq PIT_MIN_HZ .. PIT_MAX_HZ
    /\ PIT_BASE_FREQUENCY \in Nat /\ PIT_BASE_FREQUENCY >= PIT_MAX_HZ
    /\ {Thousand, Byte, Word, Argument} \subseteq Nat \ {0, 1}
    /\ PIT_MAX_HZ <= Thousand /\ Thousand <= Word
    /\ Frequencies \subseteq Nat
    /\ MsDelays \union UsDelays \subseteq 0 .. Argument - 1
    /\ MaxTorn \in Nat

DivisorMax == Byte * Byte - 1

VARIABLES
    initialized, frequency_hz, divisor, ticks, milliseconds,    \* pit_state_t
    ms_remainder,
    g_pit_callback, \* whether a callback is registered
    device,         \* the channel: byte it expects, low byte got, count in use
    irq0,           \* whether IRQ0 reaches the CPU
    main,           \* the API call of the main line
    polled,         \* whether a wait has read the counter since the last tick
    torn,           \* history: ticks between the stores of the last clearing
    waited          \* history: ticks since the wait began, Word and more as Word

clock == <<frequency_hz, ticks, milliseconds, ms_remainder>>
setup == <<initialized, divisor, g_pit_callback, device, irq0>>
history == <<polled, torn, waited>>
vars == <<clock, setup, main, history>>

Idle == [at |-> "idle", f |-> 0, ms |-> 0, start |-> 0, end |-> 0, rem |-> 0]

TypeOK ==
    /\ initialized \in 0 .. 1
    /\ frequency_hz \in 0 .. PIT_MAX_HZ
    /\ divisor \in 0 .. DivisorMax
    /\ ticks \in 0 .. Word - 1 /\ milliseconds \in 0 .. Word - 1
    /\ ms_remainder \in 0 .. PIT_MAX_HZ
    /\ g_pit_callback \in BOOLEAN
    /\ device \in [next : {"none", "low", "high"}, low : 0 .. Byte - 1, count : 0 .. DivisorMax]
    /\ irq0 \in BOOLEAN
    /\ main \in [at : {"idle", "ticks", "milliseconds", "frequency", "divisor", "command",
                       "low", "high", "ready", "resetMilliseconds", "wrap", "wait"},
                 f : 0 .. PIT_MAX_HZ, ms : Nat, start : 0 .. Word - 1, end : 0 .. Word - 1,
                 rem : 0 .. PIT_MAX_HZ]
    /\ polled \in BOOLEAN /\ torn \in 0 .. MaxTorn /\ waited \in 0 .. Word

(* Power on: count 0 stands for the firmware's 65536.                       *)
Init ==
    /\ initialized = 0 /\ frequency_hz = 0 /\ divisor = 0
    /\ ticks = 0 /\ milliseconds = 0 /\ ms_remainder = 0
    /\ g_pit_callback = FALSE
    /\ device = [next |-> "none", low |-> 0, count |-> 0]
    /\ irq0 = FALSE
    /\ main = Idle
    /\ polled = FALSE /\ torn = 0 /\ waited = 0

Goto(l) == main' = [main EXCEPT !.at = l]

-----------------------------------------------------------------------------
(* pit_init_frequency: the counters, the rate, the device, ready.           *)
Valid(f) == f \in PIT_MIN_HZ .. PIT_MAX_HZ

(* Mutant: the divisor is cut to 16 bits instead of clamped.                *)
DivisorUnclamped(f) == (PIT_BASE_FREQUENCY \div f) % (DivisorMax + 1)

Divisor(f) ==
    LET d == PIT_BASE_FREQUENCY \div f
    IN IF d > DivisorMax THEN DivisorMax ELSE IF d = 0 THEN 1 ELSE d

Begin(f) ==
    /\ Valid(f)
    /\ initialized' = 0
    /\ main' = [Idle EXCEPT !.at = "ticks", !.f = f]
    /\ UNCHANGED <<clock, divisor, device, irq0, history>>

pit_init ==
    /\ main = Idle
    /\ Begin(PIT_DEFAULT_HZ)
    /\ UNCHANGED g_pit_callback

(* An invalid frequency, or a device never initialized, changes nothing.    *)
pit_set_frequency(f) ==
    /\ main = Idle /\ initialized = 1
    /\ Begin(f)
    /\ UNCHANGED g_pit_callback

(* The callback goes, and the legacy rate is set like any other.            *)
pit_shutdown ==
    /\ main = Idle
    /\ g_pit_callback' = FALSE
    /\ Begin(LegacyHz)

ClearTicks ==
    /\ main.at = "ticks"
    /\ ticks' = 0 /\ torn' = 0
    /\ Goto("milliseconds")
    /\ UNCHANGED <<frequency_hz, milliseconds, ms_remainder, setup, polled, waited>>

ClearMilliseconds ==
    /\ main.at = "milliseconds"
    /\ milliseconds' = 0
    /\ Goto("frequency")
    /\ UNCHANGED <<frequency_hz, ticks, ms_remainder, setup, history>>

SetFrequency ==
    /\ main.at = "frequency"
    /\ frequency_hz' = main.f
    /\ Goto("divisor")
    /\ UNCHANGED <<ticks, milliseconds, ms_remainder, setup, history>>

SetDivisor ==
    /\ main.at = "divisor"
    /\ divisor' = Divisor(main.f)
    /\ Goto("command")
    /\ UNCHANGED <<clock, initialized, g_pit_callback, device, irq0, history>>

(* Command 0x36, then the divisor's low and high byte.                      *)
SendCommand ==
    /\ main.at = "command"
    /\ device' = [device EXCEPT !.next = "low"]
    /\ Goto("low")
    /\ UNCHANGED <<clock, initialized, divisor, g_pit_callback, irq0, history>>

WriteLow ==
    /\ main.at = "low" /\ device.next = "low"
    /\ device' = [device EXCEPT !.next = "high", !.low = divisor % Byte]
    /\ Goto("high")
    /\ UNCHANGED <<clock, initialized, divisor, g_pit_callback, irq0, history>>

WriteHigh ==
    /\ main.at = "high" /\ device.next = "high"
    /\ device' = [next |-> "none", low |-> 0, count |-> (divisor \div Byte) * Byte + device.low]
    /\ Goto("ready")
    /\ UNCHANGED <<clock, initialized, divisor, g_pit_callback, irq0, history>>

Ready ==
    /\ main.at = "ready"
    /\ initialized' = 1
    /\ main' = Idle
    /\ UNCHANGED <<clock, divisor, g_pit_callback, device, irq0, history>>

-----------------------------------------------------------------------------
pit_reset_ticks ==
    /\ main = Idle
    /\ ticks' = 0 /\ torn' = 0
    /\ Goto("resetMilliseconds")
    /\ UNCHANGED <<frequency_hz, milliseconds, ms_remainder, setup, polled, waited>>

ResetMilliseconds ==
    /\ main.at = "resetMilliseconds"
    /\ milliseconds' = 0
    /\ main' = Idle
    /\ UNCHANGED <<frequency_hz, ticks, ms_remainder, setup, history>>

(* pit_register_callback, pit_unregister_callback.                          *)
SetCallback ==
    /\ main = Idle
    /\ g_pit_callback' \in BOOLEAN
    /\ UNCHANGED <<clock, initialized, divisor, device, irq0, main, history>>

(* irq_enable(0) and sti, irq_disable(0) or cli: first after pit_init.      *)
SwitchIrq0 ==
    /\ main = Idle /\ initialized = 1
    /\ irq0' = ~irq0
    /\ UNCHANGED <<clock, initialized, divisor, g_pit_callback, device, main, history>>

(* Mutant: the end is not reduced to the counter's width.                   *)
pit_wait_msNoWrap(ms) ==
    /\ ms > 0
    /\ main' = [Idle EXCEPT !.at = "wait", !.ms = ms, !.start = milliseconds,
                            !.end = IF milliseconds + ms < Word THEN milliseconds + ms ELSE Word - 1,
                            !.rem = ms_remainder]

(* The end may lie behind the counter's wrap: then wait for the wrap first. *)
pit_wait_ms(ms) ==
    LET end == (milliseconds + ms) % Word
    IN /\ ms > 0
       /\ main' = [Idle EXCEPT !.at = IF end < milliseconds THEN "wrap" ELSE "wait",
                               !.ms = ms, !.start = milliseconds, !.end = end,
                               !.rem = ms_remainder]

(* pit_wait_us(us) from a millisecond up; shorter delays do not use the timer. *)
Milliseconds(us) == ((us + Thousand - 1) % Argument) \div Thousand

(* A delay of 32 bits and the longest tick do not fill a counter of 64.     *)
Delays == MsDelays \union {Milliseconds(us) : us \in {u \in UsDelays : u >= Thousand}}
ASSUME DelaysAssumption == \A ms \in Delays : ms + Thousand < Word

Wait ==
    /\ main = Idle /\ initialized = 1
    /\ \E ms \in Delays : pit_wait_ms(ms)
    /\ polled' = FALSE /\ waited' = 0
    /\ UNCHANGED <<clock, setup, torn>>

(* Mutant: the loop also waits out the last millisecond.                    *)
PollPast ==
    /\ \/ main.at = "wrap" /\ milliseconds >= main.start /\ polled' = TRUE /\ UNCHANGED main
       \/ main.at = "wrap" /\ milliseconds < main.start /\ Goto("wait") /\ UNCHANGED polled
       \/ main.at = "wait" /\ milliseconds <= main.end /\ polled' = TRUE /\ UNCHANGED main
       \/ main.at = "wait" /\ milliseconds > main.end /\ main' = Idle /\ polled' = FALSE
    /\ UNCHANGED <<clock, setup, torn, waited>>

(* One turn of a wait's loop.                                               *)
Poll ==
    /\ \/ main.at = "wrap" /\ milliseconds >= main.start /\ polled' = TRUE /\ UNCHANGED main
       \/ main.at = "wrap" /\ milliseconds < main.start /\ Goto("wait") /\ UNCHANGED polled
       \/ main.at = "wait" /\ milliseconds < main.end /\ polled' = TRUE /\ UNCHANGED main
       \/ main.at = "wait" /\ milliseconds >= main.end /\ main' = Idle /\ polled' = FALSE
    /\ UNCHANGED <<clock, setup, torn, waited>>

-----------------------------------------------------------------------------
(* A tick takes many turns of a wait's loop, and at most MaxTorn fall       *)
(* between the stores that clear the counters and change the rate.          *)
Waiting == main.at \in {"wrap", "wait"}
Clearing == main.at \in {"milliseconds", "frequency", "resetMilliseconds"}

(* Mutant: each tick is rounded down to whole milliseconds.                 *)
CountRounded ==
    /\ milliseconds' = (milliseconds + Thousand \div frequency_hz) % Word
    /\ ms_remainder' = 0

(* Mutant: the remainder is never reduced.                                  *)
CountUnreduced ==
    /\ ms_remainder' = ms_remainder + Thousand
    /\ milliseconds' = (milliseconds + ms_remainder' \div frequency_hz) % Word

(* Whole milliseconds are counted, the rest is carried to the next tick.    *)
Count ==
    /\ milliseconds' = (milliseconds + (ms_remainder + Thousand) \div frequency_hz) % Word
    /\ ms_remainder' = (ms_remainder + Thousand) % frequency_hz

pit_irq_handler ==
    /\ irq0
    /\ Waiting => polled
    /\ Clearing => torn < MaxTorn
    /\ ticks' = (ticks + 1) % Word
    /\ Count
    /\ polled' = FALSE
    /\ torn' = IF Clearing THEN torn + 1 ELSE torn
    /\ waited' = IF Waiting THEN Min({waited + 1, Word}) ELSE 0
    /\ UNCHANGED <<frequency_hz, setup, main>>

-----------------------------------------------------------------------------
Call ==
    \/ pit_init
    \/ \E f \in Frequencies : pit_set_frequency(f)
    \/ pit_shutdown
    \/ pit_reset_ticks
    \/ SetCallback
    \/ SwitchIrq0
    \/ Wait

MainStep ==
    \/ ClearTicks
    \/ ClearMilliseconds
    \/ SetFrequency
    \/ SetDivisor
    \/ SendCommand
    \/ WriteLow
    \/ WriteHigh
    \/ Ready
    \/ ResetMilliseconds
    \/ Poll

Next == Call \/ MainStep \/ pit_irq_handler

Spec == Init /\ [][Next]_vars

(* The CPU executes and, while IRQ0 is let through, the timer fires.        *)
FairSpec == Spec /\ WF_vars(MainStep) /\ WF_vars(pit_irq_handler)

-----------------------------------------------------------------------------
(* Between calls the two counters tell the same time: no millisecond is     *)
(* lost or gained over any number of ticks at any rate (MED-001), only the  *)
(* remainder of an earlier rate, less than a second's worth of 1/f          *)
(* milliseconds, is counted once. It takes a tick between the stores that   *)
(* clear them to pull the counters apart, by that tick.                     *)
ClockAgrees ==
    initialized = 1 /\ main = Idle /\ torn = 0 =>
        (frequency_hz * milliseconds + ms_remainder - Thousand * ticks) % Word
            \in 0 .. Thousand - 1

(* Whatever calls came before, also pit_shutdown and clamped rates, the     *)
(* device counts by the divisor the state reports, and unless that was      *)
(* clamped the interrupt rate is the one asked for, within one count.       *)
RateAsReported ==
    initialized = 1 =>
        /\ device = [next |-> "none", low |-> 0, count |-> divisor]
        /\ divisor * frequency_hz <= PIT_BASE_FREQUENCY
        /\ divisor < DivisorMax => (divisor + 1) * frequency_hz > PIT_BASE_FREQUENCY

(* A wait takes the ticks of its delay, at most one less millisecond and    *)
(* one tick more (HIGH-003), if no remainder of an earlier rate is left and *)
(* its end is not so near the wrap that the counter can step over it.       *)
StepsOver(m) ==
    /\ m.start + m.ms < Word
    /\ m.end + (2 * Thousand) \div frequency_hz >= Word
WaitInTime ==
    [][Waiting /\ main' = Idle /\ ~StepsOver(main) /\ main.rem < frequency_hz =>
         /\ Thousand * waited > (main.ms - 1) * frequency_hz
         /\ Thousand * (waited - 1) < main.ms * frequency_hz]_vars

(* Such a wait ends as long as IRQ0 is let through.                         *)
WaitEnds == Waiting /\ irq0 /\ ~StepsOver(main) ~> ~Waiting
=============================================================================
