---------------------------- MODULE TimerProofs -----------------------------
(***************************************************************************)
(* Proofs about Timer for any rates, units and widths of the counters that  *)
(* TimerAssumption allows.                                                  *)
(***************************************************************************)
EXTENDS Timer, SetLemmas

(* Quotient and remainder.                                                  *)
LEMMA DivMod ==
    ASSUME NEW n \in Int, NEW d \in Nat \ {0}
    PROVE  /\ n \div d \in Int /\ (n % d) \in 0 .. d - 1
           /\ n = d * (n \div d) + (n % d)
           /\ n >= 0 => n \div d \in Nat
  OBVIOUS

(* What the remainder of a sum is when all but a small part divides.        *)
LEMMA ModIs ==
    ASSUME NEW q \in Int, NEW d \in Nat \ {0}, NEW r \in 0 .. d - 1
    PROVE  (d * q + r) % d = r
  OBVIOUS

(* A counter of width d that goes past its end starts again.                *)
LEMMA WrapIs ==
    ASSUME NEW x \in Nat, NEW d \in Nat \ {0}
    PROVE  /\ x < d => (x % d) = x
           /\ x >= d /\ x < 2 * d => (x % d) = x - d
<1>1. x < d => (x % d) = x
  OBVIOUS
<1>2. ASSUME x >= d, x < 2 * d PROVE (x % d) = x - d
  <2>1. x - d \in 0 .. d - 1 /\ d * 1 + (x - d) = x
    BY <1>2
  <2>2. (d * 1 + (x - d)) % d = x - d
    BY <2>1, ModIs
  <2>3. QED  BY <2>1, <2>2
<1>3. QED  BY <1>1, <1>2

(* What the constants are known to be.                                      *)
LEMMA Constants ==
    /\ PIT_MIN_HZ \in Nat \ {0} /\ PIT_MAX_HZ \in Nat \ {0}
    /\ PIT_BASE_FREQUENCY \in Nat /\ PIT_BASE_FREQUENCY >= PIT_MAX_HZ
    /\ Thousand \in Nat \ {0, 1} /\ Byte \in Nat \ {0, 1}
    /\ Word \in Nat \ {0, 1} /\ Argument \in Nat \ {0, 1}
    /\ DivisorMax \in Nat \ {0}
    /\ PIT_MAX_HZ <= Thousand /\ Thousand <= Word
    /\ Valid(PIT_DEFAULT_HZ) /\ Valid(LegacyHz)
<1>1. /\ PIT_MIN_HZ \in Nat \ {0} /\ PIT_MAX_HZ \in Nat
      /\ Thousand \in Nat \ {0, 1} /\ Byte \in Nat \ {0, 1}
      /\ Word \in Nat \ {0, 1} /\ Argument \in Nat \ {0, 1}
      /\ PIT_DEFAULT_HZ \in PIT_MIN_HZ .. PIT_MAX_HZ /\ LegacyHz \in PIT_MIN_HZ .. PIT_MAX_HZ
  BY TimerAssumption
<1>2. Byte * Byte - 1 \in Nat \ {0}
  <2>1. Byte >= 2 /\ Byte \in Nat
    BY <1>1
  <2>2. Byte * Byte >= 2 * Byte
    BY <2>1
  <2>3. QED  BY <2>1, <2>2
<1>3. QED  BY <1>1, <1>2, TimerAssumption DEF DivisorMax, Valid

(* The divisor of a rate fits the channel. Unless it is clamped, it is the  *)
(* largest that is not too slow.                                            *)
LEMMA DivisorIs ==
    ASSUME NEW f, Valid(f)
    PROVE  /\ Divisor(f) \in 1 .. DivisorMax
           /\ Divisor(f) * f <= PIT_BASE_FREQUENCY
           /\ Divisor(f) < DivisorMax => (Divisor(f) + 1) * f > PIT_BASE_FREQUENCY
<1> DEFINE d == PIT_BASE_FREQUENCY \div f
           r == PIT_BASE_FREQUENCY % f
<1>1. f \in Nat \ {0} /\ f <= PIT_BASE_FREQUENCY /\ PIT_BASE_FREQUENCY \in Nat
  BY Constants DEF Valid
<1>2. d \in Nat /\ r \in 0 .. f - 1 /\ PIT_BASE_FREQUENCY = f * d + r
  <2>1. PIT_BASE_FREQUENCY \in Int /\ f \in Nat \ {0} /\ PIT_BASE_FREQUENCY >= 0
    BY <1>1
  <2>2. QED  BY <2>1, DivMod, Zenon
<1>3. Divisor(f) = IF d > DivisorMax THEN DivisorMax ELSE IF d = 0 THEN 1 ELSE d
  BY DEF Divisor
<1> HIDE DEF d, r
<1>4. d # 0
  BY <1>1, <1>2
<1>5. Divisor(f) = IF d > DivisorMax THEN DivisorMax ELSE d
  BY <1>3, <1>4
<1>6. Divisor(f) \in 1 .. DivisorMax /\ Divisor(f) <= d
  BY <1>2, <1>4, <1>5, Constants
<1>7. Divisor(f) * f <= d * f
  BY <1>1, <1>2, <1>6
<1>8. d * f <= PIT_BASE_FREQUENCY /\ (d + 1) * f > PIT_BASE_FREQUENCY
  BY <1>1, <1>2
<1>9. Divisor(f) < DivisorMax => Divisor(f) = d
  BY <1>2, <1>5, Constants
<1>10. QED
  <2>1. Divisor(f) * f \in Nat /\ d * f \in Nat
    BY <1>1, <1>2, <1>6
  <2>2. QED  BY <1>1, <1>6, <1>7, <1>8, <1>9, <2>1

(* Delays are natural numbers.                                              *)
LEMMA DelayIs == \A ms \in Delays : ms \in Nat /\ ms + Thousand < Word
<1>1. ASSUME NEW us \in UsDelays, us >= Thousand PROVE Milliseconds(us) \in Nat
  <2>1. us + Thousand - 1 \in Int
    BY Constants, TimerAssumption
  <2>2. ((us + Thousand - 1) % Argument) \in 0 .. Argument - 1
    BY <2>1, DivMod, Constants, Zenon
  <2> DEFINE n == (us + Thousand - 1) % Argument
  <2> HIDE DEF n
  <2>3. n \in Int /\ n >= 0
    BY <2>2, Constants DEF n
  <2>4. n \div Thousand \in Nat
    BY <2>3, DivMod, Constants
  <2>5. QED  BY <2>4 DEF Milliseconds, n
<1>2. MsDelays \subseteq Nat
  BY TimerAssumption
<1>3. QED  BY <1>1, <1>2, DelaysAssumption DEF Delays

-----------------------------------------------------------------------------
(* Rates in use are valid, and no rate is set while none may be in use.     *)
Setting == {"ticks", "milliseconds", "frequency", "divisor", "command", "low", "high", "ready"}
Rates ==
    /\ main.at \in Setting => initialized = 0 /\ Valid(main.f)
    /\ initialized = 1 => main.at \notin Setting /\ Valid(frequency_hz)
    /\ irq0 => frequency_hz > 0
    /\ ms_remainder < PIT_MAX_HZ

(* How far pit_init_frequency has brought the state and the device.         *)
Programmed ==
    /\ main.at \in {"divisor", "command", "low", "high", "ready"} => frequency_hz = main.f
    /\ main.at \in {"command", "low", "high", "ready"} \/ initialized = 1 =>
           divisor = Divisor(frequency_hz)
    /\ main.at = "high" => device.low = divisor % Byte
    /\ main.at = "ready" \/ initialized = 1 =>
           device = [next |-> "none", low |-> 0, count |-> divisor]

Labels == {"idle", "ticks", "milliseconds", "frequency", "divisor", "command",
           "low", "high", "ready", "resetMilliseconds", "wrap", "wait"}
MainCall == [at : Labels, f : 0 .. PIT_MAX_HZ, ms : Nat, start : 0 .. Word - 1,
             end : 0 .. Word - 1, rem : 0 .. PIT_MAX_HZ]
Device == [next : {"none", "low", "high"}, low : 0 .. Byte - 1, count : 0 .. DivisorMax]

(* A tick counts whole milliseconds and carries the rest.                   *)
LEMMA TickIs ==
    ASSUME TypeOK, Rates, pit_irq_handler
    PROVE  \E k \in Nat :
               /\ frequency_hz * k + ms_remainder' = ms_remainder + Thousand
               /\ ms_remainder' \in 0 .. frequency_hz - 1
               /\ milliseconds' = (milliseconds + k) % Word
               /\ frequency_hz \in Nat \ {0}
<1>1. /\ frequency_hz \in Nat \ {0} /\ ms_remainder + Thousand \in Int
      /\ ms_remainder + Thousand >= 0
  BY Constants DEF TypeOK, Rates, pit_irq_handler
<1> DEFINE k == (ms_remainder + Thousand) \div frequency_hz
<1>2. /\ k \in Nat /\ ((ms_remainder + Thousand) % frequency_hz) \in 0 .. frequency_hz - 1
      /\ ms_remainder + Thousand =
             frequency_hz * k + ((ms_remainder + Thousand) % frequency_hz)
  BY <1>1, DivMod, Zenon
<1>3. /\ milliseconds' = (milliseconds + k) % Word
      /\ ms_remainder' = (ms_remainder + Thousand) % frequency_hz
  BY DEF pit_irq_handler, Count
<1> HIDE DEF k
<1>4. QED
  <2>1. frequency_hz * k + ms_remainder' = ms_remainder + Thousand
    BY <1>2, <1>3
  <2>2. QED  BY <1>1, <1>2, <1>3, <2>1

(* Every step keeps the types and the rates.                                *)
LEMMA TypesStep == TypeOK /\ Rates /\ Programmed /\ [Next]_vars => TypeOK' /\ Rates'
<1> SUFFICES ASSUME TypeOK, Rates, Programmed, [Next]_vars PROVE TypeOK' /\ Rates'
  OBVIOUS
<1> USE Constants DEF clock, setup, history
<1>1. /\ initialized \in 0 .. 1 /\ frequency_hz \in 0 .. PIT_MAX_HZ
      /\ divisor \in 0 .. DivisorMax
      /\ ticks \in 0 .. Word - 1 /\ milliseconds \in 0 .. Word - 1
      /\ ms_remainder \in 0 .. PIT_MAX_HZ
      /\ g_pit_callback \in BOOLEAN /\ device \in Device /\ irq0 \in BOOLEAN
      /\ main \in MainCall
      /\ polled \in BOOLEAN /\ torn \in 0 .. MaxTorn /\ waited \in 0 .. Word
  BY DEF TypeOK, Device, MainCall, Labels
<1>2. ASSUME main' \in MainCall, device' \in Device, UNCHANGED <<clock, g_pit_callback, irq0, history>>,
             initialized' \in 0 .. 1, divisor' \in 0 .. DivisorMax
      PROVE  TypeOK'
  BY <1>1, <1>2 DEF TypeOK, MainCall, Device, Labels
<1>3. ASSUME main' \in MainCall, UNCHANGED setup,
             frequency_hz' \in 0 .. PIT_MAX_HZ, ticks' \in 0 .. Word - 1,
             milliseconds' \in 0 .. Word - 1, ms_remainder' \in 0 .. PIT_MAX_HZ,
             polled' \in BOOLEAN, torn' \in 0 .. MaxTorn, waited' \in 0 .. Word
      PROVE  TypeOK'
  BY <1>1, <1>3 DEF TypeOK, MainCall, Device, Labels
<1>4. /\ Idle \in MainCall
      /\ \A l \in Labels : [main EXCEPT !.at = l] \in MainCall
  BY <1>1 DEF Idle, MainCall, Labels
<1>5. ASSUME NEW f, Begin(f), g_pit_callback' \in BOOLEAN PROVE TypeOK' /\ Rates'
  <2>1. f \in 0 .. PIT_MAX_HZ /\ Valid(f)
    BY <1>5 DEF Begin, Valid
  <2>2. main' \in MainCall /\ main'.at = "ticks" /\ main'.f = f
    <3>1. main' = [at |-> "ticks", f |-> f, ms |-> 0, start |-> 0, end |-> 0, rem |-> 0]
      BY <1>5 DEF Begin, Idle
    <3>2. 0 \in 0 .. Word - 1 /\ 0 \in 0 .. PIT_MAX_HZ /\ "ticks" \in Labels
      BY DEF Labels
    <3>3. QED  BY <2>1, <3>1, <3>2 DEF MainCall
  <2>3. TypeOK'
    BY <1>1, <1>5, <2>2 DEF Begin, TypeOK, MainCall, Device, Labels
  <2>4. Rates'
    BY <1>5, <2>1, <2>2 DEF Begin, Rates, Setting, Valid
  <2>5. QED  BY <2>3, <2>4
<1>6. CASE pit_init \/ pit_shutdown \/ \E f \in Frequencies : pit_set_frequency(f)
  BY <1>1, <1>5, <1>6 DEF pit_init, pit_shutdown, pit_set_frequency
<1>7. CASE ClearTicks \/ ClearMilliseconds \/ SetFrequency \/ pit_reset_ticks
  <2>1. main' = [main EXCEPT !.at = main'.at] /\ main'.at \in Labels /\ UNCHANGED setup
    BY <1>1, <1>7 DEF ClearTicks, ClearMilliseconds, SetFrequency, pit_reset_ticks, Goto,
       Labels, MainCall
  <2>2. main.at \in Setting => main.f \in 0 .. PIT_MAX_HZ /\ main.f > 0
    BY DEF Rates, Valid
  <2>3. TypeOK'
    BY <1>1, <1>3, <1>4, <1>7, <2>1, <2>2, TimerAssumption
       DEF ClearTicks, ClearMilliseconds, SetFrequency, pit_reset_ticks, Setting
  <2>4. Rates'
    BY <1>1, <1>7, <2>1, <2>2 DEF ClearTicks, ClearMilliseconds, SetFrequency, pit_reset_ticks,
       Rates, Setting, Goto, Idle, Valid, MainCall
  <2>5. QED  BY <2>3, <2>4
<1>8. CASE SetDivisor \/ SendCommand \/ WriteLow \/ WriteHigh
  <2>1. main' = [main EXCEPT !.at = main'.at] /\ main'.at \in Labels /\ main'.at \in Setting
        /\ main.at \in Setting
        /\ UNCHANGED <<clock, initialized, g_pit_callback, irq0, history>>
    BY <1>1, <1>8 DEF SetDivisor, SendCommand, WriteLow, WriteHigh, Goto, Labels, MainCall,
       Setting
  <2>2. divisor' \in 0 .. DivisorMax
    <3>1. Divisor(main.f) \in 0 .. DivisorMax
      BY <2>1, DivisorIs DEF Rates
    <3>2. QED  BY <1>1, <1>8, <3>1 DEF SetDivisor, SendCommand, WriteLow, WriteHigh
  <2>3. device' \in Device
    <3>1. CASE SetDivisor \/ SendCommand
      BY <1>1, <3>1 DEF SetDivisor, SendCommand, Device
    <3>2. CASE WriteLow
      <4>1. divisor % Byte \in 0 .. Byte - 1
        BY <1>1, DivMod
      <4>2. QED  BY <1>1, <3>2, <4>1 DEF WriteLow, Device
    <3>3. CASE WriteHigh
      <4>1. (divisor \div Byte) * Byte + device.low = divisor
        <5>1. device.low = divisor % Byte /\ divisor \in Int
          BY <1>1, <3>3 DEF WriteHigh, Programmed
        <5>2. /\ divisor \div Byte \in Int /\ (divisor % Byte) \in 0 .. Byte - 1
              /\ divisor = Byte * (divisor \div Byte) + (divisor % Byte)
          BY <5>1, DivMod
        <5>3. QED  BY <5>1, <5>2
      <4>2. QED  BY <1>1, <3>3, <4>1 DEF WriteHigh, Device
    <3>4. QED  BY <1>8, <3>1, <3>2, <3>3
  <2>4. TypeOK'
    BY <1>1, <1>2, <1>4, <2>1, <2>2, <2>3
  <2>5. Rates'
    BY <1>1, <2>1 DEF Rates, Valid, MainCall
  <2>6. QED  BY <2>4, <2>5
<1>9. CASE Ready \/ SetCallback \/ SwitchIrq0
  <2>1. main' \in MainCall /\ device' \in Device
    BY <1>1, <1>4, <1>9 DEF Ready, SetCallback, SwitchIrq0
  <2>2. TypeOK'
    <3>1. g_pit_callback' \in BOOLEAN /\ irq0' \in BOOLEAN
      BY <1>1, <1>9, Zenon DEF Ready, SetCallback, SwitchIrq0, clock, setup, history
    <3>2. initialized' \in 0 .. 1 /\ UNCHANGED <<clock, divisor, history>>
      BY <1>1, <1>9 DEF Ready, SetCallback, SwitchIrq0
    <3>3. QED  BY <1>1, <2>1, <3>1, <3>2 DEF TypeOK, MainCall, Device, Labels
  <2>3. Rates'
    BY <1>1, <1>9 DEF Ready, SetCallback, SwitchIrq0, Rates, Setting, Idle, Valid, Programmed
  <2>4. QED  BY <2>2, <2>3
<1>10. CASE ResetMilliseconds
  <2>1. TypeOK'
    BY <1>1, <1>3, <1>4, <1>10 DEF ResetMilliseconds
  <2>2. Rates'
    BY <1>10 DEF ResetMilliseconds, Rates, Setting, Idle, Valid
  <2>3. QED  BY <2>1, <2>2
<1>11. CASE Wait
  <2>1. PICK ms \in Nat : pit_wait_ms(ms)
    BY <1>11, DelayIs DEF Wait
  <2>2. ((milliseconds + ms) % Word) \in 0 .. Word - 1
    BY <1>1, DivMod
  <2>3. main' \in MainCall /\ main'.at \in {"wrap", "wait"}
    <3> DEFINE end == (milliseconds + ms) % Word
    <3>1. \E l \in {"wrap", "wait"} :
              main' = [at |-> l, f |-> 0, ms |-> ms, start |-> milliseconds,
                       end |-> end, rem |-> ms_remainder]
      BY <2>1 DEF pit_wait_ms, Idle
    <3> HIDE DEF end
    <3>2. end \in 0 .. Word - 1
      BY <2>2 DEF end
    <3>3. main' \in MainCall
      <4>1. "wrap" \in Labels /\ "wait" \in Labels /\ 0 \in 0 .. PIT_MAX_HZ
        BY DEF Labels
      <4>2. QED  BY <1>1, <3>1, <3>2, <4>1 DEF MainCall
    <3>4. QED  BY <3>1, <3>3
  <2>4. TypeOK'
    <3>1. polled' = FALSE /\ waited' = 0 /\ UNCHANGED <<clock, setup, torn>>
      BY <1>11 DEF Wait
    <3>2. polled' \in BOOLEAN
      BY <3>1, Zenon
    <3>3. QED  BY <1>1, <1>3, <2>3, <3>1, <3>2
  <2>5. Rates'
    BY <1>11, <2>3 DEF Wait, Rates, Setting, Valid
  <2>6. QED  BY <2>4, <2>5
<1>12. CASE Poll
  <2>1. main' \in MainCall /\ main'.at \notin Setting /\ polled' \in BOOLEAN
    <3>1. polled' \in BOOLEAN
      BY <1>1, <1>12, Zenon DEF Poll
    <3>2. main' \in {main, Idle, [main EXCEPT !.at = "wait"]} /\ main.at \in {"wrap", "wait"}
      BY <1>12 DEF Poll, Goto
    <3>3. main' \in MainCall /\ main'.at \notin Setting
      BY <1>1, <1>4, <3>2 DEF Labels, Setting, Idle, MainCall
    <3>4. QED  BY <3>1, <3>3
  <2>2. TypeOK'
    BY <1>1, <1>3, <1>12, <2>1 DEF Poll
  <2>3. Rates'
    BY <1>12, <2>1 DEF Poll, Rates, Valid
  <2>4. QED  BY <2>2, <2>3
<1>13. CASE pit_irq_handler
  <2>1. PICK k \in Nat : /\ ms_remainder' \in 0 .. frequency_hz - 1
                         /\ milliseconds' = (milliseconds + k) % Word
    BY <1>13, TickIs
  <2>2. ticks' \in 0 .. Word - 1 /\ milliseconds' \in 0 .. Word - 1
    BY <1>1, <1>13, <2>1, DivMod DEF pit_irq_handler
  <2>3. torn' \in 0 .. MaxTorn
    BY <1>1, <1>13, TimerAssumption DEF pit_irq_handler
  <2>4. waited' \in 0 .. Word
    <3>1. Min({waited + 1, Word}) \in 0 .. Word
      BY <1>1, MinOfNaturals
    <3>2. QED  BY <1>13, <3>1 DEF pit_irq_handler
  <2>5. TypeOK'
    <3>1. polled' = FALSE /\ UNCHANGED <<frequency_hz, setup, main>>
      BY <1>13 DEF pit_irq_handler
    <3>2. polled' \in BOOLEAN
      BY <3>1, Zenon
    <3>3. ms_remainder' \in 0 .. PIT_MAX_HZ
      BY <1>1, <2>1
    <3>4. QED  BY <1>1, <1>3, <2>2, <2>3, <2>4, <3>1, <3>2, <3>3
  <2>6. Rates'
    BY <1>1, <1>13, <2>1 DEF pit_irq_handler, Rates, Valid
  <2>7. QED  BY <2>5, <2>6
<1>14. CASE UNCHANGED vars
  BY <1>14 DEF vars, TypeOK, Rates, Valid
<1>15. QED
  BY <1>6, <1>7, <1>8, <1>9, <1>10, <1>11, <1>12, <1>13, <1>14 DEF Next, Call, MainStep

(* Every step of pit_init_frequency does its part of the programming, and   *)
(* no tick and no other call comes between.                                 *)
LEMMA ProgrammedStep == TypeOK /\ Rates /\ Programmed /\ [Next]_vars => Programmed'
<1> SUFFICES ASSUME TypeOK, Rates, Programmed, [Next]_vars PROVE Programmed'
  OBVIOUS
<1> USE DEF clock, setup, history
<1>1. ASSUME UNCHANGED <<frequency_hz, divisor, device, initialized>>,
             main' = main \/ main'.at \notin Setting
      PROVE  Programmed'
  BY <1>1 DEF Programmed, Setting, Divisor
<1>2. ASSUME NEW f, Begin(f) PROVE Programmed'
  BY <1>2 DEF Begin, Programmed, Idle
<1>3. CASE pit_init \/ pit_shutdown \/ \E f \in Frequencies : pit_set_frequency(f)
  BY <1>2, <1>3 DEF pit_init, pit_shutdown, pit_set_frequency
<1>4. /\ main \in MainCall /\ divisor \in 0 .. DivisorMax /\ device \in Device
      /\ main.at \in Setting => initialized = 0
  BY DEF TypeOK, MainCall, Device, Labels, Rates
<1>5. CASE ClearTicks \/ ClearMilliseconds \/ SetFrequency
  <2>1. main.at \in {"ticks", "milliseconds", "frequency"}
        /\ main'.at \in {"milliseconds", "frequency", "divisor"} /\ main'.f = main.f
        /\ (main'.at = "divisor" => frequency_hz' = main.f)
        /\ UNCHANGED initialized
    BY <1>4, <1>5 DEF ClearTicks, ClearMilliseconds, SetFrequency, Goto, MainCall
  <2>2. QED  BY <1>4, <2>1 DEF Programmed, Setting
<1>6. CASE SetDivisor \/ SendCommand
  <2>1. main.at \in {"divisor", "command"} /\ main'.at \in {"command", "low"} /\ main'.f = main.f
        /\ UNCHANGED <<initialized, frequency_hz>>
        /\ (main.at = "divisor" => divisor' = Divisor(main.f))
        /\ (main.at = "command" => divisor' = divisor)
    BY <1>4, <1>6 DEF SetDivisor, SendCommand, Goto, MainCall
  <2>2. divisor' = Divisor(frequency_hz')
    BY <2>1 DEF Programmed
  <2>3. divisor' = Divisor(frequency_hz)'
    BY <2>2 DEF Divisor
  <2>4. QED  BY <1>4, <2>1, <2>3 DEF Programmed, Setting
<1>7. CASE WriteLow
  <2>1. main.at = "low" /\ main'.at = "high" /\ main'.f = main.f
        /\ UNCHANGED <<initialized, frequency_hz, divisor>>
        /\ device'.low = divisor % Byte
    BY <1>4, <1>7 DEF WriteLow, Goto, MainCall, Device
  <2>2. QED  BY <1>4, <2>1 DEF Programmed, Setting, Divisor
<1>8. CASE WriteHigh
  <2>1. main.at = "high" /\ main'.at = "ready" /\ main'.f = main.f
        /\ UNCHANGED <<initialized, frequency_hz, divisor>>
        /\ device' = [next |-> "none", low |-> 0,
                      count |-> (divisor \div Byte) * Byte + device.low]
    BY <1>4, <1>8 DEF WriteHigh, Goto, MainCall, Device
  <2>2. (divisor \div Byte) * Byte + device.low = divisor
    <3>1. device.low = divisor % Byte /\ divisor \in Int
      BY <1>4, <2>1, Constants DEF Programmed
    <3>2. /\ divisor \div Byte \in Int /\ (divisor % Byte) \in 0 .. Byte - 1
          /\ divisor = Byte * (divisor \div Byte) + (divisor % Byte)
      BY <3>1, DivMod, Constants
    <3>3. QED  BY <3>1, <3>2, Constants
  <2>3. QED  BY <1>4, <2>1, <2>2 DEF Programmed, Setting, Divisor
<1>9. CASE Ready
  BY <1>9 DEF Ready, Programmed, Idle, Divisor
<1>10. CASE pit_reset_ticks \/ SetCallback \/ SwitchIrq0 \/ Wait \/ ResetMilliseconds \/ Poll
  <2>1. UNCHANGED <<frequency_hz, divisor, device, initialized>>
    BY <1>10 DEF pit_reset_ticks, SetCallback, SwitchIrq0, Wait, ResetMilliseconds, Poll
  <2>2. main' = main \/ main'.at \notin Setting
    <3>1. CASE Wait
      BY <3>1 DEF Wait, pit_wait_ms, Idle, Setting
    <3>2. CASE Poll
      BY <1>4, <3>2 DEF Poll, Goto, Idle, Setting, MainCall
    <3>3. CASE pit_reset_ticks \/ ResetMilliseconds
      BY <1>4, <3>3 DEF pit_reset_ticks, ResetMilliseconds, Goto, Idle, Setting, MainCall
    <3>4. QED  BY <1>10, <3>1, <3>2, <3>3 DEF SetCallback, SwitchIrq0
  <2>3. QED  BY <1>1, <2>1, <2>2
<1>11. CASE pit_irq_handler \/ UNCHANGED vars
  BY <1>1, <1>11 DEF pit_irq_handler, vars
<1>12. QED
  BY <1>3, <1>5, <1>6, <1>7, <1>8, <1>9, <1>10, <1>11 DEF Next, Call, MainStep

-----------------------------------------------------------------------------
(* How far the milliseconds are ahead of the ticks, in units of 1/f ms.     *)
Ahead == frequency_hz * milliseconds + ms_remainder - Thousand * ticks

(* The remainder of the last rate is all of it, up to the counters' width.  *)
Carried == \E q \in Int, r \in 0 .. Thousand - 1 : Ahead = Word * q + r

(* Unless a tick fell between the stores that clear the counters.           *)
Clock ==
    torn = 0 =>
        /\ main.at \in {"milliseconds", "frequency", "resetMilliseconds"} => ticks = 0
        /\ main.at = "frequency" => milliseconds = 0
        /\ ~Clearing /\ frequency_hz > 0 => Carried

(* What is carried stays: the wraps of both counters are multiples of Word. *)
LEMMA TickCarries == TypeOK /\ Rates /\ pit_irq_handler /\ Carried => Carried'
<1> SUFFICES ASSUME TypeOK, Rates, pit_irq_handler, Carried PROVE Carried'
  OBVIOUS
<1>1. /\ frequency_hz \in Int /\ ticks \in Int /\ milliseconds \in Int /\ ms_remainder \in Int
      /\ Word \in Nat \ {0} /\ Thousand \in Int
  BY Constants DEF TypeOK
<1>2. PICK k \in Nat : /\ frequency_hz * k + ms_remainder' = ms_remainder + Thousand
                       /\ ms_remainder' \in 0 .. frequency_hz - 1
                       /\ milliseconds' = (milliseconds + k) % Word
  BY TickIs
<1>3. PICK q \in Int, r \in 0 .. Thousand - 1 : Ahead = Word * q + r
  BY DEF Carried
<1> DEFINE a == (milliseconds + k) \div Word
           b == (ticks + 1) \div Word
<1>4. a \in Int /\ milliseconds' \in Int /\ milliseconds' = milliseconds + k - Word * a
  <2>1. milliseconds + k \in Int
    BY <1>1
  <2>2. /\ a \in Int /\ ((milliseconds + k) % Word) \in 0 .. Word - 1
        /\ milliseconds + k = Word * a + ((milliseconds + k) % Word)
    BY <1>1, <2>1, DivMod, Zenon
  <2> HIDE DEF a
  <2>3. QED  BY <1>1, <1>2, <2>2
<1>5. b \in Int /\ ticks' \in Int /\ ticks' = ticks + 1 - Word * b
  <2>1. ticks + 1 \in Int /\ ticks' = (ticks + 1) % Word
    BY <1>1 DEF pit_irq_handler
  <2>2. /\ b \in Int /\ ((ticks + 1) % Word) \in 0 .. Word - 1
        /\ ticks + 1 = Word * b + ((ticks + 1) % Word)
    BY <1>1, <2>1, DivMod, Zenon
  <2> HIDE DEF b
  <2>3. QED  BY <1>1, <2>1, <2>2
<1> HIDE DEF a, b
<1>6. frequency_hz' = frequency_hz /\ ms_remainder' \in Int
  BY <1>1, <1>2 DEF pit_irq_handler
<1>7. Ahead' = Ahead + Word * (Thousand * b - frequency_hz * a)
  <2>1. Ahead' = frequency_hz * milliseconds' + ms_remainder' - Thousand * ticks'
    BY <1>6 DEF Ahead
  <2>2. frequency_hz * milliseconds' =
            frequency_hz * milliseconds + frequency_hz * k - frequency_hz * (Word * a)
    BY <1>1, <1>4
  <2>3. Thousand * ticks' = Thousand * ticks + Thousand - Thousand * (Word * b)
    BY <1>1, <1>5
  <2>4. Word * (Thousand * b - frequency_hz * a) =
            Thousand * (Word * b) - frequency_hz * (Word * a)
    BY <1>1, <1>4, <1>5
  <2>5. /\ frequency_hz * milliseconds \in Int /\ frequency_hz * k \in Int
        /\ frequency_hz * (Word * a) \in Int /\ Thousand * ticks \in Int
        /\ Thousand * (Word * b) \in Int
    BY <1>1, <1>4, <1>5
  <2> DEFINE fm == frequency_hz * milliseconds  fk == frequency_hz * k
             fa == frequency_hz * (Word * a)
             Tt == Thousand * ticks             Tb == Thousand * (Word * b)
  <2> HIDE DEF fm, fk, fa, Tt, Tb
  <2>6. /\ fm \in Int /\ fk \in Int /\ fa \in Int /\ Tt \in Int /\ Tb \in Int
        /\ frequency_hz * milliseconds' = fm + fk - fa
        /\ Thousand * ticks' = Tt + Thousand - Tb
        /\ Word * (Thousand * b - frequency_hz * a) = Tb - fa
        /\ fk + ms_remainder' = ms_remainder + Thousand
        /\ Ahead = fm + ms_remainder - Tt
    BY <1>2, <2>2, <2>3, <2>4, <2>5 DEF fm, fk, fa, Tt, Tb, Ahead
  <2>7. Ahead' = (fm + fk - fa) + ms_remainder' - (Tt + Thousand - Tb)
    BY <2>1, <2>6
  <2>8. (fm + fk - fa) + ms_remainder' - (Tt + Thousand - Tb) =
            (fm + ms_remainder - Tt) + (Tb - fa)
    <3>1. /\ fm \in Int /\ fk \in Int /\ fa \in Int /\ Tt \in Int /\ Tb \in Int
          /\ fk + ms_remainder' = ms_remainder + Thousand
      BY <2>6
    <3>2. ms_remainder' \in Int /\ ms_remainder \in Int /\ Thousand \in Int
      BY <1>1, <1>6
    <3>3. \A r0, r1 \in Int :
              fk + r1 = r0 + Thousand =>
                  (fm + fk - fa) + r1 - (Tt + Thousand - Tb) = (fm + r0 - Tt) + (Tb - fa)
      BY <3>1, <3>2
    <3>4. QED  BY <3>1, <3>2, <3>3, Zenon
  <2>9. QED  BY <2>6, <2>7, <2>8
<1>8. Ahead' = Word * (q + Thousand * b - frequency_hz * a) + r
  BY <1>1, <1>3, <1>4, <1>5, <1>7
<1>9. q + Thousand * b - frequency_hz * a \in Int
  BY <1>1, <1>4, <1>5
<1>10. QED  BY <1>8, <1>9 DEF Carried

(* A clock just cleared carries the remainder and nothing else.             *)
LEMMA ClearedCarries ==
    ASSUME TypeOK, Rates, ticks' = 0, milliseconds' = 0, frequency_hz' \in Nat,
           ms_remainder' = ms_remainder
    PROVE  Carried'
<1>1. ms_remainder \in 0 .. Thousand - 1
  BY Constants DEF TypeOK, Rates
<1>2. Ahead' = Word * 0 + ms_remainder
  <2>1. Ahead' = frequency_hz' * 0 + ms_remainder - Thousand * 0
    BY DEF Ahead
  <2>2. frequency_hz' * 0 = 0 /\ Thousand * 0 = 0 /\ Word * 0 = 0
    <3>1. \A x \in Int : x * 0 = 0
      OBVIOUS
    <3>2. frequency_hz' \in Int /\ Thousand \in Int /\ Word \in Int
      BY Constants
    <3>3. QED  BY <3>1, <3>2
  <2>3. QED  BY <1>1, <2>1, <2>2
<1>3. QED  BY <1>1, <1>2 DEF Carried

(* Every step keeps the two counters together, or counts as torn.           *)
LEMMA ClockStep == TypeOK /\ Rates /\ Clock /\ [Next]_vars => Clock'
<1> SUFFICES ASSUME TypeOK, Rates, Clock, [Next]_vars, torn' = 0 PROVE Clock'
  BY DEF Clock
<1> USE DEF setup, history
<1>1. main \in MainCall /\ torn \in Nat /\ milliseconds \in Nat /\ ticks \in Nat
  BY DEF TypeOK, MainCall, Labels
<1>2. UNCHANGED clock => Carried' = Carried
  BY DEF Carried, Ahead, clock
<1>3. ASSUME UNCHANGED <<clock, torn>>, main.at = main'.at \/ (~Clearing /\ ~Clearing')
      PROVE  Clock'
  <2>1. frequency_hz' = frequency_hz /\ ticks' = ticks /\ milliseconds' = milliseconds
    BY <1>3 DEF clock
  <2>2. CASE main.at = main'.at
    BY <1>2, <1>3, <2>1, <2>2 DEF Clock, Clearing
  <2>3. CASE ~Clearing /\ ~Clearing'
    BY <1>2, <1>3, <2>1, <2>3 DEF Clock, Clearing
  <2>4. QED  BY <1>3, <2>2, <2>3
<1>4. CASE ClearTicks \/ pit_reset_ticks
  <2>1. ticks' = 0 /\ main'.at \in {"milliseconds", "resetMilliseconds"}
    BY <1>1, <1>4 DEF ClearTicks, pit_reset_ticks, Goto, MainCall
  <2>2. QED  BY <2>1 DEF Clock, Clearing
<1>5. CASE ClearMilliseconds
  <2>1. /\ ticks' = ticks /\ milliseconds' = 0 /\ torn = 0
        /\ main.at = "milliseconds" /\ main'.at = "frequency"
    BY <1>1, <1>5 DEF ClearMilliseconds, Goto, MainCall
  <2>2. QED  BY <2>1 DEF Clock, Clearing
<1>6. CASE SetFrequency
  <2>1. /\ main.at = "frequency" /\ main'.at = "divisor" /\ torn = 0
        /\ UNCHANGED <<ticks, milliseconds, ms_remainder>>
        /\ frequency_hz' = main.f /\ main.f \in Nat
    BY <1>1, <1>6 DEF SetFrequency, Goto, MainCall
  <2>2. ticks = 0 /\ milliseconds = 0
    BY <2>1 DEF Clock
  <2>3. Carried'
    BY <2>1, <2>2, ClearedCarries
  <2>4. QED  BY <2>1, <2>3 DEF Clock, Clearing
<1>7. CASE ResetMilliseconds
  <2>1. /\ main.at = "resetMilliseconds" /\ main'.at = "idle" /\ torn = 0
        /\ ticks' = ticks /\ milliseconds' = 0 /\ UNCHANGED <<frequency_hz, ms_remainder>>
    BY <1>7 DEF ResetMilliseconds, Idle
  <2>2. ticks' = 0 /\ frequency_hz' \in Nat
    BY <2>1 DEF Clock, TypeOK
  <2>3. Carried'
    BY <2>1, <2>2, ClearedCarries
  <2>4. QED  BY <2>1, <2>3 DEF Clock, Clearing
<1>8. CASE pit_irq_handler
  <2>1. frequency_hz' = frequency_hz /\ main' = main /\ frequency_hz > 0
    BY <1>8 DEF pit_irq_handler, Rates
  <2>2. ~Clearing /\ torn = 0
    BY <1>1, <1>8 DEF pit_irq_handler
  <2>3. Carried'
    BY <1>8, <2>1, <2>2, TickCarries DEF Clock
  <2>4. QED  BY <2>1, <2>2, <2>3 DEF Clock, Clearing
<1>9. ASSUME main = Idle, NEW f, Begin(f) PROVE Clock'
  <2>1. main.at = "idle" /\ main'.at = "ticks" /\ UNCHANGED <<clock, torn>>
    BY <1>9 DEF Begin, Idle
  <2>2. QED  BY <1>3, <2>1 DEF Clearing
<1>10. CASE Call
  <2>1. CASE pit_init \/ pit_shutdown \/ \E f \in Frequencies : pit_set_frequency(f)
    BY <1>9, <2>1 DEF pit_init, pit_set_frequency, pit_shutdown
  <2>2. CASE SetCallback \/ SwitchIrq0
    BY <1>3, <2>2 DEF SetCallback, SwitchIrq0
  <2>3. CASE Wait
    <3>1. main.at = "idle" /\ main'.at \in {"wrap", "wait"} /\ UNCHANGED <<clock, torn>>
      BY <2>3 DEF Wait, pit_wait_ms, Idle
    <3>2. QED  BY <1>3, <3>1 DEF Clearing
  <2>4. QED  BY <1>4, <1>10, <2>1, <2>2, <2>3 DEF Call
<1>11. CASE SetDivisor \/ SendCommand \/ WriteLow \/ WriteHigh \/ Ready \/ Poll
  <2>1. ~Clearing /\ ~Clearing' /\ UNCHANGED <<clock, torn>>
    BY <1>1, <1>11 DEF SetDivisor, SendCommand, WriteLow, WriteHigh, Ready, Poll, Clearing,
       Goto, Idle, MainCall
  <2>2. QED  BY <1>3, <2>1
<1>12. CASE UNCHANGED vars
  BY <1>3, <1>12 DEF vars
<1>13. QED
  BY <1>4, <1>5, <1>6, <1>7, <1>8, <1>10, <1>11, <1>12 DEF Next, MainStep

-----------------------------------------------------------------------------
(* The invariant behind the theorems on types, rates and the clock.          *)
Typed == TypeOK /\ Rates /\ Programmed /\ Clock

(* Types, rates, the state of the device and the clock are an invariant.    *)
LEMMA TypedAlways == Spec => []Typed
<1>1. Init => Typed
  <2> SUFFICES ASSUME Init PROVE Typed
    OBVIOUS
  <2>1. TypeOK
    <3>1. g_pit_callback \in BOOLEAN /\ irq0 \in BOOLEAN /\ polled \in BOOLEAN
      BY Zenon DEF Init
    <3>2. main \in MainCall /\ device \in Device
      <4>1. "idle" \in Labels
        BY DEF Labels
      <4>2. QED  BY <4>1, Constants DEF Init, Idle, MainCall, Device
    <3>3. QED
      BY <3>1, <3>2, Constants, TimerAssumption DEF Init, TypeOK, MainCall, Device, Labels
  <2>2. Rates /\ Programmed /\ Clock
    BY Constants DEF Init, Rates, Programmed, Clock, Idle, Setting, Clearing
  <2>3. QED  BY <2>1, <2>2 DEF Typed
<1>2. Typed /\ [Next]_vars => Typed'
  BY TypesStep, ProgrammedStep, ClockStep DEF Typed
<1>3. QED  BY <1>1, <1>2, PTL DEF Spec

(* The timer's variables always have their types: both counters stay within *)
(* their width, the divisor within the channel's.                           *)
THEOREM TypeCorrect == Spec => []TypeOK
<1>1. Typed => TypeOK
  BY DEF Typed
<1>2. QED  BY <1>1, TypedAlways, PTL

(* Whatever calls came before, the device counts by the reported divisor,   *)
(* and the rate is the one asked for within one count, or clamped.          *)
THEOREM RateAsReportedHolds == Spec => []RateAsReported
<1>1. Typed => RateAsReported
  <2> SUFFICES ASSUME Rates, Programmed, initialized = 1 PROVE RateAsReported
    BY DEF Typed, RateAsReported
  <2>1. /\ Valid(frequency_hz) /\ divisor = Divisor(frequency_hz)
        /\ device = [next |-> "none", low |-> 0, count |-> divisor]
    BY DEF Rates, Programmed
  <2>2. QED  BY <2>1, DivisorIs DEF RateAsReported
<1>2. QED  BY <1>1, TypedAlways, PTL

(* Over any number of ticks and any calls between them no millisecond is    *)
(* lost or gained, and both counters may wrap (MED-001).                    *)
THEOREM ClockAgreesHolds == Spec => []ClockAgrees
<1>1. Typed => ClockAgrees
  <2> SUFFICES ASSUME Typed, initialized = 1, main = Idle, torn = 0
               PROVE  (Ahead % Word) \in 0 .. Thousand - 1
    BY DEF ClockAgrees, Ahead
  <2>1. Carried
    BY Constants DEF Typed, Rates, Clock, Clearing, Idle, Valid
  <2>2. PICK q \in Int, r \in 0 .. Thousand - 1 : Ahead = Word * q + r
    BY <2>1 DEF Carried
  <2>3. r \in 0 .. Word - 1
    BY <2>2, Constants
  <2>4. Ahead % Word = r
    BY <2>2, <2>3, ModIs, Constants
  <2>5. QED  BY <2>2, <2>4
<1>2. QED  BY <1>1, TypedAlways, PTL

-----------------------------------------------------------------------------
(* A wait that can be timed: nothing is left of an earlier rate, and its    *)
(* end is not so near the wrap that the counter can step over it.           *)
Timed == main.rem < frequency_hz /\ ~StepsOver(main)

(* Where the counter is when N milliseconds of the wait have been counted.  *)
Position(N) ==
    /\ main.at = "wait" /\ main.start + main.ms < Word => milliseconds = main.start + N
    /\ main.at = "wait" /\ main.start + main.ms >= Word =>
           milliseconds = main.start + N - Word
    /\ main.at = "wrap" =>
           \/ milliseconds = main.start + N
           \/ milliseconds = main.start + N - Word /\ milliseconds < main.start
Counted ==
    \E N \in Nat :
        /\ frequency_hz * N + ms_remainder = Thousand * waited + main.rem
        /\ Position(N)

(* The wait has counted all its ticks, and went on only as long as it had   *)
(* to when it last read the counter.                                        *)
Waits ==
    Waiting =>
        /\ initialized = 1
        /\ main.ms \in Nat \ {0} /\ main.ms + Thousand < Word
        /\ main.start + main.ms < Word => main.end = main.start + main.ms
        /\ main.start + main.ms >= Word => main.end = main.start + main.ms - Word
        /\ main.at = "wrap" => main.start + main.ms >= Word
        /\ polled /\ main.at = "wrap" => milliseconds >= main.start
        /\ polled /\ main.at = "wait" => milliseconds < main.end
        /\ Timed =>
               /\ ms_remainder < frequency_hz
               /\ Thousand * (waited - 1) < main.ms * frequency_hz
               /\ waited <= main.ms
               /\ Counted

(* A tick counts at most a second, and no more than StepsOver allows for.   *)
LEMMA TickBound ==
    ASSUME NEW f \in Nat \ {0}, f <= Thousand, NEW k \in Nat, NEW r \in 0 .. f - 1,
           NEW r1 \in Nat, f * k + r1 = r + Thousand
    PROVE  k <= Thousand /\ k <= (2 * Thousand) \div f
<1> DEFINE d == (2 * Thousand) \div f
<1>1. d \in Nat /\ ((2 * Thousand) % f) \in 0 .. f - 1 /\ 2 * Thousand = f * d + ((2 * Thousand) % f)
  <2>1. 2 * Thousand \in Int /\ 2 * Thousand >= 0
    BY Constants
  <2>2. QED  BY <2>1, DivMod, Zenon
<1> HIDE DEF d
<1>2. Thousand \in Nat
  BY Constants
<1>3. k <= Thousand
  <2>1. SUFFICES ASSUME k >= Thousand + 1 PROVE FALSE
    BY <1>2
  <2>2. f * k >= f * (Thousand + 1)
    BY <1>2, <2>1
  <2>3. f * (Thousand + 1) = f * Thousand + f /\ f * Thousand >= Thousand
    BY <1>2
  <2>4. QED  BY <1>2, <2>2, <2>3
<1>4. k <= d
  <2>1. SUFFICES ASSUME k >= d + 1 PROVE FALSE
    BY <1>1
  <2>2. f * k >= f * (d + 1) /\ f * (d + 1) = f * d + f
    BY <1>1, <2>1
  <2>3. f * d + f > 2 * Thousand
    BY <1>1, <1>2
  <2>4. QED  BY <1>1, <1>2, <2>2, <2>3
<1>5. QED  BY <1>3, <1>4 DEF d

(* Ticks and milliseconds: w ticks at f Hz from remainder r0 are N whole    *)
(* milliseconds and remainder r.                                            *)
LEMMA FewerTicks ==
    ASSUME NEW f \in Nat \ {0}, f <= Thousand, NEW N \in Nat, NEW ms \in Nat, N < ms,
           NEW r \in 0 .. f - 1, NEW r0 \in Nat, NEW w \in Nat,
           f * N + r = Thousand * w + r0
    PROVE  Thousand * w < ms * f /\ w < ms
<1>1. Thousand \in Nat /\ Thousand * w \in Nat /\ f * N \in Nat /\ ms * f \in Nat
  BY Constants
<1>2. f * (N + 1) <= f * ms /\ f * (N + 1) = f * N + f /\ f * ms = ms * f
  BY <1>1
<1>3. Thousand * w < ms * f
  BY <1>1, <1>2
<1>4. w < ms
  <2>1. SUFFICES ASSUME w >= ms PROVE FALSE
    OBVIOUS
  <2>2. Thousand * w >= f * w /\ f * w >= f * ms
    BY <1>1, <2>1
  <2>3. f * w \in Nat /\ f * ms \in Nat
    OBVIOUS
  <2>4. QED  BY <1>1, <1>2, <1>3, <2>2, <2>3
<1>5. QED  BY <1>3, <1>4

(* When the milliseconds counted since a start reach ms, the ticks since    *)
(* that start last more than ms - 1 milliseconds.                           *)
LEMMA EnoughTicks ==
    ASSUME NEW f \in Nat \ {0}, NEW N \in Nat, NEW ms \in Nat, N >= ms,
           NEW r \in Nat, NEW r0 \in 0 .. f - 1, NEW w \in Nat,
           f * N + r = Thousand * w + r0
    PROVE  Thousand * w > (ms - 1) * f
<1>1. Thousand \in Nat /\ Thousand * w \in Nat /\ f * N \in Nat /\ f * ms \in Nat
  BY Constants
<1>2. f * N >= f * ms /\ (ms - 1) * f = f * ms - f
  OBVIOUS
<1>3. QED  BY <1>1, <1>2

(* A tick in a wait that went on: it is counted, and if the counter wraps   *)
(* the wait is for that.                                                    *)
LEMMA WaitTick ==
    ASSUME TypeOK, Rates, Waits, pit_irq_handler, Waiting
    PROVE  Waits'
<1> DEFINE f == frequency_hz  ms == main.ms  start == main.start
<1>1. /\ f \in Nat \ {0} /\ f <= Thousand /\ initialized = 1 /\ polled
      /\ main' = main /\ f' = f /\ initialized' = 1 /\ polled' = FALSE
  BY Constants DEF pit_irq_handler, setup, Waits, Rates, Valid
<1>2. /\ main.at \in {"wrap", "wait"} /\ ms \in Nat \ {0} /\ ms + Thousand < Word
      /\ start \in 0 .. Word - 1 /\ milliseconds \in 0 .. Word - 1 /\ waited \in 0 .. Word
      /\ start + ms < Word => main.end = start + ms
      /\ start + ms >= Word => main.end = start + ms - Word
      /\ main.at = "wrap" => start + ms >= Word
      /\ main.at = "wrap" => milliseconds >= start
      /\ main.at = "wait" => milliseconds < main.end
      /\ main.rem \in Nat /\ ms_remainder \in Nat
  BY <1>1 DEF Waits, TypeOK, Waiting
<1>3. Thousand \in Nat /\ Word \in Nat
  BY Constants
<1>4. ASSUME Timed
      PROVE  /\ ms_remainder' < f
             /\ Thousand * (waited' - 1) < ms * f
             /\ waited' <= ms
             /\ Counted'
  <2>1. PICK N \in Nat : f * N + ms_remainder = Thousand * waited + main.rem /\ Position(N)
    BY <1>2, <1>4 DEF Waits, Counted
  <2>2. N < ms
    BY <1>2, <1>3, <2>1 DEF Position
  <2>3. ms_remainder \in 0 .. f - 1 /\ main.rem < f
    BY <1>1, <1>2, <1>4 DEF Waits, Timed
  <2>4. Thousand * waited < ms * f /\ waited < ms
    <3>1. /\ f \in Nat \ {0} /\ f <= Thousand /\ N \in Nat /\ ms \in Nat /\ N < ms
          /\ ms_remainder \in 0 .. f - 1 /\ main.rem \in Nat /\ waited \in Nat
          /\ f * N + ms_remainder = Thousand * waited + main.rem
      BY <1>1, <1>2, <1>3, <2>1, <2>2, <2>3
    <3> HIDE DEF f, ms
    <3>2. QED  BY <3>1, FewerTicks
  <2>5. waited' = waited + 1
    <3>1. waited + 1 \in Nat /\ Word \in Nat /\ waited + 1 <= Word
      BY <1>2, <1>3, <2>4
    <3>2. Min({waited + 1, Word}) = waited + 1
      BY <3>1, MinIs
    <3>3. QED  BY <3>2 DEF pit_irq_handler
  <2>6. PICK k \in Nat : /\ f * k + ms_remainder' = ms_remainder + Thousand
                         /\ ms_remainder' \in 0 .. f - 1
                         /\ milliseconds' = (milliseconds + k) % Word
    BY TickIs
  <2>7. k <= Thousand /\ k <= (2 * Thousand) \div f
    BY <1>1, <2>3, <2>6, TickBound
  <2>8. f * (N + k) + ms_remainder' = Thousand * waited' + main.rem
    <3>1. f * (N + k) = f * N + f * k /\ f * N \in Nat /\ f * k \in Nat
      BY <1>1, <2>1, <2>6
    <3>2. Thousand * waited' = Thousand * waited + Thousand /\ Thousand * waited \in Nat
      BY <1>2, <1>3, <2>5
    <3>3. QED  BY <1>2, <1>3, <2>1, <2>6, <3>1, <3>2
  <2>9. Position(N + k)'
    <3>1. CASE main.at = "wait" /\ start + ms < Word
      <4>1. milliseconds = start + N
        BY <2>1, <3>1 DEF Position
      <4>2. start + ms + (2 * Thousand) \div f < Word
        <5>1. 2 * Thousand \in Int
          BY <1>3
        <5>2. (2 * Thousand) \div f \in Int
          BY <1>1, <5>1, DivMod
        <5>3. ~(main.end + (2 * Thousand) \div f >= Word) /\ main.end = start + ms
          BY <1>2, <1>4, <3>1 DEF Timed, StepsOver
        <5>4. QED  BY <1>2, <1>3, <5>2, <5>3
      <4>3. milliseconds' = start + (N + k)
        <5>1. milliseconds + k \in Nat /\ milliseconds + k < Word /\ Word \in Nat \ {0}
          <6>1. (2 * Thousand) \div f \in Int
            BY <1>1, <1>3, DivMod
          <6> DEFINE d == (2 * Thousand) \div f
          <6> HIDE DEF d
          <6>2. d \in Int /\ k <= d /\ start + ms + d < Word
            BY <2>7, <4>2, <6>1 DEF d
          <6>3. QED  BY <1>2, <1>3, <2>2, <4>1, <6>2
        <5>2. QED  BY <1>2, <2>6, <4>1, <5>1, WrapIs
      <4>4. QED  BY <1>1, <1>2, <1>3, <3>1, <4>3 DEF Position
    <3>2. CASE main.at = "wait" /\ start + ms >= Word
      <4>1. milliseconds = start + N - Word
        BY <2>1, <3>2 DEF Position
      <4>2. milliseconds + k \in Nat /\ milliseconds + k < Word /\ Word \in Nat \ {0}
        BY <1>2, <1>3, <2>7, <3>2
      <4>3. milliseconds' = start + (N + k) - Word
        BY <1>2, <1>3, <2>6, <4>1, <4>2, WrapIs
      <4>4. QED  BY <1>1, <1>2, <1>3, <3>2, <4>3 DEF Position
    <3>3. CASE main.at = "wrap"
      <4>1. milliseconds = start + N
        BY <1>2, <2>1, <3>3 DEF Position
      <4>2. milliseconds + k \in Nat /\ Word \in Nat \ {0} /\ start > Thousand
        BY <1>2, <1>3, <3>3
      <4>3. CASE milliseconds + k < Word
        <5>1. milliseconds' = start + (N + k)
          BY <1>2, <2>6, <4>1, <4>2, <4>3, WrapIs
        <5>2. QED  BY <1>1, <3>3, <5>1 DEF Position
      <4>4. CASE milliseconds + k >= Word
        <5>1. milliseconds + k < 2 * Word
          BY <1>2, <1>3, <2>7, <4>2
        <5>2. milliseconds' = milliseconds + k - Word
          <6>1. (milliseconds + k) % Word = milliseconds + k - Word
            <7> DEFINE x == milliseconds + k
            <7>1. x \in Nat /\ Word \in Nat \ {0} /\ x >= Word /\ x < 2 * Word
              BY <4>2, <4>4, <5>1
            <7> HIDE DEF x
            <7>2. x % Word = x - Word
              BY <7>1, WrapIs
            <7>3. QED  BY <7>1, <7>2, <1>2, <1>3 DEF x
          <6>2. QED  BY <2>6, <6>1
        <5>3. milliseconds' = start + (N + k) - Word /\ milliseconds' < start
          BY <1>2, <1>3, <2>7, <4>1, <4>2, <5>2
        <5>4. QED  BY <1>1, <3>3, <5>3 DEF Position
      <4>5. milliseconds + k < Word \/ milliseconds + k >= Word
        BY <4>2
      <4>6. QED  BY <4>3, <4>4, <4>5
    <3>4. start + ms < Word \/ start + ms >= Word
      BY <1>2, <1>3
    <3>5. QED  BY <1>2, <3>1, <3>2, <3>3, <3>4
  <2>10. Counted'
    <3>1. N + k \in Nat /\ (frequency_hz * (N + k) + ms_remainder)' = (Thousand * waited + main.rem)'
      BY <1>1, <2>8
    <3>2. QED  BY <2>9, <3>1 DEF Counted
  <2>11. Thousand * (waited' - 1) < ms * f /\ waited' <= ms /\ ms_remainder' < f
    <3>1. waited' - 1 = waited /\ waited' <= ms
      BY <1>2, <2>4, <2>5
    <3>2. QED  BY <1>1, <2>4, <2>6, <3>1
  <2>12. QED  BY <2>10, <2>11
<1>5. Timed' = Timed
  BY <1>1 DEF Timed, StepsOver
<1>6. QED  BY <1>1, <1>2, <1>4, <1>5 DEF Waits

(* A wait begins in pit_wait_ms; till it ends it polls or is interrupted.   *)
LEMMA WaitingSteps ==
    ASSUME TypeOK, [Next]_vars
    PROVE  /\ Waiting => Poll \/ pit_irq_handler \/ UNCHANGED vars
           /\ ~Waiting /\ Waiting' => Wait
<1>1. main \in MainCall
  BY DEF TypeOK, MainCall, Labels
<1>2. ASSUME ClearTicks \/ ClearMilliseconds \/ SetFrequency \/ SetDivisor \/ SendCommand
             \/ WriteLow \/ WriteHigh \/ Ready \/ ResetMilliseconds
      PROVE  ~Waiting /\ ~Waiting'
  BY <1>1, <1>2 DEF ClearTicks, ClearMilliseconds, SetFrequency, SetDivisor, SendCommand,
     WriteLow, WriteHigh, Ready, ResetMilliseconds, Waiting, Goto, Idle, MainCall
<1>3. ASSUME pit_init \/ pit_shutdown \/ (\E f \in Frequencies : pit_set_frequency(f))
             \/ pit_reset_ticks \/ SetCallback \/ SwitchIrq0
      PROVE  ~Waiting /\ ~Waiting'
  <2>1. main = Idle
    BY <1>3 DEF pit_init, pit_shutdown, pit_set_frequency, pit_reset_ticks, SetCallback,
       SwitchIrq0
  <2>2. main'.at \in {"ticks", "resetMilliseconds"} \/ main' = main
    BY <1>3, <2>1 DEF pit_init, pit_shutdown, pit_set_frequency, Begin, pit_reset_ticks,
       SetCallback, SwitchIrq0, Goto, Idle
  <2>3. QED  BY <2>1, <2>2 DEF Waiting, Idle
<1>4. Wait => ~Waiting
  BY DEF Wait, Waiting, Idle
<1>5. Poll => Waiting
  BY DEF Poll, Waiting
<1>6. pit_irq_handler \/ UNCHANGED vars => (Waiting' <=> Waiting)
  BY DEF pit_irq_handler, vars, Waiting
<1>7. QED
  BY <1>2, <1>3, <1>4, <1>5, <1>6 DEF Next, Call, MainStep

(* Every step of a wait keeps count of it.                                  *)
LEMMA WaitsStep == TypeOK /\ Rates /\ Waits /\ [Next]_vars => Waits'
<1> SUFFICES ASSUME TypeOK, Rates, Waits, [Next]_vars, Waiting' PROVE Waits'
  BY DEF Waits
<1> USE DEF clock, setup, history
<1>1. main \in MainCall /\ Word \in Nat /\ Thousand \in Nat \ {0}
      /\ frequency_hz \in Nat /\ ms_remainder \in Nat /\ milliseconds \in 0 .. Word - 1
  BY Constants DEF TypeOK, MainCall, Labels
<1>2. CASE UNCHANGED <<main, clock, initialized, polled, waited>>
  BY <1>2 DEF Waits, Waiting, Timed, StepsOver, Counted, Position
<1>3. CASE Wait
  <2>1. PICK ms \in Delays : pit_wait_ms(ms)
    BY <1>3 DEF Wait
  <2> DEFINE end == (milliseconds + ms) % Word
  <2>2. /\ ms \in Nat /\ ms > 0 /\ ms + Thousand < Word /\ initialized' = 1
        /\ polled' = FALSE /\ waited' = 0 /\ UNCHANGED clock
        /\ main' = [at |-> IF end < milliseconds THEN "wrap" ELSE "wait",
                    f |-> 0, ms |-> ms, start |-> milliseconds, end |-> end,
                    rem |-> ms_remainder]
    BY <1>3, <2>1, DelayIs DEF Wait, pit_wait_ms, Idle
  <2>3. /\ milliseconds + ms < Word => end = milliseconds + ms
        /\ milliseconds + ms >= Word => end = milliseconds + ms - Word
    <3> DEFINE x == milliseconds + ms
    <3>1. x \in Nat /\ Word \in Nat \ {0} /\ x < 2 * Word
      BY <1>1, <2>2
    <3> HIDE DEF x
    <3>2. /\ x < Word => x % Word = x
          /\ x >= Word => x % Word = x - Word
      BY <3>1, WrapIs
    <3>3. QED  BY <1>1, <2>2, <3>1, <3>2 DEF x
  <2> HIDE DEF end
  <2>4. main'.at = "wrap" => milliseconds + ms >= Word
    BY <1>1, <2>2, <2>3
  <2>5. Position(0)'
    BY <1>1, <2>2, <2>3, <2>4 DEF Position
  <2>6. Counted'
    <3>1. frequency_hz' * 0 + ms_remainder' = Thousand * waited' + main'.rem
      BY <1>1, <2>2
    <3>2. QED  BY <2>5, <3>1 DEF Counted
  <2>7. Timed' => /\ ms_remainder' < frequency_hz'
                  /\ Thousand * (waited' - 1) < main'.ms * frequency_hz'
                  /\ waited' <= main'.ms
    <3>1. Thousand * (0 - 1) < 0 /\ ms * frequency_hz >= 0
      BY <1>1, <2>2
    <3>2. QED  BY <1>1, <2>2, <3>1 DEF Timed
  <2>8. QED  BY <1>1, <2>2, <2>3, <2>4, <2>6, <2>7 DEF Waits
<1>4. CASE Poll
  <2>1. UNCHANGED <<clock, initialized, waited>> /\ Waiting
    BY <1>4 DEF Poll, Waiting
  <2>2. CASE main' = main
    <3>1. Timed' = Timed /\ Counted' = Counted
      BY <2>1, <2>2 DEF Timed, StepsOver, Counted, Position
    <3>2. /\ polled' /\ main.at = "wrap" => milliseconds >= main.start
          /\ polled' /\ main.at = "wait" => milliseconds < main.end
      BY <1>1, <1>4, <2>2 DEF Poll, Goto, Idle, MainCall
    <3>3. QED  BY <2>1, <2>2, <3>1, <3>2 DEF Waits
  <2>3. CASE main.at = "wrap" /\ main' = [main EXCEPT !.at = "wait"]
    <3>1. milliseconds < main.start /\ polled' = polled
      BY <1>1, <1>4, <2>3 DEF Poll, Goto, Idle, MainCall
    <3>2. /\ main'.at = "wait" /\ main'.ms = main.ms /\ main'.start = main.start
          /\ main'.end = main.end /\ main'.rem = main.rem /\ main.start + main.ms >= Word
          /\ ~polled'
      BY <1>1, <2>1, <2>3, <3>1 DEF Waits, MainCall
    <3>3. Timed' = Timed
      BY <2>1, <3>2 DEF Timed, StepsOver, clock
    <3>4. ASSUME Counted PROVE Counted'
      <4>1. PICK N \in Nat : /\ frequency_hz * N + ms_remainder = Thousand * waited + main.rem
                             /\ Position(N)
        BY <3>4 DEF Counted
      <4>2. milliseconds = main.start + N - Word
        <5>1. main.start \in Nat
          BY <1>1 DEF MainCall
        <5>2. milliseconds # main.start + N
          BY <1>1, <3>1, <5>1
        <5>3. QED  BY <2>3, <4>1, <5>2 DEF Position
      <4>3. ~(main.start + main.ms < Word)
        BY <1>1, <2>1, <3>2 DEF MainCall, Waits
      <4>4. Position(N)'
        BY <2>1, <3>2, <4>2, <4>3 DEF Position
      <4>5. QED  BY <2>1, <3>2, <4>1, <4>4 DEF Counted
    <3>5. ~(main.start + main.ms < Word)
      BY <1>1, <2>1, <3>2 DEF MainCall, Waits
    <3>6. QED  BY <2>1, <2>3, <3>2, <3>3, <3>4, <3>5 DEF Waits
  <2>4. QED  BY <1>4, <2>2, <2>3 DEF Poll, Goto, Waiting, Idle
<1>5. CASE pit_irq_handler
  BY <1>5, WaitTick DEF pit_irq_handler, Waiting
<1>6. CASE UNCHANGED vars
  BY <1>2, <1>6 DEF vars
<1>7. QED
  BY <1>3, <1>4, <1>5, <1>6, WaitingSteps

(* A wait takes the ticks of its delay, at most one less millisecond and    *)
(* one tick more, also when the millisecond counter wraps (HIGH-003).       *)
THEOREM WaitInTimeHolds == Spec => WaitInTime
<1>1. Init => Waits
  BY DEF Init, Waits, Waiting, Idle
<1>2. TypeOK /\ Rates /\ Waits /\ [Next]_vars =>
          [Waiting /\ main' = Idle /\ ~StepsOver(main) /\ main.rem < frequency_hz =>
             /\ Thousand * waited > (main.ms - 1) * frequency_hz
             /\ Thousand * (waited - 1) < main.ms * frequency_hz]_vars
  <2> SUFFICES ASSUME TypeOK, Rates, Waits, [Next]_vars, Waiting, main' = Idle, Timed
               PROVE  /\ Thousand * waited > (main.ms - 1) * frequency_hz
                      /\ Thousand * (waited - 1) < main.ms * frequency_hz
    BY DEF Timed
  <2>1. /\ main.at \in {"wrap", "wait"} /\ main \in MainCall
        /\ Word \in Nat /\ frequency_hz \in Nat \ {0} /\ ms_remainder \in Nat
        /\ main.rem \in 0 .. frequency_hz - 1 /\ waited \in Nat /\ main.ms \in Nat
        /\ main.start \in Nat
    BY Constants DEF TypeOK, MainCall, Labels, Waiting, Timed
  <2>2. main.at = "wait" /\ milliseconds >= main.end
    <3>1. Poll
      <4>1. main' # main
        BY DEF Waiting, Idle
      <4>2. ~pit_irq_handler /\ ~(UNCHANGED vars)
        BY <4>1 DEF pit_irq_handler, vars
      <4>3. QED  BY <4>2, WaitingSteps
    <3>2. QED  BY <2>1, <3>1 DEF Poll, Goto, Idle, MainCall
  <2>3. PICK N \in Nat : /\ frequency_hz * N + ms_remainder = Thousand * waited + main.rem
                         /\ Position(N)
    BY DEF Waits, Counted
  <2>4. N >= main.ms
    BY <2>1, <2>2, <2>3 DEF Position, Waits
  <2>5. Thousand * waited > (main.ms - 1) * frequency_hz
    <3> DEFINE f == frequency_hz  ms == main.ms  r0 == main.rem
    <3>1. /\ f \in Nat \ {0} /\ ms \in Nat /\ N >= ms /\ ms_remainder \in Nat
          /\ r0 \in 0 .. f - 1 /\ waited \in Nat
          /\ f * N + ms_remainder = Thousand * waited + r0
      BY <2>1, <2>3, <2>4
    <3> HIDE DEF f, ms, r0
    <3>2. Thousand * waited > (ms - 1) * f
      BY <3>1, EnoughTicks
    <3>3. QED  BY <3>2 DEF f, ms
  <2>6. Thousand * (waited - 1) < main.ms * frequency_hz
    BY DEF Waits
  <2>7. QED  BY <2>5, <2>6
<1>3. Typed => TypeOK /\ Rates
  BY DEF Typed
<1>4. QED  BY <1>1, <1>2, <1>3, WaitsStep, TypedAlways, PTL DEF Spec, WaitInTime
=============================================================================
