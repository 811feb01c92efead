------------------------------ MODULE MCTimer -------------------------------
(***************************************************************************)
(* The units are scaled down so that counters wrap and divisors clamp: 20   *)
(* milliseconds to the second, bytes of 8 values, counters that wrap at 32. *)
(* A tick takes 1 millisecond at 20 Hz, 2.5 at 8, 6 2/3 at 3, which is      *)
(* below what the divisor can express; 21 Hz is refused.                    *)
(***************************************************************************)
EXTENDS Timer

MCFrequencies == {8, 20, 21}
MCMsDelays == {4}
MCUsDelays == {45}
=============================================================================
