---------------------------- MODULE MCInterrupts ----------------------------
(***************************************************************************)
(* The timer's line, the cascade and the slave's highest line. Two handlers *)
(* may nest; a third request reaches the limit.                             *)
(***************************************************************************)
EXTENDS Interrupts

MCIrq == {0, 2, 8}
=============================================================================
