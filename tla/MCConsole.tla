----------------------------- MODULE MCConsole -----------------------------
(* Small instances of Console: one or two processors of two.                *)
EXTENDS Console

MCMisuseNone == {}
MCMisuseFault == {"fault in VGA output"}
MCMisuseNested == {"write inside serial_lock"}
=============================================================================
