----------------------------- MODULE MCSpinlock -----------------------------
(***************************************************************************)
(* Two processors, the first of which the interrupt controller delivers to, *)
(* and two of the kernel's locks, one taken inside the other: g_slab_lock   *)
(* and g_heap_lock, or g_log_lock and g_serial_lock.                        *)
(***************************************************************************)
EXTENDS Spinlock

CONSTANTS bsp, ap, outer, inner

MCCPU == {bsp, ap}
MCIrqCPU == {bsp}
MCLock == {outer, inner}
MCMayNest == {<<outer, inner>>}
=============================================================================
