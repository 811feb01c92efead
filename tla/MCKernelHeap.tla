---------------------------- MODULE MCKernelHeap ----------------------------
(***************************************************************************)
(* Two threads, three pages and two caches: one whose slabs hold two        *)
(* objects, and one whose slabs hold a single object, like that of 2048     *)
(* bytes; and runs of one and two pages.                                    *)
(***************************************************************************)
EXTENDS KernelHeap, TLC

CONSTANTS cpu0, cpu1

MCThread == {cpu0, cpu1}
MCObjects == <<2, 1>>
ThreadSymmetry == Permutations(MCThread)
=============================================================================
