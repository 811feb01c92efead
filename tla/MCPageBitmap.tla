---------------------------- MODULE MCPageBitmap ----------------------------
(***************************************************************************)
(* Two CPUs and a bitmap of two words of three bits, the first page below   *)
(* the kernel's end. Runs of two and three pages cross the word boundary.   *)
(***************************************************************************)
EXTENDS PageBitmap, TLC

CONSTANTS cpu0, cpu1

MCClient == {cpu0, cpu1}
ClientSymmetry == Permutations(MCClient)
=============================================================================
