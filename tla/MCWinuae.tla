------------------------------ MODULE MCWinuae ------------------------------
(* Two coroutines; a breakpoint and a GDB watchpoint that WinUAE accepts, a  *)
(* breakpoint that it refuses, and two watches of the monitor.               *)
EXTENDS Winuae, TLC

CONSTANTS c1, c2, bp, bad, gdb, w1, w2
Symmetry == Permutations(Callers) \cup Permutations(Watches)
=============================================================================
