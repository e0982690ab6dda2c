---------------------------- MODULE MCDebugger ----------------------------
(* Debugger for TLC: of the addresses one reads in decimal as the number of *)
(* the first slot, and the others as numbers that no slot has.              *)
EXTENDS Debugger

MCDecimal == [a \in 1..3 |-> IF a = 2 THEN 0 ELSE 9]
=============================================================================
