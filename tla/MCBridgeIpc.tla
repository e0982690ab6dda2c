---- MODULE MCBridgeIpc ----
(* Three runs of client programs: a1 and a2 are runs of one program, started  *)
(* under one name, a3 is another program.                                     *)
EXTENDS BridgeIpc, TLC

CONSTANTS a1, a2, a3

AppNames == a1 :> "prog" @@ a2 :> "prog" @@ a3 :> "tool"
====
