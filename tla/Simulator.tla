----------------------------- MODULE Simulator -----------------------------
(***************************************************************************)
(* The stand-in for an Amiga that the devbench can be connected to         *)
(* (amiga_devbench/simulator.py), as the answers of _handle_command in the *)
(* form of Handlers.  It knows fewer commands than the daemon, is silent   *)
(* about the others, and answers some in words of its own.                 *)
(***************************************************************************)
EXTENDS Handlers, Naturals

SimOk(c) == {<<Line("OK", c, "arg", FALSE)>>}

\* "PING" is answered by a heartbeat; a variable that is not there by a line as
\* for one that is, or, when it is to be set, by nothing. All the memory asked for
\* comes, in lines of 256 bytes. A command may be followed by a line of log.
sim_clients_and_files(size) ==
    [PING |-> Says("HB"),
     GETVAR |-> Echoes("VAR"),
     SETVAR |-> Silence \cup Then(Echoes("VAR"), Says("LOG")),
     INSPECT |-> {[i \in 1..size |-> Line("MEM", "", "own", FALSE)]},
     EXEC |-> EchoesText("CMD") \cup Then(EchoesText("CMD"), Says("LOG")),
     LISTCLIENTS |-> Says("CLIENTS"), LISTTASKS |-> Says("TASKS"),
     LISTLIBS |-> Says("LIBS"), LISTDIR |-> Echoes("DIR"), READFILE |-> Echoes("FILE")]

\* Launched processes are reported as "PROC".
sim_programs ==
    [LAUNCH |-> Then(EchoesText("PROC"), Says("LOG")), DOSCOMMAND |-> EchoesText("CMD"),
     RUN |-> EchoesText("CMD"), BREAK |-> SimOk("BREAK"), LISTHOOKS |-> Says("HOOKS"),
     CALLHOOK |-> Echoes("CMD"), LISTMEMREGS |-> Says("MEMREGS"), READMEMREG |-> Says("MEM"),
     CLIENTINFO |-> Echoes("CINFO"), STOP |-> SimOk("STOP"), SCRIPT |-> Echoes("CMD"),
     WRITEMEM |-> SimOk("WRITEMEM"), LISTDEVS |-> Says("DEVICES"),
     LISTDEVICES |-> Says("DEVICES"), LISTVOLUMES |-> Says("VOLUMES")]

\* A step is over before it is answered: by the stop, not by "DBGRUNNING".
sim_debugger ==
    LET attached(A, cmd) == A \cup send_err(cmd)
    IN  [DBGATTACH |-> attached(Says("DBGSTATE"), "DBGATTACH"),
         DBGDETACH |-> Says("DBGDETACHED"),
         BPSET |-> Says("BPINFO") \cup send_err("BPSET"),
         BPCLEAR |-> Ok("BPCLEAR") \cup send_err("BPCLEAR"), BPLIST |-> Says("BPLIST"),
         DBGSTEP |-> attached(Says("DBGSTOP"), "DBGSTEP"),
         DBGNEXT |-> attached(Says("DBGSTOP"), "DBGNEXT"),
         DBGCONT |-> attached(Says("DBGRUNNING"), "DBGCONT"),
         DBGREGS |-> attached(Says("DBGREGS"), "DBGREGS"),
         DBGSETREG |-> Ok("DBGSETREG"), DBGBT |-> Says("DBGBT"),
         DBGBREAK |-> attached(Says("DBGSTOP"), "DBGBREAK"),
         DBGSTATUS |-> Says("DBGSTATE"), SHUTDOWN |-> Ok("SHUTDOWN")]

\* size is the number of lines that the memory asked for fills.
sim_handle_command(cmd, size) ==
    LET answers == sim_clients_and_files(size) @@ sim_programs @@ sim_debugger
    IN  IF cmd \in DOMAIN answers THEN answers[cmd] ELSE Silence
=============================================================================
