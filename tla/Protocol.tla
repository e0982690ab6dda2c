----------------------------- MODULE Protocol -----------------------------
(***************************************************************************)
(* The lines of the link as the host reads and writes them: parse_message  *)
(* and format_command (amiga_devbench/protocol.py) and the events that     *)
(* SerialConnection publishes (serial_conn.py).                            *)
(*                                                                         *)
(* A line is split at every "|".  What matters here is what the parser     *)
(* makes of a last field, or a list of names that ends the line, that may  *)
(* hold the separator too:                                                 *)
(*   "whole"  the parts are joined again;                                  *)
(*   "cut"    one part is taken for the text, and the rest is dropped or   *)
(*            taken for the next entry;                                    *)
(*   "plain"  the word has no such field.                                  *)
(* Left out are numbers, and names in a field before the last, such as the *)
(* task of a DBGSTATE or the client of a CVAR: with a separator in one no  *)
(* reader can tell where the next field begins.  So is a line with too few *)
(* fields, for which parse_message returns None: the daemon writes none.   *)
(***************************************************************************)
\* In a chain of tests the first branch that knows the word decides.
f ++ g ==
    [w \in DOMAIN f \cup DOMAIN g |-> IF w \in DOMAIN f THEN f[w] ELSE g[w]]

Words(ws, treatment) == [w \in ws |-> treatment]

parse_log_and_clients ==
    Words({"LOG", "VAR", "CMD"}, "whole") ++ Words({"MEM", "HB", "READY"}, "plain")
      ++ Words({"CLIENTS"}, "cut")
parse_lists_and_clog ==
    Words({"TASKS", "LIBS", "DIR", "PROC", "CLOG", "CVAR"}, "whole")
      ++ Words({"FILE"}, "plain") ++ Words({"FILEINFO"}, "cut")
parse_ok_and_hooks ==
    Words({"VOLUMES", "OK", "ERR", "DEVICES"}, "whole") ++ Words({"PONG"}, "plain")
      ++ Words({"HOOKS", "MEMREGS", "CINFO"}, "cut")
parse_graphics ==
    Words({"SCRINFO", "SCRDATA", "SCRRGB", "SCRRLE", "PALETTE", "COPPER", "SPRITE"}, "plain")
parse_debugger ==
    Words({"DBGSTOP", "DBGRUNNING", "DBGDETACHED", "BPINFO", "BPLIST", "DBGREGS", "DBGBT",
           "DBGSTATE"}, "plain")

\* RESOURCES and PERF look for all their entries in the part before the first
\* separator; WINLIST takes each part for a title.
parse_crash_and_resources ==
    Words({"CRASH", "CDBG"}, "plain") ++ Words({"RESOURCES", "PERF", "WINLIST"}, "cut")
parse_system ==
    Words({"LIBINFO", "DEVINFO"}, "whole") ++ Words({"MEMMAP"}, "cut")
      ++ Words({"STACKINFO", "CHIPREGS", "REGS", "SEARCH"}, "plain")
parse_snoop_and_intuition ==
    Words({"SNOOP", "SNOOPSTATE", "LIBFUNCS", "AUDIOCHANNELS", "AUDIOSAMPLE", "SCREENS",
           "WINDOWS", "GADGETS"}, "plain")
parse_tests_and_clipboard ==
    Words({"AREXXRESULT"}, "whole") ++ Words({"FONTS"}, "cut")
      ++ Words({"TEST_BEGIN", "TEST_PASS", "TEST_FAIL", "TEST_END", "FONTINFO", "CHIPLOG",
                "CHIPLOGCHANGE", "POOLS", "AREXXPORTS", "CLIPBOARD"}, "plain")
parse_files_and_environment_cut ==
    Words({"ENV", "PROCLIST", "PROCSTAT", "ASSIGNS", "PORTS"}, "cut")
      ++ Words({"CAPABILITIES", "TAILDATA", "CHECKSUM", "PROTECT", "VERSION", "SYSINFO",
                "UPTIME"}, "plain")
parse_files_and_environment ==
    Words({"ENV"}, "whole") ++ Words({"PROCLIST", "PROCSTAT", "ASSIGNS", "PORTS"}, "cut")
      ++ Words({"CAPABILITIES", "TAILDATA", "CHECKSUM", "PROTECT", "VERSION", "SYSINFO",
                "UPTIME"}, "plain")

\* A word that is not in the domain is no message: the line is dropped.
parse_message ==
    parse_log_and_clients ++ parse_lists_and_clog ++ parse_ok_and_hooks ++ parse_graphics
      ++ parse_debugger ++ parse_crash_and_resources ++ parse_system
      ++ parse_snoop_and_intuition ++ parse_tests_and_clipboard
      ++ parse_files_and_environment

\* Is a text that holds separators still whole behind the parser?
Survives(word, text) == ~text \/ parse_message[word] = "whole"

-----------------------------------------------------------------------------
(* The words format_command can write; any other raises ValueError.  Tools *)
(* that write a line themselves (send_raw) do not come this way.           *)

format_client_commands ==
    {"PING", "GETVAR", "SETVAR", "INSPECT", "EXEC", "LISTCLIENTS", "LISTTASKS", "LISTLIBS",
     "LISTDEVS", "LISTVOLUMES", "LISTDIR", "READFILE", "WRITEFILE", "FILEINFO", "DELETEFILE",
     "MAKEDIR", "LAUNCH", "DOSCOMMAND", "RUN", "BREAK", "LISTHOOKS", "CALLHOOK",
     "LISTMEMREGS", "READMEMREG", "CLIENTINFO", "STOP", "SCRIPT", "WRITEMEM", "SHUTDOWN",
     "SCREENSHOT", "PALETTE", "SETPALETTE", "COPPERLIST", "SPRITES", "LISTRESOURCES",
     "GETPERF", "LASTCRASH", "LISTWINDOWS", "CRASHINIT", "CRASHREMOVE", "CRASHTEST",
     "MEMMAP", "STACKINFO", "CHIPREGS", "READREGS", "SEARCH", "LIBINFO", "DEVINFO",
     "LIBFUNCS", "SNOOPSTART", "SNOOPSTOP", "SNOOPSTATUS"}
format_system_commands ==
    {"AUDIOCHANNELS", "AUDIOSAMPLE", "LISTSCREENS", "LISTWINDOWS2", "LISTGADGETS",
     "INPUTKEY", "INPUTMOVE", "INPUTPOS", "INPUTCLICK", "WINACTIVATE", "WINTOFRONT",
     "WINTOBACK", "WINZIP", "WINMOVE", "WINSIZE", "SCRTOFRONT", "SCRTOBACK", "LISTFONTS",
     "FONTINFO", "CHIPLOGSTART", "CHIPLOGSTOP", "CHIPLOGSNAPSHOT", "POOLSTART", "POOLSTOP",
     "POOLS", "CLIPGET", "CLIPSET", "AREXXPORTS", "AREXXSEND", "CAPABILITIES", "PROCLIST",
     "PROCSTAT", "SIGNAL", "TAIL", "STOPTAIL", "CHECKSUM", "ASSIGNS", "ASSIGN", "PROTECT",
     "RENAME", "SETCOMMENT", "COPY", "APPEND", "GETENV", "SETENV", "SETDATE", "VOLUMES",
     "PORTS", "SYSINFO", "UPTIME", "VERSION", "REBOOT"}
format_debugger_commands ==
    {"DBGATTACH", "DBGDETACH", "BPSET", "BPCLEAR", "BPLIST", "DBGSTEP", "DBGNEXT", "DBGCONT",
     "DBGREGS", "DBGSETREG", "DBGBT", "DBGSTATUS", "DBGBREAK"}
format_command ==
    format_client_commands \cup format_system_commands \cup format_debugger_commands

-----------------------------------------------------------------------------
(* The events that _process_message publishes a message as: its own word,  *)
(* and what a client reports on its variables and its log is heard as the  *)
(* daemon's own is too.                                                    *)

Events(words) == [w \in words |-> {w}]

publish_reports ==
    [CVAR |-> {"VAR", "CVAR"}, CLOG |-> {"LOG", "CLOG"}, CDBG |-> {"LOG"}]
      ++ Events({"LOG", "VAR", "HB", "MEM", "CMD", "READY", "CLIENTS"})
publish_answers ==
    Events({"TASKS", "LIBS", "DIR", "FILE", "FILEINFO", "PROC", "VOLUMES", "PONG", "HOOKS",
            "MEMREGS", "CINFO", "DEVICES", "OK", "ERR", "SCRINFO", "SCRDATA", "SCRRGB",
            "SCRRLE", "PALETTE", "COPPER", "SPRITE"})
publish_debugger_and_crash ==
    [DBGSTOP |-> {"DBGSTOP", "LOG"}, CRASH |-> {"CRASH", "LOG"}]
      ++ Events({"DBGRUNNING", "DBGDETACHED", "BPINFO", "BPLIST", "DBGREGS", "DBGBT",
                 "DBGSTATE"})
publish_inspections ==
    Events({"RESOURCES", "PERF", "WINLIST", "MEMMAP", "STACKINFO", "CHIPREGS", "REGS",
            "SEARCH", "LIBINFO", "DEVINFO", "LIBFUNCS", "SNOOP", "SNOOPSTATE",
            "AUDIOCHANNELS", "AUDIOSAMPLE", "SCREENS", "WINDOWS", "GADGETS", "FONTS",
            "FONTINFO", "CHIPLOG", "CHIPLOGCHANGE", "POOLS", "CLIPBOARD", "AREXXPORTS",
            "AREXXRESULT", "CAPABILITIES", "PROCLIST", "PROCSTAT", "TAILDATA", "CHECKSUM",
            "ASSIGNS", "PROTECT", "VERSION", "ENV", "PORTS", "SYSINFO", "UPTIME"})
published ==
    publish_reports ++ publish_answers ++ publish_debugger_and_crash ++ publish_inspections
process_message(word) == IF word \in DOMAIN published THEN published[word] ELSE {}
=============================================================================
