------------------------------- MODULE Tools -------------------------------
(***************************************************************************)
(* The tools of the devbench that talk to the daemon, as plans: sequences  *)
(* of exchanges (mcp_tools.py; Endpoints has the HTTP endpoints).  What a  *)
(* tool does with an answer it has read, and its work on the host itself,  *)
(* are left out.                                                           *)
(*                                                                         *)
(* An exchange sends the command cmd and waits for                         *)
(*   on    the words that answer it ({}: it waits for nothing),            *)
(*   key   TRUE when the answer must carry the tool's own argument,        *)
(*   ok    the contexts an OK must have to count,                          *)
(*   err   the contexts of the errors that end the wait ({}: none is even  *)
(*         subscribed to),                                                 *)
(*   rows  how many answers the tool collects,                             *)
(*   how   "wait"   it reads events until one decides;                     *)
(*         "glance" it reads one event and gives up if that is another;    *)
(*         "anew"   it subscribes again for each row (bus.wait_for in a    *)
(*                  loop), so rows that came together are lost,            *)
(*   then  what follows: "on" to the next exchange when this one has been  *)
(*         answered, or "again" perhaps to the same once more (paging,     *)
(*         polling); "anyway" and "retry" are the same, answered or not.   *)
(***************************************************************************)
EXTENDS Sequences

AnyContext == "any"
Heard(contexts, c) == AnyContext \in contexts \/ c \in contexts

Exchange(cmd, on, key, ok, err) ==
    [cmd |-> cmd, on |-> on, key |-> key, ok |-> ok, err |-> err, rows |-> 1, how |-> "wait",
     then |-> "on"]

\* bus.wait_for, which hears no error: for a word, for the tool's own answer,
\* for an OK of any kind or of one context.
wait_for(cmd, word) == Exchange(cmd, {word}, FALSE, {}, {})
wait_for_own(cmd, word) == Exchange(cmd, {word}, TRUE, {}, {})
wait_for_ok(cmd, contexts) == Exchange(cmd, {"OK"}, FALSE, contexts, {})

\* A loop over a queue that ends at a word or at an error of some contexts.
listen(cmd, word, errors) == Exchange(cmd, {word}, FALSE, {}, errors)
\* The same for OK and ERR under one test of the context.
confirm(cmd, contexts) == Exchange(cmd, {"OK"}, FALSE, contexts, contexts)
glance(cmd, word, errors) == [listen(cmd, word, errors) EXCEPT !.how = "glance"]
collect(cmd, words, errors, n) ==
    [Exchange(cmd, words, FALSE, {}, errors) EXCEPT !.rows = n]
tell(cmd) == Exchange(cmd, {}, FALSE, {}, {})

again(e) == [e EXCEPT !.then = "again"]
anyway(e) == [e EXCEPT !.then = "anyway"]
retry(e) == [e EXCEPT !.then = "retry"]

\* send_await: the first answer that fits, or the first error whatever it is of.
send_await(cmd, word) == Exchange(cmd, {word}, TRUE, {}, {AnyContext})
send_await_ok(cmd) == Exchange(cmd, {"OK"}, FALSE, {cmd}, {AnyContext})

-----------------------------------------------------------------------------
(* Helpers several tools share                                             *)

read_amiga_file_text == again(send_await("READFILE", "FILE"))

\* The script runs on by itself; its output file is read until the mark is in it.
script_execute ==
    <<send_await("SCRIPT", "CMD"), retry(read_amiga_file_text), tell("DELETEFILE")>>
list_dir_all == again(send_await("LISTDIR", "DIR"))

-----------------------------------------------------------------------------
(* MCP tools                                                               *)

\* One MEM line of at most 256 bytes answers; more is waited for in vain.
amiga_inspect_memory == <<listen("INSPECT", "MEM", {"INSPECT"})>>
amiga_inspect_memory_large == <<collect("INSPECT", {"MEM"}, {"INSPECT"}, 2)>>
amiga_get_var == <<wait_for_own("GETVAR", "VAR")>>
amiga_set_var == <<tell("SETVAR")>>
amiga_exec == <<wait_for_own("EXEC", "CMD")>>
amiga_list_clients == <<wait_for("LISTCLIENTS", "CLIENTS")>>
amiga_list_tasks == <<wait_for("LISTTASKS", "TASKS")>>
amiga_list_libs == <<wait_for("LISTLIBS", "LIBS")>>
amiga_lib_info == <<glance("LIBINFO", "LIBINFO", {"LIBINFO"})>>
amiga_dev_info == <<glance("DEVINFO", "DEVINFO", {"DEVINFO"})>>
amiga_list_dir == <<list_dir_all>>
amiga_read_file == <<send_await("READFILE", "FILE")>>
amiga_write_file == <<tell("WRITEFILE")>>
amiga_launch == <<wait_for_own("LAUNCH", "CMD")>>
amiga_dos_command == script_execute
amiga_list_hooks == <<wait_for("LISTHOOKS", "HOOKS")>>
amiga_call_hook == <<wait_for_own("CALLHOOK", "CMD")>>
amiga_list_memregions == <<wait_for("LISTMEMREGS", "MEMREGS")>>
amiga_read_memregion == <<listen("READMEMREG", "MEM", {AnyContext})>>
amiga_client_info == <<wait_for("CLIENTINFO", "CINFO")>>

\* The test is for "BREAK" or "Task" somewhere in the context.
amiga_kill_task == <<confirm("BREAK", {"BREAK", "DBGBREAK", "Task not found"})>>
\* Here for "STOP" or "Client": the error "Task not found" is not heard.
stop_or_client == {"STOP", "STOPTAIL", "SNOOPSTOP", "Client not found", "Client/task not found"}
amiga_stop_client == <<confirm("STOP", stop_or_client)>>
amiga_run_script == script_execute
amiga_write_memory == <<confirm("WRITEMEM", {"WRITEMEM"})>>

\* No line of the daemon is a PROC.
amiga_build_deploy_run == <<wait_for_own("LAUNCH", "PROC")>>
amiga_run ==
    <<anyway(confirm("STOP", stop_or_client)), anyway(wait_for_own("LAUNCH", "CMD")),
      retry(wait_for("LISTCLIENTS", "CLIENTS"))>>
amiga_disassemble == amiga_inspect_memory

amiga_screenshot_short ==
    <<collect("SCREENSHOT", {"SCRINFO", "SCRRLE", "SCRRGB", "SCRDATA"}, {"SCREENSHOT"}, 2)>>

\* The header tells how many rows follow: two here.
amiga_screenshot ==
    <<collect("SCREENSHOT", {"SCRINFO", "SCRRLE", "SCRRGB", "SCRDATA"}, {"SCREENSHOT"}, 3)>>
\* "PALETTE" is also a part of "SETPALETTE".
amiga_get_palette == <<listen("PALETTE", "PALETTE", {"PALETTE", "SETPALETTE"})>>
amiga_set_palette == <<confirm("SETPALETTE", {"SETPALETTE"})>>
\* Until the chunk with the end marker: of one chunk, or of two.
amiga_copper_list == <<collect("COPPERLIST", {"COPPER"}, {"COPPERLIST"}, 2)>>
\* Until all eight sprites have come or the time is up.
amiga_sprites == <<collect("SPRITES", {"SPRITE"}, {"SPRITES"}, 8)>>
amiga_last_crash == <<listen("LASTCRASH", "CRASH", {"LASTCRASH"})>>
amiga_list_resources == <<listen("LISTRESOURCES", "RESOURCES", {"LISTRESOURCES"})>>
amiga_perf_report == <<listen("GETPERF", "PERF", {"GETPERF"})>>

amiga_audio_channels == <<wait_for("AUDIOCHANNELS", "AUDIOCHANNELS")>>
amiga_audio_sample == <<listen("AUDIOSAMPLE", "AUDIOSAMPLE", {AnyContext})>>
amiga_list_screens == <<wait_for("LISTSCREENS", "SCREENS")>>
amiga_list_screen_windows == <<listen("LISTWINDOWS2", "WINDOWS", {AnyContext})>>
amiga_list_gadgets == <<listen("LISTGADGETS", "GADGETS", {AnyContext})>>
amiga_window_move == <<wait_for_ok("WINMOVE", {AnyContext})>>
amiga_window_resize == <<wait_for_ok("WINSIZE", {AnyContext})>>
amiga_input_key == <<wait_for_ok("INPUTKEY", {AnyContext})>>
amiga_input_mouse_move == <<wait_for_ok("INPUTMOVE", {AnyContext})>>
amiga_input_pointer_pos == <<wait_for_ok("INPUTPOS", {AnyContext})>>
amiga_input_click == <<wait_for_ok("INPUTCLICK", {AnyContext})>>

amiga_run_tests == <<tell("STOP"), tell("LAUNCH")>>
amiga_arexx_ports == <<wait_for("AREXXPORTS", "AREXXPORTS")>>
amiga_arexx_send == <<wait_for("AREXXSEND", "AREXXRESULT")>>
amiga_capabilities == <<wait_for("CAPABILITIES", "CAPABILITIES")>>
amiga_proc_list == <<wait_for("PROCLIST", "PROCLIST")>>
amiga_proc_stat == <<send_await("PROCSTAT", "PROCSTAT")>>
amiga_signal == <<send_await_ok("SIGNAL")>>
amiga_tail == <<send_await_ok("TAIL"), wait_for_ok("STOPTAIL", {"STOPTAIL"})>>
amiga_checksum == <<send_await("CHECKSUM", "CHECKSUM")>>
amiga_list_assigns == <<wait_for("ASSIGNS", "ASSIGNS")>>
amiga_assign == <<send_await_ok("ASSIGN")>>
amiga_protect == <<send_await("PROTECT", "PROTECT")>>
amiga_rename == <<send_await_ok("RENAME")>>
amiga_set_comment == <<send_await_ok("SETCOMMENT")>>
amiga_copy == <<send_await_ok("COPY")>>
amiga_append_file == <<send_await_ok("APPEND")>>
amiga_ping == <<wait_for("PING", "PONG")>>
amiga_version == <<wait_for("VERSION", "VERSION")>>
amiga_get_env == <<glance("GETENV", "ENV", {AnyContext})>>
amiga_set_env == <<send_await_ok("SETENV")>>
amiga_set_date == <<send_await_ok("SETDATE")>>
amiga_list_volumes == <<wait_for("VOLUMES", "VOLUMES")>>
amiga_list_ports == <<wait_for("PORTS", "PORTS")>>
amiga_sysinfo == <<wait_for("SYSINFO", "SYSINFO")>>
amiga_uptime == <<wait_for("UPTIME", "UPTIME")>>
amiga_reboot == <<tell("REBOOT")>>
amiga_shutdown == <<wait_for_ok("SHUTDOWN", {"SHUTDOWN"})>>

amiga_debug_attach == <<listen("DBGATTACH", "DBGSTATE", {"DBGATTACH"})>>
amiga_debug_detach == <<wait_for("DBGDETACH", "DBGDETACHED")>>
amiga_set_breakpoint == <<listen("BPSET", "BPINFO", {"BPSET"})>>
amiga_clear_breakpoint == <<confirm("BPCLEAR", {"BPCLEAR"})>>
amiga_list_breakpoints == <<wait_for("BPLIST", "BPLIST")>>
amiga_step == <<wait_for("DBGSTEP", "DBGSTOP")>>
amiga_next == <<wait_for("DBGNEXT", "DBGSTOP")>>
amiga_continue == <<Exchange("DBGCONT", {"DBGRUNNING", "DBGSTOP"}, FALSE, {}, {})>>
amiga_backtrace == <<wait_for("DBGBT", "DBGBT")>>

-----------------------------------------------------------------------------
(* All of them                                                             *)

mcp_tools ==
    {amiga_inspect_memory, amiga_inspect_memory_large, amiga_get_var, amiga_set_var,
     amiga_exec, amiga_list_clients, amiga_list_tasks, amiga_list_libs, amiga_lib_info,
     amiga_dev_info, amiga_list_dir, amiga_read_file, amiga_write_file, amiga_launch,
     amiga_dos_command, amiga_list_hooks, amiga_call_hook, amiga_list_memregions,
     amiga_read_memregion, amiga_client_info, amiga_kill_task, amiga_stop_client,
     amiga_run_script, amiga_write_memory, amiga_build_deploy_run, amiga_run,
     amiga_disassemble, amiga_screenshot, amiga_get_palette, amiga_set_palette,
     amiga_copper_list, amiga_sprites, amiga_last_crash, amiga_list_resources,
     amiga_perf_report, amiga_audio_channels, amiga_audio_sample, amiga_list_screens,
     amiga_list_screen_windows, amiga_list_gadgets, amiga_window_move,
     amiga_window_resize, amiga_input_key, amiga_input_mouse_move,
     amiga_input_pointer_pos, amiga_input_click, amiga_run_tests, amiga_arexx_ports,
     amiga_arexx_send, amiga_capabilities, amiga_proc_list, amiga_proc_stat,
     amiga_signal, amiga_tail, amiga_checksum, amiga_list_assigns, amiga_assign,
     amiga_protect, amiga_rename, amiga_set_comment, amiga_copy, amiga_append_file,
     amiga_ping, amiga_version, amiga_get_env, amiga_set_env, amiga_set_date, amiga_list_volumes,
     amiga_list_ports, amiga_sysinfo, amiga_uptime, amiga_reboot, amiga_shutdown,
     amiga_debug_attach, amiga_debug_detach, amiga_set_breakpoint,
     amiga_clear_breakpoint, amiga_list_breakpoints, amiga_step, amiga_next,
     amiga_continue, amiga_backtrace}
=============================================================================
