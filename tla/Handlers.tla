----------------------------- MODULE Handlers -----------------------------
(***************************************************************************)
(* What the daemon answers to each command of the host, as a set of        *)
(* alternatives: protocol_parse_line (amiga-bridge/src/protocol_handler.c) *)
(* and the handlers it calls.  What a handler finds in the machine decides *)
(* between its alternatives and is left open.                              *)
(*                                                                         *)
(* An alternative is a sequence of lines.  Of a line are kept its word;    *)
(* the context of OK and ERR; what it echoes of the command: its first     *)
(* argument as the host wrote it ("arg"), that argument in a form of the   *)
(* daemon's own ("own"), or nothing; and whether its last field, or the    *)
(* list that ends it, has a text that can hold the separator, "|": one the *)
(* daemon was given and copies as it is.  <<>> is no answer at all.        *)
(***************************************************************************)
EXTENDS Sequences, TLC

Line(word, ctx, echo, text) == [word |-> word, ctx |-> ctx, echo |-> echo, text |-> text]

Says(w) == {<<Line(w, "", "none", FALSE)>>}
SaysText(w) == {<<Line(w, "", "none", TRUE)>>}
Echoes(w) == {<<Line(w, "", "arg", FALSE)>>}
EchoesText(w) == {<<Line(w, "", "arg", TRUE)>>}
EchoesOwn(w) == {<<Line(w, "", "own", FALSE)>>}
Silence == {<<>>}
Then(A, B) == {a \o b : a \in A, b \in B}

\* send_ok and send_err; the second field of an OK or ERR line is its context.
Ok(c) == {<<Line("OK", c, "none", FALSE)>>}
OkEchoes(c) == {<<Line("OK", c, "arg", FALSE)>>}
send_err(c) == {<<Line("ERR", c, "none", FALSE)>>}

\* The PowerPC build answers these like a word it does not know.
unknown == send_err("Unknown command")
Only68k(A) == A \cup unknown

\* A window, screen or input command: OK or ERR under its own name.
Does(c) == Ok(c) \cup send_err(c)

-----------------------------------------------------------------------------
(* protocol_handler.c                                                      *)

handle_ping == Says("PONG")

\* At most 256 bytes, in one line, under the address as a number.
handle_inspect == EchoesOwn("MEM") \cup send_err("INSPECT")

\* The client answers with the bare name of the variable, after a line of log.
var_send_and_wait(name) ==
    send_err("VAR")
      \cup Then(Says("LOG"),
                {<<Line("VAR", "", name, TRUE)>>} \cup send_err("VAR"))

\* find_client_with_var knows every variable that has been announced.
handle_getvar ==
    var_send_and_wait("arg") \cup var_send_and_wait("own")
      \cup send_err("Client not found") \cup send_err("GETVAR")
handle_setvar ==
    var_send_and_wait("arg") \cup var_send_and_wait("own")
      \cup send_err("Client not found") \cup send_err("SETVAR")

\* A client answers later, or never; with none there is an answer at once.
handle_exec == Echoes("CMD") \cup EchoesText("CMD") \cup Silence \cup send_err("EXEC")

protocol_send_clients == SaysText("CLIENTS")
protocol_send_dir == EchoesText("DIR") \cup send_err("LISTDIR failed")
protocol_send_file == Echoes("FILE") \cup send_err("READFILE failed")
protocol_send_fileinfo == EchoesText("FILEINFO") \cup send_err("FILEINFO failed")

handle_writefile == Ok("WRITEFILE") \cup send_err("WRITEFILE failed") \cup send_err("WRITEFILE")
handle_delete == OkEchoes("DELETE") \cup send_err("DELETE failed")
handle_makedir == OkEchoes("MAKEDIR") \cup send_err("MAKEDIR failed")
handle_launch == EchoesText("CMD") \cup send_err("LAUNCH")
handle_run == EchoesText("CMD") \cup send_err("RUN")
handle_break == OkEchoes("BREAK") \cup send_err("Task not found") \cup send_err("BREAK")

\* One line for the client named, or one for each client.
handle_listhooks ==
    LET hooks == EchoesText("HOOKS")
    IN  hooks \cup Then(hooks, hooks) \cup Says("HOOKS") \cup send_err("Client not found")
handle_listmemregs ==
    LET memregs == EchoesText("MEMREGS")
    IN  memregs \cup Then(memregs, memregs) \cup Says("MEMREGS")
          \cup send_err("Client not found")

handle_callhook ==
    send_err("CALLHOOK") \cup EchoesText("CMD") \cup Then(Says("LOG"), EchoesText("CMD"))

\* protocol_send_mem: the region's first 256 bytes in one line.
handle_readmemreg ==
    Says("MEM") \cup send_err("READMEMREG") \cup send_err("Client not found")
      \cup send_err("Region not found")
handle_clientinfo ==
    EchoesText("CINFO") \cup send_err("CLIENTINFO") \cup send_err("Client not found")
handle_stop ==
    OkEchoes("STOP") \cup Ok("STOP") \cup send_err("STOP") \cup send_err("Task not found")
      \cup send_err("Client/task not found")

\* The script has been started and its output goes to a file.
handle_script == EchoesText("CMD") \cup send_err("SCRIPT")
handle_writemem == Ok("WRITEMEM") \cup send_err("WRITEMEM")

\* The client's report starts with its count, so it always holds a "|".
handle_listresources == EchoesText("RESOURCES") \cup send_err("LISTRESOURCES")
handle_getperf == EchoesText("PERF") \cup send_err("GETPERF")
handle_lastcrash == Only68k(Says("CRASH") \cup send_err("LASTCRASH"))
handle_proclist == SaysText("PROCLIST")
handle_procstat == EchoesText("PROCSTAT") \cup send_err("PROCSTAT")
handle_signal == Ok("SIGNAL") \cup send_err("SIGNAL")
handle_tail == OkEchoes("TAIL") \cup send_err("TAIL")
handle_stoptail == Ok("STOPTAIL")

handle_checksum == Echoes("CHECKSUM") \cup send_err("CHECKSUM")
handle_protect == Echoes("PROTECT") \cup send_err("PROTECT")
handle_rename == Ok("RENAME") \cup send_err("RENAME")
handle_setcomment == OkEchoes("SETCOMMENT") \cup send_err("SETCOMMENT")
handle_copy == Ok("COPY") \cup send_err("COPY")
handle_append == Ok("APPEND") \cup send_err("APPEND")
handle_version == Says("VERSION")
handle_getenv == EchoesText("ENV") \cup send_err("GETENV")
handle_setenv == OkEchoes("SETENV") \cup send_err("SETENV")
handle_setdate == OkEchoes("SETDATE") \cup send_err("SETDATE")
handle_reboot == Ok("REBOOT")
handle_crashinit == Only68k(Ok("CRASHINIT"))
handle_crashremove == Only68k(Ok("CRASHREMOVE"))
handle_crashtest == Only68k(Ok("CRASHTEST"))
handle_snoopstart == Only68k(Ok("SNOOPSTART"))
handle_snoopstop == Only68k(Ok("SNOOPSTOP"))
handle_shutdown == Ok("SHUTDOWN")

-----------------------------------------------------------------------------
(* system_inspector.c                                                      *)

sys_list_tasks == SaysText("TASKS")
sys_list_libs == SaysText("LIBS")
sys_list_devices == SaysText("DEVICES")
sys_list_volumes == SaysText("VOLUMES")
sys_handle_memmap == SaysText("MEMMAP")
sys_handle_stackinfo == Echoes("STACKINFO") \cup send_err("STACKINFO")
sys_handle_chipregs == Only68k(Says("CHIPREGS"))
sys_handle_readregs == Only68k(Says("REGS"))
sys_handle_search == Says("SEARCH") \cup send_err("SEARCH")
sys_handle_libinfo == EchoesText("LIBINFO") \cup send_err("LIBINFO")
sys_handle_devinfo == EchoesText("DEVINFO") \cup send_err("DEVINFO")
sys_handle_libfuncs == Only68k(Echoes("LIBFUNCS") \cup send_err("LIBFUNCS"))
sys_list_assigns == SaysText("ASSIGNS")
sys_handle_assign == Does("ASSIGN")
sys_handle_capabilities == Says("CAPABILITIES")
sys_handle_volumes_ext == SaysText("VOLUMES")
sys_handle_ports == SaysText("PORTS")
sys_handle_sysinfo == Says("SYSINFO")
sys_handle_uptime == Says("UPTIME")

-----------------------------------------------------------------------------
(* The inspectors: gfx, intuition, audio, font; the chip write logger and  *)
(* the pool tracker.                                                       *)

\* The header, then the rows: packed or, when that is no gain, plane by plane.
gfx_handle_screenshot ==
    LET rows(w) == Then(Says("SCRINFO"), Then(Says(w), Says(w)))
    IN  rows("SCRRLE") \cup rows("SCRDATA") \cup send_err("SCREENSHOT")
gfx_handle_palette == Says("PALETTE") \cup send_err("PALETTE")
gfx_handle_setpalette == Does("SETPALETTE")
gfx_handle_copperlist ==
    LET part == Says("COPPER")
    IN  Only68k(part \cup Then(part, part) \cup send_err("COPPERLIST"))

\* Hardware sprites that are switched off are passed over: perhaps all of them.
gfx_handle_sprites ==
    LET sprite == Says("SPRITE")
    IN  Only68k(Silence \cup sprite \cup Then(sprite, sprite) \cup send_err("SPRITES"))
gfx_handle_listwindows == SaysText("WINLIST") \cup send_err("LISTWINDOWS")

\* The address in a window's or a gadget's list is the daemon's own writing.
intui_handle_screens == Says("SCREENS") \cup send_err("SCREENS")
intui_handle_windows == EchoesOwn("WINDOWS") \cup send_err("WINDOWS")
intui_handle_gadgets == EchoesOwn("GADGETS") \cup send_err("GADGETS")
intui_handle_activate == Does("WINACTIVATE")
intui_handle_tofront == Does("WINTOFRONT")
intui_handle_toback == Does("WINTOBACK")
intui_handle_zip == Does("WINZIP")
intui_handle_move == Does("WINMOVE")
intui_handle_size == Does("WINSIZE")
intui_handle_scrtofront == Does("SCRTOFRONT")
intui_handle_scrtoback == Does("SCRTOBACK")

audio_handle_channels == Only68k(Says("AUDIOCHANNELS"))
audio_handle_sample == Only68k(EchoesOwn("AUDIOSAMPLE") \cup send_err("AUDIOSAMPLE"))
font_handle_list == SaysText("FONTS") \cup send_err("LISTFONTS")
font_handle_info == Echoes("FONTINFO") \cup send_err("FONTINFO")

chiplog_handle_start == Only68k(Ok("CHIPLOG"))
chiplog_handle_stop == Only68k(Ok("CHIPLOG"))
chiplog_handle_snapshot == Only68k(Says("CHIPLOG"))
pool_handle_start == Only68k(Ok("POOL"))
pool_handle_stop == Only68k(Ok("POOL"))
pool_handle_list == Only68k(Says("POOLS"))

-----------------------------------------------------------------------------
(* Clipboard, ARexx, input                                                 *)

\* sanitize_text has replaced the separators in the clipboard's text.
clip_handle_get == Says("CLIPBOARD") \cup send_err("CLIPBOARD")
clip_handle_set == Does("CLIPBOARD")

\* A command that reaches its port is answered later, by arexx_poll: the
\* program's result, or an error when ten seconds have passed.
arexx_handle_ports == Says("AREXXPORTS")
arexx_handle_send == Silence \cup send_err("AREXX")
arexx_poll == Says("AREXXRESULT") \cup send_err("AREXX")

input_handle_key == Does("INPUTKEY")
input_handle_mouse_move == Does("INPUTMOVE")
input_handle_pointer_pos == Does("INPUTPOS")
input_handle_mouse_button == Does("INPUTCLICK")

-----------------------------------------------------------------------------
(* debugger.c and snoop.c                                                  *)

dbg_handle_attach == Only68k(Says("DBGSTATE") \cup send_err("DBGATTACH"))
dbg_handle_detach == Only68k(Says("DBGDETACHED") \cup send_err("DBGDETACH"))
dbg_handle_break == Only68k(Says("DBGSTATE") \cup Says("DBGSTOP") \cup send_err("DBGBREAK"))
dbg_handle_bpset == Only68k(Says("BPINFO") \cup send_err("BPSET"))
dbg_handle_bpclear == Only68k(Ok("BPCLEAR") \cup send_err("BPCLEAR"))
dbg_handle_bplist == Only68k(Says("BPLIST") \cup send_err("BPLIST"))
dbg_handle_step == Only68k(Says("DBGRUNNING") \cup send_err("DBGSTEP"))
dbg_handle_continue == Only68k(Says("DBGRUNNING") \cup send_err("DBGCONT"))
dbg_handle_next == dbg_handle_step \cup dbg_handle_continue \cup Only68k(send_err("DBGNEXT"))
dbg_handle_regs == Only68k(Says("DBGREGS") \cup send_err("DBGREGS"))
dbg_handle_setreg == Only68k(send_err("DBGSETREG"))
dbg_handle_backtrace == Only68k(Says("DBGBT") \cup send_err("DBGBT"))
dbg_handle_clearall == Only68k(Ok("DBGCLEARALLBP") \cup send_err("DBGCLEARALLBP"))
dbg_handle_launch == Only68k(Does("DBGLAUNCH"))
dbg_handle_status == Only68k(Says("DBGSTATE"))
snoop_handle_status == Only68k(Says("SNOOPSTATE"))

-----------------------------------------------------------------------------
(* protocol_parse_line: from the word of a command to its handler.         *)

dispatch_clients_and_files ==
    [PING |-> handle_ping, INSPECT |-> handle_inspect, GETVAR |-> handle_getvar,
     SETVAR |-> handle_setvar, EXEC |-> handle_exec, LISTCLIENTS |-> protocol_send_clients,
     LISTTASKS |-> sys_list_tasks, LISTLIBS |-> sys_list_libs,
     LISTDEVICES |-> sys_list_devices, LISTDEVS |-> sys_list_devices,
     LISTVOLUMES |-> sys_list_volumes, LISTDIR |-> protocol_send_dir,
     READFILE |-> protocol_send_file, WRITEFILE |-> handle_writefile,
     FILEINFO |-> protocol_send_fileinfo, DELETE |-> handle_delete,
     DELETEFILE |-> handle_delete, MAKEDIR |-> handle_makedir, LAUNCH |-> handle_launch,
     DOSCOMMAND |-> handle_launch, RUN |-> handle_run, BREAK |-> handle_break,
     LISTHOOKS |-> handle_listhooks, CALLHOOK |-> handle_callhook,
     LISTMEMREGS |-> handle_listmemregs, READMEMREG |-> handle_readmemreg,
     CLIENTINFO |-> handle_clientinfo, STOP |-> handle_stop, SCRIPT |-> handle_script,
     WRITEMEM |-> handle_writemem, LISTRESOURCES |-> handle_listresources,
     GETPERF |-> handle_getperf]

dispatch_inspectors ==
    [SCREENSHOT |-> gfx_handle_screenshot, PALETTE |-> gfx_handle_palette,
     SETPALETTE |-> gfx_handle_setpalette, COPPERLIST |-> gfx_handle_copperlist,
     SPRITES |-> gfx_handle_sprites, LISTWINDOWS |-> gfx_handle_listwindows,
     LASTCRASH |-> handle_lastcrash, CRASHINIT |-> handle_crashinit,
     CRASHREMOVE |-> handle_crashremove, MEMMAP |-> sys_handle_memmap,
     STACKINFO |-> sys_handle_stackinfo, CHIPREGS |-> sys_handle_chipregs,
     READREGS |-> sys_handle_readregs, SEARCH |-> sys_handle_search,
     LIBINFO |-> sys_handle_libinfo, DEVINFO |-> sys_handle_devinfo,
     LIBFUNCS |-> sys_handle_libfuncs, SNOOPSTART |-> handle_snoopstart,
     SNOOPSTOP |-> handle_snoopstop, SNOOPSTATUS |-> snoop_handle_status,
     AUDIOCHANNELS |-> audio_handle_channels, AUDIOSAMPLE |-> audio_handle_sample,
     LISTSCREENS |-> intui_handle_screens, LISTWINDOWS2 |-> intui_handle_windows,
     LISTGADGETS |-> intui_handle_gadgets, WINACTIVATE |-> intui_handle_activate,
     WINTOFRONT |-> intui_handle_tofront, WINTOBACK |-> intui_handle_toback,
     WINZIP |-> intui_handle_zip, WINMOVE |-> intui_handle_move,
     WINSIZE |-> intui_handle_size, SCRTOFRONT |-> intui_handle_scrtofront,
     SCRTOBACK |-> intui_handle_scrtoback]

dispatch_input_and_system ==
    [INPUTKEY |-> input_handle_key, INPUTMOVE |-> input_handle_mouse_move,
     INPUTPOS |-> input_handle_pointer_pos, INPUTCLICK |-> input_handle_mouse_button,
     CRASHTEST |-> handle_crashtest, LISTFONTS |-> font_handle_list,
     FONTINFO |-> font_handle_info, CHIPLOGSTART |-> chiplog_handle_start,
     CHIPLOGSTOP |-> chiplog_handle_stop, CHIPLOGSNAPSHOT |-> chiplog_handle_snapshot,
     POOLSTART |-> pool_handle_start, POOLSTOP |-> pool_handle_stop,
     POOLS |-> pool_handle_list, CLIPGET |-> clip_handle_get, CLIPSET |-> clip_handle_set,
     AREXXPORTS |-> arexx_handle_ports, AREXXSEND |-> arexx_handle_send,
     CAPABILITIES |-> sys_handle_capabilities, PROCLIST |-> handle_proclist,
     PROCSTAT |-> handle_procstat, SIGNAL |-> handle_signal, TAIL |-> handle_tail,
     STOPTAIL |-> handle_stoptail, CHECKSUM |-> handle_checksum,
     ASSIGNS |-> sys_list_assigns, ASSIGN |-> sys_handle_assign,
     PROTECT |-> handle_protect, RENAME |-> handle_rename,
     SETCOMMENT |-> handle_setcomment, COPY |-> handle_copy, APPEND |-> handle_append,
     VERSION |-> handle_version, GETENV |-> handle_getenv, SETENV |-> handle_setenv,
     SETDATE |-> handle_setdate, VOLUMES |-> sys_handle_volumes_ext,
     PORTS |-> sys_handle_ports, SYSINFO |-> sys_handle_sysinfo,
     UPTIME |-> sys_handle_uptime, REBOOT |-> handle_reboot,
     SHUTDOWN |-> handle_shutdown]

dispatch_debugger ==
    [DBGATTACH |-> dbg_handle_attach, DBGDETACH |-> dbg_handle_detach,
     BPSET |-> dbg_handle_bpset, BPCLEAR |-> dbg_handle_bpclear,
     BPLIST |-> dbg_handle_bplist, DBGSTEP |-> dbg_handle_step,
     DBGNEXT |-> dbg_handle_next, DBGCONT |-> dbg_handle_continue,
     DBGREGS |-> dbg_handle_regs, DBGSETREG |-> dbg_handle_setreg,
     DBGBT |-> dbg_handle_backtrace, DBGBREAK |-> dbg_handle_break,
     DBGCLEARALLBP |-> dbg_handle_clearall, DBGSTATUS |-> dbg_handle_status,
     DBGLAUNCH |-> dbg_handle_launch]

\* What the daemon may answer to each word; others are unknown to it.
Answers ==
    dispatch_clients_and_files @@ dispatch_inspectors @@ dispatch_input_and_system
      @@ dispatch_debugger
protocol_parse_line(cmd) == IF cmd \in DOMAIN Answers THEN Answers[cmd] ELSE unknown
=============================================================================
