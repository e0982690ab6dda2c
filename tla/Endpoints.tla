----------------------------- MODULE Endpoints -----------------------------
(***************************************************************************)
(* The HTTP endpoints of the devbench that talk to the daemon (server.py), *)
(* as plans in the form of Tools.  Many are the plan of the tool that does *)
(* the same.                                                               *)
(***************************************************************************)
EXTENDS Tools

wait_any_ok(cmd) == <<wait_for_ok(cmd, {AnyContext})>>
own_ok(cmd) == <<wait_for_ok(cmd, {cmd})>>
one_at_a_time(cmd, word, n) ==
    <<[wait_for(cmd, word) EXCEPT !.rows = n, !.how = "anew"]>>

api_clients == amiga_list_clients
api_tasks == amiga_list_tasks
api_dir == <<list_dir_all>>
api_file == <<wait_for_own("READFILE", "FILE")>>
api_memory == amiga_inspect_memory
api_volumes == <<wait_for("LISTVOLUMES", "VOLUMES")>>

\* A command typed in: "set" is sent on its way, the rest is for a client.
api_command == amiga_exec
api_launch == amiga_launch
api_run == <<wait_for_own("RUN", "CMD")>>
api_break == <<confirm("BREAK", {"BREAK"})>>
api_hooks == amiga_list_hooks
api_call_hook == amiga_call_hook
\* Not an endpoint: how the model proxy reaches a client.
_amiga_call_hook == amiga_call_hook
api_memregions == amiga_list_memregions
api_read_memregion == amiga_read_memregion
api_client_info == amiga_client_info
api_stop == amiga_stop_client
api_script == script_execute
api_write_memory == amiga_write_memory
api_run_cycle == amiga_run
api_ping == amiga_ping

\* Not an endpoint: the server's own task, at every READY.
_on_bridge_ready == <<anyway(wait_for("VERSION", "VERSION")), tell("CRASHINIT")>>

api_tool_screenshot == amiga_screenshot
api_windows == <<wait_for("LISTWINDOWS", "WINLIST")>>
api_tool_palette == <<wait_for("PALETTE", "PALETTE")>>
api_tool_copper == one_at_a_time("COPPERLIST", "COPPER", 2)
api_tool_sprites == one_at_a_time("SPRITES", "SPRITE", 8)
api_tool_disasm == <<wait_for("INSPECT", "MEM")>>
api_crash_enable == wait_any_ok("CRASHINIT")
api_crash_disable == wait_any_ok("CRASHREMOVE")
api_crashtest ==
    <<anyway(wait_for_ok("CRASHINIT", {AnyContext})), wait_for("CRASHTEST", "CRASH")>>
api_tool_resources == <<wait_for("LISTRESOURCES", "RESOURCES")>>
api_tool_perf == <<wait_for("GETPERF", "PERF")>>
api_tool_list_libs == amiga_list_libs
api_tool_list_devices == <<wait_for("LISTDEVS", "DEVICES")>>
api_tool_libinfo == amiga_lib_info
api_tool_devinfo == amiga_dev_info
api_tool_libfuncs == <<glance("LIBFUNCS", "LIBFUNCS", {"LIBFUNCS"})>>
api_tool_snoop_start == <<confirm("SNOOPSTART", {"SNOOPSTART"})>>
api_tool_snoop_stop == <<confirm("SNOOPSTOP", {"SNOOPSTOP"})>>
api_tool_snoop_status == <<wait_for("SNOOPSTATUS", "SNOOPSTATE")>>

api_tool_audio_channels == amiga_audio_channels
api_tool_audio_sample == <<glance("AUDIOSAMPLE", "AUDIOSAMPLE", {AnyContext})>>
api_tool_screens == amiga_list_screens
api_tool_screen_windows == <<glance("LISTWINDOWS2", "WINDOWS", {AnyContext})>>
api_tool_gadgets == <<glance("LISTGADGETS", "GADGETS", {AnyContext})>>
api_tool_input_key == amiga_input_key
api_tool_input_move == amiga_input_mouse_move
api_tool_input_pos == amiga_input_pointer_pos
api_tool_input_click == amiga_input_click
_win_action(cmd) == wait_any_ok(cmd)
api_tool_win_activate == _win_action("WINACTIVATE")
api_tool_win_tofront == _win_action("WINTOFRONT")
api_tool_win_toback == _win_action("WINTOBACK")
api_tool_win_zip == _win_action("WINZIP")
api_tool_win_move == _win_action("WINMOVE")
api_tool_win_size == _win_action("WINSIZE")
api_tool_scr_tofront == _win_action("SCRTOFRONT")
api_tool_scr_toback == _win_action("SCRTOBACK")

api_tool_memory_search == <<glance("SEARCH", "SEARCH", {AnyContext})>>
api_tool_bitmap == <<collect("INSPECT", {"MEM"}, {AnyContext}, 2)>>
api_tool_snapshot == <<collect("INSPECT", {"MEM"}, {AnyContext}, 1)>>
api_tool_memmap == <<wait_for("MEMMAP", "MEMMAP")>>
api_tool_stackinfo == <<wait_for("STACKINFO", "STACKINFO")>>
api_tool_chipregs == <<wait_for("CHIPREGS", "CHIPREGS")>>
api_tool_readregs == <<wait_for("READREGS", "REGS")>>
api_tool_iff == <<again(wait_for_own("READFILE", "FILE"))>>
api_tool_sysinfo ==
    <<anyway(wait_for("PING", "PONG")), anyway(wait_for("LISTTASKS", "TASKS")),
      anyway(wait_for("LISTLIBS", "LIBS")), wait_for("LISTVOLUMES", "VOLUMES")>>

api_file_execute == amiga_launch
api_file_view == api_file
\* The test is for "FILE" somewhere in the context.
api_file_save ==
    <<confirm("WRITEFILE", {"WRITEFILE", "WRITEFILE failed", "READFILE failed",
                            "FILEINFO failed"})>>
api_file_run_with == amiga_launch

_run_script == script_execute
api_tool_assigns == _run_script
api_tool_assign_set == _run_script
api_tool_assign_remove == _run_script
api_tool_locale == _run_script
api_tool_locale_strings == _run_script
api_tool_startup_read == _run_script
api_tool_prefs_list == _run_script
api_tool_startup_write == <<glance("WRITEFILE", "OK", {AnyContext})>>
api_tool_prefs_read == <<wait_for("READFILE", "FILE")>>
api_tool_fonts == <<wait_for("LISTFONTS", "FONTS")>>
api_tool_fontinfo == <<wait_for("FONTINFO", "FONTINFO")>>

api_tool_chiplog_start == <<wait_for_ok("CHIPLOGSTART", {"CHIPLOG"})>>
api_tool_chiplog_stop == <<tell("CHIPLOGSTOP")>>
api_tool_chiplog_snapshot == <<wait_for("CHIPLOGSNAPSHOT", "CHIPLOG")>>
api_tool_pool_start == <<tell("POOLSTART")>>
api_tool_pool_stop == <<tell("POOLSTOP")>>
api_tool_pools == <<wait_for("POOLS", "POOLS")>>

api_tool_arexx_ports == amiga_arexx_ports
api_tool_arexx_send == amiga_arexx_send
api_tool_clipboard_get == <<wait_for("CLIPGET", "CLIPBOARD")>>
api_tool_clipboard_set == <<glance("CLIPSET", "OK", {AnyContext})>>
api_tool_capabilities == amiga_capabilities
api_tool_proclist == amiga_proc_list
api_tool_signal == own_ok("SIGNAL")
api_tool_checksum == <<wait_for("CHECKSUM", "CHECKSUM")>>
api_tool_protect == <<wait_for("PROTECT", "PROTECT")>>
api_tool_rename == own_ok("RENAME")
api_tool_copy == own_ok("COPY")
api_tool_set_comment == own_ok("SETCOMMENT")
api_tool_append == own_ok("APPEND")
api_tool_tail_start == own_ok("TAIL")
api_tool_tail_stop == own_ok("STOPTAIL")
api_tool_version == amiga_version
api_tool_get_env == amiga_get_env
api_tool_set_env == own_ok("SETENV")
api_tool_set_date == own_ok("SETDATE")
api_tool_list_volumes == amiga_list_volumes
api_tool_list_ports == amiga_list_ports
api_tool_sysinfo_full == amiga_sysinfo
api_tool_uptime == amiga_uptime
api_tool_reboot == amiga_reboot
api_tool_shutdown_bridge == amiga_shutdown

\* These look for the outcome in the debugger's state as the server knows it,
\* which a listener of its own keeps up to date.
api_debugger_attach == <<tell("DBGATTACH"), again(tell("DBGSTATUS"))>>
api_debugger_break == <<tell("DBGBREAK"), again(tell("DBGSTATUS"))>>
api_debugger_step ==
    <<tell("DBGSTATUS"), tell("BPSET"), tell("DBGCONT"), again(tell("DBGSTATUS")),
      tell("BPCLEAR")>>
_do_debugger_next == api_debugger_step
api_debugger_continue == <<tell("DBGCONT")>>
api_debugger_bp_set == <<tell("BPSET")>>
api_debugger_bp_clear == amiga_clear_breakpoint
api_debugger_bp_list == amiga_list_breakpoints
api_debugger_detach == amiga_debug_detach
api_debugger_regs == <<wait_for("DBGREGS", "DBGREGS")>>
api_debugger_setreg == <<wait_for_ok("DBGSETREG", {"DBGSETREG"})>>
api_debugger_backtrace == amiga_backtrace

-----------------------------------------------------------------------------
(* All of them                                                             *)

endpoints ==
    {api_clients, api_tasks, api_dir, api_file, api_memory, api_volumes, api_command,
     api_launch, api_run, api_break, api_hooks, api_call_hook, _amiga_call_hook, api_memregions,
     api_read_memregion, api_client_info, api_stop, api_script, api_write_memory,
     api_run_cycle, api_ping, _on_bridge_ready, api_tool_screenshot, api_windows,
     api_tool_palette, api_tool_copper, api_tool_sprites, api_tool_disasm,
     api_crash_enable, api_crash_disable, api_crashtest, api_tool_resources,
     api_tool_perf, api_tool_list_libs, api_tool_list_devices, api_tool_libinfo,
     api_tool_devinfo, api_tool_libfuncs, api_tool_snoop_start, api_tool_snoop_stop,
     api_tool_snoop_status, api_tool_audio_channels, api_tool_audio_sample,
     api_tool_screens, api_tool_screen_windows, api_tool_gadgets, api_tool_input_key,
     api_tool_input_move, api_tool_input_pos, api_tool_input_click,
     api_tool_win_activate, api_tool_win_tofront, api_tool_win_toback, api_tool_win_zip,
     api_tool_win_move, api_tool_win_size, api_tool_scr_tofront, api_tool_scr_toback,
     api_tool_memory_search, api_tool_bitmap, api_tool_snapshot, api_tool_memmap,
     api_tool_stackinfo, api_tool_chipregs, api_tool_readregs, api_tool_iff,
     api_tool_sysinfo, api_file_execute, api_file_view, api_file_save,
     api_file_run_with, api_tool_assigns, api_tool_assign_set, api_tool_assign_remove,
     api_tool_locale, api_tool_locale_strings, api_tool_startup_read,
     api_tool_prefs_list, api_tool_startup_write, api_tool_prefs_read, api_tool_fonts,
     api_tool_fontinfo, api_tool_chiplog_start, api_tool_chiplog_stop,
     api_tool_chiplog_snapshot, api_tool_pool_start, api_tool_pool_stop, api_tool_pools,
     api_tool_arexx_ports, api_tool_arexx_send, api_tool_clipboard_get,
     api_tool_clipboard_set, api_tool_capabilities, api_tool_proclist, api_tool_signal,
     api_tool_checksum, api_tool_protect, api_tool_rename, api_tool_copy,
     api_tool_set_comment, api_tool_append, api_tool_tail_start, api_tool_tail_stop,
     api_tool_version, api_tool_get_env, api_tool_set_env, api_tool_set_date,
     api_tool_list_volumes, api_tool_list_ports, api_tool_sysinfo_full, api_tool_uptime,
     api_tool_reboot, api_tool_shutdown_bridge, api_debugger_attach, api_debugger_break,
     api_debugger_step, _do_debugger_next, api_debugger_continue, api_debugger_bp_set,
     api_debugger_bp_clear, api_debugger_bp_list, api_debugger_detach,
     api_debugger_regs, api_debugger_setreg, api_debugger_backtrace}
=============================================================================
