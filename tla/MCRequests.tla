---------------------------- MODULE MCRequests ----------------------------
(* Two calls out of three, each of any tool or endpoint: for the same      *)
(* thing, or for two.                                                      *)
EXTENDS Requests, TLC
CONSTANTS c1, c2, c3
MCCallers == {c1, c2, c3}
MCArgument == [c \in MCCallers |-> IF c = c3 THEN "another" ELSE "one"]
MCPlans == mcp_tools \cup endpoints
MCPeers == {"daemon", "simulator"}
MCTogether ==
    {amiga_get_var, amiga_set_var, amiga_exec, amiga_launch, amiga_read_file, amiga_read_memregion,
     amiga_list_hooks, amiga_write_memory, amiga_rename, amiga_arexx_send, api_tool_copper,
     api_tool_libinfo, api_tool_clipboard_set, api_tool_win_zip, api_file_save}
MCNoise == {"CVAR", "CRASH", "DBGSTOP"}
Symmetry == Permutations({c1, c2})
=============================================================================
