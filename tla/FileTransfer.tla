------------------------------ MODULE FileTransfer ------------------------------
(***************************************************************************)
(* One file transfer of file_transfer.py: a call of push_file or of        *)
(* pull_file, whichever it is, with the link and the daemon they share.    *)
(* The call that is not made leaves its variables alone.                   *)
(***************************************************************************)
EXTENDS PushFile, PullFile

pushOwn == <<offset, attempts, resumes>>
pullOwn == <<pullWork, changes, late, hurt>>
vars == <<pushVars, pullOwn>>

PushIdle == offset = 0 /\ attempts = 0 /\ resumes = 0
PullIdle ==
    /\ size = SizeOf(<<>>) /\ crc = Wrong /\ attempt = 0 /\ tries = 0
    /\ collected = <<>> /\ saved = <<>> /\ changes = 0 /\ late = FALSE /\ hurt = FALSE

Init == (PushInit /\ PullIdle) \/ (PullInit /\ PushIdle)

Next == (PushNext /\ UNCHANGED pullOwn) \/ (PullNext /\ UNCHANGED pushOwn)

PushTurn == call = "push" /\ PushHost /\ UNCHANGED <<call, pullOwn>>
PullTurn == call = "pull" /\ PullHost /\ UNCHANGED <<call, pushOwn>>

\* The host's timers fire; nothing is assumed of the link or of the daemon.
FairSpec == Init /\ [][Next]_vars /\ WF_vars(PushTurn) /\ WF_vars(PullTurn)
===============================================================================
