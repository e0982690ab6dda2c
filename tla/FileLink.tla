-------------------------------- MODULE FileLink --------------------------------
(***************************************************************************)
(* What the two directions of file_transfer.py have in common: one call of *)
(* push_file or pull_file, one file on the Amiga, and the link between     *)
(* host and daemon: in order, but lines may be damaged, answers may come   *)
(* after the host stopped waiting, and the connection may be lost.  What   *)
(* is the same in both directions; call says which one it is.              *)
(***************************************************************************)
EXTENDS Naturals, Sequences

CONSTANTS
    MaxRetries,   \* MAX_RETRIES, scaled down
    MaxDamage,    \* bound: damaged lines in one behaviour
    MaxDrops      \* bound: connection losses in one behaviour

ASSUME LinkAssumption ==
    MaxRetries \in Nat \ {0} /\ MaxDamage \in Nat /\ MaxDrops \in Nat

VARIABLES
    call,               \* which function was called, "push" or "pull"
    pc,                 \* where the call is
    result,             \* what it returned
    connected,          \* conn.connected
    toDaemon, toHost,   \* lines in flight, oldest first
    remote,             \* the file on the Amiga
    damage, drops       \* bounds used up

Pending == [status |-> "pending", crc |-> "none"]

ResultOK ==
    result \in [status : {"pending", "success", "failure", "raised"},
                crc : {"none", "match", "mismatch"}]

\* Whatever is in flight is gone with the connection.
Drop ==
    /\ connected /\ pc # "done" /\ drops < MaxDrops /\ drops' = drops + 1
    /\ connected' = FALSE
    /\ toDaemon' = <<>> /\ toHost' = <<>>
    /\ UNCHANGED <<pc, result, remote, damage>>

Reconnect ==
    /\ ~connected
    /\ connected' = TRUE
    /\ UNCHANGED <<pc, result, toDaemon, toHost, remote, damage, drops>>
===============================================================================
