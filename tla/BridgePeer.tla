------------------------------- MODULE BridgePeer -------------------------------
(***************************************************************************)
(* What the bridge's TCP end promises a host, which is all the host's      *)
(* reconnect logic may rely on: it listens or it does not, it knows the    *)
(* connections its stack completed until it forgets them, and it serves    *)
(* one of them at a time, taking the next only when that one is gone.      *)
(* SerialConnection runs against this promise; the daemon (NetIo) keeps it.*)
(***************************************************************************)
CONSTANTS
    Slots,        \* the sockets a connection may use
    None          \* client_sock = -1

VARIABLES
    up,           \* the bridge listens
    talking,      \* it sends to the client it serves
    known,        \* connections it has not forgotten
    served        \* client_sock

peer == <<up, talking, known, served>>

PeerType == /\ up \in BOOLEAN /\ talking \in BOOLEAN
            /\ known \subseteq Slots /\ served \in Slots \cup {None}

PeerInit == up \in BOOLEAN /\ talking = TRUE /\ known = {} /\ served = None

\* net_open: the daemon listens.
Starts == ~up /\ up' = TRUE /\ UNCHANGED <<talking, known, served>>

\* net_close, or the machine is gone: every connection is forgotten.
Stops == up /\ up' = FALSE /\ known' = {} /\ served' = None /\ UNCHANGED talking

\* The emulator is paused, or its serial listener restarts: no traffic.
Stalls == talking /\ talking' = FALSE /\ UNCHANGED <<up, known, served>>

Resumes == ~talking /\ talking' = TRUE /\ UNCHANGED <<up, known, served>>

\* The stack completes a connection, served or not.
Hears(i) ==
    /\ up /\ i \notin known
    /\ known' = known \cup {i}
    /\ UNCHANGED <<up, talking, served>>

\* try_accept, reached only while nobody is served.
Accepts(i) ==
    /\ up /\ served = None /\ i \in known
    /\ served' = i
    /\ UNCHANGED <<up, talking, known>>

\* drop_client, or a connection that ends before it was accepted.
Forgets(i) ==
    /\ i \in known
    /\ known' = known \ {i}
    /\ served' = IF served = i THEN None ELSE served
    /\ UNCHANGED <<up, talking>>

PeerNext ==
    \/ Starts \/ Stops \/ Stalls \/ Resumes
    \/ \E i \in Slots : Hears(i) \/ Accepts(i) \/ Forgets(i)

PeerSpec == PeerInit /\ [][PeerNext]_peer
===============================================================================
