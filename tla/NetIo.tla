--------------------------------- MODULE NetIo ---------------------------------
(***************************************************************************)
(* The daemon's TCP transport (net_io.c) under its main loop (main.c): one *)
(* listening socket, one served client, a receive buffer handed up a byte  *)
(* at a time, the line assembler, the READY greeting on the rising edge of *)
(* "a client is there", and writes that may find the client gone.          *)
(* The daemon is one task: pc walks through one turn of its loop.          *)
(***************************************************************************)
EXTENDS Naturals, Sequences, Functions

CONSTANTS
    Conns,      \* connections a host makes, each used once
    None,       \* client_sock = -1
    MaxLine,    \* BRIDGE_MAX_LINE - 1, scaled down
    MaxBytes    \* bound: [Conns -> bytes the host sends on that connection]

ASSUME NetAssumption == None \notin Conns /\ MaxLine \in Nat \ {0} /\ MaxBytes \in [Conns -> Nat]

VARIABLES
    host,       \* the host's end: "new", "up", "closed", "dead" (no FIN came)
    sent,       \* bytes the host has sent on each connection
    wire,       \* bytes sent and not yet received, per connection
    backlog,    \* connections the stack completed and accept() has not taken
    client,     \* client_sock
    rx,         \* rx_buf[rx_pos .. rx_len - 1]
    line,       \* line_buf[0 .. line_pos - 1]
    linked,     \* g_serial_connected
    pc,         \* where the daemon's loop is
    lines,      \* history: lines dispatched to protocol_parse_line
    greetings   \* history: READY lines sent on each connection

hostVars == <<host, sent, wire>>
vars == <<hostVars, backlog, client, rx, line, linked, pc, lines, greetings>>

\* A byte knows which connection it came on and its place there.
Byte == [from : Conns, n : Nat, newline : BOOLEAN]

\* The shape of the state; line_buf never holds more than it has room for.
TypeOK ==
    /\ host \in [Conns -> {"new", "up", "closed", "dead"}]
    /\ sent \in [Conns -> Nat]
    /\ wire \in [Conns -> Seq(Byte)]
    /\ backlog \in Seq(Conns)
    /\ client \in Conns \cup {None}
    /\ rx \in Seq(Byte)
    /\ line \in Seq(Byte) /\ Len(line) <= MaxLine
    /\ linked \in BOOLEAN
    /\ pc \in {"wait", "drain", "link", "timer", "down"}
    /\ lines \in Seq(Seq(Byte))
    /\ greetings \in [Conns -> Nat]

Init ==
    /\ host = [c \in Conns |-> "new"]
    /\ sent = [c \in Conns |-> 0]
    /\ wire = [c \in Conns |-> <<>>]
    /\ backlog = <<>> /\ client = None /\ rx = <<>> /\ line = <<>>
    /\ linked = FALSE /\ pc = "wait" /\ lines = <<>>
    /\ greetings = [c \in Conns |-> 0]

daemon == <<client, rx, line, linked, pc, lines, greetings>>

-------------------------------------------------------------------------------
(* Hosts                                                                   *)

HostConnect(c) ==
    /\ host[c] = "new" /\ pc # "down"
    /\ host' = [host EXCEPT ![c] = "up"]
    /\ backlog' = Append(backlog, c)
    /\ UNCHANGED <<sent, wire, daemon>>

HostSend(c, newline) ==
    /\ host[c] = "up" /\ sent[c] < MaxBytes[c]
    /\ sent' = [sent EXCEPT ![c] = @ + 1]
    /\ wire' = [wire EXCEPT ![c] =
                  Append(@, [from |-> c, n |-> sent[c] + 1, newline |-> newline])]
    /\ UNCHANGED <<host, backlog, daemon>>

\* how = "closed": a FIN arrives; how = "dead": the host vanished without one.
HostLeave(c, how) ==
    /\ host[c] = "up"
    /\ host' = [host EXCEPT ![c] = how]
    /\ UNCHANGED <<sent, wire, backlog, daemon>>

-------------------------------------------------------------------------------
(* One turn of the daemon's loop: Wait, drain, link state, timer work      *)

\* Mutant: the receive buffer survives the client it came from.
DropClientKeepsRx == client' = None /\ UNCHANGED rx

drop_client == client' = None /\ rx' = <<>>

\* net_write: sent, or the peer is gone (reset, or 30 s without room).
Write(ok) == IF ok THEN UNCHANGED <<client, rx>> ELSE drop_client

\* The timer tick alone wakes the loop every 200 ms.
Wake ==
    /\ pc = "wait"
    /\ pc' = "drain"
    /\ UNCHANGED <<hostVars, backlog, client, rx, line, linked, lines, greetings>>

\* net_check_read with no client: try_accept, the only place that accepts.
TryAccept ==
    /\ pc = "drain" /\ rx = <<>> /\ client = None /\ backlog # <<>>
    /\ client' = Head(backlog)
    /\ backlog' = Tail(backlog)
    /\ UNCHANGED <<hostVars, rx, line, linked, pc, lines, greetings>>

\* recv fills rx_buf with what has come, or with the first n bytes of it.
Recv ==
    /\ pc = "drain" /\ rx = <<>> /\ client # None
    /\ \E n \in 1..Len(wire[client]) :
          /\ rx' = SubSeq(wire[client], 1, n)
          /\ wire' = [wire EXCEPT ![client] = SubSeq(@, n + 1, Len(@))]
    /\ UNCHANGED <<host, sent, backlog, client, line, linked, pc, lines, greetings>>

\* Mutant of RecvClosed: 0 bytes are taken for "nothing yet".
RecvClosedIgnored ==
    /\ pc = "drain" /\ rx = <<>> /\ client # None /\ wire[client] = <<>>
    /\ host[client] = "closed"
    /\ pc' = "link"
    /\ UNCHANGED <<hostVars, backlog, client, rx, line, linked, lines, greetings>>

\* recv returns 0 after the peer closed, and an error once a vanished peer's
\* connection was reset.
RecvClosed ==
    /\ pc = "drain" /\ rx = <<>> /\ client # None /\ wire[client] = <<>>
    /\ host[client] \in {"closed", "dead"}
    /\ drop_client
    /\ pc' = "link"
    /\ UNCHANGED <<hostVars, backlog, line, linked, lines, greetings>>

\* EWOULDBLOCK, or nobody to accept: the drain loop ends.
RecvNothing ==
    /\ pc = "drain" /\ rx = <<>>
    /\ IF client = None THEN backlog = <<>>
       ELSE wire[client] = <<>> /\ host[client] # "closed"
    /\ pc' = "link"
    /\ UNCHANGED <<hostVars, backlog, client, rx, line, linked, lines, greetings>>

\* Mutants of Assemble: line_pos is not reset after a dispatch; the end of the
\* buffer is not tested.
AssembleKeeps(l, b) == IF b.newline \/ Len(l) = MaxLine THEN l ELSE Append(l, b)
AssembleOverruns(l, b) == IF b.newline THEN <<>> ELSE Append(l, b)

\* line_buf after one more byte; a byte for which there is no room is lost.
Assemble(l, b) ==
    IF b.newline THEN <<>> ELSE IF Len(l) < MaxLine THEN Append(l, b) ELSE l

\* handle_serial_byte: a newline dispatches a non-empty line, and its handler
\* answers with a write that may lose the client.
HandleByte(ok) ==
    /\ pc = "drain" /\ rx # <<>>
    /\ line' = Assemble(line, Head(rx))
    /\ IF Head(rx).newline /\ line # <<>>
       THEN /\ lines' = Append(lines, Append(line, Head(rx)))
            /\ IF ok THEN rx' = Tail(rx) /\ UNCHANGED client ELSE drop_client
       ELSE /\ ok /\ rx' = Tail(rx)
            /\ UNCHANGED <<lines, client>>
    /\ UNCHANGED <<hostVars, backlog, linked, pc, greetings>>

\* Mutant of RisingEdge: every turn of the loop greets.
AnyLevel == client # None

RisingEdge == client # None /\ ~linked

\* Greet a client on the rising edge of transport_is_open().
LinkState(ok) ==
    /\ pc = "link" /\ pc' = "timer"
    /\ IF RisingEdge
       THEN /\ greetings' = [greetings EXCEPT ![client] = @ + 1]
            /\ Write(ok)
       ELSE ok /\ UNCHANGED <<greetings, client, rx>>
    /\ linked' = (client # None)
    /\ UNCHANGED <<hostVars, backlog, line, lines>>

\* IPC, debugger and timer work; with the link up it may write, the heartbeat
\* every 25th tick at the latest.
TimerWork(ok) ==
    /\ pc = "timer" /\ pc' = "wait"
    /\ IF linked /\ client # None THEN Write(ok) ELSE ok /\ UNCHANGED <<client, rx>>
    /\ UNCHANGED <<hostVars, backlog, line, linked, lines, greetings>>

\* Mutant of NetClose: client_sock is not reset.
NetCloseKeepsClient ==
    /\ pc = "wait" /\ pc' = "down"
    /\ rx' = <<>> /\ UNCHANGED client
    /\ host' = [c \in Conns |-> IF host[c] = "up" THEN "closed" ELSE host[c]]
    /\ wire' = [c \in Conns |-> <<>>]
    /\ backlog' = <<>> /\ line' = <<>> /\ linked' = FALSE
    /\ UNCHANGED <<sent, lines, greetings>>

\* The loop is left (CTRL-C, window, SHUTDOWN): net_close ends every connection
\* and the process is gone with its buffers.
NetClose ==
    /\ pc = "wait" /\ pc' = "down"
    /\ drop_client
    /\ host' = [c \in Conns |-> IF host[c] = "up" THEN "closed" ELSE host[c]]
    /\ wire' = [c \in Conns |-> <<>>]
    /\ backlog' = <<>> /\ line' = <<>> /\ linked' = FALSE
    /\ UNCHANGED <<sent, lines, greetings>>

\* The daemon is started again.
NetOpen ==
    /\ pc = "down" /\ pc' = "wait"
    /\ UNCHANGED <<hostVars, backlog, client, rx, line, linked, lines, greetings>>

Daemon == \/ Wake \/ TryAccept \/ Recv \/ RecvClosed \/ RecvNothing
          \/ \E ok \in BOOLEAN : HandleByte(ok) \/ LinkState(ok) \/ TimerWork(ok)

Next ==
    \/ \E c \in Conns : \/ HostConnect(c)
                        \/ \E newline \in BOOLEAN : HostSend(c, newline)
                        \/ \E how \in {"closed", "dead"} : HostLeave(c, how)
    \/ Daemon
    \/ NetClose \/ NetOpen

Spec == Init /\ [][Next]_vars

\* The loop never stops turning, and writing to a host that is no longer there
\* fails sooner or later.
FairSpec ==
    /\ Spec
    /\ WF_vars(Daemon)
    /\ SF_vars(client # None /\ host[client] = "dead" /\ TimerWork(FALSE))

-------------------------------------------------------------------------------
\* What is in the receive buffer came from the client being served: a command
\* of a dropped host is never executed for the next one from there.
RxBelongsToClient == \A i \in DOMAIN rx : rx[i].from = client

Sources(l) == {l[i].from : i \in DOMAIN l}
Completer(l) == l[Len(l)].from

\* The line assembler keeps its partial line when a client is dropped, so two
\* hosts' bytes can be glued into one command; but only into the first line a
\* connection completes, and never out of order.
OnlyFirstLineIsMixed ==
    \A k \in DOMAIN lines :
        LET l == lines[k]
        IN /\ \A i, j \in DOMAIN l : i < j /\ l[i].from = l[j].from => l[i].n < l[j].n
           /\ Sources(l) # {Completer(l)} =>
                 \A m \in 1..(k - 1) : Completer(lines[m]) # Completer(l)

\* READY is sent at most once on a connection.
GreetedOnce == \A c \in Conns : greetings[c] <= 1

\* A host that left, with or without a FIN, does not hold the daemon: it is
\* dropped, which is what lets the next connection in.
GoneHostIsDropped ==
    \A c \in Conns : client = c /\ host[c] \in {"closed", "dead"} ~> client # c

\* The daemon as a host sees it; nothing here pauses the machine it runs on.
Link == INSTANCE BridgePeer WITH
    Slots <- Conns, up <- pc # "down", talking <- TRUE,
    known <- Range(backlog) \cup ({client} \ {None}), served <- client

\* The daemon keeps the promise that the host's reconnect logic is checked
\* against (SerialConnection): it serves one of the connections its stack
\* completed at a time, loses them one by one unless it stops, and keeps a client
\* until that one is gone (so NewConnectionReplaces, the documented promise, fails).
ServesAsPromised == Link!PeerSpec

\* docs/tcp-transport.md:49, "A single host client is served at a time; a new
\* connection replaces an existing one": a client does not keep its place when
\* another host has connected.  net_check_read accepts only without a client.
NewConnectionReplaces ==
    \A c, d \in Conns : c \in Range(backlog) /\ client = d ~> client # d
===============================================================================
