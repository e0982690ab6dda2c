--------------------------- MODULE SerialConnection ---------------------------
(***************************************************************************)
(* The host's TCP link to the bridge (serial_conn.py): connect_tcp, the    *)
(* read-loop tasks, the silence watchdog, the reconnect task, and the      *)
(* connect and disconnect calls of the MCP tools and the HTTP API.         *)
(*                                                                         *)
(* All of it is one asyncio loop: code between two awaits is one action.   *)
(* A connector is anything that runs connect_tcp: a user's call or a       *)
(* reconnect task.  A slot is a socket together with the read-loop task    *)
(* made for it; a task reads self._reader afresh on every turn, so it may  *)
(* end up on another slot's socket.  The other end of the sockets is       *)
(* BridgePeer's: Slots and None, Python's None too, are its constants.     *)
(***************************************************************************)
EXTENDS Naturals, FiniteSets, BridgePeer

CONSTANTS
    Users,        \* callers of amiga_connect / api_connect
    Reconnects,   \* identities for _reconnect_task objects
    MaxCalls,     \* bound: connect and disconnect calls in one behaviour
    MaxFaults     \* bound: peer crashes, stops, stalls and dropped clients

ASSUME ConnectionAssumption ==
    /\ None \notin Users \cup Reconnects \cup Slots
    /\ Users \cap Reconnects = {}
    /\ MaxCalls \in Nat /\ MaxFaults \in Nat

Connectors == Users \cup Reconnects

VARIABLES
    connected,      \* self._connected (and state.connected)
    auto,           \* self._auto_reconnect
    cur,            \* the slot of self._reader / self._writer
    tcpTask,        \* self._tcp_task
    reconnectTask,  \* self._reconnect_task
    watchdog,       \* a watchdog task is alive
    heard,          \* state.last_bridge_message_at is not None
    event,          \* the last "connected"/"disconnected" event published
    task,           \* slot -> state of its read-loop task
    reads,          \* slot -> the slot whose socket that task is awaiting
    sock,           \* slot -> "open", "eof" (peer ended it), "closed" (by us)
    pc,             \* connector -> where it is in connect_tcp / _reconnect_loop
    drains,         \* connector -> the task it awaits in connect_tcp
    owed,           \* history: a link lost with _auto_reconnect on, not yet back
    calls, faults   \* bounds used up

conn == <<connected, auto, cur, tcpTask, reconnectTask, watchdog, heard, event>>
tasks == <<task, reads>>
vars == <<conn, tasks, sock, pc, drains, peer, owed, calls, faults>>

UserPc == {"idle", "request", "drain", "drained", "open"}
ReconnectPc == {"idle", "sleep", "drain", "drained", "open"}

FlagsOK ==
    /\ connected \in BOOLEAN /\ auto \in BOOLEAN /\ watchdog \in BOOLEAN
    /\ heard \in BOOLEAN /\ owed \in BOOLEAN
    /\ event \in {"connected", "disconnected"}
LinkOK ==
    /\ cur \in Slots \cup {None} /\ tcpTask \in Slots \cup {None}
    /\ reconnectTask \in Reconnects \cup {None}
    /\ drains \in [Connectors -> Slots \cup {None}]
TasksOK ==
    /\ task \in [Slots -> {"start", "read", "cancelled", "stillborn", "done"}]
    /\ reads \in [Slots -> Slots]
    /\ sock \in [Slots -> {"open", "eof", "closed"}]
ConnectorsOK ==
    /\ DOMAIN pc = Connectors
    /\ \A u \in Users : pc[u] \in UserPc
    /\ \A r \in Reconnects : pc[r] \in ReconnectPc

\* The shape of the state; a user's call never sleeps, a reconnect task never
\* waits for a request, and the call and fault bounds hold.
TypeOK ==
    /\ FlagsOK /\ LinkOK /\ TasksOK /\ ConnectorsOK /\ PeerType
    /\ calls \in 0..MaxCalls /\ faults \in 0..MaxFaults

Init ==
    /\ connected = FALSE /\ auto = TRUE /\ watchdog = FALSE /\ heard = FALSE
    /\ cur = None /\ tcpTask = None /\ reconnectTask = None
    /\ event = "disconnected" /\ owed = FALSE
    /\ task = [i \in Slots |-> "done"]
    /\ reads = [i \in Slots |-> i]
    /\ sock = [i \in Slots |-> "closed"]
    /\ pc = [c \in Connectors |-> "idle"]
    /\ drains = [c \in Connectors |-> None]
    /\ PeerInit
    /\ calls = 0 /\ faults = 0

-------------------------------------------------------------------------------
(* Pieces shared by several handlers                                       *)

\* self._writer.close() on whatever the current writer is.
Closed(i) == IF i = None THEN sock ELSE [sock EXCEPT ![i] = "closed"]

\* Task.cancel() on a read loop; one that never ran dies without its finally.
AfterCancel(state) ==
    IF state = "read" THEN "cancelled"
    ELSE IF state = "start" THEN "stillborn" ELSE state

CancelTask(i) == [j \in Slots |-> IF j = i THEN AfterCancel(task[j]) ELSE task[j]]

ReconnectPending == reconnectTask # None /\ pc[reconnectTask] # "idle"

\* _schedule_reconnect(), with p the connectors' state so far.
Schedule(p) ==
    IF auto /\ ~ReconnectPending
    THEN \E r \in {x \in Reconnects : pc[x] = "idle"} :
            /\ reconnectTask' = r
            /\ pc' = [p EXCEPT ![r] = "sleep"]
    ELSE pc' = p /\ UNCHANGED reconnectTask

\* The read loop of slot i is done: whoever awaited it becomes runnable.
Woken(i) == [c \in Connectors |->
               IF pc[c] = "drain" /\ drains[c] = i THEN "drained" ELSE pc[c]]

-------------------------------------------------------------------------------
(* disconnect()                                                            *)

\* Cancelling a reconnect task that is draining is lost: CancelledError is
\* delivered to the drained task or swallowed by the except around it.
CancelReconnect ==
    IF ReconnectPending
    THEN /\ reconnectTask' = None
         /\ pc' = [pc EXCEPT ![reconnectTask] =
                     IF @ \in {"drain", "drained"} THEN @ ELSE "idle"]
    ELSE UNCHANGED <<reconnectTask, pc>>

Disconnect ==
    /\ calls < MaxCalls /\ calls' = calls + 1
    /\ auto' = FALSE /\ watchdog' = FALSE
    /\ CancelReconnect
    /\ task' = CancelTask(tcpTask)
    /\ sock' = Closed(cur)
    /\ cur' = None
    /\ connected' = FALSE /\ heard' = FALSE /\ owed' = FALSE
    /\ event' = "disconnected"
    /\ UNCHANGED <<tcpTask, reads, drains, peer, faults>>

-------------------------------------------------------------------------------
(* connect_tcp()                                                           *)

\* After the drain: drop a leftover socket, then await open_connection.
OpenSocket(c, p) ==
    /\ sock' = Closed(cur)
    /\ cur' = None
    /\ pc' = [p EXCEPT ![c] = "open"]

\* Mutant of ConnectBegin: the previous read loop is not drained.
ConnectBeginNoDrain(c) ==
    /\ auto' = TRUE
    /\ OpenSocket(c, pc)
    /\ UNCHANGED <<connected, tcpTask, reconnectTask, watchdog, heard, event, tasks, drains>>

\* From the entry of connect_tcp to its first await.
ConnectBegin(c) ==
    /\ auto' = TRUE
    /\ IF tcpTask # None /\ task[tcpTask] # "done"
       THEN /\ task' = CancelTask(tcpTask)
            /\ drains' = [drains EXCEPT ![c] = tcpTask]
            /\ pc' = [pc EXCEPT ![c] = "drain"]
            /\ UNCHANGED <<sock, cur>>
       ELSE /\ OpenSocket(c, pc)
            /\ UNCHANGED <<task, drains>>
    /\ UNCHANGED <<connected, tcpTask, reconnectTask, watchdog, heard, event, reads>>

\* The drained read loop has ended.
ConnectDrained(c) ==
    /\ pc[c] = "drained"
    /\ tcpTask' = None
    /\ drains' = [drains EXCEPT ![c] = None]
    /\ OpenSocket(c, pc)
    /\ UNCHANGED <<connected, auto, reconnectTask, watchdog, heard, event, tasks,
                   peer, owed, calls, faults>>

\* A slot that nothing refers to any more.
FreeSlots == {i \in Slots : /\ task[i] = "done" /\ sock[i] = "closed" /\ i # cur
                            /\ i \notin known
                            /\ \A j \in Slots : task[j] = "read" => reads[j] # i}

\* open_connection succeeded; no await until the read loop and watchdog exist.
\* A reconnect task sees _connected and returns.
ConnectOpened(c) ==
    /\ pc[c] = "open"
    /\ \E i \in FreeSlots :
         /\ sock' = [sock EXCEPT ![i] = "open"]
         /\ cur' = i /\ tcpTask' = i
         /\ task' = [task EXCEPT ![i] = "start"]
         /\ Hears(i)
    /\ connected' = TRUE /\ heard' = FALSE /\ watchdog' = TRUE
    /\ event' = "connected" /\ owed' = FALSE
    /\ pc' = [pc EXCEPT ![c] = "idle"]
    /\ UNCHANGED <<auto, reconnectTask, reads, drains, calls, faults>>

\* Slip of ConnectFailed: the reconnect task makes one attempt only.
ConnectFailedGivesUp(c) ==
    /\ pc[c] = "open" /\ ~up
    /\ pc' = [pc EXCEPT ![c] = "idle"]
    /\ UNCHANGED <<conn, tasks, sock, drains, peer, owed, calls, faults>>

\* Refused or timed out: the exception reaches the user, a reconnect task
\* logs it and sleeps again.
ConnectFailed(c) ==
    /\ pc[c] = "open" /\ ~up
    /\ pc' = [pc EXCEPT ![c] = IF c \in Users THEN "idle" ELSE "sleep"]
    /\ UNCHANGED <<conn, tasks, sock, drains, peer, owed, calls, faults>>

-------------------------------------------------------------------------------
(* amiga_connect / api_connect                                             *)

\* if connected: disconnect(); api_connect then awaits the request body.
UserConnect(u) ==
    /\ pc[u] = "idle" /\ ~connected
    /\ calls < MaxCalls /\ calls' = calls + 1
    /\ pc' = [pc EXCEPT ![u] = "request"]
    /\ UNCHANGED <<conn, tasks, sock, drains, peer, owed, faults>>

UserConnectBegin(u) ==
    /\ pc[u] = "request"
    /\ IF connected
       THEN /\ pc' = [pc EXCEPT ![u] = "idle"]
            /\ UNCHANGED <<conn, tasks, sock, drains>>
       ELSE ConnectBegin(u)
    /\ UNCHANGED <<peer, owed, calls, faults>>

\* Mutant of ReconnectWake: _auto_reconnect is not looked at.
ReconnectWakeAlways(r) ==
    /\ pc[r] = "sleep"
    /\ ~connected
    /\ ConnectBegin(r)
    /\ UNCHANGED <<peer, owed, calls, faults>>

\* _reconnect_loop: the sleep is over, test the loop condition.
ReconnectWake(r) ==
    /\ pc[r] = "sleep"
    /\ IF connected \/ ~auto
       THEN /\ pc' = [pc EXCEPT ![r] = "idle"]
            /\ UNCHANGED <<conn, tasks, sock, drains>>
       ELSE ConnectBegin(r)
    /\ UNCHANGED <<peer, owed, calls, faults>>

-------------------------------------------------------------------------------
(* _tcp_read_loop()                                                        *)

\* Mutant of ReadLoopFinally: _connected is left set.
ReadLoopFinallyKeepsFlag(i) ==
    /\ task' = [task EXCEPT ![i] = "done"]
    /\ reads' = [reads EXCEPT ![i] = i]
    /\ watchdog' = FALSE /\ sock' = Closed(cur) /\ cur' = None
    /\ Schedule(Woken(i))
    /\ UNCHANGED <<connected, auto, tcpTask, event, drains, peer, owed, calls, faults>>

\* The finally clause; it closes the current writer, whoever's that is.
ReadLoopFinally(i) ==
    /\ task' = [task EXCEPT ![i] = "done"]
    /\ reads' = [reads EXCEPT ![i] = i]
    /\ connected' = FALSE /\ watchdog' = FALSE
    /\ sock' = Closed(cur)
    /\ cur' = None
    /\ event' = IF connected THEN "disconnected" ELSE event
    /\ owed' = (owed \/ (connected /\ auto))
    /\ Schedule(Woken(i))
    /\ UNCHANGED <<auto, tcpTask, drains, peer, calls, faults>>

Reading(j) == {i \in Slots : task[i] = "read" /\ reads[i] = j}

\* while self._connected and self._reader: await self._reader.read(4096).
\* A second read() on the same StreamReader raises RuntimeError.
ReadLoopTurn(i) ==
    IF connected /\ cur # None /\ Reading(cur) \ {i} = {}
    THEN /\ task' = [task EXCEPT ![i] = "read"]
         /\ reads' = [reads EXCEPT ![i] = cur]
         /\ UNCHANGED <<connected, auto, cur, tcpTask, reconnectTask, watchdog,
                        event, sock, pc, drains, peer, owed, calls, faults>>
    ELSE ReadLoopFinally(i)

ReadLoopStart(i) ==
    /\ task[i] = "start"
    /\ ReadLoopTurn(i)
    /\ UNCHANGED heard

\* A task cancelled before its first turn never enters the try statement.
ReadLoopStillborn(i) ==
    /\ task[i] = "stillborn"
    /\ task' = [task EXCEPT ![i] = "done"]
    /\ pc' = Woken(i)
    /\ UNCHANGED <<conn, reads, sock, drains, peer, owed, calls, faults>>

Talking(i) == task[i] = "read" /\ talking /\ served = reads[i]
              /\ sock[reads[i]] = "open"

\* Data: _handle_data stamps last_bridge_message_at, then the next turn.
ReadLoopData(i) ==
    /\ Talking(i)
    /\ heard' = TRUE
    /\ ReadLoopTurn(i)

\* EOF, reset or cancellation.
ReadLoopEnd(i) ==
    /\ \/ task[i] = "cancelled"
       \/ task[i] = "read" /\ sock[reads[i]] \in {"eof", "closed"}
    /\ ReadLoopFinally(i)
    /\ UNCHANGED heard

-------------------------------------------------------------------------------
(* _watchdog_loop()                                                        *)

\* Mutant of WatchdogFires: "disconnected" is left to the read loop.
WatchdogFiresSilently ==
    /\ watchdog /\ connected /\ heard
    /\ \A i \in Slots : ~Talking(i)
    /\ heard' = FALSE /\ connected' = FALSE /\ watchdog' = FALSE
    /\ owed' = (owed \/ auto)
    /\ sock' = Closed(cur)
    /\ Schedule(pc)
    /\ UNCHANGED <<auto, cur, tcpTask, event, tasks, drains, peer, calls, faults>>

\* Bridge traffic was seen on this connection and then 15 s of nothing.  The
\* writer is closed but stays in self._writer; the read loop learns later.
WatchdogFires ==
    /\ watchdog /\ connected /\ heard
    /\ \A i \in Slots : ~Talking(i)
    /\ heard' = FALSE /\ connected' = FALSE /\ watchdog' = FALSE
    /\ event' = "disconnected" /\ owed' = (owed \/ auto)
    /\ sock' = Closed(cur)
    /\ Schedule(pc)
    /\ UNCHANGED <<auto, cur, tcpTask, tasks, drains, peer, calls, faults>>

-------------------------------------------------------------------------------
(* The other end and the operating system                                  *)

PeerOnly == UNCHANGED <<conn, tasks, pc, drains, owed, calls>>

PeerStart ==
    /\ Starts
    /\ PeerOnly /\ UNCHANGED <<sock, faults>>

\* A clean stop ends every connection; a power cut ends none of them.
PeerStop(clean) ==
    /\ Stops
    /\ faults < MaxFaults /\ faults' = faults + 1
    /\ sock' = [i \in Slots |-> IF clean /\ i \in known /\ sock[i] = "open"
                                THEN "eof" ELSE sock[i]]
    /\ PeerOnly

PeerStall ==
    /\ Stalls
    /\ faults < MaxFaults /\ faults' = faults + 1
    /\ PeerOnly /\ UNCHANGED sock

PeerResume ==
    /\ Resumes
    /\ PeerOnly /\ UNCHANGED <<sock, faults>>

PeerAccept(i) == Accepts(i) /\ PeerOnly /\ UNCHANGED <<sock, faults>>

\* The host's close of the socket reaches the bridge.
PeerDrop(i) == Forgets(i) /\ sock[i] = "closed" /\ PeerOnly /\ UNCHANGED <<sock, faults>>

\* net_write drops the served client: 30 s without room, or a send error.
PeerLoses(i) ==
    /\ Forgets(i) /\ served = i
    /\ faults < MaxFaults /\ faults' = faults + 1
    /\ PeerOnly /\ UNCHANGED sock

\* A FIN, a reset or TCP keepalive tells that the other end has forgotten the
\* connection.
KeepaliveExpires(i) ==
    /\ sock[i] = "open" /\ i \notin known
    /\ sock' = [sock EXCEPT ![i] = "eof"]
    /\ PeerOnly /\ UNCHANGED <<peer, faults>>

\* A socket no writer refers to any more is closed with its StreamWriter.
Collect(i) ==
    /\ sock[i] # "closed" /\ i # cur
    /\ task[i] # "start" /\ Reading(i) = {}
    /\ sock' = [sock EXCEPT ![i] = "closed"]
    /\ PeerOnly /\ UNCHANGED <<peer, faults>>

-------------------------------------------------------------------------------
ConnectorStep(c) == ConnectDrained(c) \/ ConnectOpened(c) \/ ConnectFailed(c)
ReadLoopStep(i) == ReadLoopStart(i) \/ ReadLoopStillborn(i) \/ ReadLoopData(i)
                   \/ ReadLoopEnd(i)
NetworkStep(i) == PeerAccept(i) \/ PeerDrop(i) \/ PeerLoses(i)
                  \/ KeepaliveExpires(i) \/ Collect(i)

Next ==
    \/ Disconnect
    \/ \E u \in Users : UserConnect(u) \/ UserConnectBegin(u)
    \/ \E r \in Reconnects : ReconnectWake(r)
    \/ \E c \in Connectors : ConnectorStep(c)
    \/ \E i \in Slots : ReadLoopStep(i) \/ NetworkStep(i)
    \/ WatchdogFires
    \/ PeerStart \/ PeerStall \/ PeerResume
    \/ \E clean \in BOOLEAN : PeerStop(clean)

Spec == Init /\ [][Next]_vars

\* The asyncio loop runs every ready task and every expired timer; the peer
\* and the TCP stacks do their part.  Nothing is assumed of users, of faults,
\* or of the peer coming back.
Fairness ==
    /\ \A u \in Users : WF_vars(UserConnectBegin(u))
    /\ \A r \in Reconnects : WF_vars(ReconnectWake(r))
    /\ \A c \in Connectors : WF_vars(ConnectorStep(c))
    /\ \A i \in Slots : /\ WF_vars(ReadLoopStart(i) \/ ReadLoopStillborn(i))
                        /\ WF_vars(ReadLoopData(i)) /\ WF_vars(ReadLoopEnd(i))
                        /\ WF_vars(PeerDrop(i)) /\ WF_vars(KeepaliveExpires(i))
                        /\ WF_vars(Collect(i))
    /\ WF_vars(\E i \in Slots : PeerAccept(i))
    /\ WF_vars(WatchdogFires)

FairSpec == Spec /\ Fairness

-------------------------------------------------------------------------------
\* The last connection event on the bus says what get_status() says: a
\* dashboard that only follows the events never shows the wrong state.
EventsTellTheState == connected <=> event = "connected"

\* A connection lost with auto-reconnect on is owed: until it is back, or a
\* disconnect() gives it up, some task is on its way to reconnect.
LossIsRearmed == owed => \E c \in Connectors : pc[c] # "idle"

\* "connected" is never a dead flag: the watchdog runs, and a read loop is on
\* the current socket or is about to end and clear the flag, even when
\* several connects overlapped and one closed the socket of another.
ConnectedIsAttended ==
    connected =>
        /\ watchdog
        /\ \E i \in Slots :
              \/ task[i] \in {"start", "cancelled"}
              \/ task[i] = "read" /\ (reads[i] = cur \/ sock[reads[i]] # "open")

\* No connector is past the test of _connected in connect_tcp.
Settled == \A c \in Connectors : pc[c] \in {"idle", "request", "sleep"}

\* disconnect() holds: once no connect is in flight, only a user's connect
\* call turns the link on again; no late read loop, watchdog or reconnect does.
Off == ~auto /\ ~connected /\ Settled
OffUntilUserConnects == [][Off => Off' \/ \E u \in Users : pc[u] = "request"]_vars

\* If the peer stays up and talking, a lost connection comes back for good:
\* tasks of old connections do not knock the new one over for ever, and the
\* connection the host uses is the one the bridge serves.
Healthy == up /\ talking
Recovers == <>[]Healthy => <>[](~owed /\ (connected => served = cur))

\* _reconnect_loop's docstring: "Keep trying to reconnect until we succeed (or
\* auto_reconnect is turned off)": it does not connect with the switch off.
ReconnectObeysTheSwitch ==
    [][\A r \in Reconnects :
         pc[r] = "open" /\ pc'[r] = "idle" /\ ~connected /\ connected' => auto]_vars
===============================================================================
