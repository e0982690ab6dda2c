------------------------ MODULE SerialConnectionProofs ------------------------
(***************************************************************************)
(* Proofs about SerialConnection, for any number of callers, reconnect     *)
(* tasks, sockets, calls and faults.                                       *)
(***************************************************************************)
EXTENDS SerialConnection, TLAPS

\* A connector's program counter may be set to a value of its own kind.
PcFunction(p) ==
    /\ DOMAIN p = Connectors
    /\ \A u \in Users : p[u] \in UserPc
    /\ \A r \in Reconnects : p[r] \in ReconnectPc

\* A read loop that ends wakes whoever drains it and disturbs nobody else.
LEMMA WokenType ==
    ASSUME ConnectorsOK, NEW i \in Slots
    PROVE  /\ PcFunction(Woken(i))
           /\ \A c \in Connectors : (pc[c] = "idle") <=> (Woken(i)[c] = "idle")
  BY DEF ConnectorsOK, PcFunction, Woken, Connectors, UserPc, ReconnectPc

\* _schedule_reconnect() starts only a reconnect task, and only in its sleep.
LEMMA ScheduleType ==
    ASSUME ConnectorsOK, LinkOK, NEW p, PcFunction(p), Schedule(p)
    PROVE  ConnectorsOK' /\ reconnectTask' \in Reconnects \cup {None}
  BY ConnectionAssumption
     DEF ConnectorsOK, LinkOK, PcFunction, Schedule, Connectors, UserPc, ReconnectPc

\* disconnect() cancels only a reconnect task.
LEMMA CancelReconnectType ==
    ASSUME ConnectorsOK, LinkOK, CancelReconnect
    PROVE  ConnectorsOK' /\ reconnectTask' \in Reconnects \cup {None}
  BY ConnectionAssumption
     DEF ConnectorsOK, LinkOK, CancelReconnect, ReconnectPending, Connectors,
         UserPc, ReconnectPc

\* Task.cancel() and writer.close(), on None or on a slot.
LEMMA CancelCloseType ==
    ASSUME TasksOK, NEW i \in Slots \cup {None}
    PROVE  /\ CancelTask(i) \in [Slots -> {"start", "read", "cancelled", "stillborn", "done"}]
           /\ Closed(i) \in [Slots -> {"open", "eof", "closed"}]
  BY DEF TasksOK, CancelTask, AfterCancel, Closed

\* connect_tcp up to its first await.
LEMMA ConnectBeginType ==
    ASSUME TypeOK, NEW c \in Connectors, ConnectBegin(c),
           UNCHANGED <<peer, owed, calls, faults>>
    PROVE  TypeOK'
  <1> USE DEF TypeOK
  <1>1. FlagsOK'
    BY DEF ConnectBegin, FlagsOK
  <1>2. LinkOK'
    BY DEF ConnectBegin, OpenSocket, LinkOK
  <1>3. TasksOK'
    BY CancelCloseType DEF ConnectBegin, OpenSocket, TasksOK, LinkOK
  <1>4. ConnectorsOK'
    BY DEF ConnectBegin, OpenSocket, ConnectorsOK, Connectors, UserPc, ReconnectPc
  <1> QED BY <1>1, <1>2, <1>3, <1>4 DEF PeerType, peer

\* The finally clause of the read loop.
LEMMA FinallyType ==
    ASSUME TypeOK, NEW i \in Slots, ReadLoopFinally(i), heard' \in BOOLEAN
    PROVE  TypeOK'
  <1> USE DEF TypeOK
  <1>1. FlagsOK'
    BY DEF ReadLoopFinally, FlagsOK
  <1>2. ConnectorsOK' /\ reconnectTask' \in Reconnects \cup {None}
    BY WokenType, ScheduleType DEF ReadLoopFinally
  <1>3. LinkOK'
    BY <1>2 DEF ReadLoopFinally, LinkOK
  <1>4. TasksOK'
    BY CancelCloseType DEF ReadLoopFinally, TasksOK, LinkOK
  <1> QED BY <1>1, <1>2, <1>3, <1>4 DEF PeerType, peer, ReadLoopFinally

\* One turn of the read loop.
LEMMA TurnType ==
    ASSUME TypeOK, NEW i \in Slots, ReadLoopTurn(i), heard' \in BOOLEAN
    PROVE  TypeOK'
  <1>1. CASE connected /\ cur # None /\ Reading(cur) \ {i} = {}
    BY <1>1 DEF TypeOK, FlagsOK, LinkOK, TasksOK, ConnectorsOK, PeerType, peer, ReadLoopTurn
  <1>2. CASE ~(connected /\ cur # None /\ Reading(cur) \ {i} = {})
    BY <1>2, FinallyType DEF ReadLoopTurn
  <1> QED BY <1>1, <1>2

LEMMA TypeStep == TypeOK /\ [Next]_vars => TypeOK'
  <1> SUFFICES ASSUME TypeOK, [Next]_vars PROVE TypeOK'
    OBVIOUS
  <1> USE DEF TypeOK
  <1>1. CASE Disconnect
    <2>1. FlagsOK'
      BY <1>1 DEF Disconnect, FlagsOK
    <2>2. ConnectorsOK' /\ reconnectTask' \in Reconnects \cup {None}
      BY <1>1, CancelReconnectType DEF Disconnect
    <2>3. LinkOK'
      BY <1>1, <2>2 DEF Disconnect, LinkOK
    <2>4. TasksOK'
      BY <1>1, CancelCloseType DEF Disconnect, TasksOK, LinkOK
    <2> QED BY <1>1, <2>1, <2>2, <2>3, <2>4, ConnectionAssumption DEF Disconnect, PeerType, peer
  <1>2. ASSUME NEW u \in Users, UserConnect(u) PROVE TypeOK'
    <2>1. ConnectorsOK'
      BY <1>2, ConnectionAssumption
         DEF UserConnect, ConnectorsOK, Connectors, UserPc, ReconnectPc
    <2> QED BY <1>2, <2>1, ConnectionAssumption
            DEF UserConnect, FlagsOK, LinkOK, TasksOK, PeerType, peer, conn, tasks
  <1>3. ASSUME NEW u \in Users, UserConnectBegin(u) PROVE TypeOK'
    <2>1. CASE connected
      <3>1. ConnectorsOK'
        BY <1>3, <2>1 DEF UserConnectBegin, ConnectorsOK, Connectors, UserPc, ReconnectPc
      <3> QED BY <1>3, <2>1, <3>1
              DEF UserConnectBegin, FlagsOK, LinkOK, TasksOK, PeerType, peer, conn, tasks
    <2>2. CASE ~connected
      BY <1>3, <2>2, ConnectBeginType DEF UserConnectBegin, Connectors
    <2> QED BY <2>1, <2>2
  <1>4. ASSUME NEW r \in Reconnects, ReconnectWake(r) PROVE TypeOK'
    <2>1. CASE connected \/ ~auto
      <3>1. ConnectorsOK'
        BY <1>4, <2>1 DEF ReconnectWake, ConnectorsOK, Connectors, UserPc, ReconnectPc
      <3> QED BY <1>4, <2>1, <3>1
              DEF ReconnectWake, FlagsOK, LinkOK, TasksOK, PeerType, peer, conn, tasks
    <2>2. CASE ~(connected \/ ~auto)
      BY <1>4, <2>2, ConnectBeginType DEF ReconnectWake, Connectors
    <2> QED BY <2>1, <2>2
  <1>5. ASSUME NEW c \in Connectors, ConnectDrained(c) PROVE TypeOK'
    <2>1. ConnectorsOK'
      BY <1>5 DEF ConnectDrained, OpenSocket, ConnectorsOK, Connectors, UserPc, ReconnectPc
    <2>2. LinkOK' /\ TasksOK'
      BY <1>5, CancelCloseType DEF ConnectDrained, OpenSocket, LinkOK, TasksOK, tasks
    <2> QED BY <1>5, <2>1, <2>2 DEF ConnectDrained, FlagsOK, PeerType, peer
  <1>6. ASSUME NEW c \in Connectors, ConnectOpened(c) PROVE TypeOK'
    <2> PICK i \in FreeSlots : /\ sock' = [sock EXCEPT ![i] = "open"]
                               /\ cur' = i /\ tcpTask' = i
                               /\ task' = [task EXCEPT ![i] = "start"]
                               /\ Hears(i)
      BY <1>6 DEF ConnectOpened
    <2>1. i \in Slots
      BY DEF FreeSlots
    <2>2. ConnectorsOK'
      BY <1>6 DEF ConnectOpened, ConnectorsOK, Connectors, UserPc, ReconnectPc
    <2>3. LinkOK' /\ TasksOK'
      BY <1>6, <2>1 DEF ConnectOpened, LinkOK, TasksOK
    <2>4. PeerType'
      BY <2>1 DEF PeerType, Hears
    <2>5. FlagsOK'
      BY <1>6 DEF ConnectOpened, FlagsOK
    <2> QED BY <1>6, <2>2, <2>3, <2>4, <2>5 DEF ConnectOpened
  <1>7. ASSUME NEW c \in Connectors, ConnectFailed(c) PROVE TypeOK'
    <2>1. ConnectorsOK'
      BY <1>7, ConnectionAssumption
         DEF ConnectFailed, ConnectorsOK, Connectors, UserPc, ReconnectPc
    <2> QED BY <1>7, <2>1
            DEF ConnectFailed, FlagsOK, LinkOK, TasksOK, PeerType, peer, conn, tasks
  <1>8. ASSUME NEW i \in Slots, ReadLoopStep(i) PROVE TypeOK'
    <2>1. CASE ReadLoopStart(i)
      BY <2>1, TurnType DEF ReadLoopStart, FlagsOK
    <2>2. CASE ReadLoopStillborn(i)
      <3>1. ConnectorsOK'
        BY <2>2, WokenType DEF ReadLoopStillborn, ConnectorsOK, PcFunction
      <3> QED BY <2>2, <3>1
              DEF ReadLoopStillborn, FlagsOK, LinkOK, TasksOK, PeerType, peer, conn
    <2>3. CASE ReadLoopData(i)
      BY <2>3, TurnType DEF ReadLoopData
    <2>4. CASE ReadLoopEnd(i)
      BY <2>4, FinallyType DEF ReadLoopEnd, FlagsOK
    <2> QED BY <1>8, <2>1, <2>2, <2>3, <2>4 DEF ReadLoopStep
  <1>9. ASSUME NEW i \in Slots, NetworkStep(i) PROVE TypeOK'
    <2>1. TasksOK'
      BY <1>9 DEF NetworkStep, PeerAccept, PeerDrop, PeerLoses, KeepaliveExpires, Collect,
                  PeerOnly, TasksOK, tasks
    <2>2. PeerType'
      BY <1>9 DEF NetworkStep, PeerAccept, PeerDrop, PeerLoses, KeepaliveExpires, Collect,
                  Accepts, Forgets, PeerType, peer
    <2>3. UNCHANGED <<conn, pc, drains, owed, calls>>
      BY <1>9 DEF NetworkStep, PeerAccept, PeerDrop, PeerLoses, KeepaliveExpires, Collect,
                  PeerOnly
    <2>4. faults' \in 0..MaxFaults
      BY <1>9, ConnectionAssumption
         DEF NetworkStep, PeerAccept, PeerDrop, PeerLoses, KeepaliveExpires, Collect
    <2> QED BY <2>1, <2>2, <2>3, <2>4 DEF FlagsOK, LinkOK, ConnectorsOK, conn
  <1>10. CASE WatchdogFires
    <2>1. ConnectorsOK' /\ reconnectTask' \in Reconnects \cup {None}
      BY <1>10, ScheduleType DEF WatchdogFires, ConnectorsOK, PcFunction
    <2>2. LinkOK' /\ TasksOK'
      BY <1>10, <2>1, CancelCloseType DEF WatchdogFires, LinkOK, TasksOK, tasks
    <2>3. FlagsOK'
      BY <1>10 DEF WatchdogFires, FlagsOK
    <2> QED BY <1>10, <2>1, <2>2, <2>3 DEF WatchdogFires, PeerType, peer
  <1>11. CASE PeerStart \/ PeerStall \/ PeerResume
    <2>1. PeerType'
      BY <1>11 DEF PeerStart, PeerStall, PeerResume, Starts, Stalls, Resumes, PeerType
    <2>2. faults' \in 0..MaxFaults
      BY <1>11, ConnectionAssumption DEF PeerStart, PeerStall, PeerResume
    <2> QED BY <1>11, <2>1, <2>2
            DEF PeerStart, PeerStall, PeerResume, PeerOnly, FlagsOK, LinkOK, TasksOK,
                ConnectorsOK, conn, tasks
  <1>12. ASSUME NEW clean \in BOOLEAN, PeerStop(clean) PROVE TypeOK'
    <2>1. PeerType'
      BY <1>12 DEF PeerStop, Stops, PeerType
    <2>2. TasksOK'
      BY <1>12 DEF PeerStop, PeerOnly, TasksOK, tasks
    <2>3. faults' \in 0..MaxFaults
      BY <1>12, ConnectionAssumption DEF PeerStop
    <2> QED BY <1>12, <2>1, <2>2, <2>3
            DEF PeerStop, PeerOnly, FlagsOK, LinkOK, ConnectorsOK, conn
  <1>13. CASE UNCHANGED vars
    BY <1>13 DEF vars, conn, tasks, FlagsOK, LinkOK, TasksOK, ConnectorsOK, PeerType, peer
  <1> QED
    BY <1>1, <1>2, <1>3, <1>4, <1>5, <1>6, <1>7, <1>8, <1>9, <1>10, <1>11, <1>12,
       <1>13 DEF Next, ConnectorStep

\* serial_conn.py: every attribute of the connection, every task and every
\* connect call is always in one of the states the model names.
THEOREM TypeCorrect == Spec => []TypeOK
  <1>1. Init => TypeOK
    <2> SUFFICES ASSUME Init PROVE TypeOK
      OBVIOUS
    <2>1. PeerType
      BY DEF Init, PeerInit, PeerType
    <2>2. ConnectorsOK
      BY DEF Init, ConnectorsOK, Connectors, UserPc, ReconnectPc
    <2>3. FlagsOK
      BY DEF Init, FlagsOK
    <2>4. LinkOK /\ TasksOK
      BY DEF Init, LinkOK, TasksOK
    <2>5. calls \in 0..MaxCalls /\ faults \in 0..MaxFaults
      BY ConnectionAssumption DEF Init
    <2> QED BY <2>1, <2>2, <2>3, <2>4, <2>5 DEF TypeOK
  <1> QED BY <1>1, TypeStep, PTL DEF Spec

-------------------------------------------------------------------------------
(* EventsTellTheState is inductive once the flags have their types.        *)

LEMMA EventsStep == TypeOK /\ EventsTellTheState /\ [Next]_vars => EventsTellTheState'
  <1> SUFFICES ASSUME TypeOK, EventsTellTheState, [Next]_vars
               PROVE  EventsTellTheState'
    OBVIOUS
  <1> USE DEF EventsTellTheState
  <1>1. CASE Disconnect
    BY <1>1 DEF Disconnect
  <1>2. ASSUME NEW c \in Connectors, ConnectBegin(c) PROVE EventsTellTheState'
    BY <1>2 DEF ConnectBegin
  <1>3. ASSUME NEW u \in Users, UserConnect(u) \/ UserConnectBegin(u)
        PROVE  EventsTellTheState'
    BY <1>2, <1>3 DEF UserConnect, UserConnectBegin, Connectors, conn
  <1>4. ASSUME NEW r \in Reconnects, ReconnectWake(r) PROVE EventsTellTheState'
    BY <1>2, <1>4 DEF ReconnectWake, Connectors, conn
  <1>5. ASSUME NEW c \in Connectors, ConnectorStep(c) PROVE EventsTellTheState'
    BY <1>5 DEF ConnectorStep, ConnectDrained, ConnectOpened, ConnectFailed, conn
  <1>6. ASSUME NEW i \in Slots, ReadLoopFinally(i) PROVE EventsTellTheState'
    BY <1>6 DEF ReadLoopFinally, TypeOK, FlagsOK
  <1>7. ASSUME NEW i \in Slots, ReadLoopStep(i) PROVE EventsTellTheState'
    BY <1>6, <1>7 DEF ReadLoopStep, ReadLoopStart, ReadLoopStillborn, ReadLoopData,
                      ReadLoopEnd, ReadLoopTurn, conn
  <1>8. CASE WatchdogFires
    BY <1>8 DEF WatchdogFires
  <1>9. ASSUME PeerOnly PROVE EventsTellTheState'
    BY <1>9 DEF PeerOnly, conn
  <1>10. ASSUME NEW i \in Slots, NetworkStep(i) PROVE EventsTellTheState'
    BY <1>9, <1>10 DEF NetworkStep, PeerAccept, PeerDrop, PeerLoses, KeepaliveExpires, Collect
  <1>11. CASE PeerStart \/ PeerStall \/ PeerResume \/ \E clean \in BOOLEAN : PeerStop(clean)
    BY <1>9, <1>11 DEF PeerStart, PeerStall, PeerResume, PeerStop
  <1>12. CASE UNCHANGED vars
    BY <1>12 DEF vars, conn
  <1> QED
    BY <1>1, <1>3, <1>4, <1>5, <1>7, <1>8, <1>10, <1>11, <1>12 DEF Next

\* serial_conn.py publishes "connected" and "disconnected" so that the last
\* one always agrees with _connected, whatever tasks overlap.
THEOREM EventsCorrect == Spec => []EventsTellTheState
  <1>1. Init => EventsTellTheState
    BY DEF Init, EventsTellTheState
  <1> QED BY <1>1, TypeCorrect, EventsStep, PTL DEF Spec

-------------------------------------------------------------------------------
(* LossIsRearmed is not inductive: a user's failed connect goes idle, and  *)
(* then it has to be the reconnect task that is under way.  It is, because *)
(* a debt exists only while auto-reconnect is on and the link is down, and *)
(* with both so _reconnect_loop does not end.                              *)

OwedInv == owed => auto /\ ~connected /\ ReconnectPending

\* _schedule_reconnect() with the switch on leaves a reconnect task pending.
LEMMA ScheduleArms ==
    ASSUME ConnectorsOK, LinkOK, NEW p, PcFunction(p), Schedule(p), auto,
           \A c \in Connectors : (pc[c] = "idle") <=> (p[c] = "idle")
    PROVE  ReconnectPending'
  <1>1. CASE ReconnectPending
    BY <1>1, ConnectionAssumption
       DEF Schedule, ReconnectPending, LinkOK, Connectors
  <1>2. CASE ~ReconnectPending
    <2>1. PICK r \in Reconnects : reconnectTask' = r /\ pc' = [p EXCEPT ![r] = "sleep"]
      BY <1>2 DEF Schedule
    <2> QED BY <2>1, ConnectionAssumption DEF ReconnectPending, PcFunction, Connectors
  <1> QED BY <1>1, <1>2

\* connect_tcp never takes a pending reconnect away.
LEMMA ConnectBeginOwed ==
    ASSUME TypeOK, OwedInv, NEW c \in Connectors, ConnectBegin(c), UNCHANGED owed
    PROVE  OwedInv'
  <1>1. \A v \in {"drain", "open"} :
           ReconnectPending => [pc EXCEPT ![c] = v][reconnectTask] # "idle"
    BY DEF TypeOK, ConnectorsOK, LinkOK, ReconnectPending, Connectors
  <1>2. pc' \in {[pc EXCEPT ![c] = "drain"], [pc EXCEPT ![c] = "open"]}
    BY DEF ConnectBegin, OpenSocket
  <1>3. ReconnectPending => ReconnectPending'
    BY <1>1, <1>2 DEF ReconnectPending, ConnectBegin
  <1> QED BY <1>3 DEF OwedInv, ConnectBegin

\* The read loop's finally clause and the watchdog: the debt is armed.
LEMMA FinallyOwed ==
    ASSUME TypeOK, OwedInv, NEW i \in Slots, ReadLoopFinally(i)
    PROVE  OwedInv'
  <1>1. ASSUME owed' PROVE auto
    BY <1>1 DEF OwedInv, ReadLoopFinally, TypeOK, FlagsOK
  <1>2. ASSUME auto PROVE ReconnectPending'
    BY <1>2, WokenType, ScheduleArms DEF ReadLoopFinally, TypeOK
  <1> QED BY <1>1, <1>2 DEF OwedInv, ReadLoopFinally

LEMMA OwedStep == TypeOK /\ OwedInv /\ [Next]_vars => OwedInv'
  <1> SUFFICES ASSUME TypeOK, OwedInv, [Next]_vars PROVE OwedInv'
    OBVIOUS
  <1>1. CASE Disconnect
    BY <1>1 DEF Disconnect, OwedInv
  <1>2. ASSUME NEW u \in Users, UserConnect(u) PROVE OwedInv'
    <2>1. ReconnectPending => ReconnectPending'
      BY <1>2, ConnectionAssumption
         DEF UserConnect, ReconnectPending, TypeOK, ConnectorsOK, LinkOK, Connectors, conn
    <2> QED BY <1>2, <2>1 DEF OwedInv, UserConnect, conn
  <1>3. ASSUME NEW u \in Users, UserConnectBegin(u) PROVE OwedInv'
    <2>1. CASE connected
      BY <1>3, <2>1 DEF UserConnectBegin, OwedInv, conn
    <2>2. CASE ~connected
      BY <1>3, <2>2, ConnectBeginOwed DEF UserConnectBegin, Connectors
    <2> QED BY <2>1, <2>2
  <1>4. ASSUME NEW r \in Reconnects, ReconnectWake(r) PROVE OwedInv'
    <2>1. CASE connected \/ ~auto
      BY <1>4, <2>1 DEF ReconnectWake, OwedInv, conn
    <2>2. CASE ~(connected \/ ~auto)
      BY <1>4, <2>2, ConnectBeginOwed DEF ReconnectWake, Connectors
    <2> QED BY <2>1, <2>2
  <1>5. ASSUME NEW c \in Connectors, ConnectDrained(c) PROVE OwedInv'
    <2>1. ReconnectPending => ReconnectPending'
      BY <1>5 DEF ConnectDrained, OpenSocket, ReconnectPending, TypeOK, ConnectorsOK,
                  LinkOK, Connectors
    <2> QED BY <1>5, <2>1 DEF OwedInv, ConnectDrained
  <1>6. ASSUME NEW c \in Connectors, ConnectOpened(c) PROVE OwedInv'
    BY <1>6 DEF ConnectOpened, OwedInv
  <1>7. ASSUME NEW c \in Connectors, ConnectFailed(c) PROVE OwedInv'
    <2>1. ReconnectPending => ReconnectPending'
      BY <1>7, ConnectionAssumption
         DEF ConnectFailed, ReconnectPending, TypeOK, ConnectorsOK, LinkOK, Connectors, conn
    <2> QED BY <1>7, <2>1 DEF OwedInv, ConnectFailed, conn
  <1>8. ASSUME NEW i \in Slots, ReadLoopStep(i) PROVE OwedInv'
    <2>1. CASE ReadLoopStillborn(i)
      <3>1. ReconnectPending => ReconnectPending'
        BY <2>1, WokenType, ConnectionAssumption
           DEF ReadLoopStillborn, ReconnectPending, TypeOK, LinkOK, Connectors, conn
      <3> QED BY <2>1, <3>1 DEF OwedInv, ReadLoopStillborn, conn
    <2>2. ASSUME ReadLoopTurn(i) PROVE OwedInv'
      <3>1. CASE connected /\ cur # None /\ Reading(cur) \ {i} = {}
        BY <2>2, <3>1 DEF ReadLoopTurn, OwedInv, ReconnectPending
      <3> QED BY <2>2, <3>1, FinallyOwed DEF ReadLoopTurn
    <2> QED BY <1>8, <2>1, <2>2, FinallyOwed
            DEF ReadLoopStep, ReadLoopStart, ReadLoopData, ReadLoopEnd
  <1>9. CASE WatchdogFires
    <2>1. ASSUME auto PROVE ReconnectPending'
      BY <1>9, <2>1, ScheduleArms DEF WatchdogFires, TypeOK, ConnectorsOK, PcFunction
    <2>2. ASSUME owed' PROVE auto
      BY <1>9, <2>2 DEF WatchdogFires, OwedInv, TypeOK, FlagsOK
    <2> QED BY <1>9, <2>1, <2>2 DEF OwedInv, WatchdogFires
  <1>10. ASSUME PeerOnly PROVE OwedInv'
    BY <1>10 DEF PeerOnly, OwedInv, ReconnectPending, conn
  <1>11. ASSUME NEW i \in Slots, NetworkStep(i) PROVE OwedInv'
    BY <1>10, <1>11 DEF NetworkStep, PeerAccept, PeerDrop, PeerLoses, KeepaliveExpires, Collect
  <1>12. CASE PeerStart \/ PeerStall \/ PeerResume \/ \E clean \in BOOLEAN : PeerStop(clean)
    BY <1>10, <1>12 DEF PeerStart, PeerStall, PeerResume, PeerStop
  <1>13. CASE UNCHANGED vars
    BY <1>13 DEF vars, conn, OwedInv, ReconnectPending
  <1> QED
    BY <1>1, <1>2, <1>3, <1>4, <1>5, <1>6, <1>7, <1>8, <1>9, <1>11, <1>12, <1>13
       DEF Next, ConnectorStep

\* _schedule_reconnect / _reconnect_loop: a link lost with auto-reconnect on
\* always has a task on its way to reconnect, until it is back or given up.
THEOREM LossCorrect == Spec => []LossIsRearmed
  <1>1. Init => OwedInv
    BY DEF Init, OwedInv
  <1>2. TypeOK /\ OwedInv => LossIsRearmed
    BY ConnectionAssumption
       DEF OwedInv, LossIsRearmed, ReconnectPending, TypeOK, LinkOK, Connectors
  <1> QED BY <1>1, <1>2, TypeCorrect, OwedStep, PTL DEF Spec

-------------------------------------------------------------------------------
(* disconnect() holds.                                                     *)

\* With the switch off the finally clause of a late read loop schedules nothing.
LEMMA FinallyOff ==
    ASSUME TypeOK, Off, NEW i \in Slots, ReadLoopFinally(i)
    PROVE  Off'
  <1>1. pc' = Woken(i)
    BY DEF Off, ReadLoopFinally, Schedule
  <1>2. Settled'
    BY <1>1 DEF Off, Settled, Woken
  <1> QED BY <1>2 DEF Off, ReadLoopFinally

LEMMA OffStep ==
    ASSUME TypeOK, [Next]_vars, Off
    PROVE  Off' \/ \E u \in Users : pc[u] = "request"
  <1>1. CASE Disconnect
    <2>1. Settled'
      BY <1>1, ConnectionAssumption
         DEF Disconnect, CancelReconnect, ReconnectPending, Off, Settled, TypeOK,
             ConnectorsOK, LinkOK, Connectors
    <2> QED BY <1>1, <2>1 DEF Off, Disconnect
  <1>2. ASSUME NEW u \in Users, UserConnect(u) PROVE Off'
    <2>1. Settled'
      BY <1>2 DEF UserConnect, Off, Settled, TypeOK, ConnectorsOK, Connectors
    <2> QED BY <1>2, <2>1 DEF Off, UserConnect, conn
  <1>3. ASSUME NEW u \in Users, UserConnectBegin(u) PROVE pc[u] = "request"
    BY <1>3 DEF UserConnectBegin
  <1>4. ASSUME NEW r \in Reconnects, ReconnectWake(r) PROVE Off'
    <2>1. pc' = [pc EXCEPT ![r] = "idle"] /\ UNCHANGED conn
      BY <1>4 DEF ReconnectWake, Off
    <2>2. Settled'
      BY <2>1 DEF Off, Settled, TypeOK, ConnectorsOK, Connectors
    <2> QED BY <2>1, <2>2 DEF Off, conn
  <1>5. ASSUME NEW c \in Connectors, ConnectorStep(c) PROVE FALSE
    BY <1>5 DEF ConnectorStep, ConnectDrained, ConnectOpened, ConnectFailed, Off, Settled
  <1>6. ASSUME NEW i \in Slots, ReadLoopStep(i) PROVE Off'
    <2>1. CASE ReadLoopStillborn(i)
      <3>1. Settled'
        BY <2>1 DEF ReadLoopStillborn, Off, Settled, Woken
      <3> QED BY <2>1, <3>1 DEF Off, ReadLoopStillborn, conn
    <2>2. ASSUME ReadLoopTurn(i) PROVE Off'
      BY <2>2, FinallyOff DEF ReadLoopTurn, Off
    <2> QED BY <1>6, <2>1, <2>2, FinallyOff
            DEF ReadLoopStep, ReadLoopStart, ReadLoopData, ReadLoopEnd
  <1>7. CASE WatchdogFires
    BY <1>7 DEF WatchdogFires, Off
  <1>8. ASSUME PeerOnly PROVE Off'
    BY <1>8 DEF PeerOnly, Off, Settled, conn
  <1>9. ASSUME NEW i \in Slots, NetworkStep(i) PROVE Off'
    BY <1>8, <1>9 DEF NetworkStep, PeerAccept, PeerDrop, PeerLoses, KeepaliveExpires, Collect
  <1>10. CASE PeerStart \/ PeerStall \/ PeerResume \/ \E clean \in BOOLEAN : PeerStop(clean)
    BY <1>8, <1>10 DEF PeerStart, PeerStall, PeerResume, PeerStop
  <1>11. CASE UNCHANGED vars
    BY <1>11 DEF vars, conn, Off, Settled
  <1> QED
    BY <1>1, <1>2, <1>3, <1>4, <1>5, <1>6, <1>7, <1>9, <1>10, <1>11 DEF Next

\* serial_conn.py disconnect(): once no connect is in flight, no late read
\* loop, watchdog or reconnect task turns the link on again.
THEOREM OffCorrect == Spec => OffUntilUserConnects
  <1>1. TypeOK /\ [Next]_vars =>
            [Off => Off' \/ \E u \in Users : pc[u] = "request"]_vars
    BY OffStep
  <1> QED BY <1>1, TypeCorrect, PTL DEF Spec, OffUntilUserConnects

-------------------------------------------------------------------------------
(* ConnectedIsAttended.  Its witness changes hands: a new connection brings *)
(* its own read loop, and a connect that closes another's socket turns the *)
(* loop on it into one that is about to end.                               *)

Attends(i) ==
    \/ task[i] \in {"start", "cancelled"}
    \/ task[i] = "read" /\ (reads[i] = cur \/ sock[reads[i]] # "open")

\* A step that keeps the read loops, and keeps the current socket or closes
\* it, keeps whoever attends.
LEMMA AttendsKept ==
    ASSUME TypeOK, NEW i \in Slots, Attends(i), UNCHANGED tasks,
           \A j \in Slots : sock[j] # "open" => sock'[j] # "open",
           cur' = cur \/ (cur \in Slots => sock'[cur] # "open")
    PROVE  Attends(i)'
  BY DEF Attends, tasks, TypeOK, TasksOK, LinkOK

LEMMA AttendedStep == TypeOK /\ ConnectedIsAttended /\ [Next]_vars => ConnectedIsAttended'
  <1> SUFFICES ASSUME TypeOK, ConnectedIsAttended, [Next]_vars, connected'
               PROVE  watchdog' /\ \E i \in Slots : Attends(i)'
    BY DEF ConnectedIsAttended, Attends
  <1>a. connected => watchdog /\ \E i \in Slots : Attends(i)
    BY DEF ConnectedIsAttended, Attends
  <1> DEFINE Goal == watchdog' /\ \E i \in Slots : Attends(i)'
  <1>1. CASE Disconnect
    BY <1>1 DEF Disconnect
  <1>2. ASSUME NEW c \in Connectors, ConnectBegin(c), ~connected PROVE Goal
    BY <1>2 DEF ConnectBegin
  <1>3. ASSUME UNCHANGED <<conn, tasks>>,
               \A j \in Slots : sock[j] # "open" => sock'[j] # "open"
        PROVE  Goal
    BY <1>a, <1>3, AttendsKept DEF conn
  <1>4. ASSUME NEW u \in Users, UserConnect(u) \/ UserConnectBegin(u) PROVE Goal
    BY <1>2, <1>3, <1>4 DEF UserConnect, UserConnectBegin, Connectors
  <1>5. ASSUME NEW r \in Reconnects, ReconnectWake(r) PROVE Goal
    BY <1>2, <1>3, <1>5 DEF ReconnectWake, Connectors
  <1>6. ASSUME NEW c \in Connectors, ConnectDrained(c) PROVE Goal
    <2>1. /\ \A j \in Slots : sock[j] # "open" => sock'[j] # "open"
          /\ cur \in Slots => sock'[cur] # "open"
      BY <1>6, ConnectionAssumption
         DEF ConnectDrained, OpenSocket, Closed, TypeOK, TasksOK, LinkOK
    <2> QED BY <1>a, <1>6, <2>1, AttendsKept DEF ConnectDrained
  <1>7. ASSUME NEW c \in Connectors, ConnectOpened(c) PROVE Goal
    <2>1. PICK i \in FreeSlots : task' = [task EXCEPT ![i] = "start"]
      BY <1>7 DEF ConnectOpened
    <2>2. i \in Slots /\ Attends(i)'
      BY <2>1 DEF FreeSlots, Attends, TypeOK, TasksOK
    <2> QED BY <1>7, <2>2 DEF ConnectOpened
  <1>8. ASSUME NEW c \in Connectors, ConnectFailed(c) PROVE Goal
    BY <1>3, <1>8 DEF ConnectFailed
  <1>9. ASSUME NEW i \in Slots, ReadLoopFinally(i) PROVE Goal
    BY <1>9 DEF ReadLoopFinally
  <1>10. ASSUME NEW i \in Slots, ReadLoopTurn(i) PROVE Goal
    <2>1. CASE connected /\ cur # None /\ Reading(cur) \ {i} = {}
      <3>1. Attends(i)'
        BY <1>10, <2>1 DEF ReadLoopTurn, Attends, TypeOK, TasksOK, LinkOK
      <3> QED BY <1>a, <1>10, <2>1, <3>1 DEF ReadLoopTurn
    <2> QED BY <1>9, <1>10, <2>1 DEF ReadLoopTurn
  <1>11. ASSUME NEW i \in Slots, ReadLoopStillborn(i) PROVE Goal
    <2>1. connected /\ watchdog'
      BY <1>a, <1>11 DEF ReadLoopStillborn, conn
    <2>2. PICK j \in Slots : Attends(j)
      BY <1>a, <2>1
    <2>3. Attends(j)'
      BY <1>11, <2>2 DEF ReadLoopStillborn, Attends, TypeOK, TasksOK, conn
    <2> QED BY <2>1, <2>3
  <1>12. ASSUME NEW i \in Slots, ReadLoopStep(i) PROVE Goal
    BY <1>9, <1>10, <1>11, <1>12
       DEF ReadLoopStep, ReadLoopStart, ReadLoopData, ReadLoopEnd
  <1>13. ASSUME NEW i \in Slots, NetworkStep(i) PROVE Goal
    <2>1. \A j \in Slots : sock[j] # "open" => sock'[j] # "open"
      BY <1>13 DEF NetworkStep, PeerAccept, PeerDrop, PeerLoses, KeepaliveExpires, Collect,
                   TypeOK, TasksOK
    <2> QED BY <1>3, <1>13, <2>1
            DEF NetworkStep, PeerAccept, PeerDrop, PeerLoses, KeepaliveExpires, Collect, PeerOnly
  <1>14. CASE WatchdogFires
    BY <1>14 DEF WatchdogFires
  <1>15. CASE PeerStart \/ PeerStall \/ PeerResume
    BY <1>3, <1>15 DEF PeerStart, PeerStall, PeerResume, PeerOnly
  <1>16. ASSUME NEW clean \in BOOLEAN, PeerStop(clean) PROVE Goal
    <2>1. \A j \in Slots : sock[j] # "open" => sock'[j] # "open"
      BY <1>16 DEF PeerStop
    <2> QED BY <1>3, <1>16, <2>1 DEF PeerStop, PeerOnly
  <1>17. CASE UNCHANGED vars
    BY <1>3, <1>17 DEF vars
  <1> QED
    BY <1>1, <1>4, <1>5, <1>6, <1>7, <1>8, <1>12, <1>13, <1>14, <1>15, <1>16, <1>17
       DEF Next, ConnectorStep

\* serial_conn.py: while _connected is set the watchdog runs and a read loop
\* is there that will clear the flag if the socket ends, however many connect
\* calls and old read loops overlap.
THEOREM AttendedCorrect == Spec => []ConnectedIsAttended
  <1>1. Init => ConnectedIsAttended
    BY DEF Init, ConnectedIsAttended
  <1> QED BY <1>1, TypeCorrect, AttendedStep, PTL DEF Spec

-------------------------------------------------------------------------------
\* Whatever the host does, the other end of its sockets takes the steps BridgePeer
\* names and no others.
LEMMA RelianceStep == [Next]_vars => [PeerNext]_peer
  <1> SUFFICES ASSUME [Next]_vars PROVE PeerNext \/ UNCHANGED peer
    OBVIOUS
  <1>1. ASSUME NEW c \in Connectors, ConnectorStep(c) PROVE PeerNext \/ UNCHANGED peer
    <2>1. CASE ConnectOpened(c)
      BY <2>1 DEF ConnectOpened, FreeSlots, PeerNext
    <2>2. CASE ConnectDrained(c) \/ ConnectFailed(c)
      BY <2>2 DEF ConnectDrained, ConnectFailed
    <2> QED BY <1>1, <2>1, <2>2 DEF ConnectorStep
  <1>2. ASSUME NEW i \in Slots, NetworkStep(i) PROVE PeerNext \/ UNCHANGED peer
    BY <1>2 DEF NetworkStep, PeerAccept, PeerDrop, PeerLoses, KeepaliveExpires, Collect, PeerNext
  <1>3. ASSUME NEW i \in Slots, ReadLoopStep(i) PROVE UNCHANGED peer
    BY <1>3 DEF ReadLoopStep, ReadLoopStart, ReadLoopStillborn, ReadLoopData, ReadLoopEnd,
                ReadLoopTurn, ReadLoopFinally
  <1>4. CASE PeerStart \/ PeerStall \/ PeerResume \/ \E clean \in BOOLEAN : PeerStop(clean)
    BY <1>4 DEF PeerStart, PeerStall, PeerResume, PeerStop, PeerNext
  <1>5. CASE Disconnect \/ WatchdogFires
    BY <1>5 DEF Disconnect, WatchdogFires
  <1>6. ASSUME NEW u \in Users, UserConnect(u) \/ UserConnectBegin(u)
        PROVE  UNCHANGED peer
    BY <1>6 DEF UserConnect, UserConnectBegin
  <1>7. ASSUME NEW r \in Reconnects, ReconnectWake(r) PROVE UNCHANGED peer
    BY <1>7 DEF ReconnectWake
  <1>8. CASE UNCHANGED vars
    BY <1>8 DEF vars
  <1> QED BY <1>1, <1>2, <1>3, <1>4, <1>5, <1>6, <1>7, <1>8 DEF Next

\* serial_conn.py is modelled against no peer but one that keeps BridgePeer's
\* promise, which NetIoProofs shows net_io.c to keep.
THEOREM RelianceCorrect == Spec => PeerSpec
  <1>1. Init => PeerInit
    BY DEF Init
  <1> QED BY <1>1, RelianceStep, PTL DEF Spec, PeerSpec
===============================================================================
