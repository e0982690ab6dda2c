------------------------------ MODULE NetIoProofs ------------------------------
(***************************************************************************)
(* Proofs about NetIo, for any number of connections, any line length and  *)
(* any number of bytes.                                                    *)
(***************************************************************************)
EXTENDS NetIo, TLAPS

\* handle_serial_byte never writes past line_buf.
LEMMA AssembleType ==
    ASSUME NEW l \in Seq(Byte), Len(l) <= MaxLine, NEW b \in Byte
    PROVE  Assemble(l, b) \in Seq(Byte) /\ Len(Assemble(l, b)) <= MaxLine
  BY NetAssumption DEF Assemble

\* A write leaves the client and its buffer alone or drops both.
LEMMA WriteCases ==
    ASSUME NEW ok \in BOOLEAN, Write(ok)
    PROVE  (client' = client /\ rx' = rx) \/ (client' = None /\ rx' = <<>>)
  BY Zenon DEF Write, drop_client

\* So does any step of the link-state block and of the timer block.
LEMMA LinkTimerCases ==
    ASSUME NEW ok \in BOOLEAN, LinkState(ok) \/ TimerWork(ok)
    PROVE  (client' = client /\ rx' = rx) \/ (client' = None /\ rx' = <<>>)
  BY WriteCases, Zenon DEF LinkState, TimerWork

\* Dispatching a line takes the newline that ended it; its handler may find
\* the client gone.
LEMMA ByteCases ==
    ASSUME NEW ok \in BOOLEAN, HandleByte(ok)
    PROVE  /\ (client' = client /\ rx' = Tail(rx)) \/ (client' = None /\ rx' = <<>>)
           /\ lines' = lines \/ lines' = Append(lines, Append(line, Head(rx)))
  BY Zenon DEF HandleByte, drop_client

LEMMA EmptyType == <<>> \in Seq(Byte)
  OBVIOUS

\* What recv takes and what it leaves are pieces of what was there.
LEMMA PieceType ==
    ASSUME NEW s \in Seq(Byte), NEW n \in Nat, n <= Len(s)
    PROVE  SubSeq(s, 1, n) \in Seq(Byte) /\ SubSeq(s, n + 1, Len(s)) \in Seq(Byte)
  OBVIOUS

LEMMA TypeStep == TypeOK /\ [Next]_vars => TypeOK'
  <1> SUFFICES ASSUME TypeOK, [Next]_vars PROVE TypeOK'
    OBVIOUS
  <1>a. rx \in Seq(Byte) /\ client \in Conns \cup {None}
    BY DEF TypeOK
  <1>b. line \in Seq(Byte) /\ Len(line) <= MaxLine /\ lines \in Seq(Seq(Byte))
    BY DEF TypeOK
  <1>1. ASSUME NEW c \in Conns, HostConnect(c) PROVE TypeOK'
    BY <1>1 DEF TypeOK, HostConnect, daemon
  <1>2. ASSUME NEW c \in Conns, NEW newline \in BOOLEAN, HostSend(c, newline) PROVE TypeOK'
    <2>1. sent[c] + 1 \in Nat
      BY <1>2, NetAssumption DEF TypeOK, HostSend
    <2>2. [from |-> c, n |-> sent[c] + 1, newline |-> newline] \in Byte
      BY <2>1, Zenon DEF Byte
    <2>3. wire' \in [Conns -> Seq(Byte)]
      BY <1>2, <2>2 DEF TypeOK, HostSend
    <2>4. sent' \in [Conns -> Nat]
      BY <1>2, <2>1 DEF TypeOK, HostSend
    <2> QED BY <1>2, <2>3, <2>4 DEF TypeOK, HostSend, daemon
  <1>3. ASSUME NEW c \in Conns, NEW how \in {"closed", "dead"}, HostLeave(c, how)
        PROVE  TypeOK'
    BY <1>3 DEF TypeOK, HostLeave, daemon
  <1>4. CASE Wake
    BY <1>4 DEF TypeOK, Wake, hostVars
  <1>5. CASE TryAccept
    BY <1>5 DEF TypeOK, TryAccept, hostVars
  <1>6. CASE Recv
    <2>1. client \in Conns /\ wire[client] \in Seq(Byte) /\ wire \in [Conns -> Seq(Byte)]
      BY <1>6 DEF TypeOK, Recv
    <2>a. PICK n \in 1..Len(wire[client]) :
            /\ rx' = SubSeq(wire[client], 1, n)
            /\ wire' = [wire EXCEPT ![client] = SubSeq(@, n + 1, Len(@))]
      BY <1>6 DEF Recv
    <2>2. /\ SubSeq(wire[client], 1, n) \in Seq(Byte)
          /\ SubSeq(wire[client], n + 1, Len(wire[client])) \in Seq(Byte)
      BY <2>1, PieceType
    <2>3. rx' \in Seq(Byte) /\ wire' \in [Conns -> Seq(Byte)]
      BY <2>1, <2>a, <2>2
    <2> QED BY <1>6, <2>3 DEF TypeOK, Recv
  <1>7. CASE RecvClosed
    BY <1>7 DEF TypeOK, RecvClosed, drop_client, hostVars
  <1>8. CASE RecvNothing
    BY <1>8 DEF TypeOK, RecvNothing, hostVars
  <1>9. ASSUME NEW ok \in BOOLEAN, HandleByte(ok) PROVE TypeOK'
    <2>1. Head(rx) \in Byte /\ Tail(rx) \in Seq(Byte)
      BY <1>a, <1>9 DEF HandleByte
    <2>2. line' \in Seq(Byte) /\ Len(line') <= MaxLine
      BY <1>b, <1>9, <2>1, AssembleType DEF HandleByte
    <2>0. /\ (client' = client /\ rx' = Tail(rx)) \/ (client' = None /\ rx' = <<>>)
          /\ lines' = lines \/ lines' = Append(lines, Append(line, Head(rx)))
      BY <1>9, ByteCases, Zenon
    <2>3. lines' \in Seq(Seq(Byte))
      <3>1. Append(line, Head(rx)) \in Seq(Byte)
        BY <1>b, <2>1
      <3>2. Append(lines, Append(line, Head(rx))) \in Seq(Seq(Byte))
        BY <1>b, <3>1
      <3> QED BY <1>b, <2>0, <3>2, Zenon
    <2>4. rx' \in Seq(Byte) /\ client' \in Conns \cup {None}
      BY <1>a, <2>0, <2>1, EmptyType, Zenon
    <2> QED BY <1>9, <2>2, <2>3, <2>4 DEF TypeOK, HandleByte, hostVars
  <1>10. ASSUME NEW ok \in BOOLEAN, LinkState(ok) PROVE TypeOK'
    <2>1. greetings' \in [Conns -> Nat]
      BY <1>10 DEF TypeOK, LinkState, RisingEdge
    <2>0. (client' = client /\ rx' = rx) \/ (client' = None /\ rx' = <<>>)
      BY <1>10, LinkTimerCases, Zenon
    <2>2. rx' \in Seq(Byte) /\ client' \in Conns \cup {None}
      BY <1>a, <2>0, EmptyType, Zenon
    <2>3. linked' \in BOOLEAN
      BY <1>10 DEF LinkState
    <2> QED BY <1>10, <2>1, <2>2, <2>3 DEF TypeOK, LinkState, hostVars
  <1>11. ASSUME NEW ok \in BOOLEAN, TimerWork(ok) PROVE TypeOK'
    <2>0. (client' = client /\ rx' = rx) \/ (client' = None /\ rx' = <<>>)
      BY <1>11, LinkTimerCases, Zenon
    <2>1. rx' \in Seq(Byte) /\ client' \in Conns \cup {None}
      BY <1>a, <2>0, EmptyType, Zenon
    <2> QED BY <1>11, <2>1 DEF TypeOK, TimerWork, hostVars
  <1>12. CASE NetClose
    <2>1. host' \in [Conns -> {"new", "up", "closed", "dead"}]
      BY <1>12 DEF TypeOK, NetClose
    <2>2. wire' \in [Conns -> Seq(Byte)] /\ rx' \in Seq(Byte) /\ client' \in Conns \cup {None}
      BY <1>12 DEF NetClose, drop_client
    <2>3. backlog' \in Seq(Conns) /\ line' \in Seq(Byte) /\ Len(line') <= MaxLine
      BY <1>12, NetAssumption DEF NetClose
    <2> QED BY <1>12, <2>1, <2>2, <2>3 DEF TypeOK, NetClose
  <1>13. CASE NetOpen
    BY <1>13 DEF TypeOK, NetOpen, hostVars
  <1>14. CASE UNCHANGED vars
    BY <1>14 DEF TypeOK, vars, hostVars
  <1> QED
    BY <1>1, <1>2, <1>3, <1>4, <1>5, <1>6, <1>7, <1>8, <1>9, <1>10, <1>11, <1>12, <1>13, <1>14
       DEF Next, Daemon

LEMMA InitType == Init => TypeOK
  <1> SUFFICES ASSUME Init PROVE TypeOK
    OBVIOUS
  <1>1. /\ host \in [Conns -> {"new", "up", "closed", "dead"}]
        /\ sent \in [Conns -> Nat] /\ greetings \in [Conns -> Nat]
    BY NetAssumption DEF Init
  <1>2. wire \in [Conns -> Seq(Byte)]
    BY DEF Init
  <1>3. /\ rx \in Seq(Byte) /\ backlog \in Seq(Conns)
        /\ line \in Seq(Byte) /\ Len(line) <= MaxLine
    BY NetAssumption DEF Init
  <1>4. lines \in Seq(Seq(Byte))
    BY DEF Init
  <1> QED BY <1>1, <1>2, <1>3, <1>4 DEF Init, TypeOK

\* main.c and net_io.c: the buffers hold bytes only and the line buffer never
\* overruns, for every BRIDGE_MAX_LINE.
THEOREM TypeCorrect == Spec => []TypeOK
  BY InitType, TypeStep, PTL DEF Spec

-------------------------------------------------------------------------------
\* Bytes on a connection came from that connection.
WireInv == \A c \in Conns : \A i \in DOMAIN wire[c] : wire[c][i].from = c

RxInv == TypeOK /\ WireInv /\ RxBelongsToClient

LEMMA WireStep == TypeOK /\ WireInv /\ [Next]_vars => WireInv'
  <1> SUFFICES ASSUME TypeOK, WireInv, [Next]_vars PROVE WireInv'
    OBVIOUS
  <1>1. ASSUME NEW c \in Conns, NEW newline \in BOOLEAN, HostSend(c, newline) PROVE WireInv'
    <2> DEFINE b == [from |-> c, n |-> sent[c] + 1, newline |-> newline]
    <2>1. wire[c] \in Seq(Byte) /\ wire \in [Conns -> Seq(Byte)]
      BY DEF TypeOK
    <2>2. wire' = [wire EXCEPT ![c] = Append(wire[c], b)]
      BY <1>1 DEF HostSend
    <2>3. b.from = c
      OBVIOUS
    <2> HIDE DEF b
    <2>4. SUFFICES ASSUME NEW d \in Conns, NEW i \in DOMAIN wire'[d] PROVE wire'[d][i].from = d
      BY DEF WireInv
    <2>5. CASE d # c
      BY <2>1, <2>2, <2>5 DEF WireInv
    <2>6. CASE d = c
      <3>1. wire'[d] = Append(wire[c], b)
        BY <2>1, <2>2, <2>6
      <3>2. i \in 1..(Len(wire[c]) + 1)
        BY <2>1, <3>1
      <3>3. CASE i = Len(wire[c]) + 1
        BY <2>1, <2>3, <2>6, <3>1, <3>3
      <3>4. CASE i \in 1..Len(wire[c])
        <4>1. wire'[d][i] = wire[c][i]
          BY <2>1, <3>1, <3>4
        <4>2. i \in DOMAIN wire[c]
          BY <2>1, <3>4
        <4> QED BY <2>6, <4>1, <4>2 DEF WireInv
      <3> QED BY <2>1, <3>2, <3>3, <3>4
    <2> QED BY <2>5, <2>6
  <1>2. CASE Recv
    <2>1. client \in Conns /\ wire[client] \in Seq(Byte) /\ wire \in [Conns -> Seq(Byte)]
      BY <1>2 DEF TypeOK, Recv
    <2>a. PICK n \in 1..Len(wire[client]) :
            wire' = [wire EXCEPT ![client] = SubSeq(@, n + 1, Len(@))]
      BY <1>2 DEF Recv
    <2>2. SUFFICES ASSUME NEW d \in Conns, NEW i \in DOMAIN wire'[d] PROVE wire'[d][i].from = d
      BY DEF WireInv
    <2>3. CASE d # client
      BY <2>1, <2>a, <2>3 DEF WireInv
    <2>4. CASE d = client
      <3>1. wire'[d] = SubSeq(wire[client], n + 1, Len(wire[client]))
        BY <2>1, <2>a, <2>4
      <3>2. n \in Nat /\ n <= Len(wire[client])
        BY <2>1
      <3>3. wire'[d] \in Seq(Byte) /\ Len(wire'[d]) = Len(wire[client]) - n
        BY <2>1, <3>1, <3>2
      <3>4. i \in 1..(Len(wire[client]) - n)
        BY <3>3
      <3>5. n + i \in DOMAIN wire[client] /\ wire'[d][i] = wire[client][n + i]
        BY <2>1, <3>1, <3>2, <3>4
      <3> QED BY <2>1, <2>4, <3>5 DEF WireInv
    <2> QED BY <2>3, <2>4
  <1>3. CASE UNCHANGED wire
    BY <1>3 DEF WireInv
  <1>4. CASE NetClose
    BY <1>4 DEF NetClose, WireInv
  <1> QED
    BY <1>1, <1>2, <1>3, <1>4
       DEF Next, Daemon, vars, hostVars, daemon, HostConnect, HostLeave, Wake, TryAccept,
           RecvClosed, RecvNothing, HandleByte, LinkState, TimerWork, NetOpen

LEMMA RxStep == RxInv /\ [Next]_vars => RxBelongsToClient'
  <1> SUFFICES ASSUME RxInv, [Next]_vars PROVE RxBelongsToClient'
    OBVIOUS
  <1>a. /\ rx \in Seq(Byte) /\ client \in Conns \cup {None}
        /\ wire \in [Conns -> Seq(Byte)] /\ WireInv /\ RxBelongsToClient
    BY DEF RxInv, TypeOK
  <1>1. CASE UNCHANGED <<client, rx>>
    BY <1>a, <1>1 DEF RxBelongsToClient
  <1>2. CASE rx' = <<>>
    BY <1>2 DEF RxBelongsToClient
  <1>3. CASE Recv
    <2>1. client \in Conns /\ wire[client] \in Seq(Byte) /\ client' = client
      BY <1>a, <1>3 DEF Recv
    <2>2. PICK n \in 1..Len(wire[client]) : rx' = SubSeq(wire[client], 1, n)
      BY <1>3 DEF Recv
    <2>3. \A i \in DOMAIN rx' : i \in DOMAIN wire[client] /\ rx'[i] = wire[client][i]
      BY <2>1, <2>2
    <2> QED BY <1>a, <2>1, <2>3 DEF WireInv, RxBelongsToClient
  <1>4. CASE TryAccept
    BY <1>4, <1>2 DEF TryAccept
  <1>5. CASE client' = client /\ rx # <<>> /\ rx' = Tail(rx)
    <2>1. \A i \in DOMAIN Tail(rx) : Tail(rx)[i] = rx[i + 1] /\ i + 1 \in DOMAIN rx
      BY <1>a, <1>5
    <2> QED BY <1>a, <1>5, <2>1 DEF RxBelongsToClient
  <1>6. ASSUME NEW ok \in BOOLEAN, HandleByte(ok) PROVE RxBelongsToClient'
    <2>1. (client' = client /\ rx' = Tail(rx)) \/ (client' = None /\ rx' = <<>>)
      BY <1>6, ByteCases, Zenon
    <2>2. rx # <<>>
      BY <1>6 DEF HandleByte
    <2> QED BY <1>2, <1>5, <2>1, <2>2
  <1>7. ASSUME NEW ok \in BOOLEAN, LinkState(ok) \/ TimerWork(ok) PROVE RxBelongsToClient'
    <2>1. (client' = client /\ rx' = rx) \/ (client' = None /\ rx' = <<>>)
      BY <1>7, LinkTimerCases, Zenon
    <2> QED BY <1>1, <1>2, <2>1
  <1> QED
    BY <1>1, <1>2, <1>3, <1>4, <1>6, <1>7
       DEF Next, Daemon, vars, daemon, HostConnect, HostSend, HostLeave, Wake,
           RecvClosed, RecvNothing, NetClose, NetOpen, drop_client

\* net_io.c drop_client and net_check_read: what the receive buffer holds came
\* from the client being served, however connections come, go and are replaced.
THEOREM RxCorrect == Spec => []RxBelongsToClient
  <1>1. Init => RxInv
    <2>1. Init => TypeOK
      BY InitType
    <2>2. Init => WireInv /\ RxBelongsToClient
      BY DEF Init, WireInv, RxBelongsToClient
    <2> QED BY <2>1, <2>2 DEF RxInv
  <1>2. RxInv /\ [Next]_vars => RxInv'
    BY TypeStep, WireStep, RxStep DEF RxInv
  <1>3. RxInv => RxBelongsToClient
    BY DEF RxInv
  <1> QED BY <1>1, <1>2, <1>3, PTL DEF Spec

-------------------------------------------------------------------------------
\* A connection that is new, waits in the backlog, or is served with the link
\* still down has not been greeted, and it is only one of these at a time.
NewInv == \A c \in Conns : host[c] = "new" =>
             /\ greetings[c] = 0 /\ client # c
             /\ \A i \in DOMAIN backlog : backlog[i] # c
BacklogInv == /\ \A i \in DOMAIN backlog : greetings[backlog[i]] = 0 /\ backlog[i] # client
              /\ \A i, j \in DOMAIN backlog : backlog[i] = backlog[j] => i = j
ServedInv == client # None /\ ~linked => greetings[client] = 0

GreetInv == TypeOK /\ NewInv /\ BacklogInv /\ ServedInv /\ GreetedOnce

\* A step that drops the client, or none, and greets nobody.
LEMMA GreetKept ==
    ASSUME GreetInv, UNCHANGED <<host, backlog, greetings>>,
           client' \in {client, None}, client' # None => linked' = linked
    PROVE  (NewInv /\ BacklogInv /\ ServedInv /\ GreetedOnce)'
  <1>1. NewInv'
    BY NetAssumption DEF GreetInv, NewInv
  <1>2. BacklogInv'
    BY NetAssumption DEF GreetInv, BacklogInv, TypeOK
  <1>3. ServedInv' /\ GreetedOnce'
    BY DEF GreetInv, ServedInv, GreetedOnce
  <1> QED BY <1>1, <1>2, <1>3

LEMMA GreetStep == GreetInv /\ [Next]_vars => (NewInv /\ BacklogInv /\ ServedInv /\ GreetedOnce)'
  <1> SUFFICES ASSUME GreetInv, [Next]_vars
               PROVE  (NewInv /\ BacklogInv /\ ServedInv /\ GreetedOnce)'
    OBVIOUS
  <1>a. /\ backlog \in Seq(Conns) /\ client \in Conns \cup {None}
        /\ greetings \in [Conns -> Nat]
        /\ host \in [Conns -> {"new", "up", "closed", "dead"}]
        /\ NewInv /\ BacklogInv /\ ServedInv /\ GreetedOnce
    BY DEF GreetInv, TypeOK
  <1>1. ASSUME NEW c \in Conns, HostConnect(c)
        PROVE  (NewInv /\ BacklogInv /\ ServedInv /\ GreetedOnce)'
    <2>1. /\ backlog' = Append(backlog, c) /\ UNCHANGED <<client, linked, greetings>>
          /\ host[c] = "new" /\ host' = [host EXCEPT ![c] = "up"]
      BY <1>1 DEF HostConnect, daemon
    <2>2. greetings[c] = 0 /\ client # c /\ \A i \in DOMAIN backlog : backlog[i] # c
      BY <1>a, <2>1 DEF NewInv
    <2>3. \A i \in DOMAIN backlog' : \/ i = Len(backlog) + 1 /\ backlog'[i] = c
                                     \/ i \in DOMAIN backlog /\ backlog'[i] = backlog[i]
      BY <1>a, <2>1
    <2>4. NewInv'
      BY <1>a, <2>1, <2>3 DEF NewInv
    <2>5. BacklogInv'
      BY <1>a, <2>1, <2>2, <2>3 DEF BacklogInv
    <2> QED BY <1>a, <2>1, <2>4, <2>5 DEF ServedInv, GreetedOnce
  <1>2. ASSUME NEW c \in Conns, NEW newline \in BOOLEAN, HostSend(c, newline)
        PROVE  (NewInv /\ BacklogInv /\ ServedInv /\ GreetedOnce)'
    BY <1>2, GreetKept DEF HostSend, daemon
  <1>3. ASSUME NEW c \in Conns, NEW how \in {"closed", "dead"}, HostLeave(c, how)
        PROVE  (NewInv /\ BacklogInv /\ ServedInv /\ GreetedOnce)'
    BY <1>a, <1>3 DEF HostLeave, daemon, NewInv, BacklogInv, ServedInv, GreetedOnce
  <1>4. CASE TryAccept
    <2>1. /\ backlog # <<>> /\ client = None /\ client' = Head(backlog)
          /\ backlog' = Tail(backlog) /\ UNCHANGED <<host, linked, greetings>>
      BY <1>4 DEF TryAccept, hostVars
    <2>2. /\ 1 \in DOMAIN backlog /\ client' = backlog[1]
          /\ \A i \in DOMAIN backlog' : i + 1 \in DOMAIN backlog /\ backlog'[i] = backlog[i + 1]
                                        /\ i + 1 # 1 /\ i \in Nat
      BY <1>a, <2>1
    <2>3. NewInv'
      BY <1>a, <2>1, <2>2 DEF NewInv
    <2>4. BacklogInv'
      <3>1. \A i \in DOMAIN backlog' : greetings[backlog'[i]] = 0 /\ backlog'[i] # client'
        BY <1>a, <2>2 DEF BacklogInv
      <3>2. \A i, j \in DOMAIN backlog' : backlog'[i] = backlog'[j] => i = j
        <4> SUFFICES ASSUME NEW i \in DOMAIN backlog', NEW j \in DOMAIN backlog',
                            backlog'[i] = backlog'[j]
                     PROVE  i = j
          OBVIOUS
        <4>1. i + 1 = j + 1
          BY <1>a, <2>2 DEF BacklogInv
        <4> QED BY <4>1, <2>2
      <3> QED BY <2>1, <3>1, <3>2 DEF BacklogInv
    <2>5. ServedInv' /\ GreetedOnce'
      BY <1>a, <2>1, <2>2 DEF BacklogInv, ServedInv, GreetedOnce
    <2> QED BY <2>3, <2>4, <2>5
  <1>5. CASE Wake \/ Recv \/ RecvClosed \/ RecvNothing \/ NetOpen
    BY <1>a, <1>5, GreetKept
       DEF Wake, Recv, RecvClosed, RecvNothing, NetOpen, drop_client, hostVars
  <1>6. ASSUME NEW ok \in BOOLEAN, HandleByte(ok)
        PROVE  (NewInv /\ BacklogInv /\ ServedInv /\ GreetedOnce)'
    <2>1. client' \in {client, None}
      BY <1>6, ByteCases
    <2>2. UNCHANGED <<host, backlog, greetings, linked>>
      BY <1>6 DEF HandleByte, hostVars
    <2> QED BY <2>1, <2>2, GreetKept
  <1>7. ASSUME NEW ok \in BOOLEAN, LinkState(ok)
        PROVE  (NewInv /\ BacklogInv /\ ServedInv /\ GreetedOnce)'
    <2>1. client' \in {client, None}
      BY <1>7, LinkTimerCases
    <2>2. UNCHANGED <<host, backlog>> /\ linked' = (client # None)
      BY <1>7 DEF LinkState, hostVars
    <2>3. CASE RisingEdge
      <3>1. client \in Conns /\ greetings[client] = 0
        BY <1>a, <2>3 DEF RisingEdge, ServedInv
      <3>2. greetings' = [greetings EXCEPT ![client] = greetings[client] + 1]
        BY <1>7, <2>3 DEF LinkState
      <3>3. \A c \in Conns : greetings'[c] = IF c = client THEN 1 ELSE greetings[c]
        BY <1>a, <3>1, <3>2
      <3>4. NewInv'
        BY <1>a, <2>1, <2>2, <3>3, NetAssumption DEF NewInv
      <3>5. BacklogInv'
        BY <1>a, <2>1, <2>2, <3>3, NetAssumption DEF BacklogInv
      <3>6. ServedInv'
        BY <2>2, <3>1, NetAssumption, Zenon DEF ServedInv
      <3>7. GreetedOnce'
        BY <1>a, <3>3 DEF GreetedOnce
      <3> QED BY <3>4, <3>5, <3>6, <3>7
    <2>4. CASE ~RisingEdge
      <3>1. greetings' = greetings
        BY <1>7, <2>4 DEF LinkState
      <3>2. client' # None => linked' = linked
        BY <1>a, <2>1, <2>2, <2>4, NetAssumption DEF RisingEdge, GreetInv, TypeOK
      <3> QED BY <2>1, <2>2, <3>1, <3>2, GreetKept
    <2> QED BY <2>3, <2>4
  <1>8. ASSUME NEW ok \in BOOLEAN, TimerWork(ok)
        PROVE  (NewInv /\ BacklogInv /\ ServedInv /\ GreetedOnce)'
    <2>1. client' \in {client, None}
      BY <1>8, LinkTimerCases
    <2>2. UNCHANGED <<host, backlog, greetings, linked>>
      BY <1>8 DEF TimerWork, hostVars
    <2> QED BY <2>1, <2>2, GreetKept
  <1>9. CASE NetClose
    <2>1. /\ client' = None /\ backlog' = <<>> /\ greetings' = greetings
          /\ \A c \in Conns : host'[c] = "new" => host[c] = "new"
      BY <1>a, <1>9 DEF NetClose, drop_client
    <2> QED BY <1>a, <2>1, NetAssumption DEF NewInv, BacklogInv, ServedInv, GreetedOnce
  <1>10. CASE UNCHANGED vars
    BY <1>10, GreetKept DEF vars, hostVars
  <1> QED
    BY <1>1, <1>2, <1>3, <1>4, <1>5, <1>6, <1>7, <1>8, <1>9, <1>10 DEF Next, Daemon

LEMMA InitGreet == Init => GreetInv
  <1>1. Init => NewInv /\ BacklogInv /\ ServedInv /\ GreetedOnce
    BY NetAssumption DEF Init, NewInv, BacklogInv, ServedInv, GreetedOnce
  <1> QED BY <1>1, InitType DEF GreetInv

\* main.c's link-state block: READY is sent at most once on a connection, however
\* often clients come and go between two samples of the link.
THEOREM GreetingCorrect == Spec => []GreetedOnce
  <1>1. Init => GreetInv
    BY InitGreet
  <1>2. GreetInv /\ [Next]_vars => GreetInv'
    BY TypeStep, GreetStep DEF GreetInv
  <1>3. GreetInv => GreetedOnce
    BY DEF GreetInv
  <1> QED BY <1>1, <1>2, <1>3, PTL DEF Spec

-------------------------------------------------------------------------------
\* Bytes of one connection stand in q in the order they were sent; those of q were
\* sent before those of r; those of q were sent at all, n[c] being what c has sent.
Rising(q) == \A i, j \in DOMAIN q : i < j /\ q[i].from = q[j].from => q[i].n < q[j].n
Before(q, r) == \A i \in DOMAIN q, j \in DOMAIN r : q[i].from = r[j].from => q[i].n < r[j].n
Within(q, n) == \A i \in DOMAIN q : q[i].n <= n[q[i].from]

\* From the wires w through the receive buffer r into the line l, bytes keep their order.
Ordered(l, r, w, n) ==
    /\ Rising(l) /\ Rising(r) /\ Before(l, r) /\ Within(l, n) /\ Within(r, n)
    /\ \A c \in Conns : Rising(w[c]) /\ Before(l, w[c]) /\ Before(r, w[c]) /\ Within(w[c], n)

OrderInv == Ordered(line, rx, wire, sent)

CompletesNone(c) == \A m \in DOMAIN lines : Completer(lines[m]) # c

\* A connection that is still to be served has completed no line, and one that is
\* served has completed none as long as the line holds a byte of another.
FreshInv == /\ \A c \in Conns : host[c] = "new" => CompletesNone(c)
            /\ \A i \in DOMAIN backlog : CompletesNone(backlog[i])
MixInv == client # None /\ (\E i \in DOMAIN line : line[i].from # client)
             => CompletesNone(client)

LinesInv == RxInv /\ GreetInv /\ OrderInv /\ FreshInv /\ MixInv /\ OnlyFirstLineIsMixed

LEMMA EmptyOrder ==
    ASSUME NEW q, NEW n
    PROVE  Rising(<<>>) /\ Before(<<>>, q) /\ Before(q, <<>>) /\ Within(<<>>, n)
  BY DEF Rising, Before, Within

\* One more byte at the end of a buffer.
LEMMA AppendOrder ==
    ASSUME NEW q \in Seq(Byte), NEW b \in Byte
    PROVE  /\ Append(q, b) \in Seq(Byte) /\ DOMAIN Append(q, b) = DOMAIN q \cup {Len(q) + 1}
           /\ \A i \in DOMAIN q : Append(q, b)[i] = q[i] /\ i < Len(q) + 1 /\ i \in Nat
           /\ Append(q, b)[Len(q) + 1] = b /\ Len(q) \in Nat
  <1>1. /\ Append(q, b) \in Seq(Byte) /\ Len(Append(q, b)) = Len(q) + 1 /\ Len(q) \in Nat
        /\ DOMAIN q = 1..Len(q) /\ DOMAIN Append(q, b) = 1..(Len(q) + 1)
    OBVIOUS
  <1>2. 1..(Len(q) + 1) = 1..Len(q) \cup {Len(q) + 1}
    <2> DEFINE k == Len(q)
    <2>1. k \in Nat
      BY <1>1
    <2> HIDE DEF k
    <2>2. 1..(k + 1) = 1..k \cup {k + 1}
      BY <2>1
    <2> QED BY <2>2 DEF k
  <1> QED BY <1>1, <1>2

LEMMA AppendRises ==
    ASSUME NEW q \in Seq(Byte), NEW b \in Byte, Rising(q),
           \A i \in DOMAIN q : q[i].from = b.from => q[i].n < b.n
    PROVE  Rising(Append(q, b))
  <1> SUFFICES ASSUME NEW i \in DOMAIN Append(q, b), NEW j \in DOMAIN Append(q, b),
                      i < j, Append(q, b)[i].from = Append(q, b)[j].from
               PROVE  Append(q, b)[i].n < Append(q, b)[j].n
    BY DEF Rising
  <1>1. CASE j = Len(q) + 1
    <2>1. i \in DOMAIN q
      BY <1>1, AppendOrder
    <2> QED BY <1>1, <2>1, AppendOrder
  <1>2. CASE j \in DOMAIN q
    <2>1. j < Len(q) + 1 /\ Len(q) \in Nat /\ j \in Nat
      BY <1>2, AppendOrder
    <2>2. i # Len(q) + 1
      BY <2>1
    <2>3. i \in DOMAIN q
      BY <2>2, AppendOrder
    <2> QED BY <1>2, <2>3, AppendOrder DEF Rising
  <1> QED BY <1>1, <1>2, AppendOrder

LEMMA AppendBefore ==
    ASSUME NEW q \in Seq(Byte), NEW r \in Seq(Byte), NEW b \in Byte, Before(q, r)
    PROVE  /\ (\A j \in DOMAIN r : b.from = r[j].from => b.n < r[j].n) => Before(Append(q, b), r)
           /\ (\A i \in DOMAIN q : q[i].from = b.from => q[i].n < b.n) => Before(q, Append(r, b))
  <1>1. ASSUME \A j \in DOMAIN r : b.from = r[j].from => b.n < r[j].n
        PROVE  Before(Append(q, b), r)
    <2> SUFFICES ASSUME NEW i \in DOMAIN Append(q, b), NEW j \in DOMAIN r,
                        Append(q, b)[i].from = r[j].from
                 PROVE  Append(q, b)[i].n < r[j].n
      BY DEF Before
    <2> QED BY <1>1, AppendOrder DEF Before
  <1>2. ASSUME \A i \in DOMAIN q : q[i].from = b.from => q[i].n < b.n
        PROVE  Before(q, Append(r, b))
    <2> SUFFICES ASSUME NEW i \in DOMAIN q, NEW j \in DOMAIN Append(r, b),
                        q[i].from = Append(r, b)[j].from
                 PROVE  q[i].n < Append(r, b)[j].n
      BY DEF Before
    <2> QED BY <1>2, AppendOrder DEF Before
  <1> QED BY <1>1, <1>2

\* HostSend
LEMMA SendKeepsOrder ==
    ASSUME NEW l \in Seq(Byte), NEW r \in Seq(Byte), NEW w \in [Conns -> Seq(Byte)],
           NEW n \in [Conns -> Nat], NEW c \in Conns, NEW b \in Byte,
           Ordered(l, r, w, n), b.from = c, b.n = n[c] + 1
    PROVE  Ordered(l, r, [w EXCEPT ![c] = Append(w[c], b)], [n EXCEPT ![c] = n[c] + 1])
  <1> DEFINE m == [n EXCEPT ![c] = n[c] + 1]
             v == [w EXCEPT ![c] = Append(w[c], b)]
  <1>1. \A d \in Conns : n[d] \in Nat /\ m[d] = IF d = c THEN n[c] + 1 ELSE n[d]
    OBVIOUS
  <1>2. \A d \in Conns : w[d] \in Seq(Byte) /\ v[d] = IF d = c THEN Append(w[c], b) ELSE w[d]
    OBVIOUS
  <1> HIDE DEF m, v
  <1>3. ASSUME NEW q \in Seq(Byte), Within(q, n)
        PROVE  Within(q, m) /\ \A i \in DOMAIN q : q[i].from = b.from => q[i].n < b.n
    <2> SUFFICES ASSUME NEW i \in DOMAIN q
                 PROVE  q[i].n <= m[q[i].from] /\ (q[i].from = b.from => q[i].n < b.n)
      BY DEF Within
    <2>0. q[i] \in Byte
      OBVIOUS
    <2>1. q[i].from \in Conns /\ q[i].n \in Nat
      BY <2>0 DEF Byte
    <2>2. q[i].n <= n[q[i].from]
      BY <1>3 DEF Within
    <2> QED BY <1>1, <2>1, <2>2
  <1>4. Within(l, m) /\ Within(r, m)
    BY <1>3 DEF Ordered
  <1>5. ASSUME NEW d \in Conns
        PROVE  Rising(v[d]) /\ Before(l, v[d]) /\ Before(r, v[d]) /\ Within(v[d], m)
    <2>1. CASE d # c
      BY <1>2, <1>3, <2>1 DEF Ordered
    <2>2. CASE d = c
      <3>1. Rising(w[c]) /\ Within(w[c], n) /\ w[c] \in Seq(Byte)
        BY DEF Ordered
      <3>2. Rising(v[c])
        BY <1>2, <1>3, <3>1, AppendRises
      <3>3. Before(l, v[c]) /\ Before(r, v[c])
        <4>1. v[c] = Append(w[c], b)
          BY <1>2
        <4>2. Before(l, w[c]) /\ Before(r, w[c]) /\ Within(l, n) /\ Within(r, n)
          BY DEF Ordered
        <4>3. /\ \A i \in DOMAIN l : l[i].from = b.from => l[i].n < b.n
              /\ \A i \in DOMAIN r : r[i].from = b.from => r[i].n < b.n
          BY <1>3, <4>2
        <4>4. Before(l, Append(w[c], b))
          BY <3>1, <4>2, <4>3, AppendBefore
        <4>5. Before(r, Append(w[c], b))
          BY <3>1, <4>2, <4>3, AppendBefore
        <4> QED BY <4>1, <4>4, <4>5
      <3>4. Within(v[c], m)
        <4>1. Within(w[c], m) /\ b.n <= m[b.from]
          BY <1>1, <1>3, <3>1
        <4>2. SUFFICES ASSUME NEW i \in DOMAIN Append(w[c], b)
                       PROVE  Append(w[c], b)[i].n <= m[Append(w[c], b)[i].from]
          BY <1>2 DEF Within
        <4>3. CASE i \in DOMAIN w[c]
          BY <3>1, <4>1, <4>3, AppendOrder DEF Within
        <4>4. CASE i = Len(w[c]) + 1
          BY <3>1, <4>1, <4>4, AppendOrder
        <4> QED BY <3>1, <4>2, <4>3, <4>4, AppendOrder
      <3> QED BY <2>2, <3>2, <3>3, <3>4
    <2> QED BY <2>1, <2>2
  <1>6. Ordered(l, r, v, m)
    BY <1>4, <1>5 DEF Ordered
  <1> QED BY <1>6 DEF m, v

\* The two pieces a buffer is cut into keep their order, each and one before the other.
LEMMA CutRises ==
    ASSUME NEW q \in Seq(Byte), NEW k \in 0..Len(q), Rising(q)
    PROVE  /\ Rising(SubSeq(q, 1, k)) /\ Rising(SubSeq(q, k + 1, Len(q)))
           /\ Before(SubSeq(q, 1, k), SubSeq(q, k + 1, Len(q)))
  <1>0. k \in Nat /\ k <= Len(q)
    OBVIOUS
  <1>1. PICK f \in Seq(Byte) : f = SubSeq(q, 1, k)
    BY <1>0, PieceType
  <1>2. PICK g \in Seq(Byte) : g = SubSeq(q, k + 1, Len(q))
    BY <1>0, PieceType
  <1>3. \A i \in DOMAIN f : i \in DOMAIN q /\ i \in 1..k /\ f[i] = q[i]
    BY <1>1
  <1>4. \A i \in DOMAIN g : k + i \in DOMAIN q /\ i \in Nat \ {0} /\ g[i] = q[k + i]
    BY <1>2
  <1>5. Rising(f)
    BY <1>3 DEF Rising
  <1>6. Rising(g)
    <2> SUFFICES ASSUME NEW i \in DOMAIN g, NEW j \in DOMAIN g, i < j, g[i].from = g[j].from
                 PROVE  g[i].n < g[j].n
      BY DEF Rising
    <2>1. k + i < k + j
      BY <1>4
    <2> QED BY <1>4, <2>1 DEF Rising
  <1>7. Before(f, g)
    <2> SUFFICES ASSUME NEW i \in DOMAIN f, NEW j \in DOMAIN g, f[i].from = g[j].from
                 PROVE  f[i].n < g[j].n
      BY DEF Before
    <2>1. i < k + j
      BY <1>3, <1>4
    <2> QED BY <1>3, <1>4, <2>1 DEF Rising
  <1> QED BY <1>1, <1>2, <1>5, <1>6, <1>7

\* What holds of a buffer against others holds of the pieces.
LEMMA CutKeeps ==
    ASSUME NEW q \in Seq(Byte), NEW k \in 0..Len(q), NEW f,
           f \in {SubSeq(q, 1, k), SubSeq(q, k + 1, Len(q))}
    PROVE  /\ \A r : (Before(q, r) => Before(f, r)) /\ (Before(r, q) => Before(r, f))
           /\ \A n : Within(q, n) => Within(f, n)
  <1>1. \A i \in DOMAIN f : \E j \in DOMAIN q : f[i] = q[j]
    <2>1. CASE f = SubSeq(q, 1, k)
      BY <2>1
    <2>2. CASE f = SubSeq(q, k + 1, Len(q))
      <3>1. \A i \in DOMAIN f : k + i \in DOMAIN q /\ f[i] = q[k + i]
        BY <2>2
      <3> QED BY <3>1
    <2> QED BY <2>1, <2>2
  <1>2. ASSUME NEW r PROVE (Before(q, r) => Before(f, r)) /\ (Before(r, q) => Before(r, f))
    <2>1. ASSUME Before(q, r), NEW i \in DOMAIN f, NEW j \in DOMAIN r, f[i].from = r[j].from
          PROVE  f[i].n < r[j].n
      BY <1>1, <2>1 DEF Before
    <2>2. ASSUME Before(r, q), NEW i \in DOMAIN r, NEW j \in DOMAIN f, r[i].from = f[j].from
          PROVE  r[i].n < f[j].n
      BY <1>1, <2>2 DEF Before
    <2> QED BY <2>1, <2>2 DEF Before
  <1>3. ASSUME NEW n, Within(q, n) PROVE Within(f, n)
    BY <1>1, <1>3 DEF Within
  <1> QED BY <1>2, <1>3

\* Recv
LEMMA RecvKeepsOrder ==
    ASSUME NEW l \in Seq(Byte), NEW w \in [Conns -> Seq(Byte)], NEW n, NEW c \in Conns,
           NEW k \in 1..Len(w[c]), Ordered(l, <<>>, w, n),
           \A d \in Conns : \A i \in DOMAIN w[d] : w[d][i].from = d
    PROVE  Ordered(l, SubSeq(w[c], 1, k), [w EXCEPT ![c] = SubSeq(w[c], k + 1, Len(w[c]))], n)
  <1>1. PICK q \in Seq(Byte) : q = w[c]
    OBVIOUS
  <1>2. k \in 0..Len(q) /\ Rising(q) /\ Before(l, q) /\ Within(q, n)
    BY <1>1 DEF Ordered
  <1>3. PICK f : f = SubSeq(q, 1, k)
    OBVIOUS
  <1>4. PICK g : g = SubSeq(q, k + 1, Len(q))
    OBVIOUS
  <1>5. /\ Rising(f) /\ Rising(g) /\ Before(f, g)
        /\ Before(l, f) /\ Before(l, g) /\ Within(f, n) /\ Within(g, n)
    BY <1>2, <1>3, <1>4, CutRises, CutKeeps
  <1>6. PICK v : v = [w EXCEPT ![c] = g]
    OBVIOUS
  <1>7. ASSUME NEW d \in Conns
        PROVE  Rising(v[d]) /\ Before(l, v[d]) /\ Before(f, v[d]) /\ Within(v[d], n)
    <2>1. CASE d = c
      BY <1>5, <1>6, <2>1
    <2>2. CASE d # c
      <3>1. v[d] = w[d] /\ Rising(w[d]) /\ Before(l, w[d]) /\ Within(w[d], n)
        BY <1>6, <2>2 DEF Ordered
      <3>2. \A i \in DOMAIN f : i \in DOMAIN q /\ f[i] = q[i]
        BY <1>2, <1>3
      <3>3. \A i \in DOMAIN f : f[i].from = c
        BY <1>1, <3>2
      <3>4. Before(f, w[d])
        BY <2>2, <3>3 DEF Before
      <3> QED BY <3>1, <3>4
    <2> QED BY <2>1, <2>2
  <1>8. Ordered(l, f, v, n)
    BY <1>5, <1>7 DEF Ordered
  <1> QED BY <1>1, <1>3, <1>4, <1>6, <1>8

\* handle_serial_byte: the line takes the first byte received, or that byte is lost.
LEMMA ByteKeepsOrder ==
    ASSUME NEW l \in Seq(Byte), NEW r \in Seq(Byte), r # <<>>, NEW w \in [Conns -> Seq(Byte)],
           NEW n, Ordered(l, r, w, n)
    PROVE  /\ Rising(Append(l, Head(r)))
           /\ Ordered(Assemble(l, Head(r)), Tail(r), w, n)
  <1>1. PICK b \in Byte : b = Head(r) /\ b = r[1]
    OBVIOUS
  <1>2. Tail(r) = SubSeq(r, 2, Len(r)) /\ 1 \in 0..Len(r) /\ 1 \in DOMAIN r
    OBVIOUS
  <1>3. PICK t \in Seq(Byte) : t = Tail(r) /\ t = SubSeq(r, 1 + 1, Len(r))
    <2>1. Tail(r) \in Seq(Byte) /\ 1 + 1 = 2
      OBVIOUS
    <2> QED BY <1>2, <2>1
  <1>4. /\ Rising(t) /\ Within(t, n)
        /\ \A q : (Before(r, q) => Before(t, q)) /\ (Before(q, r) => Before(q, t))
    <2>1. Rising(r) /\ Within(r, n)
      BY DEF Ordered
    <2>2. Rising(t)
      BY <1>2, <1>3, <2>1, CutRises
    <2>3. /\ \A q : (Before(r, q) => Before(t, q)) /\ (Before(q, r) => Before(q, t))
          /\ \A m : Within(r, m) => Within(t, m)
      BY <1>2, <1>3, CutKeeps
    <2> QED BY <2>1, <2>2, <2>3
  <1>5. Before(l, t) /\ \A c \in Conns : Before(t, w[c])
    BY <1>4 DEF Ordered
  <1>6. \A i \in DOMAIN l : l[i].from = b.from => l[i].n < b.n
    BY <1>1, <1>2 DEF Ordered, Before
  <1>7. Rising(Append(l, b))
    BY <1>6, AppendRises DEF Ordered
  <1>8. \A j \in DOMAIN t : b.from = t[j].from => b.n < t[j].n
    <2>1. \A j \in DOMAIN t : j + 1 \in DOMAIN r /\ 1 < j + 1 /\ t[j] = r[j + 1]
      BY <1>3
    <2> QED BY <1>1, <1>2, <2>1 DEF Ordered, Rising
  <1>9. \A c \in Conns : \A j \in DOMAIN w[c] : b.from = w[c][j].from => b.n < w[c][j].n
    BY <1>1, <1>2 DEF Ordered, Before
  <1>10. Within(Append(l, b), n)
    <2>1. b.n <= n[b.from] /\ Within(l, n)
      BY <1>1, <1>2 DEF Ordered, Within
    <2>2. SUFFICES ASSUME NEW i \in DOMAIN Append(l, b)
                   PROVE  Append(l, b)[i].n <= n[Append(l, b)[i].from]
      BY DEF Within
    <2>3. CASE i \in DOMAIN l
      BY <2>1, <2>3, AppendOrder DEF Within
    <2>4. CASE i = Len(l) + 1
      BY <2>1, <2>4, AppendOrder
    <2> QED BY <2>2, <2>3, <2>4, AppendOrder
  <1>11. Ordered(Append(l, b), t, w, n)
    <2>1. Before(Append(l, b), t)
      BY <1>5, <1>8, AppendBefore
    <2>2. \A c \in Conns : Before(Append(l, b), w[c])
      <3> SUFFICES ASSUME NEW c \in Conns PROVE Before(Append(l, b), w[c])
        OBVIOUS
      <3>1. w[c] \in Seq(Byte) /\ Before(l, w[c])
        BY DEF Ordered
      <3> QED BY <1>9, <3>1, AppendBefore
    <2> QED BY <1>4, <1>5, <1>7, <1>10, <2>1, <2>2 DEF Ordered
  <1>12. Ordered(<<>>, t, w, n)
    BY <1>4, <1>5, EmptyOrder DEF Ordered
  <1>13. Ordered(l, t, w, n)
    BY <1>4, <1>5 DEF Ordered
  <1>14. Assemble(l, b) \in {<<>>, Append(l, b), l}
    BY Zenon DEF Assemble
  <1> QED BY <1>1, <1>3, <1>7, <1>11, <1>12, <1>13, <1>14

LEMMA DropKeepsOrder ==
    ASSUME NEW l, NEW r, NEW w, NEW n, Ordered(l, r, w, n)
    PROVE  Ordered(l, <<>>, w, n)
  BY EmptyOrder DEF Ordered

LEMMA OrderStep == RxInv /\ OrderInv /\ [Next]_vars => OrderInv'
  <1> SUFFICES ASSUME RxInv, OrderInv, [Next]_vars PROVE OrderInv'
    OBVIOUS
  <1>a. PICK l \in Seq(Byte) : l = line
    BY DEF RxInv, TypeOK
  <1>b. PICK r \in Seq(Byte) : r = rx
    BY DEF RxInv, TypeOK
  <1>c. PICK w \in [Conns -> Seq(Byte)] : w = wire
    BY DEF RxInv, TypeOK
  <1>d. PICK n \in [Conns -> Nat] : n = sent
    BY DEF RxInv, TypeOK
  <1>e. Ordered(l, r, w, n) /\ Ordered(l, <<>>, w, n)
    BY <1>a, <1>b, <1>c, <1>d, DropKeepsOrder DEF OrderInv
  <1>1. CASE UNCHANGED <<line, wire, sent>> /\ rx' \in {rx, <<>>}
    BY <1>1, <1>a, <1>b, <1>c, <1>d, <1>e DEF OrderInv
  <1>2. ASSUME NEW c \in Conns, NEW newline \in BOOLEAN, HostSend(c, newline) PROVE OrderInv'
    <2>1. PICK b : b = [from |-> c, n |-> n[c] + 1, newline |-> newline]
      OBVIOUS
    <2>2. b \in Byte /\ b.from = c /\ b.n = n[c] + 1
      <3>1. n[c] + 1 \in Nat
        OBVIOUS
      <3> QED BY <2>1, <3>1 DEF Byte
    <2>3. /\ wire' = [w EXCEPT ![c] = Append(w[c], b)] /\ sent' = [n EXCEPT ![c] = n[c] + 1]
          /\ line' = l /\ rx' = r
      BY <1>2, <1>a, <1>b, <1>c, <1>d, <2>1 DEF HostSend, daemon
    <2> QED BY <1>e, <2>2, <2>3, SendKeepsOrder DEF OrderInv
  <1>3. CASE Recv
    <2>1. PICK c \in Conns : c = client
      BY <1>3 DEF Recv, RxInv, TypeOK
    <2>2. PICK k \in 1..Len(w[c]) : /\ rx' = SubSeq(w[c], 1, k)
                                    /\ wire' = [w EXCEPT ![c] = SubSeq(w[c], k + 1, Len(w[c]))]
      BY <1>3, <1>c, <2>1 DEF Recv
    <2>3. line' = l /\ sent' = n
      BY <1>3, <1>a, <1>d DEF Recv
    <2>4. \A d \in Conns : \A i \in DOMAIN w[d] : w[d][i].from = d
      BY <1>c DEF RxInv, WireInv
    <2> QED BY <1>e, <2>2, <2>3, <2>4, RecvKeepsOrder DEF OrderInv
  <1>4. ASSUME NEW ok \in BOOLEAN, HandleByte(ok) PROVE OrderInv'
    <2>1. r # <<>> /\ wire' = w /\ sent' = n /\ rx' \in {Tail(r), <<>>}
      BY <1>4, <1>b, <1>c, <1>d, ByteCases DEF HandleByte, hostVars
    <2>2. line' = Assemble(l, Head(r))
      BY <1>4, <1>a, <1>b DEF HandleByte
    <2>3. Ordered(Assemble(l, Head(r)), Tail(r), w, n)
      BY <1>e, <2>1, ByteKeepsOrder
    <2>4. Ordered(Assemble(l, Head(r)), <<>>, w, n)
      BY <2>3, DropKeepsOrder
    <2> QED BY <2>1, <2>2, <2>3, <2>4 DEF OrderInv
  <1>5. ASSUME NEW ok \in BOOLEAN, LinkState(ok) \/ TimerWork(ok) PROVE OrderInv'
    <2>1. rx' \in {rx, <<>>}
      BY <1>5, LinkTimerCases
    <2>2. UNCHANGED <<line, wire, sent>>
      BY <1>5 DEF LinkState, TimerWork, hostVars
    <2> QED BY <1>1, <2>1, <2>2
  <1>6. CASE NetClose
    <2>1. line' = <<>> /\ rx' = <<>> /\ wire' = [c \in Conns |-> <<>>]
      BY <1>6 DEF NetClose, drop_client
    <2> QED BY <2>1, EmptyOrder DEF OrderInv, Ordered
  <1>7. CASE \/ Wake \/ TryAccept \/ RecvClosed \/ RecvNothing \/ NetOpen \/ UNCHANGED vars
    BY <1>1, <1>7
       DEF Wake, TryAccept, RecvClosed, RecvNothing, NetOpen, vars, hostVars, drop_client
  <1>8. ASSUME NEW c \in Conns, HostConnect(c) \/ \E how \in {"closed", "dead"} : HostLeave(c, how)
        PROVE  OrderInv'
    BY <1>1, <1>8 DEF HostConnect, HostLeave, daemon
  <1> QED BY <1>2, <1>3, <1>4, <1>5, <1>6, <1>7, <1>8 DEF Next, Daemon

\* A step that completes no line, and serves nobody new.
LEMMA LinesKept ==
    ASSUME LinesInv, UNCHANGED lines, line' \in {line, <<>>}, client' \in {client, None},
           backlog' \in {backlog, <<>>}, \A c \in Conns : host'[c] = "new" => host[c] = "new"
    PROVE  (FreshInv /\ MixInv /\ OnlyFirstLineIsMixed)'
  <1>1. \A c : CompletesNone(c)' <=> CompletesNone(c)
    BY DEF CompletesNone
  <1>2. FreshInv'
    BY <1>1 DEF LinesInv, FreshInv
  <1>3. MixInv'
    BY <1>1 DEF LinesInv, MixInv
  <1>4. OnlyFirstLineIsMixed'
    BY DEF LinesInv, OnlyFirstLineIsMixed
  <1> QED BY <1>2, <1>3, <1>4

LEMMA LinesStep == LinesInv /\ [Next]_vars => (FreshInv /\ MixInv /\ OnlyFirstLineIsMixed)'
  <1> SUFFICES ASSUME LinesInv, [Next]_vars
               PROVE  (FreshInv /\ MixInv /\ OnlyFirstLineIsMixed)'
    OBVIOUS
  <1>a. /\ backlog \in Seq(Conns) /\ client \in Conns \cup {None} /\ rx \in Seq(Byte)
        /\ line \in Seq(Byte) /\ lines \in Seq(Seq(Byte))
        /\ host \in [Conns -> {"new", "up", "closed", "dead"}]
    BY DEF LinesInv, RxInv, TypeOK
  <1>b. FreshInv /\ MixInv /\ OnlyFirstLineIsMixed
    BY DEF LinesInv
  <1>1. ASSUME NEW c \in Conns, HostConnect(c)
        PROVE  (FreshInv /\ MixInv /\ OnlyFirstLineIsMixed)'
    <2>1. /\ backlog' = Append(backlog, c) /\ UNCHANGED <<client, line, lines>>
          /\ host[c] = "new" /\ host' = [host EXCEPT ![c] = "up"]
      BY <1>1 DEF HostConnect, daemon
    <2>2. CompletesNone(c) /\ \A d : CompletesNone(d)' <=> CompletesNone(d)
      BY <1>b, <2>1 DEF FreshInv, CompletesNone
    <2>3. \A i \in DOMAIN backlog' : \/ i = Len(backlog) + 1 /\ backlog'[i] = c
                                     \/ i \in DOMAIN backlog /\ backlog'[i] = backlog[i]
      BY <1>a, <2>1
    <2>4. FreshInv'
      BY <1>a, <1>b, <2>1, <2>2, <2>3 DEF FreshInv
    <2> QED BY <1>b, <2>1, <2>2, <2>4 DEF MixInv, OnlyFirstLineIsMixed
  <1>2. CASE TryAccept
    <2>1. /\ backlog # <<>> /\ client' = Head(backlog) /\ backlog' = Tail(backlog)
          /\ UNCHANGED <<host, line, lines>>
      BY <1>2 DEF TryAccept, hostVars
    <2>2. /\ 1 \in DOMAIN backlog /\ client' = backlog[1]
          /\ \A i \in DOMAIN backlog' : i + 1 \in DOMAIN backlog /\ backlog'[i] = backlog[i + 1]
      BY <1>a, <2>1
    <2>3. \A d : CompletesNone(d)' <=> CompletesNone(d)
      BY <2>1 DEF CompletesNone
    <2>4. FreshInv'
      BY <1>b, <2>1, <2>2, <2>3 DEF FreshInv
    <2>5. MixInv'
      <3>1. PICK d : d = client'
        OBVIOUS
      <3>2. CompletesNone(d)'
        BY <1>b, <2>2, <2>3, <3>1 DEF FreshInv
      <3> QED BY <3>1, <3>2 DEF MixInv
    <2> QED BY <1>b, <2>1, <2>4, <2>5 DEF OnlyFirstLineIsMixed
  <1>3. ASSUME NEW ok \in BOOLEAN, HandleByte(ok)
        PROVE  (FreshInv /\ MixInv /\ OnlyFirstLineIsMixed)'
    <2>1. PICK b \in Byte : b = Head(rx)
      BY <1>a, <1>3 DEF HandleByte
    <2>2. PICK c : c = client
      OBVIOUS
    <2>3. c \in Conns /\ b.from = c
      <3>1. 1 \in DOMAIN rx /\ b = rx[1]
        BY <1>a, <1>3, <2>1 DEF HandleByte
      <3>2. b.from = c
        BY <2>2, <3>1 DEF LinesInv, RxInv, RxBelongsToClient
      <3> QED BY <3>2 DEF Byte
    <2>4. client' \in {client, None} /\ UNCHANGED <<host, backlog>> /\ line' = Assemble(line, b)
      BY <1>3, <2>1, ByteCases DEF HandleByte, hostVars
    <2>5. CASE ~(b.newline /\ line # <<>>)
      <3>1. lines' = lines
        BY <1>3, <2>1, <2>5 DEF HandleByte
      <3>2. CASE line' \in {line, <<>>}
        BY <2>4, <3>1, <3>2, LinesKept
      <3>3. CASE line' = Append(line, b)
        <4>1. \A d : CompletesNone(d)' <=> CompletesNone(d)
          BY <3>1 DEF CompletesNone
        <4>2. FreshInv'
          BY <1>b, <2>4, <4>1 DEF FreshInv
        <4>3. MixInv'
          <5>1. SUFFICES ASSUME client' # None, NEW i \in DOMAIN line', line'[i].from # client'
                         PROVE  CompletesNone(client)
            BY <2>4, <4>1 DEF MixInv
          <5>2. client' = c
            BY <2>2, <2>4, <5>1
          <5>3. i \in DOMAIN line /\ line'[i] = line[i]
            BY <1>a, <2>3, <3>3, <5>1, <5>2, AppendOrder
          <5>4. client # None /\ line[i].from # client
            BY <2>2, <5>1, <5>2, <5>3
          <5> QED BY <1>b, <5>3, <5>4 DEF MixInv
        <4>4. OnlyFirstLineIsMixed'
          BY <1>b, <3>1 DEF OnlyFirstLineIsMixed
        <4> QED BY <4>2, <4>3, <4>4
      <3> QED BY <2>4, <3>2, <3>3, Zenon DEF Assemble
    <2>6. CASE b.newline /\ line # <<>>
      <3>1. PICK l \in Seq(Byte) : l = Append(line, b)
        BY <1>a, AppendOrder
      <3>2. /\ lines' = Append(lines, l) /\ line' = <<>>
        BY <1>3, <2>1, <2>4, <2>6, <3>1 DEF HandleByte, Assemble
      <3>3. Completer(l) = c
        BY <1>a, <2>3, <3>1 DEF Completer
      <3>4. \A k \in DOMAIN lines' : \/ k = Len(lines) + 1 /\ lines'[k] = l
                                     \/ k \in DOMAIN lines /\ lines'[k] = lines[k]
        BY <1>a, <3>2
      <3>5. \A d : d # c /\ CompletesNone(d) => CompletesNone(d)'
        <4> SUFFICES ASSUME NEW d, d # c, CompletesNone(d), NEW m \in DOMAIN lines'
                     PROVE  Completer(lines'[m]) # d
          BY DEF CompletesNone
        <4> QED BY <3>3, <3>4 DEF CompletesNone
      <3>6. FreshInv'
        <4>1. \A d \in Conns : host[d] = "new" => d # c
          BY <2>2 DEF LinesInv, GreetInv, NewInv
        <4>2. \A i \in DOMAIN backlog : backlog[i] # c
          BY <2>2 DEF LinesInv, GreetInv, BacklogInv
        <4> QED BY <1>b, <2>4, <3>5, <4>1, <4>2 DEF FreshInv
      <3>7. MixInv'
        BY <3>2 DEF MixInv
      <3>8. Rising(l)
        <4>1. PICK q \in Seq(Byte), r \in Seq(Byte), w \in [Conns -> Seq(Byte)] :
                 q = line /\ r = rx /\ w = wire
          BY <1>a DEF LinesInv, RxInv, TypeOK
        <4>2. PICK n : n = sent
          OBVIOUS
        <4>3. Ordered(q, r, w, n) /\ r # <<>>
          BY <1>3, <4>1, <4>2 DEF LinesInv, OrderInv, HandleByte
        <4> QED BY <2>1, <3>1, <4>1, <4>3, ByteKeepsOrder
      <3>9. ASSUME Sources(l) # {Completer(l)} PROVE CompletesNone(c)
        <4>1. \A i \in DOMAIN l : \/ i = Len(line) + 1 /\ l[i] = b
                                  \/ i \in DOMAIN line /\ l[i] = line[i]
          BY <1>a, <3>1, AppendOrder
        <4>2. Len(line) + 1 \in DOMAIN l /\ l[Len(line) + 1] = b
          BY <1>a, <3>1, AppendOrder
        <4>3. c \in Sources(l)
          BY <2>3, <4>2 DEF Sources
        <4>4. PICK i \in DOMAIN l : l[i].from # c
          BY <3>3, <3>9, <4>3 DEF Sources
        <4>5. i \in DOMAIN line /\ line[i].from # client
          BY <2>2, <2>3, <4>1, <4>4
        <4> QED BY <1>b, <2>2, <2>3, <4>5, NetAssumption DEF MixInv
      <3>10. OnlyFirstLineIsMixed'
        <4> SUFFICES ASSUME NEW k \in DOMAIN lines'
                     PROVE  /\ Rising(lines'[k])
                            /\ Sources(lines'[k]) # {Completer(lines'[k])} =>
                                  \A m \in 1..(k - 1) : Completer(lines'[m]) # Completer(lines'[k])
          BY DEF OnlyFirstLineIsMixed, Rising
        <4>1. \A m \in 1..Len(lines) : m \in DOMAIN lines /\ lines'[m] = lines[m]
          BY <1>a, <3>2
        <4>2. CASE k = Len(lines) + 1 /\ lines'[k] = l
          <5>1. 1..(k - 1) = 1..Len(lines)
            BY <1>a, <4>2
          <5>2. Sources(l) # {Completer(l)} => \A m \in 1..Len(lines) : Completer(lines'[m]) # c
            BY <3>9, <4>1 DEF CompletesNone
          <5> QED BY <3>3, <3>8, <4>2, <5>1, <5>2
        <4>3. CASE k \in DOMAIN lines /\ lines'[k] = lines[k]
          <5>1. /\ Rising(lines[k])
                /\ Sources(lines[k]) # {Completer(lines[k])} =>
                      \A m \in 1..(k - 1) : Completer(lines[m]) # Completer(lines[k])
            BY <1>b, <4>3 DEF OnlyFirstLineIsMixed, Rising
          <5>2. \A m \in 1..(k - 1) : lines'[m] = lines[m]
            BY <1>a, <4>1, <4>3
          <5> QED BY <4>3, <5>1, <5>2
        <4> QED BY <3>4, <4>2, <4>3
      <3> QED BY <3>6, <3>7, <3>10
    <2> QED BY <2>5, <2>6
  <1>4. ASSUME NEW ok \in BOOLEAN, LinkState(ok) \/ TimerWork(ok)
        PROVE  (FreshInv /\ MixInv /\ OnlyFirstLineIsMixed)'
    <2>1. client' \in {client, None}
      BY <1>4, LinkTimerCases
    <2>2. UNCHANGED <<host, backlog, line, lines>>
      BY <1>4 DEF LinkState, TimerWork, hostVars
    <2> QED BY <2>1, <2>2, LinesKept
  <1>5. CASE NetClose
    <2>1. /\ client' = None /\ backlog' = <<>> /\ line' = <<>> /\ lines' = lines
          /\ \A c \in Conns : host'[c] = "new" => host[c] = "new"
      BY <1>a, <1>5 DEF NetClose, drop_client
    <2> QED BY <2>1, LinesKept
  <1>6. ASSUME NEW c \in Conns, NEW how \in {"closed", "dead"}, HostLeave(c, how)
        PROVE  (FreshInv /\ MixInv /\ OnlyFirstLineIsMixed)'
    <2>1. UNCHANGED <<client, backlog, line, lines>> /\ \A d \in Conns : host'[d] = "new" => host[d] = "new"
      BY <1>a, <1>6 DEF HostLeave, daemon
    <2> QED BY <2>1, LinesKept
  <1>7. CASE \/ Wake \/ Recv \/ RecvClosed \/ RecvNothing \/ NetOpen \/ UNCHANGED vars
             \/ \E c \in Conns, newline \in BOOLEAN : HostSend(c, newline)
    <2>1. UNCHANGED <<host, backlog, line, lines>> /\ client' \in {client, None}
      BY <1>7 DEF Wake, Recv, RecvClosed, RecvNothing, NetOpen, HostSend, vars, hostVars, daemon,
                  drop_client
    <2> QED BY <2>1, LinesKept
  <1> QED BY <1>1, <1>2, <1>3, <1>4, <1>5, <1>6, <1>7 DEF Next, Daemon

\* main.c handle_serial_byte keeps line_buf when net_io.c drops a client: for any
\* number of connections and any line length, the bytes of two hosts can meet only
\* in the first line a connection completes, and no line has a host's bytes out of
\* the order it sent them in.
THEOREM MixingCorrect == Spec => []OnlyFirstLineIsMixed
  <1>1. Init => LinesInv
    <2>1. Init => TypeOK
      BY InitType
    <2>2. Init => /\ WireInv /\ RxBelongsToClient /\ NewInv /\ BacklogInv /\ ServedInv
                  /\ GreetedOnce
      BY NetAssumption DEF Init, WireInv, RxBelongsToClient, NewInv, BacklogInv, ServedInv,
                           GreetedOnce
    <2>3. Init => OrderInv
      BY EmptyOrder DEF Init, OrderInv, Ordered
    <2>4. Init => FreshInv /\ MixInv /\ OnlyFirstLineIsMixed
      BY DEF Init, FreshInv, CompletesNone, MixInv, OnlyFirstLineIsMixed
    <2> QED BY <2>1, <2>2, <2>3, <2>4 DEF LinesInv, RxInv, GreetInv
  <1>2. LinesInv /\ [Next]_vars => LinesInv'
    BY TypeStep, WireStep, RxStep, GreetStep, OrderStep, LinesStep DEF LinesInv, RxInv, GreetInv
  <1>3. LinesInv => OnlyFirstLineIsMixed
    BY DEF LinesInv
  <1> QED BY <1>1, <1>2, <1>3, PTL DEF Spec

-------------------------------------------------------------------------------
(* NetIo implements BridgePeer.  GreetInv keeps a connection in one place:     *)
(* new, in the backlog, or served.                                             *)

Waiting == Range(backlog)
Known == Waiting \cup ({client} \ {None})

\* A step that keeps what a host can see.
LEMMA SeenKept ==
    ASSUME UNCHANGED <<backlog, client>>, (pc = "down") <=> (pc' = "down")
    PROVE  UNCHANGED Link!peer
  BY DEF Link!peer

\* Dropping the client forgets the connection that was served, and no other.
LEMMA DropForgets ==
    ASSUME GreetInv, client # None, client' = None, backlog' = backlog,
           (pc = "down") <=> (pc' = "down")
    PROVE  Link!PeerNext
  <1>1. client \in Conns /\ client \notin Waiting
    <2>1. client \in Conns /\ \A i \in DOMAIN backlog : backlog[i] # client
      BY DEF GreetInv, BacklogInv, TypeOK
    <2> QED BY <2>1 DEF Waiting, Range
  <1>2. client \in Known /\ Known' = Known \ {client}
    BY <1>1 DEF Known, Waiting
  <1>3. Link!Forgets(client)
    BY <1>2 DEF Link!Forgets, Known, Waiting
  <1> QED BY <1>1, <1>3 DEF Link!PeerNext

\* A step that may lose the client and touches nothing else a host sees.
LEMMA MayDrop ==
    ASSUME GreetInv, client' \in {client, None}, backlog' = backlog,
           (pc = "down") <=> (pc' = "down")
    PROVE  [Link!PeerNext]_(Link!peer)
  <1>1. CASE client' = client
    BY <1>1, SeenKept
  <1>2. CASE client' # client
    BY <1>2, DropForgets
  <1> QED BY <1>1, <1>2

\* Each step of the daemon, or of a host, is one the promise allows or changes
\* nothing a host can see.
LEMMA ServeStep == GreetInv /\ [Next]_vars => [Link!PeerNext]_(Link!peer)
  <1> SUFFICES ASSUME GreetInv, [Next]_vars
               PROVE  Link!PeerNext \/ UNCHANGED Link!peer
    OBVIOUS
  <1>a. /\ backlog \in Seq(Conns) /\ client \in Conns \cup {None}
        /\ NewInv /\ BacklogInv
    BY DEF GreetInv, TypeOK
  <1>1. ASSUME NEW c \in Conns, HostConnect(c) PROVE Link!Hears(c)
    <2>1. /\ backlog' = Append(backlog, c) /\ UNCHANGED <<client, pc>>
          /\ host[c] = "new" /\ pc # "down"
      BY <1>1 DEF HostConnect, daemon
    <2>2. c \notin Waiting /\ c # client
      BY <1>a, <2>1 DEF NewInv, Waiting, Range
    <2>3. Waiting' = Waiting \cup {c}
      <3>1. /\ Len(backlog') = Len(backlog) + 1 /\ backlog'[Len(backlog) + 1] = c
            /\ \A i \in 1..Len(backlog) : backlog'[i] = backlog[i]
        BY <1>a, <2>1
      <3>2. DOMAIN backlog = 1..Len(backlog) /\ DOMAIN backlog' = 1..(Len(backlog) + 1)
        BY <1>a, <2>1
      <3> QED BY <1>a, <3>1, <3>2 DEF Waiting, Range
    <2>4. c \notin Known /\ Known' = Known \cup {c}
      BY <2>1, <2>2, <2>3 DEF Known
    <2> QED BY <2>1, <2>4 DEF Link!Hears, Known, Waiting
  <1>2. ASSUME NEW c \in Conns, NEW newline \in BOOLEAN, HostSend(c, newline)
        PROVE  UNCHANGED Link!peer
    BY <1>2, SeenKept DEF HostSend, daemon
  <1>3. ASSUME NEW c \in Conns, NEW how \in {"closed", "dead"}, HostLeave(c, how)
        PROVE  UNCHANGED Link!peer
    BY <1>3, SeenKept DEF HostLeave, daemon
  <1>4. CASE TryAccept
    <2>1. /\ backlog # <<>> /\ client = None /\ client' = Head(backlog)
          /\ backlog' = Tail(backlog) /\ pc' = pc /\ pc = "drain"
      BY <1>4 DEF TryAccept
    <2>2. client' \in Conns /\ client' # None /\ Waiting = Waiting' \cup {client'}
      <3>1. /\ 1 \in DOMAIN backlog /\ client' = backlog[1] /\ client' \in Conns
            /\ \A i \in DOMAIN backlog' :
                  i + 1 \in DOMAIN backlog /\ backlog'[i] = backlog[i + 1]
            /\ \A i \in DOMAIN backlog :
                  i = 1 \/ (i - 1 \in DOMAIN backlog' /\ backlog'[i - 1] = backlog[i])
        BY <1>a, <2>1
      <3> QED BY <3>1, NetAssumption DEF Waiting, Range
    <2>3. client' \in Known /\ Known' = Known
      BY <2>1, <2>2 DEF Known
    <2>4. Link!Accepts(client')
      BY <2>1, <2>3 DEF Link!Accepts, Known, Waiting
    <2> QED BY <2>2, <2>4 DEF Link!PeerNext
  <1>5. CASE Wake \/ Recv \/ RecvNothing
    BY <1>5, SeenKept DEF Wake, Recv, RecvNothing
  <1>6. CASE RecvClosed
    BY <1>6, MayDrop DEF RecvClosed, drop_client
  <1>7. ASSUME NEW ok \in BOOLEAN, HandleByte(ok)
        PROVE  Link!PeerNext \/ UNCHANGED Link!peer
    <2>1. client' \in {client, None}
      BY <1>7, ByteCases
    <2>2. UNCHANGED <<backlog, pc>>
      BY <1>7 DEF HandleByte
    <2> QED BY <2>1, <2>2, MayDrop
  <1>8. ASSUME NEW ok \in BOOLEAN, LinkState(ok) \/ TimerWork(ok)
        PROVE  Link!PeerNext \/ UNCHANGED Link!peer
    <2>1. client' \in {client, None}
      BY <1>8, LinkTimerCases
    <2>2. backlog' = backlog /\ pc # "down" /\ pc' # "down"
      BY <1>8 DEF LinkState, TimerWork
    <2> QED BY <2>1, <2>2, MayDrop
  <1>9. CASE NetClose
    <2>1. pc = "wait" /\ pc' = "down" /\ client' = None /\ backlog' = <<>>
      BY <1>9 DEF NetClose, drop_client
    <2>2. Known' = {}
      BY <2>1 DEF Known, Waiting, Range
    <2>3. Link!Stops
      BY <2>1, <2>2 DEF Link!Stops, Known, Waiting
    <2> QED BY <2>3 DEF Link!PeerNext
  <1>10. CASE NetOpen
    <2>1. pc = "down" /\ pc' = "wait" /\ UNCHANGED <<client, backlog>>
      BY <1>10 DEF NetOpen
    <2>2. Link!Starts
      BY <2>1 DEF Link!Starts
    <2> QED BY <2>2 DEF Link!PeerNext
  <1>11. CASE UNCHANGED vars
    BY <1>11, SeenKept DEF vars
  <1> QED
    BY <1>1, <1>2, <1>3, <1>4, <1>5, <1>6, <1>7, <1>8, <1>9, <1>10, <1>11
       DEF Next, Daemon, Link!PeerNext

\* net_io.c keeps the promise SerialConnection relies on: one connection is
\* served at a time, out of those that were completed, and the next one is taken
\* only when it is gone.
THEOREM ServesCorrect == Spec => ServesAsPromised
  <1>1. Init => Link!PeerInit
    BY DEF Init, Link!PeerInit, Range
  <1>2. Spec => []GreetInv
    BY InitGreet, TypeStep, GreetStep, PTL DEF Spec, GreetInv
  <1> QED BY <1>1, <1>2, ServeStep, PTL DEF Spec, ServesAsPromised, Link!PeerSpec
===============================================================================
