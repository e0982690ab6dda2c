---------------------------- MODULE BridgeIpcProofs ----------------------------
(***************************************************************************)
(* Proofs about BridgeIpc, for any number of programs, names, registry     *)
(* slots and messages, whatever the programs do and however many requests  *)
(* and calls there are.                                                    *)
(*                                                                         *)
(* The invariant has two halves.  One follows the daemon's requests: each  *)
(* is either replied or held by the program it was sent to, in the order   *)
(* in which they were sent.  The other follows the programs' own messages: *)
(* each is in a slot of its own, and what it registers or unregisters is   *)
(* what the registry holds for that program.                               *)
(***************************************************************************)
EXTENDS BridgeIpc, FiniteSetTheorems, TLAPS

\* Requests are served: the daemon has not begun to shut down.
Up == daemon.pc \in {"loop", "wait"} /\ daemon.ci = 0

Registered(a) == {s \in Active : clients[s].port = a}

\* The registry by itself.
Entries ==
    /\ \A s, t \in Active :
          s # t => clients[s].id # clients[t].id /\ clients[s].name # clients[t].name
    /\ \A s \in Active : clients[s].id < next_client_id /\ clients[s].port \in Apps

\* The daemon waits for the request that it sent last.
Awaited ==
    /\ daemon.pc = "wait" => daemon.req = Len(reqs) /\ reqs # <<>>
    /\ daemon.pc = "loop" => daemon.ci = 0
    /\ Len(reqs) <= MaxReqs

\* The pooled messages that are still lent or awaited.
Lent == {r \in DOMAIN reqs : /\ Pooled(reqs[r].kind)
                             /\ ~reqs[r].back \/ (daemon.pc = "wait" /\ daemon.req = r)}
Pool == Cardinality(Lent) <= msg_pool_used

\* An application's requests, first those that it is handling, from the outermost
\* on, and then those that wait at its port, are in the order in which they were
\* sent.
InOrder(a) ==
    /\ \A i, j \in DOMAIN stack[a] :
          i < j /\ stack[a][i].op = "handle" /\ stack[a][j].op = "handle"
             => stack[a][i].req < stack[a][j].req
    /\ \A i \in DOMAIN stack[a], j \in DOMAIN reply_port[a] :
          stack[a][i].op = "handle" /\ reply_port[a][j].kind = "req"
             => stack[a][i].req < reply_port[a][j].req
    /\ \A i, j \in DOMAIN reply_port[a] :
          i < j /\ reply_port[a][i].kind = "req" /\ reply_port[a][j].kind = "req"
             => reply_port[a][i].req < reply_port[a][j].req

\* They are its own, and none of them was replied.
Owed(a, r) == r \in DOMAIN reqs /\ reqs[r].to = a /\ ~reqs[r].back
Held(a) ==
    /\ \A i \in DOMAIN stack[a] : stack[a][i].op = "handle" => Owed(a, stack[a][i].req)
    /\ \A i \in DOMAIN reply_port[a] :
          reply_port[a][i].kind = "req" => Owed(a, reply_port[a][i].req)

\* The port of a hook's request goes only after the reply.
HookPorts == \A r \in DOMAIN reqs :
    reqs[r].kind = "hook" /\ reqs[r].port = "deleted" => reqs[r].back

\* What calls an application can be in.
Frames(a) ==
    /\ \A i \in DOMAIN stack[a] :
          /\ stack[a][i].op \in {"poll", "cleanup"} => i = 1
          /\ stack[a][i].op \in {"send", "sendmem"} => stack[a][i].slot \in 1..MSG_POOL_SIZE
          /\ stack[a][i].op = "handle" => stack[a][i].slot = 0
          /\ stack[a][i].op # "handle" => stack[a][i].req = 0
          /\ stack[a][i].op = "sendmem" => a \in SendMemUsers
          /\ i = 2 /\ stack[a][1].op = "cleanup" => stack[a][2].op = "send"
    /\ app[a].conn \in {"new", "gone"} => stack[a] = <<>>
    /\ a \in open <=> app[a].conn \in {"init", "up", "off"}

\* While CALLHOOK waits, its handler is the innermost, or one call from it.
HookIsServed(a) ==
    \A i \in DOMAIN stack[a] :
        daemon.pc = "wait" /\ reqs[daemon.req].kind = "hook" /\ stack[a][i] = Frame("handle", 0, daemon.req)
        => /\ Len(stack[a]) <= i + 1
           /\ InCall(a, "send") => \/ \E k \in DOMAIN ipc_port : OwnReply(a, ipc_port[k])
                                   \/ \E k \in DOMAIN reply_port[a] : OwnReply(a, reply_port[a][k])

Letter(q, a, i) == i \in DOMAIN q /\ q[i].kind = "msg" /\ q[i].app = a

\* Until ab_init has its answer, nothing else is sent by the application or to it.
Opening(a) ==
    /\ app[a].conn = "new" =>
          /\ app[a].used = {} /\ reply_port[a] = <<>> /\ Registered(a) = {}
          /\ \A i \in DOMAIN ipc_port : ~Letter(ipc_port, a, i)
    /\ app[a].conn = "init" =>
          /\ Len(stack[a]) = 1 /\ stack[a][1].op = "send" /\ app[a].used = {stack[a][1].slot}
          /\ \A i \in DOMAIN ipc_port : Letter(ipc_port, a, i) =>
                ipc_port[i].type = "REGISTER" /\ ipc_port[i].slot = stack[a][1].slot
          /\ IF reply_port[a] = <<>> THEN Registered(a) = {}
             ELSE OwnReply(a, Head(reply_port[a]))

\* The messages of an application are in slots that it has taken, one in each.
Letters(a) ==
    /\ \A i \in DOMAIN ipc_port : Letter(ipc_port, a, i) => ipc_port[i].slot \in app[a].used
    /\ \A i \in DOMAIN reply_port[a] :
          Letter(reply_port[a], a, i) => reply_port[a][i].slot \in app[a].used
    /\ \A i, j \in DOMAIN ipc_port :
          Letter(ipc_port, a, i) /\ Letter(ipc_port, a, j) /\ ipc_port[i].slot = ipc_port[j].slot => i = j
    /\ \A i, j \in DOMAIN reply_port[a] :
          Letter(reply_port[a], a, i) /\ Letter(reply_port[a], a, j)
             /\ reply_port[a][i].slot = reply_port[a][j].slot => i = j
    /\ \A i \in DOMAIN ipc_port, j \in DOMAIN reply_port[a] :
          Letter(ipc_port, a, i) /\ Letter(reply_port[a], a, j) => ipc_port[i].slot # reply_port[a][j].slot
    /\ \A i, j \in DOMAIN stack[a] :
          /\ stack[a][i].op = "send" => stack[a][i].slot \in app[a].used
          /\ stack[a][i].op = "send" /\ stack[a][j].op = "send" /\ i # j
                => stack[a][i].slot # stack[a][j].slot

\* How far an application has come with registering and unregistering: what the
\* registry holds for it has the id it is told, and after its UNREGISTER nothing.
Coming(a) ==
    app[a].conn = "init" /\ reply_port[a] # <<>> =>
        \A s \in Registered(a) : clients[s].id = Head(reply_port[a]).id
Staying(a) ==
    app[a].conn = "up" =>
        /\ \A s \in Registered(a) : clients[s].id = app[a].id
        /\ \A i \in DOMAIN ipc_port :
              Letter(ipc_port, a, i) => ipc_port[i].type # "REGISTER" /\ ipc_port[i].id = app[a].id
Leaving(a) ==
    /\ \A i \in DOMAIN ipc_port :
          Letter(ipc_port, a, i) => (ipc_port[i].type = "REGISTER" <=> app[a].conn = "init")
    /\ \A i \in DOMAIN reply_port[a] :
          Letter(reply_port[a], a, i) /\ reply_port[a][i].type = "UNREGISTER" => Registered(a) = {}
    /\ stack[a] # <<>> /\ stack[a][1].op = "cleanup" =>
          /\ Len(stack[a]) = 1 => Registered(a) = {}
          /\ Len(stack[a]) > 1 =>
                /\ \A i \in DOMAIN ipc_port :
                      Letter(ipc_port, a, i) /\ ipc_port[i].slot = stack[a][2].slot
                         => ipc_port[i].type = "UNREGISTER"
                /\ \A i \in DOMAIN reply_port[a] :
                      Letter(reply_port[a], a, i) /\ reply_port[a][i].slot = stack[a][2].slot
                         => reply_port[a][i].type = "UNREGISTER"
    /\ app[a].conn = "gone" => Registered(a) = {}
Forgets ==
    Up => /\ \A r \in DOMAIN reqs : reqs[r].kind # "shutdown"
          /\ \A a \in Apps : app[a].conn # "off"
          /\ \A a \in Apps \ SendMemUsers : Coming(a) /\ Staying(a) /\ Leaving(a)

IInv ==
    /\ TypeOK /\ Entries /\ Awaited /\ Pool /\ HookPorts /\ HookRepliesReachLivePorts
    /\ \A a \in Apps : InOrder(a) /\ Held(a) /\ Frames(a) /\ Opening(a) /\ HookIsServed(a)
    /\ \A a \in Apps \ SendMemUsers : Letters(a)
    /\ Forgets /\ RequestsAreNotLost

-------------------------------------------------------------------------------
(* Facts about sets, sequences and the operators of the model.                *)

\* A set of naturals has a least element: every descending chain of intervals ends.
LEMMA LeastExists ==
  ASSUME NEW S \in SUBSET Nat, S # {}
  PROVE  Least(S) \in S /\ \A m \in S : Least(S) <= m
  <1> DEFINE T == {0..n : n \in S}
             R == StrictSubsetOrdering(Nat)
  <1>1. T \subseteq FiniteSubsetsOf(Nat) /\ T # {}
    <2>1. \A n \in S : 0..n \in SUBSET Nat /\ IsFiniteSet(0..n)
      BY FS_Interval
    <2> QED BY <2>1 DEF FiniteSubsetsOf
  <1>2. IsWellFoundedOn(R, FiniteSubsetsOf(Nat))
    BY FS_StrictSubsetOrderingWellFounded
  <1> HIDE DEF R
  <1>3. \E X \in T : \A Y \in T : ~(<<Y, X>> \in R)
    <2> HIDE DEF T
    <2> QED BY <1>1, <1>2, WFMin, Zenon
  <1>4. PICK n \in S : \A m \in S : ~(<<0..m, 0..n>> \in R)
    BY <1>3
  <1>5. \A m \in S : n <= m
    <2> SUFFICES ASSUME NEW m \in S, m < n PROVE FALSE
      OBVIOUS
    <2>1. n \in 0..n /\ n \notin 0..m
      OBVIOUS
    <2>2. 0..m \in SUBSET Nat /\ 0..n \in SUBSET Nat /\ 0..m \subseteq 0..n /\ 0..m # 0..n
      BY <2>1
    <2>3. <<0..m, 0..n>> \in R
      BY <2>2, Zenon DEF R, StrictSubsetOrdering
    <2> QED BY <1>4, <2>3
  <1> QED BY <1>5 DEF Least

\* The innermost call ends.
LEMMA PopFacts ==
  ASSUME NEW S, NEW st \in Seq(S), st # <<>>
  PROVE  /\ Pop(st) \in Seq(S) /\ Len(Pop(st)) = Len(st) - 1
         /\ \A i \in DOMAIN Pop(st) : i \in DOMAIN st /\ Pop(st)[i] = st[i]
  <1>1. Len(st) \in Nat /\ Len(st) # 0 /\ DOMAIN st = 1..Len(st)
    OBVIOUS
  <1>2. SubSeq(st, 1, Len(st) - 1) \in Seq(S) /\ Len(SubSeq(st, 1, Len(st) - 1)) = Len(st) - 1
    BY <1>1
  <1>3. \A i \in 1..(Len(st) - 1) : SubSeq(st, 1, Len(st) - 1)[i] = st[i]
    BY <1>1
  <1> QED BY <1>1, <1>2, <1>3 DEF Pop

\* A message is taken from a port.
LEMMA TailFacts ==
  ASSUME NEW S, NEW q \in Seq(S), q # <<>>
  PROVE  /\ Tail(q) \in Seq(S) /\ Len(Tail(q)) = Len(q) - 1 /\ Head(q) = q[1]
         /\ Head(q) \in S /\ 1 \in DOMAIN q
         /\ \A i \in DOMAIN Tail(q) : i + 1 \in DOMAIN q /\ Tail(q)[i] = q[i + 1]
  OBVIOUS

\* A message arrives at a port.
LEMMA AppendFacts ==
  ASSUME NEW S, NEW q \in Seq(S), NEW x \in S
  PROVE  /\ Append(q, x) \in Seq(S) /\ Len(Append(q, x)) = Len(q) + 1
         /\ \A i \in DOMAIN q : i \in DOMAIN Append(q, x) /\ Append(q, x)[i] = q[i]
         /\ Append(q, x)[Len(q) + 1] = x
         /\ \A i \in DOMAIN Append(q, x) : i \in DOMAIN q \/ i = Len(q) + 1
  OBVIOUS

\* client_register answers with an id, and with a table of entries.
LEMMA RegisterType ==
  ASSUME TypeOK, NEW a \in Apps
  PROVE  /\ client_register(AppName[a], a).table \in [Slots -> Entry]
         /\ client_register(AppName[a], a).id \in Nat
         /\ client_register(AppName[a], a).next \in Nat \ {0}
  <1> DEFINE old == client_find_by_name(AppName[a])
  <1>0. /\ clients \in [Slots -> Entry] /\ next_client_id \in Nat \ {0}
        /\ AppName[a] \in Names /\ Slots \subseteq Nat
    BY DEF TypeOK, Names, Slots
  <1>1. old \subseteq Slots /\ FreeSlots \subseteq Slots
    BY DEF client_find_by_name, FreeSlots, Active
  <1>2. CASE old # {}
    <2>1. Least(old) \in Slots
      BY <1>0, <1>1, <1>2, LeastExists
    <2>2. [clients[Least(old)] EXCEPT !.port = a] \in Entry /\ clients[Least(old)].id \in Nat
      BY <1>0, <2>1 DEF Entry
    <2>3. [clients EXCEPT ![Least(old)].port = a] \in [Slots -> Entry]
      BY <1>0, <2>1, <2>2
    <2> QED BY <1>0, <1>2, <2>2, <2>3 DEF client_register
  <1>3. CASE old = {} /\ FreeSlots = {}
    BY <1>0, <1>3 DEF client_register
  <1>4. CASE old = {} /\ FreeSlots # {}
    <2>1. Least(FreeSlots) \in Slots
      BY <1>0, <1>1, <1>4, LeastExists
    <2>2. [id |-> next_client_id, name |-> AppName[a], port |-> a] \in Entry
      BY <1>0 DEF Entry
    <2> QED BY <1>0, <1>4, <2>1, <2>2 DEF client_register
  <1> QED BY <1>2, <1>3, <1>4

\* Taking an entry out leaves a table of entries.
LEMMA UnregisterType ==
  ASSUME TypeOK, NEW id
  PROVE  client_unregister(id) \in [Slots -> Entry]
  <1>1. Inactive \in Entry
    BY DEF Inactive, Entry
  <1> QED BY <1>1 DEF TypeOK, client_unregister

-------------------------------------------------------------------------------
(* Types.                                                                     *)

Ports == [Apps -> Seq(RequestMsg \cup ClientMsg)]
Stacks == [Apps -> Seq(LibraryCall)]

\* A request is sent.
LEMMA SendRequestType ==
  ASSUME TypeOK, NEW kind \in AllKinds, NEW a \in Apps, NEW ci \in 0..(AB_MAX_CLIENTS + 1),
         Len(reqs) \in Nat, msg_pool_used < IPC_MSG_POOL_SIZE \/ ~Pooled(kind),
         SendRequest(kind, a, ci)
  PROVE  TypeOK'
  <1>1. Len(reqs) + 1 \in 1..MaxReqs
    BY IpcAssumption DEF SendRequest
  <1>2. reqs' \in Seq(Sent)
    <2>1. [kind |-> kind, to |-> a, port |-> "open", back |-> FALSE] \in Sent
      BY DEF Sent
    <2> QED BY <2>1 DEF SendRequest, TypeOK
  <1>3. msg_pool_used' \in 0..IPC_MSG_POOL_SIZE
    BY IpcAssumption DEF SendRequest, TypeOK
  <1>4. daemon' \in [pc : {"loop", "wait", "notify", "drain", "down"},
                     req : 0..MaxReqs, ci : 0..(AB_MAX_CLIENTS + 1)]
    BY <1>1 DEF SendRequest
  <1>5. reply_port' \in Ports
    <2>1. Request(Len(reqs) + 1) \in RequestMsg \cup ClientMsg
      BY <1>1 DEF Request, RequestMsg
    <2>2. Append(reply_port[a], Request(Len(reqs) + 1)) \in Seq(RequestMsg \cup ClientMsg)
      BY <2>1 DEF TypeOK
    <2> QED BY <2>2 DEF SendRequest, TypeOK, Ports
  <1>6. stray' \subseteq {"reply_port", "ipc_port"} \cup AllKinds
    BY DEF SendRequest, TypeOK
  <1> QED BY <1>2, <1>3, <1>4, <1>5, <1>6 DEF TypeOK, SendRequest, cvars, Ports

\* A client's message is answered.
LEMMA DaemonReplyType ==
  ASSUME TypeOK, NEW m \in ClientMsg, DaemonReply(m)
  PROVE  /\ reply_port' \in Ports
         /\ stray' \subseteq {"reply_port", "ipc_port"} \cup AllKinds
  <1>1. m.app \in Apps
    BY DEF ClientMsg
  <1>2. Append(reply_port[m.app], m) \in Seq(RequestMsg \cup ClientMsg)
    BY <1>1 DEF TypeOK
  <1> QED BY <1>1, <1>2 DEF DaemonReply, TypeOK, Ports

\* A request is answered.
LEMMA ReturnRequestType ==
  ASSUME TypeOK, NEW r \in DOMAIN reqs, ReturnRequest(r)
  PROVE  /\ reqs' \in Seq(Sent) /\ Len(reqs') = Len(reqs)
         /\ stray' \subseteq {"reply_port", "ipc_port"} \cup AllKinds
  <1>1. reqs[r] \in Sent /\ reqs \in Seq(Sent)
    BY DEF TypeOK
  <1>2. [reqs[r] EXCEPT !.back = TRUE] \in Sent /\ reqs[r].kind \in AllKinds
    BY <1>1 DEF Sent
  <1>3. reqs' \in Seq(Sent) /\ Len(reqs') = Len(reqs)
    BY <1>1, <1>2 DEF ReturnRequest
  <1> QED BY <1>2, <1>3 DEF ReturnRequest, TypeOK

\* A message is processed inline, or put back.
LEMMA ProcessType ==
  ASSUME TypeOK, NEW a \in Apps, reply_port[a] # <<>>, Process(a, Head(reply_port[a]))
  PROVE  reply_port' \in Ports /\ stack' \in Stacks
  <1> DEFINE q == reply_port[a]
             m == Head(q)
  <1>1. q \in Seq(RequestMsg \cup ClientMsg) /\ stack[a] \in Seq(LibraryCall)
    BY DEF TypeOK
  <1>2. Tail(q) \in Seq(RequestMsg \cup ClientMsg) /\ m \in RequestMsg \cup ClientMsg
    BY <1>1
  <1>3. CASE m.kind = "req"
    <2>1. m.req \in 1..MaxReqs
      BY <1>2, <1>3 DEF RequestMsg, ClientMsg
    <2>2. Frame("handle", 0, m.req) \in LibraryCall
      BY <2>1, IpcAssumption DEF Frame, LibraryCall
    <2>3. Append(stack[a], Frame("handle", 0, m.req)) \in Seq(LibraryCall)
      BY <1>1, <2>2
    <2>4. stack' = [stack EXCEPT ![a] = Append(@, Frame("handle", 0, m.req))]
      BY <1>3 DEF Process
    <2>5. reply_port' = [reply_port EXCEPT ![a] = Tail(@)]
      BY <1>3 DEF Process
    <2> QED BY <1>2, <2>3, <2>4, <2>5 DEF TypeOK, Ports, Stacks
  <1>4. CASE m.kind # "req"
    <2>1. Append(Tail(q), m) \in Seq(RequestMsg \cup ClientMsg)
      BY <1>2
    <2>2. reply_port' = [reply_port EXCEPT ![a] = Append(Tail(@), m)] /\ stack' = stack
      BY <1>4 DEF Process
    <2> QED BY <2>1, <2>2 DEF TypeOK, Ports, Stacks
  <1> QED BY <1>3, <1>4

LEMMA LentFinite ==
  ASSUME TypeOK
  PROVE  IsFiniteSet(Lent) /\ Cardinality(Lent) \in Nat
  <1>1. Len(reqs) \in Nat /\ DOMAIN reqs = 1..Len(reqs)
    BY DEF TypeOK
  <1>2. IsFiniteSet(1..Len(reqs)) /\ Lent \subseteq 1..Len(reqs)
    BY <1>1, FS_Interval DEF Lent
  <1> QED BY <1>2, FS_Subset, FS_CardinalityType

\* While a pooled request is awaited, a slot of the pool is taken.
LEMMA PoolIsTaken ==
  ASSUME TypeOK, Awaited, Pool, daemon.pc = "wait", Pooled(reqs[daemon.req].kind)
  PROVE  msg_pool_used \in Nat /\ msg_pool_used # 0
  <1>1. daemon.req \in DOMAIN reqs
    BY DEF TypeOK, Awaited
  <1>2. daemon.req \in Lent
    BY <1>1 DEF Lent
  <1>3. Cardinality(Lent) # 0
    BY <1>2, LentFinite, FS_EmptySet
  <1> QED BY <1>3, LentFinite, IpcAssumption DEF Pool, TypeOK

LEMMA AwaitedExists ==
  ASSUME TypeOK, Awaited, daemon.pc = "wait"
  PROVE  daemon.req \in DOMAIN reqs /\ daemon.req = Len(reqs) /\ reqs[daemon.req] \in Sent
  BY DEF TypeOK, Awaited

\* The wait for a reply ends.
LEMMA WaitEndsType ==
  ASSUME TypeOK, Awaited, Pool, WaitReply \/ WaitTimeout
  PROVE  TypeOK'
  <1> DEFINE r == daemon.req
  <1>0. daemon.pc = "wait" /\ daemon' = AfterWait(daemon.ci)
    BY DEF WaitReply, WaitTimeout
  <1>1. r \in DOMAIN reqs /\ reqs[r] \in Sent /\ reqs \in Seq(Sent) /\ reqs[r].kind \in AllKinds
    BY <1>0, AwaitedExists DEF TypeOK, Sent
  <1>2. daemon' \in [pc : {"loop", "wait", "notify", "drain", "down"},
                     req : 0..MaxReqs, ci : 0..(AB_MAX_CLIENTS + 1)]
    BY <1>0, IpcAssumption DEF AfterWait, TypeOK
  <1>3. \A p \in {"leaked", "deleted"} : [reqs EXCEPT ![r].port = p] \in Seq(Sent)
    <2> SUFFICES ASSUME NEW p \in {"leaked", "deleted"}
                 PROVE  [reqs EXCEPT ![r].port = p] \in Seq(Sent)
      OBVIOUS
    <2>1. [reqs[r] EXCEPT !.port = p] \in Sent
      BY <1>1 DEF Sent
    <2> QED BY <1>1, <2>1
  <1>4. CASE WaitReply
    <2>1. msg_pool_used' \in 0..IPC_MSG_POOL_SIZE
      <3>1. CASE Pooled(reqs[r].kind)
        <4>1. msg_pool_used \in Nat /\ msg_pool_used # 0 /\ msg_pool_used <= IPC_MSG_POOL_SIZE
          BY <1>0, <3>1, PoolIsTaken, IpcAssumption DEF TypeOK
        <4> QED BY <1>4, <3>1, <4>1, IpcAssumption DEF WaitReply
      <3>2. CASE ~Pooled(reqs[r].kind)
        <4>1. msg_pool_used' = msg_pool_used - 0 /\ msg_pool_used \in 0..IPC_MSG_POOL_SIZE
          BY <1>4, <3>2 DEF WaitReply, TypeOK
        <4> QED BY <4>1, IpcAssumption
      <3> QED BY <3>1, <3>2
    <2>2. reqs' \in Seq(Sent)
      BY <1>3, <1>4 DEF WaitReply
    <2> QED BY <1>2, <1>4, <2>1, <2>2 DEF WaitReply, TypeOK, cvars
  <1>5. CASE WaitTimeout
    <2>1. PortAfterTimeout(reqs[r].kind) \in {"leaked", "deleted"}
      BY DEF PortAfterTimeout
    <2>2. reqs' \in Seq(Sent)
      BY <1>3, <1>5, <2>1 DEF WaitTimeout
    <2> QED BY <1>2, <1>5, <2>2 DEF WaitTimeout, TypeOK, cvars
  <1> QED BY <1>4, <1>5

\* The entries that requests are sent to.
LEMMA TargetType ==
  ASSUME TypeOK, Entries, NEW s \in Active
  PROVE  clients[s].port \in Apps
  BY DEF Entries

LEMMA TypeDaemon ==
  ASSUME TypeOK, Entries, Awaited, Pool, DaemonStep \/ HostStep
  PROVE  TypeOK'
  <1>0. Len(reqs) \in Nat /\ {"exec", "var", "hook", "perf", "shutdown"} \subseteq AllKinds
        /\ AB_MAX_CLIENTS \in Nat \ {0}
    BY IpcAssumption DEF TypeOK, AllKinds
  <1>1. CASE ipc_process
    <2> DEFINE m == Head(ipc_port)
               reg == client_register(AppName[m.app], m.app)
               reply == IF m.type = "REGISTER" THEN [m EXCEPT !.id = reg.id] ELSE m
    <2>1. m \in ClientMsg /\ m.app \in Apps /\ Tail(ipc_port) \in Seq(ClientMsg)
      <3>1. ipc_port # <<>> /\ ipc_port \in Seq(ClientMsg)
        BY <1>1 DEF ipc_process, TypeOK
      <3>2. Head(ipc_port) \in ClientMsg /\ Tail(ipc_port) \in Seq(ClientMsg)
        BY <3>1
      <3> QED BY <3>2 DEF ClientMsg
    <2>2. /\ reg.table \in [Slots -> Entry] /\ reg.id \in Nat /\ reg.next \in Nat \ {0}
          /\ client_unregister(m.id) \in [Slots -> Entry]
      BY <2>1, RegisterType, UnregisterType
    <2> HIDE DEF reg
    <2>3. reply \in ClientMsg
      BY <2>1, <2>2 DEF ClientMsg
    <2>4. /\ ipc_port' = Tail(ipc_port) /\ DaemonReply(reply)
          /\ clients' = CASE m.type = "REGISTER" -> reg.table
                          [] m.type = "UNREGISTER" -> client_unregister(m.id)
                          [] OTHER -> clients
          /\ next_client_id' = IF m.type = "REGISTER" THEN reg.next ELSE next_client_id
          /\ UNCHANGED <<msg_pool_used, daemon, reqs, cvars>>
      BY <1>1 DEF ipc_process, reg
    <2> HIDE DEF reply, m
    <2>5. /\ reply_port' \in Ports
          /\ stray' \subseteq {"reply_port", "ipc_port"} \cup AllKinds
      BY <2>3, <2>4, DaemonReplyType
    <2>6. clients' \in [Slots -> Entry] /\ next_client_id' \in Nat \ {0}
      BY <2>2, <2>4 DEF TypeOK
    <2> QED BY <2>1, <2>4, <2>5, <2>6 DEF TypeOK, cvars, Ports
  <1>2. CASE WaitReply \/ WaitTimeout
    BY <1>2, WaitEndsType
  <1>3. CASE NotifySend
    <2>1. PICK s \in client_find(daemon.ci) : SendRequest("shutdown", clients[s].port, daemon.ci + 1)
      BY <1>3 DEF NotifySend
    <2>2. s \in Active
      BY DEF client_find
    <2>3. daemon.ci + 1 \in 0..(AB_MAX_CLIENTS + 1) /\ msg_pool_used < IPC_MSG_POOL_SIZE
      BY <1>0, <1>3 DEF NotifySend, TypeOK
    <2> QED BY <1>0, <2>1, <2>2, <2>3, TargetType, SendRequestType
  <1>4. CASE NotifySkip
    <2>1. daemon.ci + 1 \in 0..(AB_MAX_CLIENTS + 1)
      BY <1>0, <1>4 DEF NotifySkip, TypeOK
    <2> QED BY <1>4, <2>1 DEF NotifySkip, TypeOK, cvars
  <1>5. CASE IpcRemPort
    BY <1>5 DEF IpcRemPort, TypeOK, cvars
  <1>6. CASE IpcDrain
    <2>1. Head(ipc_port) \in ClientMsg /\ Tail(ipc_port) \in Seq(ClientMsg)
      BY <1>6 DEF IpcDrain, TypeOK
    <2>2. [Head(ipc_port) EXCEPT !.id = 0] \in ClientMsg
      BY <2>1 DEF ClientMsg
    <2>3. /\ reply_port' \in Ports
          /\ stray' \subseteq {"reply_port", "ipc_port"} \cup AllKinds
      BY <1>6, <2>2, DaemonReplyType DEF IpcDrain
    <2> QED BY <1>6, <2>1, <2>3 DEF IpcDrain, TypeOK, dvars, cvars, Ports
  <1>7. CASE IpcClose
    BY <1>7 DEF IpcClose, TypeOK, cvars
  <1>8. CASE handle_exec
    <2>0. PICK n \in Names : \E s \in ExecTargets(n) : SendRequest("exec", clients[s].port, 0)
      BY <1>8 DEF handle_exec
    <2>1. PICK s \in ExecTargets(n) : SendRequest("exec", clients[s].port, 0)
      BY <2>0
    <2>2. s \in Active
      BY DEF ExecTargets, client_find_by_name, client_find
    <2>3. msg_pool_used < IPC_MSG_POOL_SIZE
      BY <1>8 DEF handle_exec
    <2> QED BY <1>0, <2>1, <2>2, <2>3, TargetType, SendRequestType
  <1>9. ASSUME NEW kind \in {"var", "hook", "perf"}, handle_query(kind) PROVE TypeOK'
    <2>1. PICK s \in Active : SendRequest(kind, clients[s].port, 0)
      BY <1>9 DEF handle_query
    <2>2. ~Pooled(kind)
      BY DEF Pooled
    <2> QED BY <1>0, <2>1, <2>2, TargetType, SendRequestType
  <1>10. CASE Shutdown
    BY <1>0, <1>10, IpcAssumption DEF Shutdown, TypeOK, cvars
  <1> QED BY <1>1, <1>2, <1>3, <1>4, <1>5, <1>6, <1>7, <1>8, <1>9, <1>10 DEF DaemonStep, HostStep

\* What the calls that send have in common: a slot is taken for a message, a call of
\* op is begun (for ab_cleanup inside one of its own), and the message is put.
Put(a, k, type, op) ==
    /\ k \in FreeMsgs(a)
    /\ CASE type = "REGISTER" -> app[a].conn = "new" /\ daemon.pc \notin {"drain", "down"}
         [] type = "UNREGISTER" -> app[a].conn = "up" /\ stack[a] = <<>>
         [] OTHER -> app[a].conn = "up" /\ (stack[a] = <<>> \/ InCall(a, "handle"))
    /\ op = "sendmem" => a \in SendMemUsers /\ type = "DATA"
    /\ app' = [app EXCEPT ![a].conn = IF type = "REGISTER" THEN "init" ELSE @,
                          ![a].used = @ \cup {k}, ![a].sends = @ + 1]
    /\ stack' = [stack EXCEPT ![a] = IF type = "UNREGISTER"
                                        THEN <<Frame("cleanup", k, 0), Frame("send", k, 0)>>
                                        ELSE Append(@, Frame(op, k, 0))]
    /\ ipc_port' = IF daemon.pc = "down" THEN ipc_port
                   ELSE Append(ipc_port, Message(a, k, type, app[a].id))
    /\ open' = IF type = "REGISTER" THEN open \cup {a} ELSE open
    /\ stray' \subseteq stray \cup {"ipc_port"}
    /\ UNCHANGED <<dvars, reply_port>>

Puts(a) == \E k \in 1..MSG_POOL_SIZE, type \in {"REGISTER", "UNREGISTER", "DATA"},
              op \in {"send", "sendmem"} : Put(a, k, type, op)

LEMMA PutCalls ==
  ASSUME TypeOK, NEW a \in Apps, Frames(a), Opening(a),
         ab_init(a) \/ send_simple(a) \/ ab_send_mem(a) \/ ab_cleanup(a)
  PROVE  Puts(a)
  <1> DEFINE k == Least(FreeMsgs(a))
  <1>0. FreeMsgs(a) # {}
    <2>1. CASE ab_init(a)
      <3>1. app[a].used = {} /\ 1 \in 1..MSG_POOL_SIZE
        BY <2>1, IpcAssumption DEF ab_init, Opening
      <3> QED BY <3>1 DEF FreeMsgs
    <2> QED BY <2>1 DEF send_simple, ab_send_mem, ab_cleanup, MayCall
  <1>1. k \in FreeMsgs(a) /\ k \in 1..MSG_POOL_SIZE
    BY <1>0, LeastExists DEF FreeMsgs
  <1>2. app \in [Apps -> Program] /\ app[a] \in Program /\ stack[a] \in Seq(LibraryCall)
        /\ stack \in [Apps -> Seq(LibraryCall)]
    BY DEF TypeOK
  <1>3. ASSUME NEW type, NEW ops, NEW conn, PutToDaemon(a, type, ops, conn)
        PROVE  /\ app' = [app EXCEPT ![a].conn = conn, ![a].used = @ \cup {k}, ![a].sends = @ + 1]
               /\ ipc_port' = IF daemon.pc = "down" THEN ipc_port
                              ELSE Append(ipc_port, Message(a, k, type, app[a].id))
               /\ stray' \subseteq stray \cup {"ipc_port"}
               /\ UNCHANGED <<dvars, reply_port>>
    BY <1>3 DEF PutToDaemon
  <1> HIDE DEF k
  <1>4. ASSUME NEW op \in {"send", "sendmem"}, NEW type, NEW conn, PutToDaemon(a, type, <<op>>, conn)
        PROVE  stack' = [stack EXCEPT ![a] = Append(@, Frame(op, k, 0))]
    <2>1. stack[a] \o [i \in 1..Len(<<op>>) |-> Frame(<<op>>[i], k, 0)] = Append(stack[a], Frame(op, k, 0))
      BY <1>2
    <2>2. stack' = [stack EXCEPT ![a] = stack[a] \o [i \in 1..Len(<<op>>) |-> Frame(<<op>>[i], k, 0)]]
      BY <1>4 DEF PutToDaemon, k
    <2> QED BY <2>1, <2>2
  <1>5. CASE ab_init(a)
    <2>1. PutToDaemon(a, "REGISTER", <<"send">>, "init") /\ open' = open \cup {a}
          /\ app[a].conn = "new" /\ daemon.pc \notin {"drain", "down"}
      BY <1>5 DEF ab_init
    <2>2. Put(a, k, "REGISTER", "send")
      BY <1>1, <1>3, <1>4, <2>1 DEF Put
    <2> QED BY <1>1, <2>2 DEF Puts
  <1>6. CASE send_simple(a)
    <2>1. PutToDaemon(a, "DATA", <<"send">>, app[a].conn) /\ open' = open /\ app[a].conn = "up"
          /\ (stack[a] = <<>> \/ InCall(a, "handle"))
      BY <1>6 DEF send_simple, MayCall
    <2>2. app' = [app EXCEPT ![a].conn = IF "DATA" = "REGISTER" THEN "init" ELSE @,
                            ![a].used = @ \cup {k}, ![a].sends = @ + 1]
      BY <1>3, <2>1
    <2>3. stack' = [stack EXCEPT ![a] = Append(@, Frame("send", k, 0))]
      BY <1>4, <2>1
    <2>4. Put(a, k, "DATA", "send")
      BY <1>1, <1>3, <2>1, <2>2, <2>3 DEF Put
    <2> QED BY <1>1, <2>4 DEF Puts
  <1>7. CASE ab_send_mem(a)
    <2>1. PutToDaemon(a, "DATA", <<"sendmem">>, app[a].conn) /\ open' = open /\ app[a].conn = "up"
          /\ (stack[a] = <<>> \/ InCall(a, "handle")) /\ a \in SendMemUsers
      BY <1>7 DEF ab_send_mem, MayCall
    <2>2. Put(a, k, "DATA", "sendmem")
      BY <1>1, <1>3, <1>4, <2>1 DEF Put
    <2> QED BY <1>1, <2>2 DEF Puts
  <1>8. CASE ab_cleanup(a)
    <2>1. PutToDaemon(a, "UNREGISTER", <<"cleanup", "send">>, app[a].conn) /\ open' = open
          /\ app[a].conn = "up" /\ stack[a] = <<>>
      BY <1>8 DEF ab_cleanup
    <2>2. stack[a] \o [i \in 1..Len(<<"cleanup", "send">>) |-> Frame(<<"cleanup", "send">>[i], k, 0)]
              = <<Frame("cleanup", k, 0), Frame("send", k, 0)>>
      <3> DEFINE f == [i \in 1..2 |-> Frame(<<"cleanup", "send">>[i], k, 0)]
      <3>1. f = <<Frame("cleanup", k, 0), Frame("send", k, 0)>>
        OBVIOUS
      <3> QED BY <2>1, <3>1
    <2>3. stack' = [stack EXCEPT ![a] = <<Frame("cleanup", k, 0), Frame("send", k, 0)>>]
      <3>1. stack' = [stack EXCEPT ![a] = stack[a] \o
                        [i \in 1..Len(<<"cleanup", "send">>) |-> Frame(<<"cleanup", "send">>[i], k, 0)]]
        BY <2>1 DEF PutToDaemon, k
      <3> QED BY <2>2, <3>1
    <2>4. Put(a, k, "UNREGISTER", "send")
      BY <1>1, <1>3, <2>1, <2>3 DEF Put
    <2> QED BY <1>1, <2>4 DEF Puts
  <1> QED BY <1>5, <1>6, <1>7, <1>8

\* A slot is taken and a message is put.
LEMMA PutType ==
  ASSUME TypeOK, NEW a \in Apps, Puts(a)
  PROVE  TypeOK'
  <1>1. PICK k \in 1..MSG_POOL_SIZE, type \in {"REGISTER", "UNREGISTER", "DATA"},
             op \in {"send", "sendmem"} : Put(a, k, type, op)
    BY DEF Puts
  <1>2. app[a] \in Program /\ app \in [Apps -> Program] /\ stack[a] \in Seq(LibraryCall)
    BY DEF TypeOK
  <1>3. app' \in [Apps -> Program]
    <2>1. /\ app[a].used \cup {k} \in SUBSET (1..MSG_POOL_SIZE) /\ app[a].sends + 1 \in Nat
          /\ app[a].id \in Nat
      BY <1>2 DEF Program
    <2>2. \A conn \in {"init", app[a].conn} :
              [app[a] EXCEPT !.conn = conn, !.used = @ \cup {k}, !.sends = @ + 1] \in Program
      BY <1>2, <2>1 DEF Program
    <2>3. \E conn \in {"init", app[a].conn} :
              app' = [app EXCEPT ![a] = [app[a] EXCEPT !.conn = conn, !.used = @ \cup {k}, !.sends = @ + 1]]
      BY <1>1 DEF Put
    <2> QED BY <1>2, <2>2, <2>3
  <1>4. stack' \in Stacks
    <2>1. /\ Frame(op, k, 0) \in LibraryCall /\ Frame("send", k, 0) \in LibraryCall
          /\ Frame("cleanup", k, 0) \in LibraryCall
      BY IpcAssumption DEF Frame, LibraryCall
    <2>2. /\ Append(stack[a], Frame(op, k, 0)) \in Seq(LibraryCall)
          /\ <<Frame("cleanup", k, 0), Frame("send", k, 0)>> \in Seq(LibraryCall)
      BY <1>2, <2>1
    <2>3. \E st \in {Append(stack[a], Frame(op, k, 0)), <<Frame("cleanup", k, 0), Frame("send", k, 0)>>} :
             stack' = [stack EXCEPT ![a] = st]
      BY <1>1 DEF Put
    <2> QED BY <2>2, <2>3 DEF TypeOK, Stacks
  <1>5. ipc_port' \in Seq(ClientMsg)
    <2>1. Message(a, k, type, app[a].id) \in ClientMsg
      BY <1>2 DEF Message, ClientMsg, Program
    <2>2. Append(ipc_port, Message(a, k, type, app[a].id)) \in Seq(ClientMsg)
      BY <2>1 DEF TypeOK
    <2> QED BY <1>1, <2>2 DEF TypeOK, Put
  <1>6. open' \subseteq Apps /\ stray' \subseteq {"reply_port", "ipc_port"} \cup AllKinds
        /\ UNCHANGED <<dvars, reply_port>>
    BY <1>1 DEF TypeOK, Put
  <1> QED BY <1>3, <1>4, <1>5, <1>6 DEF TypeOK, dvars, Stacks

\* A call ends.
LEMMA PopType ==
  ASSUME TypeOK, NEW a \in Apps, stack[a] # <<>>, stack' = [stack EXCEPT ![a] = Pop(@)]
  PROVE  stack' \in Stacks
  <1>1. Pop(stack[a]) \in Seq(LibraryCall)
    BY PopFacts DEF TypeOK
  <1> QED BY <1>1 DEF TypeOK, Stacks

\* A message is taken from an application's port.
LEMMA TakenType ==
  ASSUME TypeOK, NEW a \in Apps, reply_port[a] # <<>>
  PROVE  /\ [reply_port EXCEPT ![a] = Tail(@)] \in Ports
         /\ [reply_port EXCEPT ![a] = Append(Tail(@), Head(@))] \in Ports
         /\ Head(reply_port[a]) \in RequestMsg \cup ClientMsg
         /\ Head(reply_port[a]).kind = "req" <=> Head(reply_port[a]) \in RequestMsg
         /\ reply_port[a][1] = Head(reply_port[a]) /\ 1 \in DOMAIN reply_port[a]
  <1>1. reply_port[a] \in Seq(RequestMsg \cup ClientMsg)
    BY DEF TypeOK
  <1>2. Tail(reply_port[a]) \in Seq(RequestMsg \cup ClientMsg)
        /\ Head(reply_port[a]) \in RequestMsg \cup ClientMsg
        /\ reply_port[a][1] = Head(reply_port[a]) /\ 1 \in DOMAIN reply_port[a]
    BY <1>1
  <1>3. Append(Tail(reply_port[a]), Head(reply_port[a])) \in Seq(RequestMsg \cup ClientMsg)
    BY <1>2
  <1>4. Head(reply_port[a]).kind = "req" <=> Head(reply_port[a]) \in RequestMsg
    BY <1>2 DEF RequestMsg, ClientMsg
  <1> QED BY <1>2, <1>3, <1>4 DEF TypeOK, Ports

\* The innermost call is one of the stack.
LEMMA TopFacts ==
  ASSUME TypeOK, NEW a \in Apps, stack[a] # <<>>
  PROVE  /\ Len(stack[a]) \in DOMAIN stack[a] /\ Top(a) \in LibraryCall
         /\ Len(stack[a]) \in Nat /\ DOMAIN stack[a] = 1..Len(stack[a])
         /\ stack[a][Len(stack[a])] = Top(a)
  <1>1. stack[a] \in Seq(LibraryCall)
    BY DEF TypeOK
  <1> QED BY <1>1 DEF Top

LEMMA TypeApp ==
  ASSUME TypeOK, NEW a \in Apps, Held(a), Frames(a), Opening(a), Calls(a) \/ AppStep(a)
  PROVE  TypeOK'
  <1>0. /\ app \in [Apps -> Program] /\ app[a] \in Program /\ open \subseteq Apps
        /\ stack \in Stacks /\ stack[a] \in Seq(LibraryCall)
    BY DEF TypeOK, Stacks
  <1>1. CASE ab_init(a) \/ send_simple(a) \/ ab_send_mem(a) \/ ab_cleanup(a)
    BY <1>1, PutCalls, PutType
  <1>2. CASE ab_poll(a)
    <2>1. Frame("poll", 0, 0) \in LibraryCall
      BY IpcAssumption DEF Frame, LibraryCall
    <2>2. stack' \in Stacks
      BY <1>0, <1>2, <2>1 DEF ab_poll, Stacks
    <2> QED BY <1>2, <2>2 DEF ab_poll, TypeOK, dvars, Stacks
  <1>3. CASE PollGet(a) \/ SendGetOther(a)
    <2>1. reply_port[a] # <<>> /\ Process(a, Head(reply_port[a]))
      BY <1>3 DEF PollGet, SendGetOther
    <2>2. reply_port' \in Ports /\ stack' \in Stacks
      BY <2>1, ProcessType
    <2> QED BY <2>1, <2>2 DEF Process, TypeOK, dvars, Stacks, Ports
  <1>4. CASE PollEnd(a)
    <2>1. stack' \in Stacks
      BY <1>4, PopType DEF PollEnd, InCall
    <2> QED BY <1>4, <2>1 DEF PollEnd, TypeOK, dvars, Stacks
  <1>5. CASE SendGetOwn(a)
    <2> DEFINE m == Head(reply_port[a])
    <2>0. InCall(a, "send") /\ reply_port[a] # <<>> /\ OwnReply(a, m)
      BY <1>5 DEF SendGetOwn
    <2>1. m \in ClientMsg
      BY <2>0, TakenType DEF OwnReply, RequestMsg
    <2>2. stack' \in Stacks /\ reply_port' \in Ports
      BY <1>5, <2>0, PopType, TakenType DEF SendGetOwn, InCall
    <2>3. /\ [app[a] EXCEPT !.used = @ \ {m.slot}] \in Program
          /\ \A conn \in {"up", "gone"} :
                [app[a] EXCEPT !.used = @ \ {m.slot}, !.id = m.id, !.conn = conn] \in Program
      BY <1>0, <2>1 DEF Program, ClientMsg
    <2>4. app' \in [Apps -> Program] /\ open' \subseteq Apps
      <3>1. CASE app[a].conn # "init"
        <4>1. app' = [app EXCEPT ![a] = [app[a] EXCEPT !.used = @ \ {m.slot}]] /\ open' = open
          BY <1>5, <3>1 DEF SendGetOwn
        <4> QED BY <1>0, <2>3, <4>1
      <3>2. CASE app[a].conn = "init"
        <4>1. /\ open' = IF m.id # 0 THEN open ELSE open \ {a}
              /\ \E conn \in {"up", "gone"} :
                    app' = [app EXCEPT ![a] = [app[a] EXCEPT !.used = @ \ {m.slot}, !.id = m.id,
                                                             !.conn = conn]]
          BY <1>5, <3>2 DEF SendGetOwn
        <4> QED BY <1>0, <2>3, <4>1
      <3> QED BY <3>1, <3>2
    <2> QED BY <1>5, <2>2, <2>4 DEF SendGetOwn, TypeOK, dvars, Stacks, Ports
  <1>6. CASE SendMemGet(a)
    <2>1. stack' \in Stacks /\ reply_port' \in Ports
      BY <1>6, PopType, TakenType DEF SendMemGet, InCall
    <2>2. [app[a] EXCEPT !.used = @ \ {Top(a).slot}] \in Program
      BY <1>0 DEF Program
    <2>3. app' \in [Apps -> Program]
      BY <1>0, <1>6, <2>2 DEF SendMemGet
    <2> QED BY <1>6, <2>1, <2>3 DEF SendMemGet, TypeOK, dvars, Stacks, Ports
  <1>7. CASE HandleDone(a)
    <2> DEFINE r == Top(a).req
               st == Pop(stack[a])
    <2>1. stack[a] # <<>> /\ Top(a).op = "handle" /\ ReturnRequest(r)
      BY <1>7 DEF HandleDone, InCall
    <2>2. r \in DOMAIN reqs
      BY <2>1, TopFacts DEF Held, Owed
    <2>3. st \in Seq(LibraryCall) /\ (st # <<>> => Pop(st) \in Seq(LibraryCall))
      BY <1>0, <2>1, PopFacts
    <2>4. stack' \in Stacks
      <3>1. \E s \in {st} \cup (IF st # <<>> THEN {Pop(st)} ELSE {}) : stack' = [stack EXCEPT ![a] = s]
        BY <1>7 DEF HandleDone
      <3> QED BY <1>0, <2>3, <3>1 DEF Stacks
    <2>5. [app[a] EXCEPT !.conn = "off"] \in Program
      BY <1>0 DEF Program
    <2>6. app' = [app EXCEPT ![a].conn = "off"] \/ app' = app
      BY <1>7 DEF HandleDone
    <2>7. app' \in [Apps -> Program]
      BY <1>0, <2>5, <2>6
    <2>8. reqs' \in Seq(Sent) /\ stray' \subseteq {"reply_port", "ipc_port"} \cup AllKinds
      BY <2>1, <2>2, ReturnRequestType
    <2>9. UNCHANGED <<clients, next_client_id, msg_pool_used, daemon, ipc_port, reply_port, open>>
      BY <1>7 DEF HandleDone
    <2> QED BY <2>4, <2>7, <2>8, <2>9 DEF TypeOK, Stacks
  <1>8. CASE CleanupDrain(a)
    <2> DEFINE m == Head(reply_port[a])
    <2>0. /\ reply_port[a] # <<>>
          /\ UNCHANGED <<clients, next_client_id, msg_pool_used, daemon, ipc_port, open, app, stack>>
      BY <1>8 DEF CleanupDrain
    <2>1. CASE m.kind = "req"
      <3>1. ReturnRequest(m.req) /\ reply_port' = [reply_port EXCEPT ![a] = Tail(@)]
        BY <1>8, <2>1 DEF CleanupDrain
      <3>2. m.req \in DOMAIN reqs
        BY <2>0, <2>1, TakenType DEF Held, Owed
      <3>3. /\ reqs' \in Seq(Sent) /\ stray' \subseteq {"reply_port", "ipc_port"} \cup AllKinds
            /\ reply_port' \in Ports
        BY <2>0, <3>1, <3>2, ReturnRequestType, TakenType
      <3> QED BY <2>0, <3>3 DEF TypeOK, Ports
    <2>2. CASE m.kind # "req"
      <3>1. reply_port' = [reply_port EXCEPT ![a] = Append(Tail(@), Head(@))] /\ UNCHANGED <<reqs, stray>>
        BY <1>8, <2>2 DEF CleanupDrain
      <3>2. reply_port' \in Ports
        BY <2>0, <3>1, TakenType
      <3> QED BY <2>0, <3>1, <3>2 DEF TypeOK, Ports
    <2> QED BY <2>1, <2>2
  <1>9. CASE CleanupEnd(a)
    <2>1. stack' \in Stacks
      BY <1>9, PopType DEF CleanupEnd, InCall
    <2>2. [app[a] EXCEPT !.conn = "gone", !.id = 0] \in Program
      BY <1>0 DEF Program
    <2>3. app' = [app EXCEPT ![a] = [app[a] EXCEPT !.conn = "gone", !.id = 0]] /\ open' = open \ {a}
      BY <1>9 DEF CleanupEnd
    <2>4. app' \in [Apps -> Program] /\ open' \subseteq Apps
      BY <1>0, <2>2, <2>3
    <2> QED BY <1>9, <2>1, <2>4 DEF CleanupEnd, TypeOK, dvars, Stacks
  <1> QED BY <1>1, <1>2, <1>3, <1>4, <1>5, <1>6, <1>7, <1>8, <1>9 DEF Calls, AppStep

-------------------------------------------------------------------------------
(* The registry.                                                              *)

\* What client_register does: a new port for an entry, nothing, or a new entry.
Renewed(s, a) == [table |-> [clients EXCEPT ![s].port = a],
                  id |-> clients[s].id, next |-> next_client_id]
Added(s, a) ==
    [table |-> [clients EXCEPT ![s] =
                  [id |-> next_client_id, name |-> AppName[a], port |-> a]],
     id |-> next_client_id, next |-> next_client_id + 1]

LEMMA RegisterCases ==
  ASSUME TypeOK, NEW a \in Apps
  PROVE  \/ \E s \in Active : client_register(AppName[a], a) = Renewed(s, a)
         \/ client_register(AppName[a], a) =
               [table |-> clients, id |-> 0, next |-> next_client_id]
         \/ /\ \A t \in Active : clients[t].name # AppName[a]
            /\ \E s \in Slots : clients[s].id = 0 /\ client_register(AppName[a], a) = Added(s, a)
  <1> DEFINE old == client_find_by_name(AppName[a])
             n == AppName[a]
  <1>0. Slots \subseteq Nat /\ old \subseteq Active /\ Active \subseteq Slots /\ FreeSlots \subseteq Slots
    BY DEF Slots, client_find_by_name, Active, FreeSlots
  <1>1. CASE old # {}
    <2>1. Least(old) \in Active
      BY <1>0, <1>1, LeastExists
    <2>2. client_register(n, a) = Renewed(Least(old), a)
      BY <1>1 DEF client_register, Renewed
    <2> QED BY <2>1, <2>2
  <1>2. CASE old = {} /\ FreeSlots = {}
    BY <1>2 DEF client_register
  <1>3. CASE old = {} /\ FreeSlots # {}
    <2>1. Least(FreeSlots) \in Slots /\ clients[Least(FreeSlots)].id = 0
      BY <1>0, <1>3, LeastExists DEF FreeSlots, Active
    <2>2. client_register(n, a) = Added(Least(FreeSlots), a)
      BY <1>3 DEF client_register, Added
    <2>3. \A t \in Active : clients[t].name # n
      BY <1>3 DEF client_find_by_name
    <2> QED BY <2>1, <2>2, <2>3
  <1> QED BY <1>1, <1>2, <1>3

\* A registration keeps the entries apart; of the other programs' entries it may only
\* take some over, and what it registers has the id that it answers.
LEMMA RegisterFacts ==
  ASSUME TypeOK, Entries, NEW a \in Apps,
         clients' = client_register(AppName[a], a).table,
         next_client_id' = client_register(AppName[a], a).next
  PROVE  /\ Entries'
         /\ \A b \in Apps : \A s \in Registered(b)' :
               \/ s \in Registered(b) /\ clients'[s].id = clients[s].id
               \/ b = a /\ clients'[s].id = client_register(AppName[a], a).id
  <1>0. /\ clients \in [Slots -> Entry] /\ next_client_id \in Nat \ {0}
        /\ \A s \in Slots : clients[s].id \in Nat
    BY DEF TypeOK, Entry
  <1>1. CASE \E s \in Active : client_register(AppName[a], a) = Renewed(s, a)
    <2>1. PICK s \in Active : client_register(AppName[a], a) = Renewed(s, a)
      BY <1>1
    <2>2. /\ clients' = [clients EXCEPT ![s].port = a] /\ next_client_id' = next_client_id
          /\ client_register(AppName[a], a).id = clients[s].id
      BY <2>1 DEF Renewed
    <2>3. s \in Slots /\ \A t \in Slots :
             /\ clients'[t].id = clients[t].id /\ clients'[t].name = clients[t].name
             /\ clients'[t].port = IF t = s THEN a ELSE clients[t].port
      BY <1>0, <2>2 DEF Active, Entry
    <2>4. Active' = Active
      BY <2>3 DEF Active
    <2>5. Entries'
      BY <2>2, <2>3, <2>4 DEF Entries, Active
    <2>6. ASSUME NEW b \in Apps, NEW t \in Registered(b)'
          PROVE  \/ t \in Registered(b) /\ clients'[t].id = clients[t].id
                 \/ b = a /\ clients'[t].id = client_register(AppName[a], a).id
      BY <2>2, <2>3, <2>4, <2>6 DEF Registered, Active
    <2> QED BY <2>5, <2>6
  <1>2. CASE client_register(AppName[a], a) =
               [table |-> clients, id |-> 0, next |-> next_client_id]
    <2>1. clients' = clients /\ next_client_id' = next_client_id
      BY <1>2
    <2> QED BY <2>1 DEF Entries, Active, Registered
  <1>3. CASE /\ \A t \in Active : clients[t].name # AppName[a]
             /\ \E s \in Slots : clients[s].id = 0 /\ client_register(AppName[a], a) = Added(s, a)
    <2>1. PICK s \in Slots : clients[s].id = 0 /\ client_register(AppName[a], a) = Added(s, a)
      BY <1>3
    <2>2. /\ clients' = [clients EXCEPT ![s] = [id |-> next_client_id, name |-> AppName[a], port |-> a]]
          /\ next_client_id' = next_client_id + 1
          /\ client_register(AppName[a], a).id = next_client_id
      BY <2>1 DEF Added
    <2>3. /\ \A t \in Slots : t # s => clients'[t] = clients[t]
          /\ clients'[s].id = next_client_id /\ clients'[s].name = AppName[a] /\ clients'[s].port = a
      BY <1>0, <2>2
    <2>4. s \notin Active /\ Active' = Active \cup {s}
      BY <1>0, <2>1, <2>3 DEF Active
    <2>5. Entries'
      <3>1. \A t \in Active : clients'[t] = clients[t] /\ clients[t].id < next_client_id /\ t # s
                              /\ clients[t].id \in Nat
        BY <1>0, <2>3, <2>4 DEF Entries, Active
      <3>2. \A t \in Active' : clients'[t].id < next_client_id' /\ clients'[t].port \in Apps
        BY <1>0, <2>2, <2>3, <2>4, <3>1 DEF Entries
      <3>3. \A t, u \in Active' :
               t # u => clients'[t].id # clients'[u].id /\ clients'[t].name # clients'[u].name
        BY <1>0, <1>3, <2>3, <2>4, <3>1 DEF Entries
      <3> QED BY <3>2, <3>3 DEF Entries
    <2>6. ASSUME NEW b \in Apps, NEW t \in Registered(b)'
          PROVE  \/ t \in Registered(b) /\ clients'[t].id = clients[t].id
                 \/ b = a /\ clients'[t].id = client_register(AppName[a], a).id
      BY <2>2, <2>3, <2>4, <2>6 DEF Registered, Active
    <2> QED BY <2>5, <2>6
  <1> QED BY <1>1, <1>2, <1>3, RegisterCases

\* Taking an entry out leaves the others as they are.
LEMMA UnregisterFacts ==
  ASSUME TypeOK, Entries, NEW id, clients' = client_unregister(id), next_client_id' = next_client_id
  PROVE  /\ Entries'
         /\ \A b \in Apps : \A s \in Registered(b)' :
               s \in Registered(b) /\ clients'[s].id = clients[s].id /\ clients[s].id # id
  <1>1. \A s \in Active' : s \in Active /\ clients'[s] = clients[s] /\ clients[s].id # id
    BY DEF Active, client_unregister, client_find, Inactive
  <1>2. Entries'
    BY <1>1 DEF Entries
  <1> QED BY <1>1, <1>2 DEF Registered

-------------------------------------------------------------------------------
(* What the steps have in common.                                             *)

\* The daemon sends a request to a registered program.
Sends ==
    \E kind \in AllKinds, s \in Active, ci \in 0..(AB_MAX_CLIENTS + 1) :
        /\ SendRequest(kind, clients[s].port, ci)
        /\ Pooled(kind) => msg_pool_used < IPC_MSG_POOL_SIZE
        /\ daemon.pc = IF ci = 0 THEN "loop" ELSE "notify"
        /\ kind = "shutdown" <=> ci # 0

\* The daemon answers the message at the head of its port.
Answers ==
    /\ ipc_port # <<>> /\ ipc_port' = Tail(ipc_port)
    /\ \E id \in Nat : DaemonReply([Head(ipc_port) EXCEPT !.id = id])
    /\ UNCHANGED <<msg_pool_used, daemon, reqs, cvars>>

\* The daemon goes on without a message: what was sent is as before.
SameRequests ==
    /\ Len(reqs') = Len(reqs) /\ DOMAIN reqs' = DOMAIN reqs
    /\ \A r \in DOMAIN reqs : /\ reqs'[r].kind = reqs[r].kind /\ reqs'[r].to = reqs[r].to
                              /\ reqs'[r].back = reqs[r].back
Control ==
    /\ UNCHANGED <<clients, next_client_id, ipc_port, reply_port, cvars, stray>>
    /\ SameRequests /\ daemon'.pc # "wait"

LEMMA SendCalls ==
  ASSUME TypeOK, NotifySend \/ handle_exec \/ \E kind \in {"var", "hook", "perf"} : handle_query(kind)
  PROVE  Sends
  <1>0. AB_MAX_CLIENTS \in Nat \ {0} /\ {"exec", "var", "hook", "perf", "shutdown"} \subseteq AllKinds
        /\ daemon.ci \in 0..(AB_MAX_CLIENTS + 1) /\ 0 \in 0..(AB_MAX_CLIENTS + 1)
    BY IpcAssumption DEF AllKinds, TypeOK
  <1>1. CASE NotifySend
    <2>1. PICK s \in client_find(daemon.ci) : SendRequest("shutdown", clients[s].port, daemon.ci + 1)
      BY <1>1 DEF NotifySend
    <2>2. s \in Active
      BY DEF client_find
    <2>3. /\ daemon.ci + 1 \in 0..(AB_MAX_CLIENTS + 1) /\ msg_pool_used < IPC_MSG_POOL_SIZE
          /\ daemon.ci + 1 # 0 /\ daemon.pc = "notify"
      BY <1>0, <1>1 DEF NotifySend
    <2> QED BY <1>0, <2>1, <2>2, <2>3 DEF Sends
  <1>2. CASE handle_exec
    <2>1. PICK n \in Names : \E s \in ExecTargets(n) : SendRequest("exec", clients[s].port, 0)
      BY <1>2 DEF handle_exec
    <2>2. PICK s \in ExecTargets(n) : SendRequest("exec", clients[s].port, 0)
      BY <2>1
    <2>3. s \in Active
      BY DEF ExecTargets, client_find_by_name, client_find
    <2>4. msg_pool_used < IPC_MSG_POOL_SIZE /\ daemon.pc = "loop"
      BY <1>2 DEF handle_exec
    <2> QED BY <1>0, <2>2, <2>3, <2>4 DEF Sends
  <1>3. ASSUME NEW kind \in {"var", "hook", "perf"}, handle_query(kind) PROVE Sends
    <2>1. PICK s \in Active : SendRequest(kind, clients[s].port, 0)
      BY <1>3 DEF handle_query
    <2>2. ~Pooled(kind) /\ daemon.pc = "loop"
      BY <1>3 DEF Pooled, handle_query
    <2> QED BY <1>0, <2>1, <2>2 DEF Sends
  <1> QED BY <1>1, <1>2, <1>3

LEMMA AnswerCalls ==
  ASSUME TypeOK, ipc_process \/ IpcDrain
  PROVE  Answers
  <1> DEFINE m == Head(ipc_port)
             reg == client_register(AppName[m.app], m.app)
  <1>1. ipc_port # <<>> /\ m \in ClientMsg
    <2>1. ipc_port # <<>> /\ ipc_port \in Seq(ClientMsg)
      BY DEF ipc_process, IpcDrain, TypeOK
    <2> QED BY <2>1
  <1>2. m.app \in Apps /\ m.id \in Nat /\ m = [m EXCEPT !.id = m.id]
    BY <1>1 DEF ClientMsg
  <1>3. reg.id \in Nat
    BY <1>2, RegisterType
  <1>4. CASE ipc_process
    <2>1. DaemonReply(IF m.type = "REGISTER" THEN [m EXCEPT !.id = reg.id] ELSE m)
      BY <1>4 DEF ipc_process
    <2>2. \E id \in Nat : DaemonReply([m EXCEPT !.id = id])
      BY <1>2, <1>3, <2>1
    <2> QED BY <1>1, <1>4, <2>2 DEF ipc_process, Answers
  <1>5. CASE IpcDrain
    BY <1>1, <1>5 DEF IpcDrain, Answers, dvars
  <1> QED BY <1>4, <1>5

LEMMA ControlCalls ==
  ASSUME TypeOK, Awaited,
         WaitReply \/ WaitTimeout \/ NotifySkip \/ IpcRemPort \/ IpcClose \/ Shutdown
  PROVE  Control
  <1>1. CASE WaitReply \/ WaitTimeout
    <2>1. daemon.req \in DOMAIN reqs /\ reqs \in Seq(Sent) /\ reqs[daemon.req] \in Sent
      BY <1>1, AwaitedExists DEF WaitReply, WaitTimeout, TypeOK
    <2>2. PICK p : reqs' = [reqs EXCEPT ![daemon.req].port = p]
      BY <1>1 DEF WaitReply, WaitTimeout
    <2>3. SameRequests
      BY <2>1, <2>2 DEF SameRequests, Sent
    <2>4. daemon'.pc # "wait"
      BY <1>1 DEF WaitReply, WaitTimeout, AfterWait
    <2> QED BY <1>1, <2>3, <2>4 DEF WaitReply, WaitTimeout, Control
  <1>2. CASE NotifySkip \/ IpcRemPort \/ IpcClose \/ Shutdown
    <2>1. daemon'.pc # "wait"
      BY <1>2 DEF NotifySkip, IpcRemPort, IpcClose, Shutdown, TypeOK
    <2>2. UNCHANGED <<clients, next_client_id, ipc_port, reply_port, cvars, stray, reqs>>
      BY <1>2 DEF NotifySkip, IpcRemPort, IpcClose, Shutdown
    <2> QED BY <2>1, <2>2 DEF Control, SameRequests
  <1> QED BY <1>1, <1>2

\* A call other than a handler ends, perhaps with a message; the message at the head of
\* a port is a request and is handled, or is put back, or is a request and is replied.
Ends(a) ==
    /\ stack[a] # <<>> /\ Top(a).op # "handle" /\ stack' = [stack EXCEPT ![a] = Pop(@)]
    /\ \/ reply_port' = reply_port
       \/ /\ reply_port[a] # <<>> /\ reply_port' = [reply_port EXCEPT ![a] = Tail(@)]
          /\ Head(reply_port[a]).kind = "req" => a \in SendMemUsers
    /\ UNCHANGED <<dvars, ipc_port, stray>>
Handles(a) ==
    /\ stack[a] # <<>> /\ Top(a).op \in {"poll", "send"}
    /\ reply_port[a] # <<>> /\ Head(reply_port[a]).kind = "req"
    /\ stack' = [stack EXCEPT ![a] = Append(@, Frame("handle", 0, Head(reply_port[a]).req))]
    /\ reply_port' = [reply_port EXCEPT ![a] = Tail(@)]
    /\ UNCHANGED <<dvars, ipc_port, open, app, stray>>
Rotates(a) ==
    /\ stack[a] # <<>> /\ Top(a).op = "send" => ~OwnReply(a, Head(reply_port[a]))
    /\ reply_port[a] # <<>> /\ Head(reply_port[a]).kind # "req"
    /\ reply_port' = [reply_port EXCEPT ![a] = Append(Tail(@), Head(@))]
    /\ UNCHANGED <<dvars, ipc_port, open, app, stack, stray>>
Dismisses(a) ==
    /\ InCall(a, "cleanup") /\ reply_port[a] # <<>> /\ Head(reply_port[a]).kind = "req"
    /\ ReturnRequest(Head(reply_port[a]).req)
    /\ reply_port' = [reply_port EXCEPT ![a] = Tail(@)]
    /\ UNCHANGED <<clients, next_client_id, msg_pool_used, daemon, ipc_port, open, app, stack>>

LEMMA ProcessCases ==
  ASSUME NEW a \in Apps, PollGet(a) \/ SendGetOther(a)
  PROVE  Handles(a) \/ Rotates(a)
  <1>1. /\ reply_port[a] # <<>> /\ Process(a, Head(reply_port[a]))
        /\ stack[a] # <<>> /\ Top(a).op \in {"poll", "send"}
        /\ Top(a).op = "send" => ~OwnReply(a, Head(reply_port[a]))
    BY DEF PollGet, SendGetOther, InCall
  <1>2. CASE Head(reply_port[a]).kind = "req"
    BY <1>1, <1>2 DEF Process, Handles
  <1>3. CASE Head(reply_port[a]).kind # "req"
    BY <1>1, <1>3 DEF Process, Rotates
  <1> QED BY <1>2, <1>3

LEMMA DrainCases ==
  ASSUME NEW a \in Apps, CleanupDrain(a)
  PROVE  Dismisses(a) \/ Rotates(a)
  <1>1. CASE Head(reply_port[a]).kind = "req"
    BY <1>1 DEF CleanupDrain, Dismisses
  <1>2. CASE Head(reply_port[a]).kind # "req"
    BY <1>2 DEF CleanupDrain, Rotates, dvars, InCall
  <1> QED BY <1>1, <1>2

LEMMA EndCases ==
  ASSUME TypeOK, NEW a \in Apps, Frames(a),
         PollEnd(a) \/ SendGetOwn(a) \/ SendMemGet(a) \/ CleanupEnd(a)
  PROVE  Ends(a)
  <1>1. CASE PollEnd(a)
    BY <1>1 DEF PollEnd, Ends, InCall
  <1>2. CASE SendGetOwn(a)
    BY <1>2 DEF SendGetOwn, Ends, InCall, OwnReply
  <1>3. CASE SendMemGet(a)
    <2>1. a \in SendMemUsers
      BY <1>3, TopFacts DEF SendMemGet, InCall, Frames
    <2> QED BY <1>3, <2>1 DEF SendMemGet, Ends, InCall
  <1>4. CASE CleanupEnd(a)
    BY <1>4 DEF CleanupEnd, Ends, InCall
  <1> QED BY <1>1, <1>2, <1>3, <1>4

LEMMA AppCases ==
  ASSUME TypeOK, NEW a \in Apps, Frames(a), Opening(a), Calls(a) \/ AppStep(a)
  PROVE  \/ Puts(a) \/ ab_poll(a) \/ Ends(a) \/ Handles(a) \/ Rotates(a)
         \/ HandleDone(a) \/ Dismisses(a)
  BY PutCalls, ProcessCases, DrainCases, EndCases DEF Calls, AppStep

\* A request that a program answers is one of its own, and stays what it was.
LEMMA ReturnFacts ==
  ASSUME TypeOK, NEW r \in DOMAIN reqs, ReturnRequest(r)
  PROVE  /\ Len(reqs') = Len(reqs) /\ DOMAIN reqs' = DOMAIN reqs
         /\ \A q \in DOMAIN reqs : /\ reqs'[q].kind = reqs[q].kind /\ reqs'[q].to = reqs[q].to
                                   /\ reqs'[q].port = reqs[q].port
                                   /\ reqs'[q].back = (reqs[q].back \/ q = r)
  <1>1. reqs \in Seq(Sent) /\ \A q \in DOMAIN reqs : reqs[q] \in Sent
    BY DEF TypeOK
  <1>2. reqs' = [reqs EXCEPT ![r].back = TRUE]
    BY DEF ReturnRequest
  <1>3. Len(reqs') = Len(reqs) /\ DOMAIN reqs' = DOMAIN reqs
    BY <1>1, <1>2
  <1>4. ASSUME NEW q \in DOMAIN reqs
        PROVE  /\ reqs'[q].kind = reqs[q].kind /\ reqs'[q].to = reqs[q].to
               /\ reqs'[q].port = reqs[q].port
               /\ reqs'[q].back = (reqs[q].back \/ q = r)
    <2>1. CASE q = r
      <3>1. reqs'[q] = [reqs[q] EXCEPT !.back = TRUE]
        BY <1>1, <1>2, <2>1
      <3> QED BY <1>1, <2>1, <3>1 DEF Sent
    <2>2. CASE q # r
      <3>1. reqs'[q] = reqs[q] /\ reqs[q].back \in BOOLEAN
        BY <1>1, <1>2, <2>2 DEF Sent
      <3> QED BY <2>2, <3>1
    <2> QED BY <2>1, <2>2
  <1> QED BY <1>3, <1>4

\* A step of one program leaves the others' calls, ports and state alone.
LEMMA OthersKept ==
  ASSUME TypeOK, NEW a \in Apps, NEW b \in Apps, b # a, Calls(a) \/ AppStep(a), Frames(a), Opening(a)
  PROVE  /\ stack'[b] = stack[b] /\ reply_port'[b] = reply_port[b] /\ app'[b] = app[b]
         /\ b \in open' <=> b \in open
         /\ UNCHANGED <<clients, next_client_id, msg_pool_used, daemon>>
  <1>0. app \in [Apps -> Program] /\ stack \in [Apps -> Seq(LibraryCall)]
        /\ reply_port \in [Apps -> Seq(RequestMsg \cup ClientMsg)]
    BY DEF TypeOK
  <1>1. CASE Puts(a)
    BY <1>0, <1>1 DEF Puts, Put, dvars
  <1>2. CASE ab_poll(a) \/ PollEnd(a)
    BY <1>0, <1>2 DEF ab_poll, PollEnd, dvars
  <1>3. CASE Handles(a) \/ Rotates(a)
    BY <1>0, <1>3 DEF Handles, Rotates, dvars
  <1>4. CASE SendGetOwn(a) \/ SendMemGet(a)
    <2>1. CASE SendGetOwn(a)
      <3>1. \E p : app' = [app EXCEPT ![a] = p]
        BY <2>1 DEF SendGetOwn
      <3>2. open' \in {open, open \ {a}}
        BY <2>1 DEF SendGetOwn
      <3> QED BY <1>0, <2>1, <3>1, <3>2 DEF SendGetOwn, dvars
    <2>2. CASE SendMemGet(a)
      BY <1>0, <2>2 DEF SendMemGet, dvars
    <2> QED BY <1>4, <2>1, <2>2
  <1>5. CASE HandleDone(a)
    <2>1. \E p, s : app' = [app EXCEPT ![a] = p] /\ stack' = [stack EXCEPT ![a] = s]
      <3>1. app' = [app EXCEPT ![a].conn = "off"] \/ app' = [app EXCEPT ![a] = app[a]]
        BY <1>0, <1>5 DEF HandleDone
      <3>2. \E s : stack' = [stack EXCEPT ![a] = s]
        BY <1>5 DEF HandleDone
      <3> QED BY <3>1, <3>2
    <2> QED BY <1>0, <1>5, <2>1 DEF HandleDone
  <1>6. CASE Dismisses(a)
    BY <1>0, <1>6 DEF Dismisses
  <1>7. CASE CleanupEnd(a)
    BY <1>0, <1>7 DEF CleanupEnd, dvars
  <1> QED BY <1>1, <1>2, <1>3, <1>4, <1>5, <1>6, <1>7, PutCalls, ProcessCases, DrainCases
          DEF Calls, AppStep

-------------------------------------------------------------------------------
(* The requests that a program holds: in their order, its own, none of them   *)
(* replied, and all of those that it owes a reply to.                         *)

\* A request that a program owes is held by it.
Keeps(a) == \A r : Owed(a, r) => HoldsRequest(a, r)
Holding(a) == InOrder(a) /\ Held(a) /\ (a \notin SendMemUsers => Keeps(a))

\* No handler and no request is new at a, whose port moved up by d messages.
NoneNew(a, d) ==
    /\ \A i \in DOMAIN stack'[a] : stack'[a][i].op = "handle" =>
          i \in DOMAIN stack[a] /\ stack'[a][i] = stack[a][i]
    /\ \A j \in DOMAIN reply_port'[a] : reply_port'[a][j].kind = "req" =>
          j + d \in DOMAIN reply_port[a] /\ reply_port'[a][j] = reply_port[a][j + d]
\* None is gone but r.
NoneGone(a, r) ==
    \A q : HoldsRequest(a, q) /\ q # r => HoldsRequest(a, q)'
\* The debts stay, but for r.
SameDebts(a, r) ==
    \A q : Owed(a, q)' <=> Owed(a, q) /\ q # r
\* r is not among the requests of a any more.
Dropped(a, r) ==
    /\ \A i \in DOMAIN stack'[a] : stack'[a][i].op = "handle" => stack'[a][i].req # r
    /\ \A j \in DOMAIN reply_port'[a] : reply_port'[a][j].kind = "req" => reply_port'[a][j].req # r

LEMMA OrderKept ==
  ASSUME TypeOK, TypeOK', NEW a \in Apps, NEW d \in {0, 1}, NoneNew(a, d), InOrder(a)
  PROVE  InOrder(a)'
  <1>0. /\ stack[a] \in Seq(LibraryCall) /\ stack'[a] \in Seq(LibraryCall)
        /\ DOMAIN stack'[a] = 1..Len(stack'[a]) /\ DOMAIN reply_port'[a] = 1..Len(reply_port'[a])
        /\ Len(stack'[a]) \in Nat /\ Len(reply_port'[a]) \in Nat
    BY DEF TypeOK
  <1>1. ASSUME NEW i \in DOMAIN stack'[a], NEW j \in DOMAIN stack'[a], i < j,
               stack'[a][i].op = "handle", stack'[a][j].op = "handle"
        PROVE  stack'[a][i].req < stack'[a][j].req
    BY <1>1 DEF NoneNew, InOrder
  <1>2. ASSUME NEW i \in DOMAIN stack'[a], NEW j \in DOMAIN reply_port'[a],
               stack'[a][i].op = "handle", reply_port'[a][j].kind = "req"
        PROVE  stack'[a][i].req < reply_port'[a][j].req
    BY <1>2 DEF NoneNew, InOrder
  <1>3. ASSUME NEW i \in DOMAIN reply_port'[a], NEW j \in DOMAIN reply_port'[a], i < j,
               reply_port'[a][i].kind = "req", reply_port'[a][j].kind = "req"
        PROVE  reply_port'[a][i].req < reply_port'[a][j].req
    <2>1. i + d < j + d
      BY <1>0, <1>3
    <2> QED BY <1>3, <2>1 DEF NoneNew, InOrder
  <1> QED BY <1>1, <1>2, <1>3 DEF InOrder

LEMMA HeldKept ==
  ASSUME NEW a \in Apps, NEW d \in {0, 1}, NEW r, NoneNew(a, d), Held(a),
         SameDebts(a, r), Dropped(a, r)
  PROVE  Held(a)'
  <1>1. ASSUME NEW q, NEW i \in DOMAIN stack'[a], stack'[a][i].op = "handle", q = stack'[a][i].req
        PROVE  Owed(a, q)'
    <2>1. Owed(a, q) /\ q # r
      BY <1>1 DEF NoneNew, Held, Dropped
    <2> QED BY <2>1 DEF SameDebts
  <1>2. ASSUME NEW q, NEW j \in DOMAIN reply_port'[a], reply_port'[a][j].kind = "req",
               q = reply_port'[a][j].req
        PROVE  Owed(a, q)'
    <2>1. Owed(a, q) /\ q # r
      BY <1>2 DEF NoneNew, Held, Dropped
    <2> QED BY <2>1 DEF SameDebts
  <1> QED BY <1>1, <1>2 DEF Held, Owed

LEMMA KeepsKept ==
  ASSUME NEW a \in Apps, NEW r, NoneGone(a, r), SameDebts(a, r), Keeps(a)
  PROVE  Keeps(a)'
  <1>1. ASSUME NEW q, Owed(a, q)' PROVE HoldsRequest(a, q)'
    <2>1. Owed(a, q) /\ q # r
      BY <1>1 DEF SameDebts
    <2> QED BY <2>1 DEF Keeps, NoneGone
  <1>2. Keeps(a)' <=> \A q : Owed(a, q)' => HoldsRequest(a, q)'
    BY DEF Keeps, Owed, HoldsRequest
  <1> QED BY <1>1, <1>2

\* What a program holds when nothing is new, and r, if it is held, is replied.
LEMMA HoldingKept ==
  ASSUME TypeOK, TypeOK', NEW a \in Apps, NEW d \in {0, 1}, NEW r, NoneNew(a, d), Holding(a),
         SameDebts(a, r), Dropped(a, r), a \notin SendMemUsers => NoneGone(a, r)
  PROVE  Holding(a)'
  <1>1. InOrder(a)' /\ Held(a)'
    BY OrderKept, HeldKept DEF Holding
  <1>2. a \notin SendMemUsers => Keeps(a)'
    BY KeepsKept DEF Holding
  <1> QED BY <1>1, <1>2 DEF Holding

\* What it holds when nothing is new and nothing is replied.
LEMMA HoldingQuiet ==
  ASSUME TypeOK, TypeOK', NEW a \in Apps, NEW d \in {0, 1}, NoneNew(a, d), Holding(a),
         \A q : Owed(a, q)' <=> Owed(a, q), a \notin SendMemUsers => NoneGone(a, 0)
  PROVE  Holding(a)'
  <1>1. \A q : Owed(a, q) => q # 0
    <2>1. DOMAIN reqs = 1..Len(reqs) /\ Len(reqs) \in Nat
      BY DEF TypeOK
    <2> QED BY <2>1 DEF Owed
  <1>2. SameDebts(a, 0)
    BY <1>1 DEF SameDebts
  <1>3. Dropped(a, 0)
    BY <1>1 DEF Dropped, NoneNew, Holding, Held
  <1> QED BY <1>2, <1>3, HoldingKept

\* Its calls and its port are as they were.
LEMMA HoldingAlone ==
  ASSUME TypeOK, TypeOK', NEW a \in Apps, Holding(a), stack'[a] = stack[a],
         reply_port'[a] = reply_port[a], \A q : Owed(a, q)' <=> Owed(a, q)
  PROVE  Holding(a)'
  <1>1. DOMAIN reply_port[a] = 1..Len(reply_port[a]) /\ Len(reply_port[a]) \in Nat
    BY DEF TypeOK
  <1>2. NoneNew(a, 0)
    BY <1>1 DEF NoneNew
  <1>3. NoneGone(a, 0)
    BY DEF NoneGone, HoldsRequest
  <1> QED BY <1>2, <1>3, HoldingQuiet

\* A client's answer is put to a port that may be a's.
LEMMA AnswerHolding ==
  ASSUME TypeOK, TypeOK', NEW a \in Apps, Holding(a), Answers
  PROVE  Holding(a)'
  <1>1. PICK id \in Nat : DaemonReply([Head(ipc_port) EXCEPT !.id = id])
    BY DEF Answers
  <1> DEFINE m == [Head(ipc_port) EXCEPT !.id = id]
  <1>2. Head(ipc_port) \in ClientMsg
    <2>1. ipc_port \in Seq(ClientMsg) /\ ipc_port # <<>>
      BY DEF TypeOK, Answers
    <2> QED BY <2>1
  <1>3. m \in ClientMsg /\ m.kind = "msg" /\ m.app \in Apps
    BY <1>2 DEF ClientMsg
  <1> HIDE DEF m
  <1>4. stack' = stack /\ \A q : Owed(a, q)' <=> Owed(a, q)
    BY DEF Answers, cvars, Owed
  <1>5. CASE reply_port'[a] = reply_port[a]
    BY <1>4, <1>5, HoldingAlone
  <1>6. CASE reply_port'[a] # reply_port[a]
    <2>1. reply_port'[a] = Append(reply_port[a], m)
      BY <1>1, <1>6 DEF DaemonReply, TypeOK, m
    <2>2. reply_port[a] \in Seq(RequestMsg \cup ClientMsg) /\ m \in RequestMsg \cup ClientMsg
      BY <1>3 DEF TypeOK
    <2>3. /\ \A i \in DOMAIN reply_port[a] :
                i \in DOMAIN reply_port'[a] /\ reply_port'[a][i] = reply_port[a][i]
          /\ \A i \in DOMAIN reply_port'[a] : reply_port'[a][i].kind = "req" => i \in DOMAIN reply_port[a]
          /\ \A i \in DOMAIN reply_port[a] : i + 0 = i
      BY <1>3, <2>1, <2>2
    <2>4. NoneNew(a, 0)
      BY <1>4, <2>3 DEF NoneNew
    <2>5. NoneGone(a, 0)
      BY <1>4, <2>3 DEF NoneGone, HoldsRequest
    <2> QED BY <1>4, <2>4, <2>5, HoldingQuiet
  <1> QED BY <1>5, <1>6

\* The daemon sends a request, perhaps to a.
LEMMA SendFacts ==
  ASSUME TypeOK, NEW kind \in AllKinds, NEW a \in Apps, NEW ci, SendRequest(kind, a, ci)
  PROVE  /\ Len(reqs) \in Nat /\ DOMAIN reqs = 1..Len(reqs) /\ Len(reqs') = Len(reqs) + 1
         /\ DOMAIN reqs' = 1..(Len(reqs) + 1)
         /\ \A r \in DOMAIN reqs : reqs'[r] = reqs[r]
         /\ reqs'[Len(reqs) + 1] = [kind |-> kind, to |-> a, port |-> "open", back |-> FALSE]
  <1>1. reqs \in Seq(Sent) /\ [kind |-> kind, to |-> a, port |-> "open", back |-> FALSE] \in Sent
    BY DEF TypeOK, Sent
  <1>2. reqs' = Append(reqs, [kind |-> kind, to |-> a, port |-> "open", back |-> FALSE])
    BY DEF SendRequest
  <1> QED BY <1>1, <1>2

LEMMA SendHolding ==
  ASSUME TypeOK, TypeOK', NEW a \in Apps, Holding(a),
         NEW kind \in AllKinds, NEW t \in Apps, NEW ci, SendRequest(kind, t, ci)
  PROVE  Holding(a)'
  <1> DEFINE n == Len(reqs) + 1
  <1>0. /\ Len(reqs) \in Nat /\ DOMAIN reqs = 1..Len(reqs) /\ n \in Nat
        /\ DOMAIN reqs' = 1..n /\ \A r \in DOMAIN reqs : reqs'[r] = reqs[r]
        /\ reqs'[n] = [kind |-> kind, to |-> t, port |-> "open", back |-> FALSE]
    BY SendFacts
  <1>1. \A q : Owed(a, q)' <=> Owed(a, q) \/ (q = n /\ t = a)
    BY <1>0 DEF Owed
  <1>2. stack' = stack /\ reply_port' = [reply_port EXCEPT ![t] = Append(@, Request(n))]
    BY DEF SendRequest, cvars
  <1>3. CASE t # a
    BY <1>1, <1>2, <1>3, HoldingAlone DEF TypeOK
  <1>4. CASE t = a
    <2>1. \A q : Owed(a, q) => q \in Nat /\ q < n
      BY <1>0 DEF Owed
    <2>2. Request(n) \in RequestMsg \cup ClientMsg /\ Request(n).kind = "req" /\ Request(n).req = n
      <3>1. n <= MaxReqs
        BY DEF SendRequest
      <3> QED BY <1>0, <3>1, IpcAssumption DEF Request, RequestMsg
    <2> DEFINE q == reply_port[a]
               L == Len(reply_port[a])
    <2>3. /\ q \in Seq(RequestMsg \cup ClientMsg) /\ reply_port'[a] = Append(q, Request(n))
          /\ L \in Nat /\ DOMAIN q = 1..L /\ DOMAIN reply_port'[a] = 1..(L + 1)
          /\ \A i \in DOMAIN q : reply_port'[a][i] = q[i]
          /\ reply_port'[a][L + 1] = Request(n)
      BY <1>2, <1>4, <2>2 DEF TypeOK
    <2>4. stack'[a] = stack[a] /\ DOMAIN stack[a] = 1..Len(stack[a]) /\ Len(stack[a]) \in Nat
      BY <1>2 DEF TypeOK
    <2>5. InOrder(a)'
      <3>1. ASSUME NEW i \in DOMAIN stack[a], NEW j \in DOMAIN reply_port'[a],
                   stack[a][i].op = "handle", reply_port'[a][j].kind = "req"
            PROVE  stack[a][i].req < reply_port'[a][j].req
        <4>1. CASE j \in DOMAIN q
          BY <2>3, <3>1, <4>1 DEF Holding, InOrder
        <4>2. CASE j = L + 1
          BY <2>1, <2>2, <2>3, <3>1, <4>2 DEF Holding, Held
        <4> QED BY <2>3, <4>1, <4>2
      <3>2. ASSUME NEW i \in DOMAIN reply_port'[a], NEW j \in DOMAIN reply_port'[a], i < j,
                   reply_port'[a][i].kind = "req", reply_port'[a][j].kind = "req"
            PROVE  reply_port'[a][i].req < reply_port'[a][j].req
        <4>1. i \in DOMAIN q
          BY <2>3, <3>2
        <4>2. CASE j \in DOMAIN q
          BY <2>3, <3>2, <4>1, <4>2 DEF Holding, InOrder
        <4>3. CASE j = L + 1
          BY <2>1, <2>2, <2>3, <3>2, <4>1, <4>3 DEF Holding, Held
        <4> QED BY <2>3, <4>2, <4>3
      <3> QED BY <2>4, <3>1, <3>2 DEF Holding, InOrder
    <2>6. Held(a)'
      <3>1. ASSUME NEW r, NEW i \in DOMAIN stack'[a], stack'[a][i].op = "handle", r = stack'[a][i].req
            PROVE  Owed(a, r)'
        BY <1>1, <2>4, <3>1 DEF Holding, Held
      <3>2. ASSUME NEW r, NEW j \in DOMAIN reply_port'[a], reply_port'[a][j].kind = "req",
                   r = reply_port'[a][j].req
            PROVE  Owed(a, r)'
        <4>1. CASE j \in DOMAIN q
          BY <1>1, <2>3, <3>2, <4>1 DEF Holding, Held
        <4>2. CASE j = L + 1
          BY <1>1, <1>4, <2>2, <2>3, <3>2, <4>2
        <4> QED BY <2>3, <4>1, <4>2
      <3> QED BY <3>1, <3>2 DEF Held, Owed
    <2>7. ASSUME a \notin SendMemUsers PROVE Keeps(a)'
      <3>1. ASSUME NEW r, Owed(a, r)' PROVE HoldsRequest(a, r)'
        <4>1. CASE Owed(a, r)
          <5>1. HoldsRequest(a, r)
            BY <2>7, <4>1 DEF Holding, Keeps
          <5> QED BY <2>3, <2>4, <5>1 DEF HoldsRequest
        <4>2. CASE r = n
          <5>1. L + 1 \in DOMAIN reply_port'[a] /\ reply_port'[a][L + 1] = Request(r)
            BY <2>3, <4>2
          <5> QED BY <5>1 DEF HoldsRequest
        <4> QED BY <1>1, <3>1, <4>1, <4>2
      <3>2. Keeps(a)' <=> \A r : Owed(a, r)' => HoldsRequest(a, r)'
        BY DEF Keeps, Owed, HoldsRequest
      <3> QED BY <3>1, <3>2
    <2> QED BY <2>5, <2>6, <2>7 DEF Holding
  <1> QED BY <1>3, <1>4

\* A request at the head of the port becomes the innermost handler: it is newer than
\* those that are being handled, and older than those that wait.
LEMMA HandlesHolding ==
  ASSUME TypeOK, TypeOK', NEW a \in Apps, Holding(a), Handles(a)
  PROVE  Holding(a)'
  <1> DEFINE q == reply_port[a]
             m == Head(q)
             st == stack[a]
             f == Frame("handle", 0, m.req)
             L == Len(st)
  <1>1. /\ q \in Seq(RequestMsg \cup ClientMsg) /\ q # <<>> /\ m.kind = "req" /\ st \in Seq(LibraryCall)
        /\ stack'[a] = Append(st, f) /\ reply_port'[a] = Tail(q)
        /\ UNCHANGED reqs
    BY DEF Handles, TypeOK, dvars
  <1>2. /\ q[1] = m /\ 1 \in DOMAIN q /\ DOMAIN q = 1..Len(q) /\ Len(q) \in Nat
        /\ DOMAIN reply_port'[a] = 1..(Len(q) - 1)
        /\ \A j \in DOMAIN reply_port'[a] : j + 1 \in DOMAIN q /\ reply_port'[a][j] = q[j + 1] /\ 1 < j + 1
    BY <1>1
  <1>3. f \in LibraryCall /\ f.op = "handle" /\ f.req = m.req /\ m = Request(m.req)
    <2>1. m \in RequestMsg
      BY <1>1, <1>2 DEF RequestMsg, ClientMsg
    <2> QED BY <2>1, IpcAssumption DEF Frame, LibraryCall, RequestMsg, Request
  <1>4. /\ L \in Nat /\ DOMAIN st = 1..L /\ DOMAIN stack'[a] = 1..(L + 1)
        /\ stack'[a][L + 1] = f /\ \A i \in DOMAIN st : stack'[a][i] = st[i]
    BY <1>1, <1>3
  <1> HIDE DEF f, m, st, q
  <1>5. Owed(a, m.req)
    BY <1>1, <1>2 DEF Holding, Held, q
  <1>6. \A r : Owed(a, r)' <=> Owed(a, r)
    BY <1>1 DEF Owed
  <1>7. InOrder(a)'
    <2>1. ASSUME NEW i \in DOMAIN stack'[a], NEW j \in DOMAIN stack'[a], i < j,
                 stack'[a][i].op = "handle", stack'[a][j].op = "handle"
          PROVE  stack'[a][i].req < stack'[a][j].req
      <3>1. i \in DOMAIN st
        BY <1>4, <2>1
      <3>2. CASE j \in DOMAIN st
        BY <1>4, <2>1, <3>1, <3>2 DEF Holding, InOrder, st
      <3>3. CASE j = L + 1
        BY <1>1, <1>2, <1>3, <1>4, <2>1, <3>1, <3>3 DEF Holding, InOrder, st, q
      <3> QED BY <1>4, <3>2, <3>3
    <2>2. ASSUME NEW i \in DOMAIN stack'[a], NEW j \in DOMAIN reply_port'[a],
                 stack'[a][i].op = "handle", reply_port'[a][j].kind = "req"
          PROVE  stack'[a][i].req < reply_port'[a][j].req
      <3>1. CASE i \in DOMAIN st
        BY <1>2, <1>4, <2>2, <3>1 DEF Holding, InOrder, st, q
      <3>2. CASE i = L + 1
        BY <1>1, <1>2, <1>3, <1>4, <2>2, <3>2 DEF Holding, InOrder, q
      <3> QED BY <1>4, <3>1, <3>2
    <2>3. ASSUME NEW i \in DOMAIN reply_port'[a], NEW j \in DOMAIN reply_port'[a], i < j,
                 reply_port'[a][i].kind = "req", reply_port'[a][j].kind = "req"
          PROVE  reply_port'[a][i].req < reply_port'[a][j].req
      <3>1. i + 1 < j + 1
        BY <1>2, <2>3
      <3> QED BY <1>2, <2>3, <3>1 DEF Holding, InOrder, q
    <2> QED BY <2>1, <2>2, <2>3 DEF InOrder
  <1>8. Held(a)'
    <2>1. ASSUME NEW r, NEW i \in DOMAIN stack'[a], stack'[a][i].op = "handle", r = stack'[a][i].req
          PROVE  Owed(a, r)'
      <3>1. CASE i \in DOMAIN st
        BY <1>4, <1>6, <2>1, <3>1 DEF Holding, Held, st
      <3>2. CASE i = L + 1
        BY <1>3, <1>4, <1>5, <1>6, <2>1, <3>2
      <3> QED BY <1>4, <3>1, <3>2
    <2>2. ASSUME NEW r, NEW j \in DOMAIN reply_port'[a], reply_port'[a][j].kind = "req",
                 r = reply_port'[a][j].req
          PROVE  Owed(a, r)'
      BY <1>2, <1>6, <2>2 DEF Holding, Held, q
    <2> QED BY <2>1, <2>2 DEF Held, Owed
  <1>9. NoneGone(a, 0)
    <2> SUFFICES ASSUME NEW r, HoldsRequest(a, r) PROVE HoldsRequest(a, r)'
      BY DEF NoneGone
    <2>1. CASE \E i \in DOMAIN st : st[i] = Frame("handle", 0, r)
      BY <1>4, <2>1 DEF HoldsRequest
    <2>2. ASSUME NEW j \in DOMAIN q, q[j] = Request(r) PROVE HoldsRequest(a, r)'
      <3>1. CASE j = 1
        <4>1. m.req = r
          BY <1>2, <2>2, <3>1 DEF Request
        <4>2. L + 1 \in DOMAIN stack'[a] /\ stack'[a][L + 1] = Frame("handle", 0, r)
          BY <1>4, <4>1 DEF f
        <4> QED BY <4>2 DEF HoldsRequest
      <3>2. CASE j # 1
        <4>1. j - 1 \in DOMAIN reply_port'[a] /\ reply_port'[a][j - 1] = Request(r)
          BY <1>2, <2>2, <3>2
        <4> QED BY <4>1 DEF HoldsRequest
      <3> QED BY <3>1, <3>2
    <2> QED BY <2>1, <2>2 DEF HoldsRequest, st, q
  <1>10. Owed(a, 0) => FALSE
    <2>1. DOMAIN reqs = 1..Len(reqs) /\ Len(reqs) \in Nat
      BY DEF TypeOK
    <2> QED BY <2>1 DEF Owed
  <1>11. a \notin SendMemUsers => Keeps(a)'
    <2>1. SameDebts(a, 0)
      BY <1>6, <1>10 DEF SameDebts
    <2> QED BY <1>9, <2>1, KeepsKept DEF Holding
  <1> QED BY <1>7, <1>8, <1>11 DEF Holding

\* A message of the program's own goes back to the end of its port.
LEMMA RotatesHolding ==
  ASSUME TypeOK, TypeOK', NEW a \in Apps, Holding(a), Rotates(a)
  PROVE  Holding(a)'
  <1> DEFINE q == reply_port[a]
  <1>1. /\ q \in Seq(RequestMsg \cup ClientMsg) /\ q # <<>> /\ Head(q).kind # "req"
        /\ reply_port'[a] = Append(Tail(q), Head(q))
        /\ UNCHANGED <<reqs, stack>>
    BY DEF Rotates, TypeOK, dvars
  <1>2. /\ DOMAIN q = 1..Len(q) /\ Len(q) \in Nat /\ Len(q) # 0 /\ DOMAIN reply_port'[a] = 1..Len(q)
        /\ \A j \in 1..(Len(q) - 1) : reply_port'[a][j] = q[j + 1]
        /\ reply_port'[a][Len(q)] = Head(q) /\ q[1] = Head(q)
    BY <1>1
  <1> HIDE DEF q
  <1>3. NoneNew(a, 1)
    BY <1>1, <1>2 DEF NoneNew, q
  <1>4. NoneGone(a, 0)
    <2> SUFFICES ASSUME NEW r, HoldsRequest(a, r) PROVE HoldsRequest(a, r)'
      BY DEF NoneGone
    <2>1. CASE \E i \in DOMAIN stack[a] : stack[a][i] = Frame("handle", 0, r)
      BY <1>1, <2>1 DEF HoldsRequest
    <2>2. ASSUME NEW j \in DOMAIN q, q[j] = Request(r) PROVE HoldsRequest(a, r)'
      <3>1. j # 1
        BY <1>1, <1>2, <2>2 DEF Request
      <3>2. j - 1 \in DOMAIN reply_port'[a] /\ reply_port'[a][j - 1] = Request(r)
        BY <1>2, <2>2, <3>1
      <3> QED BY <3>2 DEF HoldsRequest
    <2> QED BY <2>1, <2>2 DEF HoldsRequest, q
  <1>5. \A r : Owed(a, r)' <=> Owed(a, r)
    BY <1>1 DEF Owed
  <1> QED BY <1>3, <1>4, <1>5, HoldingQuiet

\* A call that is no handler ends.
LEMMA EndsHolding ==
  ASSUME TypeOK, TypeOK', NEW a \in Apps, Holding(a), Ends(a)
  PROVE  Holding(a)'
  <1> DEFINE q == reply_port[a]
             st == stack[a]
             L == Len(st)
  <1>1. /\ st \in Seq(LibraryCall) /\ st # <<>> /\ st[L].op # "handle" /\ stack'[a] = Pop(st)
        /\ L \in Nat /\ DOMAIN st = 1..L
        /\ UNCHANGED reqs
    <2>1. st \in Seq(LibraryCall) /\ st # <<>> /\ Top(a).op # "handle" /\ stack'[a] = Pop(st)
          /\ UNCHANGED reqs
      BY DEF Ends, TypeOK, dvars
    <2> QED BY <2>1, TopFacts
  <1>2. /\ DOMAIN stack'[a] = 1..(L - 1) /\ \A i \in DOMAIN stack'[a] : i \in DOMAIN st /\ stack'[a][i] = st[i]
    <2>1. Pop(st) \in Seq(LibraryCall) /\ Len(Pop(st)) = L - 1
      BY <1>1, PopFacts
    <2>2. DOMAIN Pop(st) = 1..(L - 1)
      BY <2>1
    <2> QED BY <1>1, <2>2, PopFacts
  <1> HIDE DEF q, st
  <1>3. \A r : Owed(a, r)' <=> Owed(a, r)
    BY <1>1 DEF Owed
  <1>4. \A i \in DOMAIN st : st[i].op = "handle" => i \in DOMAIN stack'[a] /\ stack'[a][i] = st[i]
    BY <1>1, <1>2
  <1>5. q \in Seq(RequestMsg \cup ClientMsg) /\ DOMAIN q = 1..Len(q) /\ Len(q) \in Nat
    BY DEF TypeOK, q
  <1>6. \A r : Frame("handle", 0, r).op = "handle"
    BY DEF Frame
  <1>7. CASE reply_port' = reply_port
    <2>1. NoneNew(a, 0)
      BY <1>2, <1>5, <1>7 DEF NoneNew, q, st
    <2>2. NoneGone(a, 0)
      BY <1>4, <1>6, <1>7 DEF NoneGone, HoldsRequest, st
    <2> QED BY <1>3, <2>1, <2>2, HoldingQuiet
  <1>8. CASE /\ q # <<>> /\ reply_port' = [reply_port EXCEPT ![a] = Tail(@)]
             /\ Head(q).kind = "req" => a \in SendMemUsers
    <2>1. /\ reply_port'[a] = Tail(q) /\ DOMAIN reply_port'[a] = 1..(Len(q) - 1)
          /\ \A j \in DOMAIN reply_port'[a] : j + 1 \in DOMAIN q /\ reply_port'[a][j] = q[j + 1]
          /\ q[1] = Head(q)
      BY <1>5, <1>8 DEF TypeOK, q
    <2>2. NoneNew(a, 1)
      BY <1>2, <2>1 DEF NoneNew, q, st
    <2>3. ASSUME a \notin SendMemUsers PROVE NoneGone(a, 0)
      <3> SUFFICES ASSUME NEW r, HoldsRequest(a, r) PROVE HoldsRequest(a, r)'
        BY DEF NoneGone
      <3>1. CASE \E i \in DOMAIN st : st[i] = Frame("handle", 0, r)
        BY <1>4, <1>6, <3>1 DEF HoldsRequest
      <3>2. ASSUME NEW j \in DOMAIN q, q[j] = Request(r) PROVE HoldsRequest(a, r)'
        <4>1. j # 1
          BY <1>8, <2>1, <2>3, <3>2 DEF Request
        <4>2. j - 1 \in DOMAIN reply_port'[a] /\ reply_port'[a][j - 1] = Request(r)
          BY <1>5, <2>1, <3>2, <4>1
        <4> QED BY <4>2 DEF HoldsRequest
      <3> QED BY <3>1, <3>2 DEF HoldsRequest, q, st
    <2> QED BY <1>3, <2>2, <2>3, HoldingQuiet
  <1> QED BY <1>7, <1>8 DEF Ends, q

\* When a handler returns, its call ends, and perhaps the send_and_wait around it.
LEMMA DoneFacts ==
  ASSUME TypeOK, NEW a \in Apps, HandleDone(a)
  PROVE  LET L == Len(stack[a]) IN
         /\ L \in Nat /\ L # 0 /\ DOMAIN stack[a] = 1..L /\ stack[a][L].op = "handle"
         /\ stack[a][L].req = Top(a).req
         /\ \E n \in {L - 1, L - 2} :
               /\ n \in Nat /\ Len(stack'[a]) = n /\ DOMAIN stack'[a] = 1..n
               /\ \A i \in 1..n : stack'[a][i] = stack[a][i]
               /\ n = L - 2 => /\ stack[a][L - 1].op = "send"
                               /\ reqs[Top(a).req].kind = "shutdown" \/ app[a].conn # "up"
  <1> DEFINE L == Len(stack[a])
             st == Pop(stack[a])
             gone == reqs[Top(a).req].kind = "shutdown" \/ app[a].conn # "up"
             out == st # <<>> /\ st[Len(st)].op = "send" /\ gone
  <1>1. /\ stack[a] \in Seq(LibraryCall) /\ stack[a] # <<>> /\ Top(a).op = "handle"
        /\ stack \in [Apps -> Seq(LibraryCall)]
    BY DEF HandleDone, InCall, TypeOK
  <1>2. L \in Nat /\ L # 0 /\ DOMAIN stack[a] = 1..L /\ stack[a][L] = Top(a)
    BY <1>1 DEF Top
  <1>3. /\ st \in Seq(LibraryCall) /\ Len(st) = L - 1 /\ DOMAIN st = 1..(L - 1)
        /\ \A i \in 1..(L - 1) : st[i] = stack[a][i]
    <2>1. st \in Seq(LibraryCall) /\ Len(st) = L - 1 /\ \A i \in DOMAIN st : st[i] = stack[a][i]
      BY <1>1, PopFacts
    <2>2. DOMAIN st = 1..Len(st)
      BY <2>1
    <2> QED BY <2>1, <2>2
  <1>4. stack'[a] = IF out THEN Pop(st) ELSE st
    BY <1>1 DEF HandleDone
  <1> HIDE DEF st
  <1>5. CASE out
    <2>1. Pop(st) \in Seq(LibraryCall) /\ Len(Pop(st)) = L - 2 /\ \A i \in DOMAIN Pop(st) : Pop(st)[i] = st[i]
      BY <1>2, <1>3, <1>5, PopFacts
    <2>2. DOMAIN Pop(st) = 1..(L - 2) /\ L - 2 \in Nat
      BY <2>1
    <2>3. \A i \in 1..(L - 2) : i \in 1..(L - 1)
      BY <1>2
    <2>4. stack[a][L - 1].op = "send"
      BY <1>2, <1>3, <1>5, <2>2
    <2> QED BY <1>1, <1>2, <1>3, <1>4, <1>5, <2>1, <2>2, <2>3, <2>4
  <1>6. CASE ~out
    <2>1. stack'[a] = st /\ L - 1 \in Nat /\ L - 1 # L - 2
      BY <1>2, <1>4, <1>6
    <2> QED BY <1>1, <1>2, <1>3, <2>1
  <1> QED BY <1>5, <1>6

LEMMA ReturnDebts ==
  ASSUME TypeOK, NEW r \in DOMAIN reqs, ReturnRequest(r), NEW a \in Apps
  PROVE  SameDebts(a, r)
  <1>1. /\ DOMAIN reqs' = DOMAIN reqs
        /\ \A q \in DOMAIN reqs : reqs'[q].to = reqs[q].to /\ reqs'[q].back = (reqs[q].back \/ q = r)
    BY ReturnFacts
  <1> QED BY <1>1 DEF SameDebts, Owed

LEMMA DoneHolding ==
  ASSUME TypeOK, TypeOK', NEW a \in Apps, Holding(a), HandleDone(a)
  PROVE  Holding(a)'
  <1> DEFINE L == Len(stack[a])
  <1>0. PICK r : r = Top(a).req
    OBVIOUS
  <1>1. PICK n \in {L - 1, L - 2} :
               /\ n \in Nat /\ DOMAIN stack'[a] = 1..n
               /\ \A i \in 1..n : stack'[a][i] = stack[a][i]
               /\ n = L - 2 => stack[a][L - 1].op = "send"
    BY DoneFacts
  <1>2. /\ L \in Nat /\ L # 0 /\ DOMAIN stack[a] = 1..L /\ stack[a][L].op = "handle" /\ stack[a][L].req = r
        /\ reply_port' = reply_port /\ ReturnRequest(r)
    BY <1>0, DoneFacts DEF HandleDone
  <1>3. DOMAIN reply_port[a] = 1..Len(reply_port[a]) /\ Len(reply_port[a]) \in Nat
    BY DEF TypeOK
  <1> HIDE DEF L
  <1>4. Owed(a, r)
    BY <1>2 DEF Holding, Held
  <1>5. \A q : Owed(a, q) => q \in Nat
    <2>1. DOMAIN reqs \subseteq Nat
      BY DEF TypeOK
    <2> QED BY <2>1 DEF Owed
  <1>6. SameDebts(a, r)
    BY <1>2, <1>4, ReturnDebts DEF Owed
  <1>7. NoneNew(a, 0)
    <2>1. \A i \in 1..n : i \in DOMAIN stack[a]
      BY <1>1, <1>2
    <2>2. \A j \in DOMAIN reply_port[a] : j + 0 = j
      BY <1>3
    <2> QED BY <1>1, <1>2, <2>1, <2>2 DEF NoneNew
  <1>8. Dropped(a, r)
    <2>1. ASSUME NEW i \in DOMAIN stack'[a], stack'[a][i].op = "handle" PROVE stack'[a][i].req # r
      <3>1. i \in DOMAIN stack[a] /\ i < L /\ L \in DOMAIN stack[a] /\ stack'[a][i] = stack[a][i]
        BY <1>1, <1>2, <2>1
      <3>2. stack[a][i].req < stack[a][L].req /\ Owed(a, stack[a][i].req)
        BY <1>2, <2>1, <3>1 DEF Holding, InOrder, Held
      <3> QED BY <1>2, <1>4, <1>5, <3>1, <3>2
    <2>2. ASSUME NEW j \in DOMAIN reply_port[a], reply_port[a][j].kind = "req"
          PROVE  reply_port[a][j].req # r
      <3>1. L \in DOMAIN stack[a]
        BY <1>2
      <3>2. stack[a][L].req < reply_port[a][j].req /\ Owed(a, reply_port[a][j].req)
        BY <1>2, <2>2, <3>1 DEF Holding, InOrder, Held
      <3> QED BY <1>2, <1>4, <1>5, <3>2
    <2> QED BY <1>2, <2>1, <2>2 DEF Dropped
  <1>9. NoneGone(a, r)
    <2> SUFFICES ASSUME NEW q, HoldsRequest(a, q), q # r PROVE HoldsRequest(a, q)'
      BY DEF NoneGone
    <2>1. ASSUME NEW i \in DOMAIN stack[a], stack[a][i] = Frame("handle", 0, q) PROVE HoldsRequest(a, q)'
      <3>1. stack[a][i].op = "handle" /\ stack[a][i].req = q
        BY <2>1 DEF Frame
      <3>2. i # L
        BY <1>2, <3>1
      <3>3. n = L - 2 => i # L - 1
        BY <1>1, <3>1
      <3>4. i \in 1..n
        BY <1>1, <1>2, <3>2, <3>3
      <3> QED BY <1>1, <2>1, <3>4 DEF HoldsRequest
    <2> QED BY <1>2, <2>1 DEF HoldsRequest
  <1> QED BY <1>6, <1>7, <1>8, <1>9, HoldingKept

\* ab_cleanup replies to a request that waits.
LEMMA DismissHolding ==
  ASSUME TypeOK, TypeOK', NEW a \in Apps, Holding(a), Dismisses(a)
  PROVE  Holding(a)'
  <1> DEFINE q == reply_port[a]
  <1>0. PICK r : r = Head(q).req
    OBVIOUS
  <1>1. /\ q \in Seq(RequestMsg \cup ClientMsg) /\ q # <<>> /\ Head(q).kind = "req"
        /\ reply_port'[a] = Tail(q) /\ stack' = stack /\ ReturnRequest(r)
    BY <1>0 DEF Dismisses, TypeOK
  <1>2. /\ DOMAIN q = 1..Len(q) /\ Len(q) \in Nat /\ 1 \in DOMAIN q /\ q[1] = Head(q)
        /\ DOMAIN reply_port'[a] = 1..(Len(q) - 1)
        /\ \A j \in DOMAIN reply_port'[a] : j + 1 \in DOMAIN q /\ 1 < j + 1 /\ reply_port'[a][j] = q[j + 1]
    BY <1>1
  <1> HIDE DEF q
  <1>3. Owed(a, r) /\ q[1].req = r /\ q[1].kind = "req"
    BY <1>0, <1>1, <1>2 DEF Holding, Held, q
  <1>4. \A p : Owed(a, p) => p \in Nat
    <2>1. DOMAIN reqs \subseteq Nat
      BY DEF TypeOK
    <2> QED BY <2>1 DEF Owed
  <1>5. SameDebts(a, r)
    BY <1>1, <1>3, ReturnDebts DEF Owed
  <1>6. NoneNew(a, 1)
    BY <1>1, <1>2 DEF NoneNew, q
  <1>7. Dropped(a, r)
    <2>1. ASSUME NEW i \in DOMAIN stack[a], stack[a][i].op = "handle" PROVE stack[a][i].req # r
      <3>1. stack[a][i].req < q[1].req /\ Owed(a, stack[a][i].req)
        BY <1>2, <1>3, <2>1 DEF Holding, InOrder, Held, q
      <3> QED BY <1>3, <1>4, <3>1
    <2>2. ASSUME NEW j \in DOMAIN reply_port'[a], reply_port'[a][j].kind = "req"
          PROVE  reply_port'[a][j].req # r
      <3>1. q[1].req < q[j + 1].req /\ Owed(a, q[j + 1].req)
        BY <1>2, <1>3, <2>2 DEF Holding, InOrder, Held, q
      <3> QED BY <1>2, <1>3, <1>4, <2>2, <3>1
    <2> QED BY <1>1, <2>1, <2>2 DEF Dropped
  <1>8. NoneGone(a, r)
    <2> SUFFICES ASSUME NEW p, HoldsRequest(a, p), p # r PROVE HoldsRequest(a, p)'
      BY DEF NoneGone
    <2>1. CASE \E i \in DOMAIN stack[a] : stack[a][i] = Frame("handle", 0, p)
      BY <1>1, <2>1 DEF HoldsRequest
    <2>2. ASSUME NEW j \in DOMAIN q, q[j] = Request(p) PROVE HoldsRequest(a, p)'
      <3>1. j # 1
        BY <1>3, <2>2 DEF Request
      <3>2. j - 1 \in DOMAIN reply_port'[a] /\ reply_port'[a][j - 1] = Request(p)
        BY <1>2, <2>2, <3>1
      <3> QED BY <3>2 DEF HoldsRequest
    <2> QED BY <2>1, <2>2 DEF HoldsRequest, q
  <1> QED BY <1>5, <1>6, <1>7, <1>8, HoldingKept

\* A call begins.
LEMMA CallsHolding ==
  ASSUME TypeOK, TypeOK', NEW a \in Apps, Holding(a), Puts(a) \/ ab_poll(a)
  PROVE  Holding(a)'
  <1>1. reply_port' = reply_port /\ reqs' = reqs
    BY DEF Puts, Put, ab_poll, dvars
  <1>2. DOMAIN reply_port[a] = 1..Len(reply_port[a]) /\ Len(reply_port[a]) \in Nat
    BY DEF TypeOK
  <1>3. /\ \A i \in DOMAIN stack'[a] : stack'[a][i].op = "handle" =>
              i \in DOMAIN stack[a] /\ stack'[a][i] = stack[a][i]
        /\ \A i \in DOMAIN stack[a] : i \in DOMAIN stack'[a] /\ stack'[a][i] = stack[a][i]
    <2>0. stack \in [Apps -> Seq(LibraryCall)] /\ \A op, k, r : Frame(op, k, r).op = op
      BY DEF TypeOK, Frame
    <2>1. CASE ab_poll(a)
      <3>1. stack[a] = <<>> /\ stack'[a] = <<Frame("poll", 0, 0)>>
        BY <2>0, <2>1 DEF ab_poll
      <3> QED BY <2>0, <3>1
    <2>2. CASE Puts(a)
      <3>1. PICK k \in 1..MSG_POOL_SIZE, type \in {"REGISTER", "UNREGISTER", "DATA"},
                 op \in {"send", "sendmem"} : Put(a, k, type, op)
        BY <2>2 DEF Puts
      <3>2. CASE type = "UNREGISTER"
        <4>1. stack[a] = <<>> /\ stack'[a] = <<Frame("cleanup", k, 0), Frame("send", k, 0)>>
          BY <2>0, <3>1, <3>2 DEF Put
        <4>2. \A i \in DOMAIN stack'[a] : stack'[a][i].op # "handle"
          BY <2>0, <4>1
        <4> QED BY <4>1, <4>2
      <3>3. CASE type # "UNREGISTER"
        <4>1. stack'[a] = Append(stack[a], Frame(op, k, 0)) /\ stack[a] \in Seq(LibraryCall)
              /\ Frame(op, k, 0).op # "handle"
          BY <2>0, <3>1, <3>3 DEF Put
        <4> HIDE DEF Frame
        <4> QED BY <4>1
      <3> QED BY <3>2, <3>3
    <2> QED BY <2>1, <2>2
  <1>4. NoneNew(a, 0)
    BY <1>1, <1>2, <1>3 DEF NoneNew
  <1>5. NoneGone(a, 0)
    BY <1>1, <1>3 DEF NoneGone, HoldsRequest
  <1> QED BY <1>1, <1>4, <1>5, HoldingQuiet DEF Owed

LEMMA HoldingApp ==
  ASSUME TypeOK, TypeOK', NEW a \in Apps, NEW b \in Apps, Holding(a), Holding(b), Frames(b), Opening(b),
         Calls(b) \/ AppStep(b)
  PROVE  Holding(a)'
  <1>1. CASE b = a
    BY <1>1, AppCases, CallsHolding, EndsHolding, HandlesHolding, RotatesHolding, DoneHolding,
       DismissHolding
  <1>2. CASE b # a
    <2>1. stack'[a] = stack[a] /\ reply_port'[a] = reply_port[a]
      BY <1>2, OthersKept
    <2>2. \A q : Owed(a, q)' <=> Owed(a, q)
      <3>1. CASE UNCHANGED reqs
        BY <3>1 DEF Owed
      <3>2. ASSUME NEW r, Owed(b, r), ReturnRequest(r) PROVE \A q : Owed(a, q)' <=> Owed(a, q)
        <4>1. SameDebts(a, r) /\ ~Owed(a, r)
          BY <1>2, <3>2, ReturnDebts DEF Owed
        <4> QED BY <4>1 DEF SameDebts
      <3>3. CASE HandleDone(b)
        <4>1. Owed(b, Top(b).req) /\ ReturnRequest(Top(b).req)
          BY <3>3, TopFacts DEF HandleDone, InCall, Holding, Held
        <4>2. \E r : Owed(b, r) /\ ReturnRequest(r)
          BY <4>1
        <4> QED BY <3>2, <4>2
      <3>4. CASE Dismisses(b)
        <4>1. Owed(b, Head(reply_port[b]).req) /\ ReturnRequest(Head(reply_port[b]).req)
          BY <3>4, TakenType DEF Dismisses, Holding, Held
        <4>2. \E r : Owed(b, r) /\ ReturnRequest(r)
          BY <4>1
        <4> QED BY <3>2, <4>2
      <3>5. CASE Puts(b) \/ ab_poll(b) \/ Ends(b) \/ Handles(b) \/ Rotates(b)
        <4>1. UNCHANGED reqs
          BY <3>5 DEF Puts, Put, ab_poll, Ends, Handles, Rotates, dvars
        <4> QED BY <3>1, <4>1
      <3> QED BY <3>3, <3>4, <3>5, AppCases
    <2> QED BY <2>1, <2>2, HoldingAlone
  <1> QED BY <1>1, <1>2

LEMMA HoldingDaemon ==
  ASSUME TypeOK, TypeOK', Entries, Awaited, NEW a \in Apps, Holding(a), DaemonStep \/ HostStep
  PROVE  Holding(a)'
  <1>1. CASE Control
    <2>1. stack'[a] = stack[a] /\ reply_port'[a] = reply_port[a] /\ SameRequests
      BY <1>1 DEF Control, cvars
    <2>2. \A q : Owed(a, q)' <=> Owed(a, q)
      BY <2>1 DEF SameRequests, Owed
    <2> QED BY <2>1, <2>2, HoldingAlone
  <1>2. CASE Answers
    BY <1>2, AnswerHolding
  <1>3. CASE Sends
    <2>1. PICK kind \in AllKinds, s \in Active, ci \in 0..(AB_MAX_CLIENTS + 1) :
              SendRequest(kind, clients[s].port, ci)
      BY <1>3 DEF Sends
    <2>2. clients[s].port \in Apps
      BY TargetType
    <2> QED BY <2>1, <2>2, SendHolding
  <1> QED BY <1>1, <1>2, <1>3, SendCalls, AnswerCalls, ControlCalls DEF DaemonStep, HostStep

-------------------------------------------------------------------------------
(* The daemon's requests: the wait, the pool of messages, the hook's ports.   *)

LEMMA AwaitedDaemon ==
  ASSUME TypeOK, Awaited, DaemonStep \/ HostStep
  PROVE  Awaited'
  <1>0. Len(reqs) \in Nat
    BY DEF TypeOK
  <1>1. CASE ipc_process \/ IpcDrain
    BY <1>1 DEF ipc_process, IpcDrain, Awaited, dvars
  <1>2. CASE Sends
    <2>1. PICK kind \in AllKinds, s \in Active, ci \in 0..(AB_MAX_CLIENTS + 1) :
              SendRequest(kind, clients[s].port, ci)
      BY <1>2 DEF Sends
    <2>2. /\ reqs' = Append(reqs, [kind |-> kind, to |-> clients[s].port, port |-> "open", back |-> FALSE])
          /\ Len(reqs) + 1 <= MaxReqs /\ daemon'.pc = "wait" /\ daemon'.req = Len(reqs) + 1
      BY <2>1 DEF SendRequest
    <2>3. Len(reqs') = Len(reqs) + 1 /\ reqs' # <<>>
      <3>1. reqs \in Seq(Sent)
        BY DEF TypeOK
      <3> QED BY <2>2, <3>1
    <2> QED BY <2>2, <2>3 DEF Awaited
  <1>3. CASE WaitReply \/ WaitTimeout
    <2>1. SameRequests /\ daemon'.pc # "wait"
      BY <1>3, ControlCalls DEF Control
    <2>2. daemon'.pc = "loop" => daemon'.ci = 0
      BY <1>3 DEF WaitReply, WaitTimeout, AfterWait
    <2> QED BY <2>1, <2>2 DEF Awaited, SameRequests
  <1>4. CASE NotifySkip \/ IpcRemPort \/ IpcClose \/ Shutdown
    <2>1. daemon'.pc \notin {"wait", "loop"} /\ reqs' = reqs
      BY <1>4 DEF NotifySkip, IpcRemPort, IpcClose, Shutdown, TypeOK
    <2> QED BY <2>1 DEF Awaited
  <1> QED BY <1>1, <1>2, <1>3, <1>4, SendCalls DEF DaemonStep, HostStep

\* A program's step at most returns a request that it owes.
LEMMA AppRequests ==
  ASSUME TypeOK, NEW a \in Apps, Holding(a), Frames(a), Opening(a), Calls(a) \/ AppStep(a)
  PROVE  /\ daemon' = daemon /\ msg_pool_used' = msg_pool_used
         /\ \/ UNCHANGED reqs /\ stray' \subseteq stray \cup {"ipc_port"}
            \/ \E r : Owed(a, r) /\ ReturnRequest(r)
  <1>1. CASE HandleDone(a)
    <2>1. Owed(a, Top(a).req) /\ ReturnRequest(Top(a).req)
      BY <1>1, TopFacts DEF HandleDone, InCall, Holding, Held
    <2>2. \E r : Owed(a, r) /\ ReturnRequest(r)
      BY <2>1
    <2> QED BY <1>1, <2>2 DEF HandleDone
  <1>2. CASE Dismisses(a)
    <2>1. Owed(a, Head(reply_port[a]).req) /\ ReturnRequest(Head(reply_port[a]).req)
      BY <1>2, TakenType DEF Dismisses, Holding, Held
    <2>2. \E r : Owed(a, r) /\ ReturnRequest(r)
      BY <2>1
    <2> QED BY <1>2, <2>2 DEF Dismisses
  <1>3. CASE Puts(a) \/ ab_poll(a) \/ Ends(a) \/ Handles(a) \/ Rotates(a)
    BY <1>3 DEF Puts, Put, ab_poll, Ends, Handles, Rotates, dvars
  <1> QED BY <1>1, <1>2, <1>3, AppCases

LEMMA AwaitedApp ==
  ASSUME TypeOK, Awaited, daemon' = daemon,
         UNCHANGED reqs \/ \E r \in DOMAIN reqs : ReturnRequest(r)
  PROVE  Awaited'
  <1>1. Len(reqs') = Len(reqs) /\ (reqs # <<>> => reqs' # <<>>)
    <2>1. CASE UNCHANGED reqs
      BY <2>1
    <2>2. ASSUME NEW r \in DOMAIN reqs, ReturnRequest(r) PROVE Len(reqs') = Len(reqs) /\ reqs' # <<>>
      <3>1. Len(reqs') = Len(reqs) /\ DOMAIN reqs' = DOMAIN reqs
        BY <2>2, ReturnFacts
      <3> QED BY <3>1
    <2> QED BY <2>1, <2>2
  <1> QED BY <1>1 DEF Awaited

\* The pool's counter covers what is lent when nothing more is lent.
LEMMA PoolKept ==
  ASSUME TypeOK, Pool, Lent' \subseteq Lent, msg_pool_used' = msg_pool_used
  PROVE  Pool'
  <1>1. IsFiniteSet(Lent) /\ Cardinality(Lent) \in Nat /\ msg_pool_used \in Nat
    BY LentFinite DEF TypeOK
  <1>2. Cardinality(Lent') <= Cardinality(Lent) /\ Cardinality(Lent') \in Nat
    BY <1>1, FS_Subset, FS_CardinalityType
  <1> QED BY <1>1, <1>2 DEF Pool

LEMMA PoolDaemon ==
  ASSUME TypeOK, Entries, Awaited, Pool, DaemonStep \/ HostStep
  PROVE  Pool'
  <1>0. IsFiniteSet(Lent) /\ Cardinality(Lent) \in Nat /\ msg_pool_used \in Nat
    BY LentFinite DEF TypeOK
  <1>1. CASE ipc_process \/ IpcDrain
    <2>1. UNCHANGED <<msg_pool_used, daemon, reqs>>
      BY <1>1 DEF ipc_process, IpcDrain, dvars
    <2> QED BY <2>1 DEF Pool, Lent
  <1>2. CASE Sends
    <2>1. PICK kind \in AllKinds, s \in Active, ci \in 0..(AB_MAX_CLIENTS + 1) :
              /\ SendRequest(kind, clients[s].port, ci)
              /\ daemon.pc = IF ci = 0 THEN "loop" ELSE "notify"
      BY <1>2 DEF Sends
    <2> DEFINE n == Len(reqs) + 1
    <2>2. /\ Len(reqs) \in Nat /\ DOMAIN reqs = 1..Len(reqs) /\ DOMAIN reqs' = 1..n
          /\ \A r \in DOMAIN reqs : reqs'[r] = reqs[r]
          /\ reqs'[n] = [kind |-> kind, to |-> clients[s].port, port |-> "open", back |-> FALSE]
      BY <2>1, SendFacts, TargetType
    <2>3. daemon'.req = n /\ msg_pool_used' = msg_pool_used + (IF Pooled(kind) THEN 1 ELSE 0)
      BY <2>1 DEF SendRequest
    <2> HIDE DEF n
    <2>4. \A r \in Lent' : r \in Lent \/ (r = n /\ Pooled(kind))
      <3> SUFFICES ASSUME NEW r \in Lent' PROVE r \in Lent \/ (r = n /\ Pooled(kind))
        OBVIOUS
      <3>1. CASE r \in DOMAIN reqs
        BY <2>2, <2>3, <3>1 DEF Lent, n
      <3>2. CASE r = n
        BY <2>2, <3>2 DEF Lent
      <3> QED BY <2>2, <3>1, <3>2 DEF Lent, n
    <2>5. CASE Pooled(kind)
      <3>1. Lent' \subseteq Lent \cup {n}
        BY <2>4
      <3>2. IsFiniteSet(Lent \cup {n}) /\ Cardinality(Lent \cup {n}) <= Cardinality(Lent) + 1
            /\ Cardinality(Lent \cup {n}) \in Nat
        <4>1. /\ IsFiniteSet(Lent \cup {n})
              /\ \/ Cardinality(Lent \cup {n}) = Cardinality(Lent)
                 \/ Cardinality(Lent \cup {n}) = Cardinality(Lent) + 1
          BY <1>0, FS_AddElement, Zenon
        <4> QED BY <1>0, <4>1
      <3>3. Cardinality(Lent') <= Cardinality(Lent \cup {n}) /\ Cardinality(Lent') \in Nat
        BY <3>1, <3>2, FS_Subset, FS_CardinalityType
      <3> QED BY <1>0, <2>3, <2>5, <3>2, <3>3 DEF Pool
    <2>6. CASE ~Pooled(kind)
      <3>1. Lent' \subseteq Lent /\ msg_pool_used' = msg_pool_used
        BY <1>0, <2>3, <2>4, <2>6
      <3> QED BY <3>1, PoolKept
    <2> QED BY <2>5, <2>6
  <1>3. CASE WaitReply
    <2>0. /\ Control /\ daemon.pc = "wait" /\ reqs[daemon.req].back
          /\ msg_pool_used' = msg_pool_used - (IF Pooled(reqs[daemon.req].kind) THEN 1 ELSE 0)
      BY <1>3, ControlCalls DEF WaitReply
    <2>1. daemon.req \in DOMAIN reqs
      BY <2>0, AwaitedExists
    <2>2. Lent' \subseteq Lent /\ daemon.req \notin Lent'
      BY <2>0, <2>1 DEF Control, SameRequests, Lent
    <2>3. CASE Pooled(reqs[daemon.req].kind)
      <3>1. daemon.req \in Lent
        BY <2>0, <2>1, <2>3 DEF Lent
      <3>2. /\ IsFiniteSet(Lent \ {daemon.req}) /\ Cardinality(Lent \ {daemon.req}) = Cardinality(Lent) - 1
        BY <1>0, <3>1, FS_RemoveElement
      <3>3. Lent' \subseteq Lent \ {daemon.req}
        BY <2>2
      <3>4. Cardinality(Lent') <= Cardinality(Lent) - 1 /\ Cardinality(Lent') \in Nat
        BY <3>2, <3>3, FS_Subset, FS_CardinalityType
      <3> QED BY <1>0, <2>0, <2>3, <3>4 DEF Pool
    <2>4. CASE ~Pooled(reqs[daemon.req].kind)
      <3>1. msg_pool_used' = msg_pool_used
        BY <1>0, <2>0, <2>4
      <3> QED BY <2>2, <3>1, PoolKept
    <2> QED BY <2>3, <2>4
  <1>4. CASE WaitTimeout \/ NotifySkip \/ IpcRemPort \/ IpcClose \/ Shutdown
    <2>1. Control /\ msg_pool_used' = msg_pool_used
      BY <1>4, ControlCalls DEF WaitTimeout, NotifySkip, IpcRemPort, IpcClose, Shutdown
    <2>2. Lent' \subseteq Lent
      BY <2>1 DEF Control, SameRequests, Lent
    <2> QED BY <2>1, <2>2, PoolKept
  <1> QED BY <1>1, <1>2, <1>3, <1>4, SendCalls DEF DaemonStep, HostStep

LEMMA PoolApp ==
  ASSUME TypeOK, Pool, daemon' = daemon, msg_pool_used' = msg_pool_used,
         UNCHANGED reqs \/ \E r \in DOMAIN reqs : ReturnRequest(r)
  PROVE  Pool'
  <1>1. Lent' \subseteq Lent
    <2>1. CASE UNCHANGED reqs
      BY <2>1 DEF Lent
    <2>2. ASSUME NEW r \in DOMAIN reqs, ReturnRequest(r) PROVE Lent' \subseteq Lent
      <3>1. /\ DOMAIN reqs' = DOMAIN reqs
            /\ \A q \in DOMAIN reqs : reqs'[q].kind = reqs[q].kind /\ reqs'[q].back = (reqs[q].back \/ q = r)
        BY <2>2, ReturnFacts
      <3> QED BY <3>1 DEF Lent
    <2> QED BY <2>1, <2>2
  <1> QED BY <1>1, PoolKept

LEMMA HookPortsDaemon ==
  ASSUME TypeOK, Entries, Awaited, HookPorts, HookRepliesReachLivePorts, DaemonStep \/ HostStep
  PROVE  HookPorts' /\ HookRepliesReachLivePorts'
  <1>1. CASE ipc_process \/ IpcDrain
    <2>1. UNCHANGED reqs /\ \E m : DaemonReply(m)
      BY <1>1 DEF ipc_process, IpcDrain, dvars
    <2>2. stray' \subseteq stray \cup {"reply_port"}
      BY <2>1 DEF DaemonReply
    <2> QED BY <2>1, <2>2 DEF HookPorts, HookRepliesReachLivePorts
  <1>2. CASE Sends
    <2>1. PICK kind \in AllKinds, s \in Active, ci \in 0..(AB_MAX_CLIENTS + 1) :
              SendRequest(kind, clients[s].port, ci)
      BY <1>2 DEF Sends
    <2>a. clients[s].port \in Apps
      BY TargetType
    <2>2. /\ DOMAIN reqs = 1..Len(reqs) /\ DOMAIN reqs' = 1..(Len(reqs) + 1) /\ Len(reqs) \in Nat
          /\ \A r \in DOMAIN reqs : reqs'[r] = reqs[r]
          /\ reqs'[Len(reqs) + 1] = [kind |-> kind, to |-> clients[s].port, port |-> "open", back |-> FALSE]
      BY <2>1, <2>a, SendFacts
    <2>b. reqs'[Len(reqs) + 1].port = "open"
      BY <2>2
    <2>3. stray' \subseteq stray \cup {"reply_port"}
      BY <2>1 DEF SendRequest
    <2> QED BY <2>2, <2>b, <2>3 DEF HookPorts, HookRepliesReachLivePorts
  <1>3. CASE WaitReply \/ WaitTimeout
    <2> DEFINE r == daemon.req
    <2>1. r \in DOMAIN reqs /\ reqs \in Seq(Sent) /\ reqs[r] \in Sent /\ Control
      BY <1>3, AwaitedExists, ControlCalls DEF WaitReply, WaitTimeout, TypeOK
    <2>2. PICK p : /\ reqs' = [reqs EXCEPT ![r].port = p]
                   /\ reqs[r].back \/ p = PortAfterTimeout(reqs[r].kind)
      BY <1>3 DEF WaitReply, WaitTimeout
    <2>3. \A q \in DOMAIN reqs : reqs'[q].port = IF q = r THEN p ELSE reqs[q].port
      BY <2>1, <2>2 DEF Sent
    <2>4. reqs[r].kind = "hook" /\ p = "deleted" => reqs[r].back
      BY <2>2 DEF PortAfterTimeout
    <2> QED BY <2>1, <2>3, <2>4 DEF Control, SameRequests, HookPorts, HookRepliesReachLivePorts
  <1>4. CASE NotifySkip \/ IpcRemPort \/ IpcClose \/ Shutdown
    <2>1. UNCHANGED <<reqs, stray>>
      BY <1>4 DEF NotifySkip, IpcRemPort, IpcClose, Shutdown
    <2> QED BY <2>1 DEF HookPorts, HookRepliesReachLivePorts
  <1> QED BY <1>1, <1>2, <1>3, <1>4, SendCalls DEF DaemonStep, HostStep

LEMMA HookPortsApp ==
  ASSUME TypeOK, NEW a \in Apps, HookPorts, HookRepliesReachLivePorts,
         \/ UNCHANGED reqs /\ stray' \subseteq stray \cup {"ipc_port"}
         \/ \E r : Owed(a, r) /\ ReturnRequest(r)
  PROVE  HookPorts' /\ HookRepliesReachLivePorts'
  <1>1. CASE UNCHANGED reqs /\ stray' \subseteq stray \cup {"ipc_port"}
    BY <1>1 DEF HookPorts, HookRepliesReachLivePorts
  <1>2. ASSUME NEW r, Owed(a, r), ReturnRequest(r)
        PROVE  HookPorts' /\ HookRepliesReachLivePorts'
    <2>1. /\ DOMAIN reqs' = DOMAIN reqs /\ r \in DOMAIN reqs
          /\ \A q \in DOMAIN reqs : /\ reqs'[q].kind = reqs[q].kind /\ reqs'[q].port = reqs[q].port
                                    /\ reqs'[q].back = (reqs[q].back \/ q = r)
      BY <1>2, ReturnFacts DEF Owed
    <2>2. reqs[r].port = "deleted" => reqs[r].kind # "hook"
      BY <1>2 DEF Owed, HookPorts
    <2>3. HookRepliesReachLivePorts'
      BY <1>2, <2>2 DEF ReturnRequest, HookRepliesReachLivePorts
    <2> QED BY <2>1, <2>3 DEF HookPorts
  <1> QED BY <1>1, <1>2

-------------------------------------------------------------------------------
(* The calls that a program is in.                                            *)

\* The calls are what they were, but for the innermost.
Prefix(a) ==
    /\ Len(stack[a]) \in Nat /\ Len(stack'[a]) \in 0..Len(stack[a])
    /\ DOMAIN stack[a] = 1..Len(stack[a]) /\ DOMAIN stack'[a] = 1..Len(stack'[a])
    /\ \A i \in 1..Len(stack'[a]) : stack'[a][i] = stack[a][i]

LEMMA PrefixFacts ==
  ASSUME TypeOK, NEW a \in Apps, Ends(a) \/ HandleDone(a) \/ stack'[a] = stack[a]
  PROVE  Prefix(a)
  <1>1. CASE Ends(a)
    <2>1. stack[a] \in Seq(LibraryCall) /\ stack[a] # <<>> /\ stack'[a] = Pop(stack[a])
      BY <1>1 DEF Ends, TypeOK
    <2>2. /\ Pop(stack[a]) \in Seq(LibraryCall) /\ Len(Pop(stack[a])) = Len(stack[a]) - 1
          /\ \A i \in DOMAIN Pop(stack[a]) : Pop(stack[a])[i] = stack[a][i]
      BY <2>1, PopFacts
    <2>3. /\ Len(stack[a]) \in Nat /\ Len(stack[a]) # 0 /\ DOMAIN stack[a] = 1..Len(stack[a])
          /\ DOMAIN Pop(stack[a]) = 1..Len(Pop(stack[a]))
      BY <2>1, <2>2
    <2> QED BY <2>1, <2>2, <2>3 DEF Prefix
  <1>2. CASE HandleDone(a)
    <2> DEFINE L == Len(stack[a])
    <2>1. /\ L \in Nat /\ L # 0 /\ DOMAIN stack[a] = 1..L
          /\ \E n \in {L - 1, L - 2} :
               /\ n \in Nat /\ Len(stack'[a]) = n /\ DOMAIN stack'[a] = 1..n
               /\ \A i \in 1..n : stack'[a][i] = stack[a][i]
      BY <1>2, DoneFacts
    <2> QED BY <2>1 DEF Prefix
  <1>3. CASE stack'[a] = stack[a]
    <2>1. DOMAIN stack[a] = 1..Len(stack[a]) /\ Len(stack[a]) \in Nat
      BY DEF TypeOK
    <2> QED BY <1>3, <2>1 DEF Prefix
  <1> QED BY <1>1, <1>2, <1>3

LEMMA FramesPrefix ==
  ASSUME NEW a \in Apps, Frames(a), Prefix(a),
         app'[a].conn \in {"new", "gone"} => stack'[a] = <<>>,
         a \in open' <=> app'[a].conn \in {"init", "up", "off"}
  PROVE  Frames(a)'
  <1>1. ASSUME NEW i \in DOMAIN stack'[a]
        PROVE  /\ i \in DOMAIN stack[a] /\ stack'[a][i] = stack[a][i]
               /\ 1 \in DOMAIN stack[a] /\ stack'[a][1] = stack[a][1]
    BY <1>1 DEF Prefix
  <1>2. ASSUME NEW i \in DOMAIN stack'[a]
        PROVE  /\ stack'[a][i].op \in {"poll", "cleanup"} => i = 1
               /\ stack'[a][i].op \in {"send", "sendmem"} => stack'[a][i].slot \in 1..MSG_POOL_SIZE
               /\ stack'[a][i].op = "handle" => stack'[a][i].slot = 0
               /\ stack'[a][i].op # "handle" => stack'[a][i].req = 0
               /\ stack'[a][i].op = "sendmem" => a \in SendMemUsers
               /\ i = 2 /\ stack'[a][1].op = "cleanup" => stack'[a][2].op = "send"
    BY <1>1 DEF Frames
  <1> QED BY <1>2 DEF Frames

\* A call is begun within the others.
LEMMA FramesPush ==
  ASSUME TypeOK, NEW a \in Apps, Frames(a), NEW f \in LibraryCall, stack'[a] = Append(stack[a], f),
         f.op \in {"poll", "cleanup"} => stack[a] = <<>>,
         f.op \in {"send", "sendmem"} => f.slot \in 1..MSG_POOL_SIZE,
         f.op = "handle" => f.slot = 0, f.op # "handle" => f.req = 0,
         f.op = "sendmem" => a \in SendMemUsers,
         stack[a] # <<>> => Top(a).op # "cleanup" \/ f.op = "send",
         app'[a].conn \notin {"new", "gone"},
         a \in open' <=> app'[a].conn \in {"init", "up", "off"}
  PROVE  Frames(a)'
  <1> DEFINE st == stack[a]
             L == Len(st)
  <1>1. /\ st \in Seq(LibraryCall) /\ L \in Nat /\ DOMAIN st = 1..L /\ DOMAIN stack'[a] = 1..(L + 1)
        /\ \A i \in DOMAIN st : stack'[a][i] = st[i]
        /\ stack'[a][L + 1] = f
    BY DEF TypeOK
  <1>2. (st = <<>> <=> L = 0) /\ Top(a) = st[L]
    BY <1>1 DEF Top
  <1> HIDE DEF st, L
  <1>3. ASSUME NEW i \in DOMAIN stack'[a]
        PROVE  /\ stack'[a][i].op \in {"poll", "cleanup"} => i = 1
               /\ stack'[a][i].op \in {"send", "sendmem"} => stack'[a][i].slot \in 1..MSG_POOL_SIZE
               /\ stack'[a][i].op = "handle" => stack'[a][i].slot = 0
               /\ stack'[a][i].op # "handle" => stack'[a][i].req = 0
               /\ stack'[a][i].op = "sendmem" => a \in SendMemUsers
               /\ i = 2 /\ stack'[a][1].op = "cleanup" => stack'[a][2].op = "send"
    <2>1. CASE i \in DOMAIN st
      <3>1. 1 \in DOMAIN st
        BY <1>1, <2>1
      <3> QED BY <1>1, <2>1, <3>1 DEF Frames, st
    <2>2. CASE i = L + 1
      <3>1. CASE i = 2
        <4>1. L = 1 /\ 1 \in DOMAIN st
          BY <1>1, <2>2, <3>1
        <4>2. Top(a) = st[1] /\ st # <<>>
          BY <1>2, <4>1
        <4>3. stack'[a][1] = st[1]
          BY <1>1, <4>1
        <4>4. stack'[a][2] = f
          BY <1>1, <2>2, <3>1
        <4> QED BY <2>2, <3>1, <4>2, <4>3, <4>4 DEF st
      <3>2. CASE i # 2
        BY <1>1, <1>2, <2>2, <3>2 DEF st
      <3> QED BY <3>1, <3>2
    <2> QED BY <1>1, <2>1, <2>2
  <1> QED BY <1>3 DEF Frames

\* What a call that sends does to its program.
LEMMA PutFacts ==
  ASSUME TypeOK, NEW a \in Apps, NEW k \in 1..MSG_POOL_SIZE,
         NEW type \in {"REGISTER", "UNREGISTER", "DATA"}, NEW op \in {"send", "sendmem"}, Put(a, k, type, op)
  PROVE  /\ app'[a].conn = (IF type = "REGISTER" THEN "init" ELSE "up")
         /\ app'[a].used = app[a].used \cup {k} /\ app'[a].id = app[a].id
         /\ app[a].conn = (IF type = "REGISTER" THEN "new" ELSE "up") /\ k \notin app[a].used
         /\ type = "UNREGISTER" => /\ stack[a] = <<>>
                                   /\ stack'[a] = <<Frame("cleanup", k, 0), Frame("send", k, 0)>>
         /\ type # "UNREGISTER" => stack'[a] = Append(stack[a], Frame(op, k, 0))
         /\ type = "DATA" => stack[a] = <<>> \/ InCall(a, "handle")
         /\ type # "DATA" => op = "send" \/ type = "UNREGISTER"
         /\ a \in open' <=> a \in open \/ type = "REGISTER"
         /\ reply_port' = reply_port
  <1>1. app \in [Apps -> Program] /\ stack \in [Apps -> Seq(LibraryCall)] /\ app[a] \in Program
    BY DEF TypeOK
  <1>2. PICK p : /\ app' = [app EXCEPT ![a] = [app[a] EXCEPT !.conn = p, !.used = @ \cup {k}, !.sends = @ + 1]]
                 /\ p = IF type = "REGISTER" THEN "init" ELSE app[a].conn
    BY DEF Put
  <1>3. app[a].conn = (IF type = "REGISTER" THEN "new" ELSE "up") /\ k \notin app[a].used
    BY DEF Put, FreeMsgs
  <1>4. app'[a].conn = p /\ app'[a].used = app[a].used \cup {k} /\ app'[a].id = app[a].id
    BY <1>1, <1>2 DEF Program
  <1>5. /\ type = "UNREGISTER" => /\ stack[a] = <<>>
                                  /\ stack'[a] = <<Frame("cleanup", k, 0), Frame("send", k, 0)>>
        /\ type # "UNREGISTER" => stack'[a] = Append(stack[a], Frame(op, k, 0))
    BY <1>1 DEF Put
  <1>6. /\ type = "DATA" => stack[a] = <<>> \/ InCall(a, "handle")
        /\ type # "DATA" => op = "send" \/ type = "UNREGISTER"
        /\ a \in open' <=> a \in open \/ type = "REGISTER"
        /\ reply_port' = reply_port
    BY DEF Put
  <1> QED BY <1>2, <1>3, <1>4, <1>5, <1>6

\* What the answer to send_and_wait does to its program.
LEMMA OwnFacts ==
  ASSUME TypeOK, NEW a \in Apps, SendGetOwn(a)
  PROVE  LET m == Head(reply_port[a]) IN
         /\ InCall(a, "send") /\ reply_port[a] # <<>> /\ OwnReply(a, m) /\ m \in ClientMsg /\ m.slot = Top(a).slot
         /\ reply_port'[a] = Tail(reply_port[a]) /\ app'[a].used = app[a].used \ {m.slot}
         /\ app[a].conn # "init" => app'[a].conn = app[a].conn /\ app'[a].id = app[a].id /\ open' = open
         /\ app[a].conn = "init" => /\ app'[a].conn = (IF m.id # 0 THEN "up" ELSE "gone")
                                    /\ app'[a].id = m.id
                                    /\ open' = IF m.id # 0 THEN open ELSE open \ {a}
  <1> DEFINE m == Head(reply_port[a])
  <1>1. /\ app \in [Apps -> Program] /\ app[a] \in Program
        /\ reply_port \in [Apps -> Seq(RequestMsg \cup ClientMsg)]
    BY DEF TypeOK
  <1>2. InCall(a, "send") /\ reply_port[a] # <<>> /\ OwnReply(a, m) /\ reply_port'[a] = Tail(reply_port[a])
    BY <1>1 DEF SendGetOwn
  <1>3. m \in ClientMsg /\ m.slot = Top(a).slot
    BY <1>2, TakenType DEF OwnReply, RequestMsg
  <1>4. CASE app[a].conn # "init"
    <2>1. app' = [app EXCEPT ![a] = [app[a] EXCEPT !.used = @ \ {m.slot}]] /\ open' = open
      BY <1>4 DEF SendGetOwn
    <2> QED BY <1>1, <1>2, <1>3, <1>4, <2>1 DEF Program
  <1>5. CASE app[a].conn = "init"
    <2>1. PICK p : /\ app' = [app EXCEPT ![a] = [app[a] EXCEPT !.used = @ \ {m.slot}, !.id = m.id, !.conn = p]]
                   /\ p = IF m.id # 0 THEN "up" ELSE "gone"
      BY <1>5 DEF SendGetOwn
    <2>2. open' = IF m.id # 0 THEN open ELSE open \ {a}
      BY <1>5 DEF SendGetOwn
    <2>3. app'[a].used = app[a].used \ {m.slot} /\ app'[a].conn = p /\ app'[a].id = m.id
      BY <1>1, <2>1 DEF Program
    <2> QED BY <1>2, <1>3, <1>5, <2>1, <2>2, <2>3
  <1> QED BY <1>4, <1>5

LEMMA FramesApp ==
  ASSUME TypeOK, NEW a \in Apps, Frames(a), Opening(a), Calls(a) \/ AppStep(a)
  PROVE  Frames(a)'
  <1>0. /\ app \in [Apps -> Program] /\ app[a] \in Program /\ stack \in [Apps -> Seq(LibraryCall)]
        /\ stack[a] # <<>> => app[a].conn \in {"init", "up", "off"}
    BY DEF TypeOK, Program, Frames
  <1>1. CASE Puts(a)
    <2>1. PICK k \in 1..MSG_POOL_SIZE, type \in {"REGISTER", "UNREGISTER", "DATA"},
               op \in {"send", "sendmem"} : Put(a, k, type, op)
      BY <1>1 DEF Puts
    <2>2. /\ app'[a].conn = (IF type = "REGISTER" THEN "init" ELSE "up")
          /\ app[a].conn = (IF type = "REGISTER" THEN "new" ELSE "up")
          /\ a \in open' <=> a \in open \/ type = "REGISTER"
      BY <2>1, PutFacts
    <2>3. app'[a].conn \notin {"new", "gone"} /\ (a \in open' <=> app'[a].conn \in {"init", "up", "off"})
      BY <2>2 DEF Frames
    <2>4. CASE type = "UNREGISTER"
      <3>1. stack'[a] = <<Frame("cleanup", k, 0), Frame("send", k, 0)>>
        BY <2>1, <2>4, PutFacts
      <3>2. /\ DOMAIN stack'[a] = {1, 2} /\ stack'[a][1] = Frame("cleanup", k, 0)
            /\ stack'[a][2] = Frame("send", k, 0)
        BY <3>1
      <3>3. \A op1, k1, r1 : /\ Frame(op1, k1, r1).op = op1 /\ Frame(op1, k1, r1).slot = k1
                             /\ Frame(op1, k1, r1).req = r1
        BY DEF Frame
      <3> QED BY <2>3, <3>2, <3>3 DEF Frames
    <2>5. CASE type # "UNREGISTER"
      <3>1. stack'[a] = Append(stack[a], Frame(op, k, 0)) /\ (stack[a] = <<>> \/ Top(a).op = "handle")
        BY <2>1, <2>2, <2>5, PutFacts DEF InCall, Frames
      <3>2. op = "sendmem" => a \in SendMemUsers
        BY <2>1 DEF Put
      <3> DEFINE f == Frame(op, k, 0)
      <3>3. f \in LibraryCall /\ f.op = op /\ f.slot = k /\ f.req = 0
        BY IpcAssumption DEF Frame, LibraryCall
      <3> HIDE DEF f
      <3>4. stack'[a] = Append(stack[a], f)
        BY <3>1 DEF f
      <3> QED BY <2>3, <3>1, <3>2, <3>3, <3>4, FramesPush
    <2> QED BY <2>4, <2>5
  <1>2. CASE ab_poll(a)
    <2> DEFINE f == Frame("poll", 0, 0)
    <2>1. f \in LibraryCall /\ f.op = "poll" /\ f.slot = 0 /\ f.req = 0
      BY IpcAssumption DEF Frame, LibraryCall
    <2>2. stack[a] = <<>> /\ stack'[a] = <<f>> /\ app' = app /\ open' = open /\ app[a].conn = "up"
      BY <1>0, <1>2 DEF ab_poll
    <2> HIDE DEF f
    <2>3. stack'[a] = Append(stack[a], f)
      BY <2>1, <2>2
    <2>4. a \in open' <=> app'[a].conn \in {"init", "up", "off"}
      BY <2>2 DEF Frames
    <2> QED BY <2>1, <2>2, <2>3, <2>4, FramesPush
  <1>3. CASE Handles(a)
    <2> DEFINE f == Frame("handle", 0, Head(reply_port[a]).req)
    <2>1. f \in LibraryCall /\ f.op = "handle" /\ f.slot = 0
      <3>1. Head(reply_port[a]).req \in 1..MaxReqs
        BY <1>3, TakenType DEF Handles, RequestMsg
      <3> QED BY <3>1, IpcAssumption DEF Frame, LibraryCall
    <2>2. stack'[a] = Append(stack[a], f) /\ app' = app /\ open' = open
      BY <1>0, <1>3 DEF Handles
    <2>3. stack[a] # <<>> /\ Top(a).op \in {"poll", "send"}
      BY <1>3 DEF Handles
    <2> HIDE DEF f
    <2>4. app'[a].conn \notin {"new", "gone"} /\ (a \in open' <=> app'[a].conn \in {"init", "up", "off"})
      BY <1>0, <2>2, <2>3 DEF Frames
    <2> QED BY <2>1, <2>2, <2>3, <2>4, FramesPush
  <1>4. CASE Rotates(a) \/ Dismisses(a)
    <2>1. stack' = stack /\ app' = app /\ open' = open
      BY <1>4 DEF Rotates, Dismisses
    <2> QED BY <2>1 DEF Frames
  <1>5. CASE PollEnd(a) \/ SendMemGet(a)
    <2>1. stack[a] # <<>> /\ open' = open /\ app'[a].conn = app[a].conn
      BY <1>0, <1>5 DEF PollEnd, SendMemGet, InCall, Program
    <2>2. Prefix(a)
      BY <1>5, EndCases, PrefixFacts
    <2> QED BY <1>0, <2>1, <2>2, FramesPrefix DEF Frames
  <1>6. CASE SendGetOwn(a)
    <2>1. stack[a] # <<>> /\ Prefix(a)
      BY <1>6, EndCases, PrefixFacts DEF SendGetOwn, InCall
    <2>2. CASE app[a].conn # "init"
      <3>1. app'[a].conn = app[a].conn /\ open' = open
        BY <1>6, <2>2, OwnFacts
      <3> QED BY <1>0, <2>1, <3>1, FramesPrefix DEF Frames
    <2>3. CASE app[a].conn = "init"
      <3>1. stack'[a] = <<>>
        <4>1. Len(stack[a]) = 1 /\ stack[a] \in Seq(LibraryCall) /\ stack'[a] = Pop(stack[a])
          BY <1>0, <1>6, <2>3 DEF SendGetOwn, Opening
        <4>2. Pop(stack[a]) \in Seq(LibraryCall) /\ Len(Pop(stack[a])) = 0
          BY <2>1, <4>1, PopFacts
        <4> QED BY <4>1, <4>2
      <3>2. \/ app'[a].conn = "up" /\ open' = open
            \/ app'[a].conn = "gone" /\ open' = open \ {a}
        BY <1>6, <2>3, OwnFacts
      <3>3. a \in open
        BY <2>3 DEF Frames
      <3> QED BY <2>1, <3>1, <3>2, <3>3, FramesPrefix
    <2> QED BY <2>2, <2>3
  <1>7. CASE HandleDone(a)
    <2>1. stack[a] # <<>> /\ Prefix(a) /\ open' = open
      BY <1>7, PrefixFacts DEF HandleDone, InCall
    <2>2. app' = [app EXCEPT ![a].conn = "off"] \/ app' = app
      BY <1>7 DEF HandleDone
    <2>3. app'[a].conn = "off" \/ app'[a].conn = app[a].conn
      BY <1>0, <2>2 DEF Program
    <2> QED BY <1>0, <2>1, <2>3, FramesPrefix DEF Frames
  <1>8. CASE CleanupEnd(a)
    <2>1. stack[a] # <<>> /\ Prefix(a) /\ Top(a).op = "cleanup" /\ stack'[a] = Pop(stack[a])
      BY <1>0, <1>8, EndCases, PrefixFacts DEF CleanupEnd, InCall
    <2>2. stack'[a] = <<>>
      <3>1. Len(stack[a]) = 1
        BY <2>1, TopFacts DEF Frames
      <3>2. Pop(stack[a]) \in Seq(LibraryCall) /\ Len(Pop(stack[a])) = 0
        BY <1>0, <2>1, <3>1, PopFacts
      <3> QED BY <2>1, <3>2
    <2>3. app'[a].conn = "gone" /\ a \notin open'
      BY <1>0, <1>8 DEF CleanupEnd, Program
    <2> QED BY <2>1, <2>2, <2>3, FramesPrefix
  <1> QED BY <1>1, <1>2, <1>3, <1>4, <1>5, <1>6, <1>7, <1>8, PutCalls, ProcessCases, DrainCases
          DEF Calls, AppStep

-------------------------------------------------------------------------------
(* The hook that is waited for.                                               *)

Waiting(a, i) ==
    /\ daemon.pc = "wait" /\ reqs[daemon.req].kind = "hook"
    /\ i \in DOMAIN stack[a] /\ stack[a][i] = Frame("handle", 0, daemon.req)
OwnIn(a, q) == \E k \in DOMAIN q : OwnReply(a, q[k])
Served(a, i) ==
    Len(stack[a]) <= i + 1 /\ (InCall(a, "send") => OwnIn(a, ipc_port) \/ OwnIn(a, reply_port[a]))

LEMMA ServedDef ==
  ASSUME NEW a
  PROVE  /\ HookIsServed(a) <=> \A i : Waiting(a, i) => Served(a, i)
         /\ HookIsServed(a)' <=> \A i : Waiting(a, i)' => Served(a, i)'
  BY DEF HookIsServed, Waiting, Served, OwnIn, OwnReply, InCall, Top, Frame

\* Nothing is newer than the request that the daemon waits for.
LEMMA NewestIsAwaited ==
  ASSUME TypeOK, Awaited, NEW a \in Apps, Holding(a), NEW i, Waiting(a, i)
  PROVE  /\ \A j \in DOMAIN stack[a] : stack[a][j].op = "handle" => j <= i
         /\ \A j \in DOMAIN reply_port[a] : reply_port[a][j].kind # "req"
         /\ i \in Nat /\ i <= Len(stack[a]) /\ stack[a][i].op = "handle"
  <1>1. /\ daemon.req = Len(reqs) /\ DOMAIN reqs = 1..Len(reqs) /\ Len(reqs) \in Nat
        /\ i \in DOMAIN stack[a] /\ stack[a][i].op = "handle" /\ stack[a][i].req = Len(reqs)
        /\ DOMAIN stack[a] = 1..Len(stack[a]) /\ Len(stack[a]) \in Nat
    BY DEF Awaited, Waiting, TypeOK, Frame
  <1>2. \A r : Owed(a, r) => r \in 1..Len(reqs)
    BY <1>1 DEF Owed
  <1>3. ASSUME NEW j \in DOMAIN stack[a], stack[a][j].op = "handle", ~(j <= i) PROVE FALSE
    <2>1. i < j
      BY <1>1, <1>3
    <2>2. Len(reqs) < stack[a][j].req /\ stack[a][j].req \in 1..Len(reqs)
      BY <1>1, <1>2, <1>3, <2>1 DEF Holding, InOrder, Held
    <2> QED BY <1>1, <2>2
  <1>4. ASSUME NEW j \in DOMAIN reply_port[a], reply_port[a][j].kind = "req" PROVE FALSE
    <2>1. Len(reqs) < reply_port[a][j].req /\ reply_port[a][j].req \in 1..Len(reqs)
      BY <1>1, <1>2, <1>4 DEF Holding, InOrder, Held
    <2> QED BY <1>1, <2>1
  <1> QED BY <1>1, <1>3, <1>4

\* The answer that a program waits for comes to its port.
LEMMA AnswerServes ==
  ASSUME TypeOK, NEW a \in Apps, Frames(a), Answers, InCall(a, "send"),
         OwnIn(a, ipc_port) \/ OwnIn(a, reply_port[a])
  PROVE  OwnIn(a, ipc_port)' \/ OwnIn(a, reply_port[a])'
  <1>1. PICK id \in Nat : DaemonReply([Head(ipc_port) EXCEPT !.id = id])
    BY DEF Answers
  <1> DEFINE m == [Head(ipc_port) EXCEPT !.id = id]
  <1>2. /\ ipc_port \in Seq(ClientMsg) /\ ipc_port # <<>> /\ ipc_port' = Tail(ipc_port)
        /\ stack' = stack /\ open' = open
        /\ reply_port \in [Apps -> Seq(RequestMsg \cup ClientMsg)]
    BY DEF TypeOK, Answers, cvars
  <1>3. Head(ipc_port) \in ClientMsg /\ Head(ipc_port) = ipc_port[1] /\ DOMAIN ipc_port = 1..Len(ipc_port)
        /\ Len(ipc_port) \in Nat
        /\ DOMAIN ipc_port' = 1..(Len(ipc_port) - 1)
        /\ \A k \in 1..(Len(ipc_port) - 1) : ipc_port'[k] = ipc_port[k + 1]
    BY <1>2
  <1>4. /\ m \in ClientMsg /\ m.kind = "msg" /\ m.app = Head(ipc_port).app
        /\ m.slot = Head(ipc_port).slot /\ Head(ipc_port).kind = "msg" /\ m.app \in Apps
    BY <1>3 DEF ClientMsg
  <1> HIDE DEF m
  <1>5. \A x : OwnReply(a, x)' <=> OwnReply(a, x)
    BY <1>2 DEF OwnReply, Top
  <1>6. a \in open
    <2>1. stack[a] # <<>> /\ app[a].conn \in {"new", "init", "up", "off", "gone"}
      BY DEF InCall, TypeOK, Program
    <2> QED BY <2>1 DEF Frames
  <1>7. DaemonReply(m)
    BY <1>1 DEF m
  <1>8. \/ reply_port'[a] = reply_port[a]
        \/ reply_port'[a] = Append(reply_port[a], m)
    BY <1>2, <1>4, <1>7 DEF DaemonReply
  <1>9. /\ reply_port[a] \in Seq(RequestMsg \cup ClientMsg)
        /\ \A k \in DOMAIN reply_port[a] : k \in DOMAIN reply_port'[a] /\ reply_port'[a][k] = reply_port[a][k]
    <2>1. reply_port[a] \in Seq(RequestMsg \cup ClientMsg) /\ m \in RequestMsg \cup ClientMsg
      BY <1>2, <1>4
    <2> QED BY <1>8, <2>1
  <1>10. CASE OwnIn(a, reply_port[a])
    <2>1. PICK k \in DOMAIN reply_port[a] : OwnReply(a, reply_port[a][k])
      BY <1>10 DEF OwnIn
    <2>2. k \in DOMAIN reply_port'[a] /\ reply_port'[a][k] = reply_port[a][k]
      BY <1>9
    <2> QED BY <1>2, <2>1, <2>2 DEF OwnIn, OwnReply, Top
  <1>11. CASE OwnIn(a, ipc_port)
    <2>1. PICK k \in DOMAIN ipc_port : OwnReply(a, ipc_port[k])
      BY <1>11 DEF OwnIn
    <2>2. CASE k = 1
      <3>1. m.app = a /\ OwnReply(a, m)
        BY <1>3, <1>4, <2>1, <2>2 DEF OwnReply
      <3>2. reply_port'[a] = Append(reply_port[a], m)
        BY <1>2, <1>6, <1>7, <3>1 DEF DaemonReply
      <3>3. Len(reply_port[a]) + 1 \in DOMAIN reply_port'[a] /\ reply_port'[a][Len(reply_port[a]) + 1] = m
        <4>1. reply_port[a] \in Seq(RequestMsg \cup ClientMsg) /\ m \in RequestMsg \cup ClientMsg
          BY <1>4, <1>9
        <4> QED BY <3>2, <4>1
      <3> QED BY <1>2, <3>1, <3>3 DEF OwnIn, OwnReply, Top
    <2>3. CASE k # 1
      <3>1. k - 1 \in DOMAIN ipc_port' /\ ipc_port'[k - 1] = ipc_port[k]
        BY <1>3, <2>3
      <3> QED BY <1>2, <2>1, <3>1 DEF OwnIn, OwnReply, Top
    <2> QED BY <2>2, <2>3
  <1> QED BY <1>10, <1>11

LEMMA ServedDaemon ==
  ASSUME TypeOK, Entries, Awaited, NEW a \in Apps, Holding(a), Frames(a), HookIsServed(a),
         DaemonStep \/ HostStep
  PROVE  HookIsServed(a)'
  <1>1. CASE Control
    BY <1>1 DEF Control, HookIsServed
  <1>2. CASE Answers
    <2>1. UNCHANGED <<daemon, reqs, stack>>
      BY <1>2 DEF Answers, cvars
    <2>2. ASSUME NEW i, Waiting(a, i)' PROVE Served(a, i)'
      <3>1. Waiting(a, i)
        BY <2>1, <2>2 DEF Waiting
      <3>2. Served(a, i)
        BY <3>1, ServedDef
      <3>3. Len(stack'[a]) <= i + 1 /\ (InCall(a, "send")' <=> InCall(a, "send"))
        BY <2>1, <3>2 DEF Served, InCall, Top
      <3>4. InCall(a, "send") => OwnIn(a, ipc_port)' \/ OwnIn(a, reply_port[a])'
        BY <1>2, <3>2, AnswerServes DEF Served
      <3> QED BY <3>3, <3>4 DEF Served
    <2> QED BY <2>2, ServedDef
  <1>3. CASE Sends
    <2>1. PICK kind \in AllKinds, s \in Active, ci \in 0..(AB_MAX_CLIENTS + 1) :
              SendRequest(kind, clients[s].port, ci)
      BY <1>3 DEF Sends
    <2>2. daemon'.req = Len(reqs) + 1 /\ stack' = stack
      BY <2>1 DEF SendRequest, cvars
    <2>3. \A i \in DOMAIN stack[a] : stack[a][i] # Frame("handle", 0, Len(reqs) + 1)
      <3>1. DOMAIN reqs = 1..Len(reqs) /\ Len(reqs) \in Nat
        BY DEF TypeOK
      <3>2. \A i \in DOMAIN stack[a] : stack[a][i].op = "handle" => stack[a][i].req \in 1..Len(reqs)
        BY <3>1 DEF Holding, Held, Owed
      <3>3. Frame("handle", 0, Len(reqs) + 1).op = "handle"
            /\ Frame("handle", 0, Len(reqs) + 1).req = Len(reqs) + 1
        BY DEF Frame
      <3> QED BY <3>1, <3>2, <3>3
    <2> QED BY <2>2, <2>3 DEF HookIsServed
  <1> QED BY <1>1, <1>2, <1>3, SendCalls, AnswerCalls, ControlCalls DEF DaemonStep, HostStep

\* A program's step: what is awaited stays what it was.
LEMMA WaitingBefore ==
  ASSUME TypeOK, Awaited, daemon' = daemon,
         UNCHANGED reqs \/ \E r \in DOMAIN reqs : ReturnRequest(r),
         NEW a, NEW i, Waiting(a, i)', i \in DOMAIN stack[a], stack'[a][i] = stack[a][i]
  PROVE  Waiting(a, i)
  <1>1. daemon.pc = "wait"
    BY DEF Waiting
  <1>2. daemon.req \in DOMAIN reqs
    BY <1>1, AwaitedExists
  <1>3. reqs'[daemon.req].kind = reqs[daemon.req].kind
    BY <1>2, ReturnFacts
  <1> QED BY <1>3 DEF Waiting

LEMMA ServedOther ==
  ASSUME TypeOK, Awaited, NEW a \in Apps, NEW b \in Apps, a # b, HookIsServed(a),
         Frames(b), Opening(b), Holding(b), Calls(b) \/ AppStep(b)
  PROVE  HookIsServed(a)'
  <1>1. stack'[a] = stack[a] /\ reply_port'[a] = reply_port[a]
    BY OthersKept
  <1>2. daemon' = daemon /\ (UNCHANGED reqs \/ \E r \in DOMAIN reqs : ReturnRequest(r))
    BY AppRequests DEF Owed
  <1>3. \A k \in DOMAIN ipc_port : k \in DOMAIN ipc_port' /\ ipc_port'[k] = ipc_port[k]
    <2>1. CASE ipc_port' = ipc_port
      BY <2>1
    <2>2. CASE Puts(b)
      <3>1. ipc_port' = ipc_port \/ \E m : ipc_port' = Append(ipc_port, m)
        BY <2>2 DEF Puts, Put
      <3>2. ipc_port \in Seq(ClientMsg)
        BY DEF TypeOK
      <3> QED BY <3>1, <3>2
    <2>3. CASE ab_poll(b) \/ Ends(b) \/ Handles(b) \/ Rotates(b) \/ HandleDone(b) \/ Dismisses(b)
      <3>1. ipc_port' = ipc_port
        BY <2>3 DEF ab_poll, Ends, Handles, Rotates, HandleDone, Dismisses
      <3> QED BY <3>1
    <2> QED BY <2>2, <2>3, AppCases
  <1>4. ASSUME NEW i, Waiting(a, i)' PROVE Served(a, i)'
    <2>1. i \in DOMAIN stack[a] /\ stack'[a][i] = stack[a][i]
      BY <1>1, <1>4 DEF Waiting
    <2>2. Served(a, i)
      BY <1>2, <1>4, <2>1, WaitingBefore, ServedDef
    <2>3. (InCall(a, "send")' <=> InCall(a, "send")) /\ Len(stack'[a]) <= i + 1
          /\ \A x : OwnReply(a, x)' <=> OwnReply(a, x)
      BY <1>1, <2>2 DEF InCall, Top, OwnReply, Served
    <2>4. /\ OwnIn(a, ipc_port) => OwnIn(a, ipc_port)'
          /\ OwnIn(a, reply_port[a]) => OwnIn(a, reply_port[a])'
      BY <1>1, <1>3, <2>3 DEF OwnIn, OwnReply, Top
    <2> QED BY <2>2, <2>3, <2>4 DEF Served
  <1> QED BY <1>4, ServedDef

LEMMA ServedOwn ==
  ASSUME TypeOK, TypeOK', Awaited, NEW a \in Apps, HookIsServed(a),
         Frames(a), Opening(a), Holding(a), Calls(a) \/ AppStep(a)
  PROVE  HookIsServed(a)'
  <1> DEFINE L == Len(stack[a])
  <1>0. /\ daemon' = daemon /\ (UNCHANGED reqs \/ \E r \in DOMAIN reqs : ReturnRequest(r))
        /\ stack \in [Apps -> Seq(LibraryCall)] /\ stack[a] \in Seq(LibraryCall)
        /\ L \in Nat /\ DOMAIN stack[a] = 1..L /\ (stack[a] = <<>> <=> L = 0)
        /\ \A op, k, r : Frame(op, k, r).op = op /\ Frame(op, k, r).slot = k
    <2>1. daemon' = daemon /\ (UNCHANGED reqs \/ \E r \in DOMAIN reqs : ReturnRequest(r))
      BY AppRequests DEF Owed
    <2>2. stack \in [Apps -> Seq(LibraryCall)] /\ stack[a] \in Seq(LibraryCall)
      BY DEF TypeOK
    <2>3. L \in Nat /\ DOMAIN stack[a] = 1..L /\ (stack[a] = <<>> <=> L = 0)
      BY <2>2
    <2> QED BY <2>1, <2>2, <2>3 DEF Frame
  <1>1. SUFFICES ASSUME NEW i, Waiting(a, i)' PROVE Served(a, i)'
    BY ServedDef
  <1>2. i \in DOMAIN stack'[a] /\ stack'[a][i].op = "handle" /\ daemon.pc = "wait"
    BY <1>0, <1>1 DEF Waiting
  <1>3. ASSUME i \in DOMAIN stack[a], stack'[a][i] = stack[a][i]
        PROVE  /\ Waiting(a, i) /\ Served(a, i) /\ i \in Nat /\ i <= L
               /\ \A j \in DOMAIN stack[a] : stack[a][j].op = "handle" => j <= i
               /\ \A j \in DOMAIN reply_port[a] : reply_port[a][j].kind # "req"
               /\ stack[a][i].op = "handle"
    <2>1. Waiting(a, i)
      BY <1>0, <1>1, <1>3, WaitingBefore
    <2> QED BY <2>1, ServedDef, NewestIsAwaited
  <1> HIDE DEF L
  <1>4. CASE Puts(a)
    <2>1. PICK k \in 1..MSG_POOL_SIZE, type \in {"REGISTER", "UNREGISTER", "DATA"},
               op \in {"send", "sendmem"} : Put(a, k, type, op)
      BY <1>4 DEF Puts
    <2>2. type # "UNREGISTER"
      <3> SUFFICES ASSUME type = "UNREGISTER" PROVE FALSE
        OBVIOUS
      <3>1. stack'[a] = <<Frame("cleanup", k, 0), Frame("send", k, 0)>>
        BY <2>1, PutFacts
      <3>2. \A j \in DOMAIN stack'[a] : stack'[a][j].op # "handle"
        BY <1>0, <3>1
      <3> QED BY <1>2, <3>2
    <2>3. stack'[a] = Append(stack[a], Frame(op, k, 0)) /\ (stack[a] = <<>> \/ InCall(a, "handle"))
      BY <2>1, <2>2, PutFacts DEF Frames
    <2>4. /\ DOMAIN stack'[a] = 1..(L + 1) /\ Len(stack'[a]) = L + 1 /\ stack'[a][L + 1] = Frame(op, k, 0)
          /\ \A j \in DOMAIN stack[a] : stack'[a][j] = stack[a][j]
      <3> HIDE DEF Frame
      <3> QED BY <1>0, <2>3 DEF L
    <2>5. i \in DOMAIN stack[a]
      BY <1>0, <1>2, <2>4
    <2>6. i = L
      <3>1. stack[a] # <<>> /\ L # 0 /\ stack[a][L].op = "handle"
        BY <1>0, <2>3, <2>5 DEF InCall, Top, L
      <3>2. L <= i /\ i <= L /\ i \in Nat
        BY <1>0, <1>3, <2>4, <2>5, <3>1
      <3> QED BY <1>0, <3>2
    <2>7. InCall(a, "send")' => OwnIn(a, ipc_port)'
      <3> DEFINE m == Message(a, k, type, app[a].id)
      <3>1. ipc_port' = Append(ipc_port, m) /\ m.kind = "msg" /\ m.app = a /\ m.slot = k
        BY <1>2, <2>1 DEF Put, Message
      <3>2. m \in ClientMsg
        <4>1. app[a].id \in Nat
          BY DEF TypeOK, Program
        <4> QED BY <4>1 DEF Message, ClientMsg
      <3>3. ipc_port \in Seq(ClientMsg)
        BY DEF TypeOK
      <3> HIDE DEF m
      <3>4. Len(ipc_port) + 1 \in DOMAIN ipc_port' /\ ipc_port'[Len(ipc_port) + 1] = m
        BY <3>1, <3>2, <3>3
      <3>5. Top(a)'.slot = k
        BY <1>0, <2>4 DEF Top
      <3> QED BY <3>1, <3>4, <3>5 DEF OwnIn, OwnReply
    <2> QED BY <1>0, <2>4, <2>6, <2>7 DEF Served
  <1>5. CASE ab_poll(a)
    <2>1. stack'[a] = <<Frame("poll", 0, 0)>>
      BY <1>0, <1>5 DEF ab_poll
    <2>2. \A j \in DOMAIN stack'[a] : stack'[a][j].op # "handle"
      BY <1>0, <2>1
    <2> QED BY <1>2, <2>2
  <1>6. CASE Handles(a)
    <2>1. stack'[a] = Append(stack[a], Frame("handle", 0, Head(reply_port[a]).req))
      BY <1>0, <1>6 DEF Handles
    <2>2. /\ DOMAIN stack'[a] = 1..(L + 1) /\ Len(stack'[a]) = L + 1 /\ stack'[a][L + 1].op = "handle"
          /\ \A j \in DOMAIN stack[a] : stack'[a][j] = stack[a][j]
      <3>1. \E f : stack'[a] = Append(stack[a], f) /\ f.op = "handle"
        BY <1>0, <2>1
      <3> QED BY <1>0, <3>1 DEF L
    <2>3. i \notin DOMAIN stack[a]
      <3>1. 1 \in DOMAIN reply_port[a] /\ reply_port[a][1].kind = "req"
        BY <1>6, TakenType DEF Handles
      <3> QED BY <1>3, <2>2, <3>1
    <2>4. i = L + 1
      BY <1>0, <1>2, <2>2, <2>3
    <2>5. ~InCall(a, "send")'
      BY <2>2 DEF InCall, Top
    <2> QED BY <1>0, <2>2, <2>4, <2>5 DEF Served
  <1>7. CASE Ends(a)
    <2>1. stack[a] # <<>> /\ stack'[a] = Pop(stack[a])
      BY <1>0, <1>7 DEF Ends
    <2>2. /\ DOMAIN stack'[a] = 1..(L - 1) /\ Len(stack'[a]) = L - 1
          /\ \A j \in 1..(L - 1) : j \in DOMAIN stack[a] /\ stack'[a][j] = stack[a][j]
      <3>1. Pop(stack[a]) \in Seq(LibraryCall) /\ Len(Pop(stack[a])) = L - 1
        BY <1>0, <2>1, PopFacts DEF L
      <3>2. DOMAIN Pop(stack[a]) = 1..(L - 1)
        BY <3>1
      <3> QED BY <1>0, <2>1, <3>1, <3>2, PopFacts
    <2>3. i \in 1..(L - 1) /\ Served(a, i)
      <3>1. i \in 1..(L - 1)
        BY <1>2, <2>2
      <3>2. i \in DOMAIN stack[a] /\ stack'[a][i] = stack[a][i]
        BY <2>2, <3>1
      <3> QED BY <1>3, <3>1, <3>2
    <2>4. i = L - 1
      <3>1. L <= i + 1
        BY <2>3 DEF Served, L
      <3>2. i \in Nat /\ i <= L - 1 /\ L \in Nat
        BY <1>0, <2>3
      <3> QED BY <3>1, <3>2
    <2>5. ~InCall(a, "send")'
      <3>1. stack'[a][Len(stack'[a])].op = "handle"
        BY <1>2, <2>2, <2>4
      <3> QED BY <3>1 DEF InCall, Top
    <2> QED BY <1>0, <2>2, <2>4, <2>5 DEF Served
  <1>8. CASE HandleDone(a)
    <2>1. /\ L # 0 /\ stack[a][L].op = "handle"
          /\ \E n \in {L - 1, L - 2} : /\ n \in Nat /\ DOMAIN stack'[a] = 1..n
                                       /\ \A j \in 1..n : stack'[a][j] = stack[a][j]
      BY <1>8, DoneFacts DEF L
    <2>2. i \in DOMAIN stack[a] /\ i < L /\ stack'[a][i] = stack[a][i] /\ i \in Nat
      BY <1>0, <1>2, <2>1
    <2>3. L \in DOMAIN stack[a]
      BY <1>0, <2>1
    <2>4. L <= i
      BY <1>3, <2>1, <2>2, <2>3
    <2> QED BY <1>0, <2>2, <2>4
  <1>9. CASE Dismisses(a)
    <2>1. stack' = stack /\ ~InCall(a, "send")'
      BY <1>9 DEF Dismisses, InCall, Top
    <2>2. Served(a, i)
      BY <1>2, <1>3, <2>1
    <2> QED BY <2>1, <2>2 DEF Served
  <1>10. CASE Rotates(a)
    <2> DEFINE q == reply_port[a]
    <2>1. /\ stack' = stack /\ ipc_port' = ipc_port /\ q # <<>> /\ q \in Seq(RequestMsg \cup ClientMsg)
          /\ reply_port'[a] = Append(Tail(q), Head(q))
      BY <1>10 DEF Rotates, TypeOK
    <2>2. Served(a, i)
      BY <1>2, <1>3, <2>1
    <2>3. /\ DOMAIN q = 1..Len(q) /\ Len(q) \in Nat /\ Len(q) # 0 /\ DOMAIN reply_port'[a] = 1..Len(q)
          /\ \A j \in 1..(Len(q) - 1) : reply_port'[a][j] = q[j + 1]
          /\ reply_port'[a][Len(q)] = Head(q) /\ q[1] = Head(q)
      BY <2>1
    <2>4. OwnIn(a, q) => OwnIn(a, reply_port[a])'
      <3> SUFFICES ASSUME NEW k \in DOMAIN q, OwnReply(a, q[k]) PROVE OwnIn(a, reply_port[a])'
        BY DEF OwnIn
      <3>1. \E j \in DOMAIN reply_port'[a] : reply_port'[a][j] = q[k]
        <4>1. CASE k = 1
          BY <2>3, <4>1
        <4>2. CASE k # 1
          <5>1. k - 1 \in 1..(Len(q) - 1) /\ (k - 1) + 1 = k
            BY <2>3, <4>2
          <5> QED BY <2>3, <5>1
        <4> QED BY <4>1, <4>2
      <3> HIDE DEF q
      <3> QED BY <2>1, <3>1 DEF OwnIn, OwnReply, Top
    <2>5. /\ InCall(a, "send")' <=> InCall(a, "send")
          /\ OwnIn(a, ipc_port) => OwnIn(a, ipc_port)'
      BY <2>1 DEF InCall, Top, OwnIn, OwnReply
    <2> QED BY <2>1, <2>2, <2>4, <2>5 DEF Served
  <1> QED BY <1>4, <1>5, <1>6, <1>7, <1>8, <1>9, <1>10, AppCases

-------------------------------------------------------------------------------
(* The programs' own messages.                                                *)

\* The daemon serves the message at the head of its port, answering id: a program gets
\* an entry by its own REGISTER only, and keeps none of the id of an UNREGISTER.
Serves(id) ==
    LET m == ipc_port[1] IN
    /\ ipc_port # <<>> /\ ipc_port' = Tail(ipc_port) /\ DaemonReply([m EXCEPT !.id = id])
    /\ UNCHANGED <<msg_pool_used, daemon, reqs, cvars>>
    /\ \A b \in Apps : \A s \in Registered(b)' :
          \/ /\ s \in Registered(b) /\ clients'[s].id = clients[s].id
             /\ Up /\ m.type = "UNREGISTER" => clients[s].id # m.id
          \/ b = m.app /\ m.type = "REGISTER" /\ clients'[s].id = id

LEMMA ServeFacts ==
  ASSUME TypeOK, Entries, ipc_process \/ IpcDrain
  PROVE  Entries' /\ \E id \in Nat : Serves(id)
  <1> DEFINE m == ipc_port[1]
  <1>1. /\ ipc_port # <<>> /\ ipc_port \in Seq(ClientMsg) /\ ipc_port' = Tail(ipc_port)
        /\ UNCHANGED <<msg_pool_used, daemon, reqs, cvars>>
    BY DEF ipc_process, IpcDrain, TypeOK, dvars
  <1>2. m = Head(ipc_port) /\ m \in ClientMsg
    BY <1>1
  <1>3. m.app \in Apps /\ m.id \in Nat /\ m = [m EXCEPT !.id = m.id]
    BY <1>2 DEF ClientMsg
  <1> HIDE DEF m
  <1>4. CASE ipc_process /\ m.type = "REGISTER"
    <2> DEFINE reg == client_register(AppName[m.app], m.app)
    <2>1. /\ clients' = reg.table /\ next_client_id' = reg.next /\ DaemonReply([m EXCEPT !.id = reg.id])
      BY <1>2, <1>4 DEF ipc_process
    <2>2. reg.id \in Nat
      BY <1>3, RegisterType
    <2>3. /\ Entries'
          /\ \A b \in Apps : \A s \in Registered(b)' :
                \/ s \in Registered(b) /\ clients'[s].id = clients[s].id
                \/ b = m.app /\ clients'[s].id = reg.id
      BY <1>3, <2>1, RegisterFacts
    <2> HIDE DEF reg
    <2>4. Serves(reg.id)
      BY <1>1, <1>4, <2>1, <2>3 DEF Serves, m
    <2> QED BY <2>2, <2>3, <2>4
  <1>5. CASE ipc_process /\ m.type = "UNREGISTER"
    <2>1. /\ clients' = client_unregister(m.id) /\ next_client_id' = next_client_id
          /\ DaemonReply(m)
      BY <1>2, <1>5 DEF ipc_process
    <2>2. /\ Entries'
          /\ \A b \in Apps : \A s \in Registered(b)' :
                s \in Registered(b) /\ clients'[s].id = clients[s].id /\ clients[s].id # m.id
      BY <2>1, UnregisterFacts
    <2>3. Serves(m.id)
      BY <1>1, <1>3, <2>1, <2>2 DEF Serves, m
    <2> QED BY <1>3, <2>2, <2>3
  <1>6. ASSUME UNCHANGED <<clients, next_client_id>>, NEW id \in Nat, DaemonReply([m EXCEPT !.id = id]),
               Up => m.type # "UNREGISTER"
        PROVE  Entries' /\ \E i \in Nat : Serves(i)
    <2>1. Entries' /\ \A b : Registered(b)' = Registered(b)
      BY <1>6 DEF Entries, Registered, Active
    <2>2. Serves(id)
      BY <1>1, <1>6, <2>1 DEF Serves, m
    <2> QED BY <1>6, <2>1, <2>2
  <1>7. CASE ipc_process /\ m.type \notin {"REGISTER", "UNREGISTER"}
    <2>1. UNCHANGED <<clients, next_client_id>> /\ DaemonReply(m)
      BY <1>2, <1>7 DEF ipc_process
    <2> QED BY <1>3, <1>6, <1>7, <2>1
  <1>8. CASE IpcDrain
    <2>1. UNCHANGED <<clients, next_client_id>> /\ DaemonReply([m EXCEPT !.id = 0]) /\ ~Up
      BY <1>2, <1>8 DEF IpcDrain, dvars, Up
    <2> QED BY <1>6, <2>1
  <1> QED BY <1>4, <1>5, <1>7, <1>8

\* What an answer does to the two ports.
Got(a, id) ==
    /\ Letter(ipc_port, a, 1)
    /\ Len(reply_port[a]) \in Nat /\ DOMAIN reply_port[a] = 1..Len(reply_port[a])
    /\ DOMAIN reply_port'[a] = 1..(Len(reply_port[a]) + 1)
    /\ \A j \in DOMAIN reply_port[a] : reply_port'[a][j] = reply_port[a][j]
    /\ LET m == reply_port'[a][Len(reply_port[a]) + 1] IN
       m.id = id /\ m.kind = "msg" /\ m.app = a /\ m.slot = ipc_port[1].slot /\ m.type = ipc_port[1].type

LEMMA ServePorts ==
  ASSUME TypeOK, NEW id \in Nat, Serves(id), NEW a \in Apps
  PROVE  /\ 1 \in DOMAIN ipc_port /\ ipc_port[1] \in ClientMsg
         /\ \A i \in DOMAIN ipc_port' :
               i \in Nat \ {0} /\ i + 1 \in DOMAIN ipc_port /\ ipc_port'[i] = ipc_port[i + 1]
         /\ \/ Got(a, id)
            \/ reply_port'[a] = reply_port[a] /\ ~(Letter(ipc_port, a, 1) /\ a \in open)
  <1> DEFINE m == [ipc_port[1] EXCEPT !.id = id]
  <1>1. /\ ipc_port # <<>> /\ ipc_port \in Seq(ClientMsg) /\ ipc_port' = Tail(ipc_port) /\ DaemonReply(m)
        /\ reply_port \in [Apps -> Seq(RequestMsg \cup ClientMsg)]
    BY DEF Serves, TypeOK
  <1>2. /\ 1 \in DOMAIN ipc_port /\ ipc_port[1] \in ClientMsg
        /\ \A i \in DOMAIN ipc_port' :
               i \in Nat \ {0} /\ i + 1 \in DOMAIN ipc_port /\ ipc_port'[i] = ipc_port[i + 1]
    BY <1>1
  <1>3. /\ m \in ClientMsg /\ m.id = id /\ m.kind = "msg" /\ m.app = ipc_port[1].app /\ m.app \in Apps
        /\ m.slot = ipc_port[1].slot /\ m.type = ipc_port[1].type /\ ipc_port[1].kind = "msg"
    BY <1>2 DEF ClientMsg
  <1> HIDE DEF m
  <1>4. CASE m.app = a /\ a \in open
    <2>1. reply_port'[a] = Append(reply_port[a], m)
      BY <1>1, <1>4 DEF DaemonReply
    <2>2. reply_port[a] \in Seq(RequestMsg \cup ClientMsg) /\ m \in RequestMsg \cup ClientMsg
      BY <1>1, <1>3
    <2>3. /\ Len(reply_port[a]) \in Nat /\ DOMAIN reply_port[a] = 1..Len(reply_port[a])
          /\ DOMAIN reply_port'[a] = 1..(Len(reply_port[a]) + 1)
          /\ \A j \in DOMAIN reply_port[a] : reply_port'[a][j] = reply_port[a][j]
          /\ reply_port'[a][Len(reply_port[a]) + 1] = m
      BY <2>1, <2>2
    <2> QED BY <1>2, <1>3, <1>4, <2>3 DEF Got, Letter
  <1>5. CASE ~(m.app = a /\ a \in open)
    <2>1. reply_port'[a] = reply_port[a]
      BY <1>1, <1>3, <1>5 DEF DaemonReply
    <2> QED BY <1>2, <1>3, <1>5, <2>1 DEF Letter
  <1> QED BY <1>4, <1>5

\* Once ab_init has returned, and only then, there are steps other than its own.
LEMMA Established ==
  ASSUME TypeOK, NEW a \in Apps, Frames(a), Opening(a), ab_poll(a) \/ AppStep(a), ~SendGetOwn(a)
  PROVE  app[a].conn \notin {"new", "init"} /\ app'[a].conn \notin {"new", "init"}
  <1>0. app \in [Apps -> Program]
    BY DEF TypeOK
  <1>1. CASE ab_poll(a)
    BY <1>1 DEF ab_poll
  <1>2. CASE AppStep(a)
    <2>1. stack[a] # <<>> /\ (SendGetOther(a) => ~OwnReply(a, Head(reply_port[a])) /\ reply_port[a] # <<>>)
      BY <1>2 DEF AppStep, PollGet, PollEnd, SendGetOther, SendGetOwn, SendMemGet, HandleDone,
                  CleanupDrain, CleanupEnd, InCall
    <2>2. ~SendGetOther(a) => Top(a).op # "send"
      BY <1>2 DEF AppStep, PollGet, PollEnd, SendMemGet, HandleDone, CleanupDrain, CleanupEnd,
         InCall
    <2>3. app[a].conn # "new"
      BY <2>1 DEF Frames
    <2>4. app[a].conn # "init"
      <3>1. app[a].conn = "init" => Top(a).op = "send" /\ (reply_port[a] # <<>> => OwnReply(a, Head(reply_port[a])))
        BY DEF Opening, Top
      <3> QED BY <2>1, <2>2, <3>1
    <2>5. app'[a].conn \in {app[a].conn, "off", "gone"}
      <3>1. CASE PollGet(a) \/ PollEnd(a) \/ SendGetOther(a) \/ CleanupDrain(a)
        BY <3>1 DEF PollGet, PollEnd, SendGetOther, CleanupDrain, Process
      <3>2. CASE SendMemGet(a) \/ HandleDone(a) \/ CleanupEnd(a)
        BY <1>0, <3>2 DEF SendMemGet, HandleDone, CleanupEnd, Program
      <3> QED BY <1>2, <3>1, <3>2 DEF AppStep
    <2> QED BY <2>3, <2>4, <2>5
  <1> QED BY <1>1, <1>2

\* The messages of a that wait for the daemon waited for it before.
OldLetters(a) ==
    \A i \in DOMAIN ipc_port' : Letter(ipc_port', a, i) =>
        \E j \in DOMAIN ipc_port : ipc_port'[i] = ipc_port[j]

\* A step that leaves a program alone.
LEMMA OpeningAlone ==
  ASSUME NEW a \in Apps, Opening(a), app'[a] = app[a], stack'[a] = stack[a],
         reply_port'[a] = reply_port[a], Registered(a)' \subseteq Registered(a), OldLetters(a)
  PROVE  Opening(a)'
  <1>1. app'[a].conn = "new" => \A i \in DOMAIN ipc_port' : ~Letter(ipc_port', a, i)
    BY DEF OldLetters, Opening, Letter
  <1>2. app'[a].conn = "init" => \A i \in DOMAIN ipc_port' : Letter(ipc_port', a, i) =>
                ipc_port'[i].type = "REGISTER" /\ ipc_port'[i].slot = stack'[a][1].slot
    <2> SUFFICES ASSUME app'[a].conn = "init", NEW i \in DOMAIN ipc_port', Letter(ipc_port', a, i)
                 PROVE  ipc_port'[i].type = "REGISTER" /\ ipc_port'[i].slot = stack'[a][1].slot
      OBVIOUS
    <2>1. PICK j \in DOMAIN ipc_port : ipc_port'[i] = ipc_port[j]
      BY DEF OldLetters
    <2>2. Letter(ipc_port, a, j)
      BY <2>1 DEF Letter
    <2> QED BY <2>1, <2>2 DEF Opening
  <1>3. reply_port'[a] # <<>> /\ OwnReply(a, Head(reply_port[a])) => OwnReply(a, Head(reply_port[a]))'
    BY DEF OwnReply, Top
  <1> QED BY <1>1, <1>2, <1>3 DEF Opening

\* What another program's step puts at the daemon's port.
LEMMA AddressedByApp ==
  ASSUME TypeOK, NEW a \in Apps, NEW b \in Apps, Frames(b), Opening(b), Calls(b) \/ AppStep(b)
  PROVE  \/ ipc_port' = ipc_port
         \/ \E k, type, id : ipc_port' = Append(ipc_port, Message(b, k, type, id))
  <1>1. CASE Puts(b)
    BY <1>1 DEF Puts, Put
  <1>2. CASE ab_poll(b) \/ Ends(b) \/ Handles(b) \/ Rotates(b) \/ HandleDone(b) \/ Dismisses(b)
    BY <1>2 DEF ab_poll, Ends, Handles, Rotates, HandleDone, Dismisses
  <1> QED BY <1>1, <1>2, AppCases

LEMMA LettersOld ==
  ASSUME TypeOK, NEW a \in Apps, NEW b \in Apps, a # b, Frames(b), Opening(b), Calls(b) \/ AppStep(b)
  PROVE  OldLetters(a)
  <1>0. ipc_port \in Seq(ClientMsg)
    BY DEF TypeOK
  <1>1. CASE ipc_port' = ipc_port
    BY <1>1 DEF OldLetters
  <1>2. CASE \E k, type, id : ipc_port' = Append(ipc_port, Message(b, k, type, id))
    <2> SUFFICES ASSUME NEW i \in DOMAIN ipc_port', Letter(ipc_port', a, i)
                 PROVE  \E j \in DOMAIN ipc_port : ipc_port'[i] = ipc_port[j]
      BY DEF OldLetters
    <2>1. PICK k, type, id : ipc_port' = Append(ipc_port, Message(b, k, type, id))
      BY <1>2
    <2>2. i \in DOMAIN ipc_port \/ i = Len(ipc_port) + 1
      BY <1>0, <2>1
    <2>3. i = Len(ipc_port) + 1 => ipc_port'[i] = Message(b, k, type, id)
      BY <1>0, <2>1
    <2>4. i # Len(ipc_port) + 1
      BY <2>3 DEF Letter, Message
    <2> QED BY <1>0, <2>1, <2>2, <2>4
  <1> QED BY <1>1, <1>2, AddressedByApp

\* A program's own step.
LEMMA OpeningOwn ==
  ASSUME TypeOK, NEW a \in Apps, Frames(a), Opening(a), Calls(a) \/ AppStep(a)
  PROVE  Opening(a)'
  <1>0. app[a] \in Program /\ stack[a] \in Seq(LibraryCall) /\ ipc_port \in Seq(ClientMsg)
    BY DEF TypeOK
  <1>1. CASE app'[a].conn \notin {"new", "init"}
    BY <1>1 DEF Opening
  <1>2. CASE Puts(a)
    <2>1. PICK k \in 1..MSG_POOL_SIZE, type \in {"REGISTER", "UNREGISTER", "DATA"}, op \in {"send", "sendmem"} :
             Put(a, k, type, op)
      BY <1>2 DEF Puts
    <2>2. CASE type # "REGISTER"
      BY <1>1, <2>1, <2>2, PutFacts
    <2>3. CASE type = "REGISTER"
      <3>1. app[a].conn = "new" /\ app'[a].conn = "init" /\ app'[a].used = app[a].used \cup {k} /\ op = "send"
        BY <2>1, <2>3, PutFacts
      <3>2. stack'[a] = Append(stack[a], Frame(op, k, 0)) /\ reply_port' = reply_port
        BY <2>1, <2>3, PutFacts
      <3>3. stack[a] = <<>> /\ app[a].used = {} /\ reply_port[a] = <<>> /\ Registered(a) = {}
        BY <3>1 DEF Opening, Frames
      <3>4. Len(stack'[a]) = 1 /\ stack'[a][1] = Frame("send", k, 0)
        BY <3>1, <3>2, <3>3
      <3>5. Registered(a)' = {}
        BY <2>1, <3>3 DEF Put, dvars, Registered, Active
      <3>6. \A i \in DOMAIN ipc_port' : Letter(ipc_port', a, i) =>
                ipc_port'[i].type = "REGISTER" /\ ipc_port'[i].slot = stack'[a][1].slot
        <4> SUFFICES ASSUME NEW i \in DOMAIN ipc_port', Letter(ipc_port', a, i)
                     PROVE  ipc_port'[i].type = "REGISTER" /\ ipc_port'[i].slot = stack'[a][1].slot
          OBVIOUS
        <4>1. \A j \in DOMAIN ipc_port : ~Letter(ipc_port, a, j)
          BY <3>1 DEF Opening
        <4>2. ipc_port' = ipc_port \/ ipc_port' = Append(ipc_port, Message(a, k, "REGISTER", app[a].id))
          BY <2>1, <2>3 DEF Put
        <4>3. CASE ipc_port' = ipc_port
          BY <4>1, <4>3
        <4>4. CASE ipc_port' = Append(ipc_port, Message(a, k, "REGISTER", app[a].id))
          <5>1. i \in DOMAIN ipc_port \/ ipc_port'[i] = Message(a, k, "REGISTER", app[a].id)
            BY <1>0, <4>4
          <5>2. i \in DOMAIN ipc_port => ipc_port'[i] = ipc_port[i]
            BY <1>0, <4>4
          <5>3. i \notin DOMAIN ipc_port
            BY <4>1, <5>2 DEF Letter
          <5> QED BY <3>4, <5>1, <5>3 DEF Message, Frame
        <4> QED BY <4>2, <4>3, <4>4
      <3>7. stack'[a][1].op = "send" /\ stack'[a][1].slot = k
        BY <3>4 DEF Frame
      <3> QED BY <3>1, <3>2, <3>3, <3>4, <3>5, <3>6, <3>7 DEF Opening
    <2> QED BY <2>2, <2>3
  <1>3. CASE SendGetOwn(a)
    <2>1. app[a].conn = "init" => app'[a].conn \in {"up", "gone"}
      BY <1>3, OwnFacts
    <2>2. app[a].conn # "init" => app'[a].conn = app[a].conn
      BY <1>3, OwnFacts
    <2>3. app[a].conn # "new"
      BY <1>3 DEF SendGetOwn, InCall, Frames
    <2> QED BY <1>1, <2>1, <2>2, <2>3
  <1>4. CASE ~Puts(a) /\ ~SendGetOwn(a)
    <2>1. ab_poll(a) \/ AppStep(a)
      BY <1>4, PutCalls DEF Calls
    <2> QED BY <1>1, <1>4, <2>1, Established
  <1> QED BY <1>2, <1>3, <1>4

LEMMA OpeningOther ==
  ASSUME TypeOK, NEW a \in Apps, NEW b \in Apps, a # b, Opening(a), Frames(b), Opening(b),
         Calls(b) \/ AppStep(b)
  PROVE  Opening(a)'
  <1>1. OldLetters(a)
    BY LettersOld
  <1>2. /\ stack'[a] = stack[a] /\ reply_port'[a] = reply_port[a] /\ app'[a] = app[a]
        /\ clients' = clients
    BY OthersKept
  <1>3. Registered(a)' = Registered(a)
    BY <1>2 DEF Registered, Active
  <1> QED BY <1>1, <1>2, <1>3, OpeningAlone

\* The daemon sends a request: to a registered program.
LEMMA OpeningSends ==
  ASSUME TypeOK, Entries, NEW a \in Apps, Opening(a), Sends
  PROVE  Opening(a)'
  <1>1. PICK kind \in AllKinds, s \in Active, ci \in 0..(AB_MAX_CLIENTS + 1) :
           SendRequest(kind, clients[s].port, ci)
    BY DEF Sends
  <1>2. PICK t \in Apps : t = clients[s].port
    BY TargetType
  <1>3. /\ reply_port' = [reply_port EXCEPT ![t] = Append(@, Request(Len(reqs) + 1))]
        /\ UNCHANGED <<clients, ipc_port, app, stack>>
    BY <1>1, <1>2 DEF SendRequest, cvars
  <1>4. Registered(a)' = Registered(a) /\ OldLetters(a)
    BY <1>3 DEF Registered, Active, OldLetters
  <1>5. reply_port \in Ports
    BY DEF TypeOK, Ports
  <1>6. CASE t # a
    <2>1. reply_port'[a] = reply_port[a]
      BY <1>3, <1>5, <1>6 DEF Ports
    <2> QED BY <1>3, <1>4, <2>1, OpeningAlone
  <1>7. CASE t = a
    <2>1. Registered(a) # {}
      BY <1>2, <1>7 DEF Registered
    <2>2. app[a].conn # "new" /\ (app[a].conn = "init" => reply_port[a] # <<>>)
      BY <2>1 DEF Opening
    <2>3. reply_port'[a] = Append(reply_port[a], Request(Len(reqs) + 1)) /\ reply_port[a] \in Seq(RequestMsg \cup ClientMsg)
      BY <1>3, <1>5, <1>7 DEF Ports
    <2>4. reply_port[a] # <<>> => Head(reply_port'[a]) = Head(reply_port[a]) /\ reply_port'[a] # <<>>
      <3> HIDE DEF Request
      <3> QED BY <2>3
    <2>5. OwnReply(a, Head(reply_port[a])) /\ reply_port[a] # <<>> => OwnReply(a, Head(reply_port[a]))'
      <3>1. stack' = stack
        BY <1>3
      <3> QED BY <2>4, <3>1 DEF OwnReply, Top
    <2> QED BY <1>3, <2>2, <2>4, <2>5 DEF Opening
  <1> QED BY <1>6, <1>7

\* The daemon answers a message.
LEMMA OpeningServes ==
  ASSUME TypeOK, NEW a \in Apps, Frames(a), Opening(a), NEW id \in Nat, Serves(id)
  PROVE  Opening(a)'
  <1>1. UNCHANGED <<app, stack>>
    BY DEF Serves, cvars
  <1>2. OldLetters(a)
    BY ServePorts DEF OldLetters
  <1>3. CASE reply_port'[a] = reply_port[a] /\ ~(Letter(ipc_port, a, 1) /\ a \in open)
    <2>1. app[a].conn \in {"new", "init"} => Registered(a)' \subseteq Registered(a)
      <3> SUFFICES ASSUME app[a].conn \in {"new", "init"}, NEW s \in Registered(a)' PROVE s \in Registered(a)
        OBVIOUS
      <3>1. s \in Registered(a) \/ a = ipc_port[1].app
        BY DEF Serves
      <3>2. 1 \in DOMAIN ipc_port /\ ipc_port[1] \in ClientMsg
        BY ServePorts
      <3>3. a = ipc_port[1].app => Letter(ipc_port, a, 1)
        BY <3>2 DEF Letter, ClientMsg
      <3>4. app[a].conn = "new" => ~Letter(ipc_port, a, 1)
        BY <3>2 DEF Opening
      <3>5. app[a].conn = "init" => a \in open
        BY DEF Frames
      <3> QED BY <1>3, <3>1, <3>3, <3>4, <3>5
    <2>2. CASE app[a].conn \in {"new", "init"}
      BY <1>1, <1>2, <1>3, <2>1, <2>2, OpeningAlone
    <2>3. CASE app[a].conn \notin {"new", "init"}
      BY <1>1, <2>3 DEF Opening
    <2> QED BY <2>2, <2>3
  <1>4. CASE Got(a, id)
    <2>1. Letter(ipc_port, a, 1) /\ 1 \in DOMAIN ipc_port
      BY <1>4, ServePorts DEF Got
    <2>2. app[a].conn # "new"
      BY <2>1 DEF Opening
    <2>3. CASE app[a].conn = "init"
      <3>1. ipc_port[1].slot = stack[a][1].slot /\ stack[a][1].op = "send" /\ Len(stack[a]) = 1
        BY <2>1, <2>3 DEF Opening
      <3>2. \A i \in DOMAIN ipc_port' : Letter(ipc_port', a, i) =>
                ipc_port'[i].type = "REGISTER" /\ ipc_port'[i].slot = stack'[a][1].slot
        <4> SUFFICES ASSUME NEW i \in DOMAIN ipc_port', Letter(ipc_port', a, i)
                     PROVE  ipc_port'[i].type = "REGISTER" /\ ipc_port'[i].slot = stack'[a][1].slot
          OBVIOUS
        <4>1. PICK j \in DOMAIN ipc_port : ipc_port'[i] = ipc_port[j]
          BY <1>2 DEF OldLetters
        <4>2. Letter(ipc_port, a, j)
          BY <4>1 DEF Letter
        <4> QED BY <1>1, <2>3, <4>1, <4>2 DEF Opening
      <3>3. reply_port'[a] # <<>> /\ OwnReply(a, Head(reply_port[a]))'
        <4>1. CASE reply_port[a] = <<>>
          <5>1. DOMAIN reply_port'[a] = 1..1 /\ LET m == reply_port'[a][1] IN m.kind = "msg" /\ m.app = a /\ m.slot = ipc_port[1].slot
            BY <1>4, <4>1 DEF Got
          <5>2. reply_port'[a] # <<>> /\ Head(reply_port'[a]) = reply_port'[a][1]
            BY <5>1
          <5> QED BY <1>1, <3>1, <5>1, <5>2 DEF OwnReply, Top
        <4>2. CASE reply_port[a] # <<>>
          <5>1. OwnReply(a, Head(reply_port[a]))
            BY <2>3, <4>2 DEF Opening
          <5>2. reply_port[a] \in Seq(RequestMsg \cup ClientMsg)
            BY DEF TypeOK
          <5>3. 1 \in DOMAIN reply_port[a] /\ Head(reply_port[a]) = reply_port[a][1]
            BY <4>2, <5>2
          <5>4. 1 \in DOMAIN reply_port'[a] /\ reply_port'[a][1] = reply_port[a][1]
            BY <1>4, <5>3 DEF Got
          <5>5. reply_port'[a] # <<>> /\ Head(reply_port'[a]) = Head(reply_port[a])
            BY <5>3, <5>4
          <5> QED BY <1>1, <5>1, <5>5 DEF OwnReply, Top
        <4> QED BY <4>1, <4>2
      <3> QED BY <1>1, <2>3, <3>2, <3>3 DEF Opening
    <2>4. CASE app[a].conn \notin {"new", "init"}
      BY <1>1, <2>4 DEF Opening
    <2> QED BY <2>2, <2>3, <2>4
  <1> QED BY <1>3, <1>4, ServePorts

\* The steps of the daemon, and what they have in common.
LEMMA DaemonCases ==
  ASSUME TypeOK, Entries, Awaited, DaemonStep \/ HostStep
  PROVE  \/ Control /\ (Up' => Up)
         \/ Sends
         \/ Entries' /\ \E id \in Nat : Serves(id)
  <1>1. CASE ipc_process \/ IpcDrain
    BY <1>1, ServeFacts
  <1>2. CASE NotifySend \/ handle_exec \/ \E kind \in {"var", "hook", "perf"} : handle_query(kind)
    BY <1>2, SendCalls
  <1>3. CASE WaitReply \/ WaitTimeout
    <2>1. daemon' = AfterWait(daemon.ci) /\ daemon.pc = "wait"
      BY <1>3 DEF WaitReply, WaitTimeout
    <2>2. daemon.ci = 0 => Up
      BY <2>1 DEF Up
    <2>3. daemon.ci # 0 => ~Up'
      BY <2>1 DEF Up, AfterWait
    <2> QED BY <1>3, <2>2, <2>3, ControlCalls
  <1>4. CASE NotifySkip \/ IpcRemPort \/ IpcClose \/ Shutdown
    <2>1. daemon \in [pc : {"loop", "wait", "notify", "drain", "down"}, req : 0..MaxReqs, ci : 0..(AB_MAX_CLIENTS + 1)]
      BY DEF TypeOK
    <2>2. daemon'.pc \in {"notify", "drain", "down"}
      BY <1>4, <2>1 DEF NotifySkip, IpcRemPort, IpcClose, Shutdown
    <2> QED BY <1>4, <2>2, ControlCalls DEF Up
  <1> QED BY <1>1, <1>2, <1>3, <1>4 DEF DaemonStep, HostStep

LEMMA OpeningDaemon ==
  ASSUME TypeOK, Entries, Awaited, NEW a \in Apps, Frames(a), Opening(a), DaemonStep \/ HostStep
  PROVE  Opening(a)'
  <1>1. CASE Control
    <2>1. OldLetters(a) /\ Registered(a)' = Registered(a) /\ UNCHANGED <<app, stack, reply_port>>
      BY <1>1 DEF Control, OldLetters, Registered, Active, cvars
    <2> QED BY <2>1, OpeningAlone
  <1> QED BY <1>1, DaemonCases, OpeningSends, OpeningServes

-------------------------------------------------------------------------------
(* The slots of the programs' messages.                                       *)

\* Where a message of a in the queue now came from in the queue before: p tells them apart.
From(old, new, a, p) ==
    /\ \A i \in DOMAIN new : Letter(new, a, i) => p[i] \in DOMAIN old /\ new[i] = old[p[i]]
    /\ \A i, j \in DOMAIN new : p[i] = p[j] => i = j

Here == [i \in Nat |-> i]
Next1 == [i \in Nat |-> i + 1]
Round(n) == [i \in Nat |-> IF i = n THEN 1 ELSE i + 1]

\* The calls that wait for an answer waited before.
OldSends(a) ==
    \A i \in DOMAIN stack'[a] : stack'[a][i].op = "send" =>
        i \in DOMAIN stack[a] /\ stack'[a][i] = stack[a][i]

\* Messages move up, go round or go away; a slot that is freed is not used by any.
LEMMA LettersKept ==
  ASSUME NEW a, NEW p, NEW q, Letters(a), From(ipc_port, ipc_port', a, p),
         From(reply_port[a], reply_port'[a], a, q), OldSends(a),
         \A i \in DOMAIN ipc_port' : Letter(ipc_port', a, i) /\ ipc_port'[i].slot \in app[a].used
                                        => ipc_port'[i].slot \in app'[a].used,
         \A i \in DOMAIN reply_port'[a] : Letter(reply_port'[a], a, i) /\ reply_port'[a][i].slot \in app[a].used
                                        => reply_port'[a][i].slot \in app'[a].used,
         \A i \in DOMAIN stack'[a] : stack'[a][i].op = "send" /\ stack'[a][i].slot \in app[a].used
                                        => stack'[a][i].slot \in app'[a].used
  PROVE  Letters(a)'
  <1>1. \A i \in DOMAIN ipc_port' : Letter(ipc_port', a, i) =>
           Letter(ipc_port, a, p[i]) /\ ipc_port'[i] = ipc_port[p[i]] /\ p[i] \in DOMAIN ipc_port
    BY DEF From, Letter
  <1>2. \A i \in DOMAIN reply_port'[a] : Letter(reply_port'[a], a, i) =>
           Letter(reply_port[a], a, q[i]) /\ reply_port'[a][i] = reply_port[a][q[i]] /\ q[i] \in DOMAIN reply_port[a]
    BY DEF From, Letter
  <1>3. \A i \in DOMAIN ipc_port' : Letter(ipc_port', a, i) => ipc_port'[i].slot \in app'[a].used
    BY <1>1 DEF Letters
  <1>4. \A i \in DOMAIN reply_port'[a] : Letter(reply_port'[a], a, i) => reply_port'[a][i].slot \in app'[a].used
    BY <1>2 DEF Letters
  <1>5. \A i, j \in DOMAIN ipc_port' :
          Letter(ipc_port', a, i) /\ Letter(ipc_port', a, j) /\ ipc_port'[i].slot = ipc_port'[j].slot => i = j
    <2> SUFFICES ASSUME NEW i \in DOMAIN ipc_port', NEW j \in DOMAIN ipc_port',
                        Letter(ipc_port', a, i), Letter(ipc_port', a, j), ipc_port'[i].slot = ipc_port'[j].slot
                 PROVE  i = j
      OBVIOUS
    <2>1. p[i] = p[j]
      BY <1>1 DEF Letters
    <2> QED BY <2>1 DEF From
  <1>6. \A i, j \in DOMAIN reply_port'[a] :
          Letter(reply_port'[a], a, i) /\ Letter(reply_port'[a], a, j)
             /\ reply_port'[a][i].slot = reply_port'[a][j].slot => i = j
    <2> SUFFICES ASSUME NEW i \in DOMAIN reply_port'[a], NEW j \in DOMAIN reply_port'[a],
                        Letter(reply_port'[a], a, i), Letter(reply_port'[a], a, j),
                        reply_port'[a][i].slot = reply_port'[a][j].slot
                 PROVE  i = j
      OBVIOUS
    <2>1. q[i] = q[j]
      BY <1>2 DEF Letters
    <2> QED BY <2>1 DEF From
  <1>7. \A i \in DOMAIN ipc_port', j \in DOMAIN reply_port'[a] :
          Letter(ipc_port', a, i) /\ Letter(reply_port'[a], a, j) => ipc_port'[i].slot # reply_port'[a][j].slot
    BY <1>1, <1>2 DEF Letters
  <1>8. \A i, j \in DOMAIN stack'[a] :
          /\ stack'[a][i].op = "send" => stack'[a][i].slot \in app'[a].used
          /\ stack'[a][i].op = "send" /\ stack'[a][j].op = "send" /\ i # j
                => stack'[a][i].slot # stack'[a][j].slot
    BY DEF OldSends, Letters
  <1> QED BY <1>3, <1>4, <1>5, <1>6, <1>7, <1>8 DEF Letters

\* A queue that is as it was, that lost its head, or whose head went to its end.
LEMMA FromHere ==
  ASSUME NEW S, NEW old \in Seq(S), NEW a
  PROVE  From(old, old, a, Here)
  BY DEF From, Here, Letter

LEMMA FromTail ==
  ASSUME NEW S, NEW old \in Seq(S), NEW a, old # <<>>
  PROVE  From(old, Tail(old), a, Next1)
  <1>1. \A i \in DOMAIN Tail(old) : i \in Nat /\ i + 1 \in DOMAIN old /\ Tail(old)[i] = old[i + 1]
    OBVIOUS
  <1>2. \A i \in Nat : Next1[i] = i + 1
    BY DEF Next1
  <1> DEFINE new == Tail(old)
  <1> HIDE DEF new
  <1>3. \A i \in DOMAIN new : i \in Nat /\ Next1[i] \in DOMAIN old /\ new[i] = old[Next1[i]]
    BY <1>1, <1>2 DEF new
  <1>4. \A i, j \in DOMAIN new : Next1[i] = Next1[j] => i = j
    <2>1. \A i, j \in Nat : Next1[i] = Next1[j] => i = j
      BY <1>2
    <2> QED BY <1>3, <2>1
  <1> QED BY <1>3, <1>4 DEF From, new

LEMMA FromRound ==
  ASSUME NEW S, NEW old \in Seq(S), NEW a, old # <<>>
  PROVE  From(old, Append(Tail(old), Head(old)), a, Round(Len(old)))
  <1> DEFINE new == Append(Tail(old), Head(old))
  <1>1. Len(old) \in Nat \ {0} /\ DOMAIN new = 1..Len(old) /\ DOMAIN old = 1..Len(old)
    OBVIOUS
  <1>2. new[Len(old)] = old[1]
    OBVIOUS
  <1>3. \A i \in DOMAIN new : i # Len(old) => new[i] = old[i + 1]
    OBVIOUS
  <1> HIDE DEF new
  <1>4. \A i \in DOMAIN new : Round(Len(old))[i] = IF i = Len(old) THEN 1 ELSE i + 1
    <2>1. \A n : \A i \in Nat : Round(n)[i] = IF i = n THEN 1 ELSE i + 1
      BY DEF Round
    <2>2. \A i \in DOMAIN new : i \in Nat
      BY <1>1
    <2> QED BY <2>1, <2>2
  <1>5. \A i \in DOMAIN new : Round(Len(old))[i] \in DOMAIN old /\ new[i] = old[Round(Len(old))[i]]
    BY <1>1, <1>2, <1>3, <1>4
  <1>6. \A i, j \in DOMAIN new : Round(Len(old))[i] = Round(Len(old))[j] => i = j
    BY <1>1, <1>4
  <1> QED BY <1>5, <1>6 DEF From, new

\* What is appended is no message of a.
LEMMA FromAppend ==
  ASSUME NEW S, NEW old \in Seq(S), NEW a, NEW x, x.kind = "req" \/ x.app # a
  PROVE  From(old, Append(old, x), a, Here)
  <1>1. \A i \in DOMAIN Append(old, x) : i \in Nat /\ (i \in DOMAIN old \/ i = Len(old) + 1)
    OBVIOUS
  <1>2. Append(old, x)[Len(old) + 1] = x /\ \A i \in DOMAIN old : Append(old, x)[i] = old[i]
    OBVIOUS
  <1> QED BY <1>1, <1>2 DEF From, Here, Letter

\* A message is put in a slot that was free.
LEMMA LettersPut ==
  ASSUME TypeOK, NEW a \in Apps, Letters(a), NEW k \in 1..MSG_POOL_SIZE,
         NEW type \in {"REGISTER", "UNREGISTER", "DATA"}, NEW op \in {"send", "sendmem"}, Put(a, k, type, op)
  PROVE  Letters(a)'
  <1>0. ipc_port \in Seq(ClientMsg) /\ stack[a] \in Seq(LibraryCall)
    BY DEF TypeOK
  <1>1. app'[a].used = app[a].used \cup {k} /\ k \notin app[a].used /\ reply_port' = reply_port
    BY PutFacts
  <1>2. \A i \in DOMAIN ipc_port' : Letter(ipc_port', a, i) =>
           \/ i \in DOMAIN ipc_port /\ Letter(ipc_port, a, i) /\ ipc_port'[i] = ipc_port[i]
           \/ i = Len(ipc_port) + 1 /\ ipc_port'[i].slot = k
    <2>1. CASE ipc_port' = ipc_port
      BY <2>1
    <2>2. CASE ipc_port' = Append(ipc_port, Message(a, k, type, app[a].id))
      <3>1. \A i \in DOMAIN ipc_port' : \/ i \in DOMAIN ipc_port /\ ipc_port'[i] = ipc_port[i]
                                        \/ i = Len(ipc_port) + 1 /\ ipc_port'[i] = Message(a, k, type, app[a].id)
        <4> HIDE DEF Message
        <4> QED BY <1>0, <2>2
      <3> QED BY <3>1 DEF Letter, Message
    <2> QED BY <2>1, <2>2 DEF Put
  <1>3. \A i \in DOMAIN stack'[a] : stack'[a][i].op = "send" =>
           \/ i \in DOMAIN stack[a] /\ stack'[a][i] = stack[a][i]
           \/ i = Len(stack'[a]) /\ stack'[a][i].slot = k
    <2>1. CASE type = "UNREGISTER"
      <3>1. stack'[a] = <<Frame("cleanup", k, 0), Frame("send", k, 0)>>
        BY <2>1, PutFacts
      <3>2. Len(stack'[a]) = 2 /\ DOMAIN stack'[a] = 1..2 /\ stack'[a][1].op = "cleanup" /\ stack'[a][2].slot = k
        BY <3>1 DEF Frame
      <3> QED BY <3>2
    <2>2. CASE type # "UNREGISTER"
      <3>1. stack'[a] = Append(stack[a], Frame(op, k, 0))
        BY <2>2, PutFacts
      <3>2. \A i \in DOMAIN stack'[a] : \/ i \in DOMAIN stack[a] /\ stack'[a][i] = stack[a][i]
                                        \/ i = Len(stack'[a]) /\ stack'[a][i] = Frame(op, k, 0)
        <4> HIDE DEF Frame
        <4> QED BY <1>0, <3>1
      <3> QED BY <3>2 DEF Frame
    <2> QED BY <2>1, <2>2
  <1>4. \A i \in DOMAIN ipc_port : Letter(ipc_port, a, i) => ipc_port[i].slot \in app[a].used
    BY DEF Letters
  <1>5. \A i \in DOMAIN reply_port[a] : Letter(reply_port[a], a, i) => reply_port[a][i].slot \in app[a].used
    BY DEF Letters
  <1>6. \A i \in DOMAIN ipc_port' : Letter(ipc_port', a, i) => ipc_port'[i].slot \in app'[a].used
    BY <1>1, <1>2, <1>4
  <1>7. \A i \in DOMAIN reply_port'[a] : Letter(reply_port'[a], a, i) => reply_port'[a][i].slot \in app'[a].used
    BY <1>1, <1>5
  <1>8. \A i, j \in DOMAIN ipc_port' :
          Letter(ipc_port', a, i) /\ Letter(ipc_port', a, j) /\ ipc_port'[i].slot = ipc_port'[j].slot => i = j
    BY <1>1, <1>2, <1>4 DEF Letters
  <1>9. \A i, j \in DOMAIN reply_port'[a] :
          Letter(reply_port'[a], a, i) /\ Letter(reply_port'[a], a, j)
             /\ reply_port'[a][i].slot = reply_port'[a][j].slot => i = j
    BY <1>1 DEF Letters
  <1>10. \A i \in DOMAIN ipc_port', j \in DOMAIN reply_port'[a] :
          Letter(ipc_port', a, i) /\ Letter(reply_port'[a], a, j) => ipc_port'[i].slot # reply_port'[a][j].slot
    BY <1>1, <1>2, <1>5 DEF Letters
  <1>11. \A i, j \in DOMAIN stack'[a] :
          /\ stack'[a][i].op = "send" => stack'[a][i].slot \in app'[a].used
          /\ stack'[a][i].op = "send" /\ stack'[a][j].op = "send" /\ i # j
                => stack'[a][i].slot # stack'[a][j].slot
    BY <1>1, <1>3 DEF Letters
  <1> QED BY <1>6, <1>7, <1>8, <1>9, <1>10, <1>11 DEF Letters

\* A message is answered: it goes from the daemon's port to its program's.
LEMMA LettersServes ==
  ASSUME TypeOK, NEW a \in Apps, Letters(a), NEW id \in Nat, Serves(id)
  PROVE  Letters(a)'
  <1>0. reply_port[a] \in Seq(RequestMsg \cup ClientMsg) /\ ipc_port \in Seq(ClientMsg) /\ ipc_port # <<>>
        /\ ipc_port' = Tail(ipc_port) /\ UNCHANGED <<app, stack>>
    BY DEF TypeOK, Serves, cvars
  <1>1. From(ipc_port, ipc_port', a, Next1)
    BY <1>0, FromTail
  <1>2. CASE reply_port'[a] = reply_port[a]
    <2>1. From(reply_port[a], reply_port'[a], a, Here)
      BY <1>0, <1>2, FromHere
    <2>2. OldSends(a)
      BY <1>0 DEF OldSends
    <2> QED BY <1>0, <1>1, <2>1, <2>2, LettersKept
  <1>3. CASE Got(a, id)
    <2> DEFINE n == Len(reply_port[a])
    <2>1. /\ Letter(ipc_port, a, 1) /\ 1 \in DOMAIN ipc_port /\ n \in Nat
          /\ DOMAIN reply_port[a] = 1..n /\ DOMAIN reply_port'[a] = 1..(n + 1)
          /\ reply_port'[a][n + 1].slot = ipc_port[1].slot
      BY <1>3, ServePorts DEF Got
    <2>2. \A j \in DOMAIN reply_port[a] : reply_port'[a][j] = reply_port[a][j]
      BY <1>3 DEF Got
    <2> HIDE DEF n
    <2>3. \A i \in DOMAIN ipc_port' :
             i \in Nat \ {0} /\ i + 1 \in DOMAIN ipc_port /\ ipc_port'[i] = ipc_port[i + 1]
      BY ServePorts
    <2>4. \A i \in DOMAIN ipc_port' : Letter(ipc_port', a, i) =>
             Letter(ipc_port, a, i + 1) /\ i + 1 \in DOMAIN ipc_port /\ i + 1 # 1 /\ ipc_port'[i] = ipc_port[i + 1]
      BY <2>3 DEF Letter
    <2>5. \A j \in DOMAIN reply_port'[a] : Letter(reply_port'[a], a, j) =>
             \/ j \in DOMAIN reply_port[a] /\ Letter(reply_port[a], a, j) /\ reply_port'[a][j] = reply_port[a][j]
             \/ j = n + 1 /\ reply_port'[a][j].slot = ipc_port[1].slot
      BY <2>1, <2>2 DEF Letter
    <2>6. \A i \in DOMAIN ipc_port' : Letter(ipc_port', a, i) => ipc_port'[i].slot \in app'[a].used
      BY <1>0, <2>4 DEF Letters
    <2>7. \A i \in DOMAIN reply_port'[a] : Letter(reply_port'[a], a, i) => reply_port'[a][i].slot \in app'[a].used
      BY <1>0, <2>1, <2>5 DEF Letters
    <2>8. \A i, j \in DOMAIN ipc_port' :
            Letter(ipc_port', a, i) /\ Letter(ipc_port', a, j) /\ ipc_port'[i].slot = ipc_port'[j].slot => i = j
      <3> SUFFICES ASSUME NEW i \in DOMAIN ipc_port', NEW j \in DOMAIN ipc_port',
                          Letter(ipc_port', a, i), Letter(ipc_port', a, j), ipc_port'[i].slot = ipc_port'[j].slot
                   PROVE  i = j
        OBVIOUS
      <3>1. i + 1 = j + 1
        BY <2>4 DEF Letters
      <3> QED BY <2>3, <3>1
    <2>9. \A i, j \in DOMAIN reply_port'[a] :
            Letter(reply_port'[a], a, i) /\ Letter(reply_port'[a], a, j)
               /\ reply_port'[a][i].slot = reply_port'[a][j].slot => i = j
      BY <2>1, <2>5 DEF Letters
    <2>10. \A i \in DOMAIN ipc_port', j \in DOMAIN reply_port'[a] :
            Letter(ipc_port', a, i) /\ Letter(reply_port'[a], a, j) => ipc_port'[i].slot # reply_port'[a][j].slot
      BY <2>1, <2>4, <2>5 DEF Letters
    <2>11. \A i, j \in DOMAIN stack'[a] :
            /\ stack'[a][i].op = "send" => stack'[a][i].slot \in app'[a].used
            /\ stack'[a][i].op = "send" /\ stack'[a][j].op = "send" /\ i # j
                  => stack'[a][i].slot # stack'[a][j].slot
      BY <1>0 DEF Letters
    <2> QED BY <2>6, <2>7, <2>8, <2>9, <2>10, <2>11 DEF Letters
  <1> QED BY <1>2, <1>3, ServePorts

\* The other steps leave what waits for an answer, and free the slot of an answer only.
LEMMA LettersQuiet ==
  ASSUME NEW a, NEW p, NEW q, Letters(a), From(ipc_port, ipc_port', a, p),
         From(reply_port[a], reply_port'[a], a, q), OldSends(a), app'[a].used = app[a].used
  PROVE  Letters(a)'
  BY LettersKept

LEMMA LettersOther ==
  ASSUME TypeOK, NEW a \in Apps, NEW b \in Apps, a # b, Letters(a), Frames(b), Opening(b),
         Calls(b) \/ AppStep(b)
  PROVE  Letters(a)'
  <1>0. ipc_port \in Seq(ClientMsg) /\ reply_port[a] \in Seq(RequestMsg \cup ClientMsg)
    BY DEF TypeOK
  <1>1. stack'[a] = stack[a] /\ reply_port'[a] = reply_port[a] /\ app'[a] = app[a]
    BY OthersKept
  <1>2. From(ipc_port, ipc_port', a, Here)
    <2>1. CASE ipc_port' = ipc_port
      BY <1>0, <2>1, FromHere
    <2>2. CASE \E k, type, id : ipc_port' = Append(ipc_port, Message(b, k, type, id))
      <3>1. PICK k, type, id : ipc_port' = Append(ipc_port, Message(b, k, type, id))
        BY <2>2
      <3>2. Message(b, k, type, id).app # a
        BY DEF Message
      <3> QED BY <1>0, <3>1, <3>2, FromAppend
    <2> QED BY <2>1, <2>2, AddressedByApp
  <1>3. From(reply_port[a], reply_port'[a], a, Here)
    BY <1>0, <1>1, FromHere
  <1>4. OldSends(a)
    BY <1>1 DEF OldSends
  <1> QED BY <1>1, <1>2, <1>3, <1>4, LettersQuiet

LEMMA LettersOwn ==
  ASSUME TypeOK, NEW a \in Apps, a \notin SendMemUsers, Letters(a), Frames(a), Opening(a),
         Calls(a) \/ AppStep(a)
  PROVE  Letters(a)'
  <1>0. /\ ipc_port \in Seq(ClientMsg) /\ reply_port[a] \in Seq(RequestMsg \cup ClientMsg)
        /\ stack[a] \in Seq(LibraryCall) /\ app[a] \in Program
        /\ reply_port \in [Apps -> Seq(RequestMsg \cup ClientMsg)] /\ stack \in Stacks /\ app \in [Apps -> Program]
    BY DEF TypeOK, Stacks
  <1>1. CASE Puts(a)
    BY <1>1, LettersPut DEF Puts
  <1>2. ASSUME ipc_port' = ipc_port PROVE From(ipc_port, ipc_port', a, Here)
    BY <1>0, <1>2, FromHere
  <1>3. ASSUME reply_port' = reply_port PROVE From(reply_port[a], reply_port'[a], a, Here)
    BY <1>0, <1>3, FromHere
  <1>4. ASSUME reply_port[a] # <<>>, reply_port' = [reply_port EXCEPT ![a] = Tail(@)]
        PROVE  From(reply_port[a], reply_port'[a], a, Next1)
    <2>1. reply_port'[a] = Tail(reply_port[a])
      BY <1>0, <1>4
    <2> QED BY <1>0, <1>4, <2>1, FromTail
  <1>5. ASSUME Ends(a) \/ HandleDone(a) \/ stack'[a] = stack[a]
        PROVE  OldSends(a)
    <2>1. Prefix(a)
      BY <1>5, PrefixFacts
    <2> QED BY <2>1 DEF Prefix, OldSends
  <1>6. CASE ab_poll(a)
    <2>1. stack'[a] = <<Frame("poll", 0, 0)>> /\ app' = app /\ ipc_port' = ipc_port /\ reply_port' = reply_port
      BY <1>0, <1>6 DEF ab_poll, Stacks
    <2>2. DOMAIN stack'[a] = 1..1 /\ stack'[a][1].op = "poll"
      BY <2>1 DEF Frame
    <2>3. OldSends(a)
      BY <2>2 DEF OldSends
    <2> QED BY <1>2, <1>3, <2>1, <2>3, LettersQuiet
  <1>7. CASE Handles(a)
    <2>1. /\ stack'[a] = Append(stack[a], Frame("handle", 0, Head(reply_port[a]).req))
          /\ app' = app /\ ipc_port' = ipc_port /\ reply_port[a] # <<>>
          /\ reply_port' = [reply_port EXCEPT ![a] = Tail(@)]
      BY <1>0, <1>7 DEF Handles, Stacks
    <2>2. OldSends(a)
      <3>1. PICK f : f = Frame("handle", 0, Head(reply_port[a]).req)
        OBVIOUS
      <3>2. f.op = "handle"
        BY <3>1 DEF Frame
      <3>3. \A i \in DOMAIN stack'[a] : stack'[a][i] = f \/ (i \in DOMAIN stack[a] /\ stack'[a][i] = stack[a][i])
        BY <1>0, <2>1, <3>1
      <3> QED BY <3>2, <3>3 DEF OldSends
    <2> QED BY <1>2, <1>4, <2>1, <2>2, LettersQuiet
  <1>8. CASE Rotates(a)
    <2>1. /\ reply_port[a] # <<>> /\ app' = app /\ ipc_port' = ipc_port /\ stack' = stack
          /\ reply_port'[a] = Append(Tail(reply_port[a]), Head(reply_port[a]))
      BY <1>0, <1>8 DEF Rotates
    <2>2. From(reply_port[a], reply_port'[a], a, Round(Len(reply_port[a])))
      BY <1>0, <2>1, FromRound
    <2> QED BY <1>2, <1>5, <2>1, <2>2, LettersQuiet
  <1>9. CASE HandleDone(a)
    <2>1. app'[a].used = app[a].used /\ ipc_port' = ipc_port /\ reply_port' = reply_port
      BY <1>0, <1>9 DEF HandleDone, Program
    <2> QED BY <1>2, <1>3, <1>5, <1>9, <2>1, LettersQuiet
  <1>10. CASE Dismisses(a)
    <2>1. /\ app' = app /\ ipc_port' = ipc_port /\ stack' = stack /\ reply_port[a] # <<>>
          /\ reply_port' = [reply_port EXCEPT ![a] = Tail(@)]
      BY <1>10 DEF Dismisses
    <2> QED BY <1>2, <1>4, <1>5, <2>1, LettersQuiet
  <1>11. CASE PollEnd(a) \/ CleanupEnd(a)
    <2>1. app'[a].used = app[a].used /\ ipc_port' = ipc_port /\ reply_port' = reply_port
      BY <1>0, <1>11 DEF PollEnd, CleanupEnd, Program, dvars
    <2>2. Ends(a)
      BY <1>11, EndCases
    <2> QED BY <1>2, <1>3, <1>5, <2>1, <2>2, LettersQuiet
  <1>12. CASE SendMemGet(a)
    <2>1. stack[a] # <<>> /\ Top(a).op = "sendmem"
      BY <1>12 DEF SendMemGet, InCall
    <2>2. Len(stack[a]) \in DOMAIN stack[a] /\ stack[a][Len(stack[a])] = Top(a)
      BY <2>1, TopFacts
    <2> QED BY <2>1, <2>2 DEF Frames
  <1>13. CASE SendGetOwn(a)
    <2>1. PICK m \in ClientMsg : m = Head(reply_port[a])
      BY <1>13, OwnFacts
    <2>2. /\ InCall(a, "send") /\ reply_port[a] # <<>> /\ OwnReply(a, m) /\ m.slot = Top(a).slot
          /\ app'[a].used = app[a].used \ {m.slot}
      BY <1>13, <2>1, OwnFacts
    <2>3. /\ ipc_port' = ipc_port /\ reply_port' = [reply_port EXCEPT ![a] = Tail(@)]
          /\ stack' = [stack EXCEPT ![a] = Pop(@)]
      BY <1>13 DEF SendGetOwn
    <2>4. reply_port[a][1] = m /\ 1 \in DOMAIN reply_port[a] /\ Letter(reply_port[a], a, 1)
      <3>1. reply_port[a][1] = m /\ 1 \in DOMAIN reply_port[a]
        BY <1>0, <2>1, <2>2
      <3> QED BY <2>2, <3>1 DEF OwnReply, Letter
    <2>5. \A i \in DOMAIN reply_port'[a] :
             i \in Nat /\ i + 1 # 1 /\ i + 1 \in DOMAIN reply_port[a] /\ reply_port'[a][i] = reply_port[a][i + 1]
      <3>1. reply_port'[a] = Tail(reply_port[a])
        BY <1>0, <2>3
      <3> QED BY <1>0, <2>2, <3>1
    <2>6. stack[a] # <<>> /\ Top(a).op = "send"
      BY <2>2 DEF InCall
    <2>7. Ends(a)
      BY <1>13, EndCases
    <2>8. OldSends(a) /\ Prefix(a)
      BY <1>5, <2>7, PrefixFacts
    <2>9. /\ Len(stack[a]) \in DOMAIN stack[a] /\ stack[a][Len(stack[a])] = Top(a) /\ Len(stack[a]) \in Nat
      BY <2>6, TopFacts
    <2>10. \A i \in DOMAIN stack'[a] : i \in DOMAIN stack[a] /\ i # Len(stack[a]) /\ stack'[a][i] = stack[a][i]
      <3>1. stack'[a] = Pop(stack[a])
        BY <1>0, <2>3 DEF Stacks
      <3>2. Len(stack'[a]) = Len(stack[a]) - 1
        BY <1>0, <2>6, <3>1, PopFacts
      <3> QED BY <2>8, <2>9, <3>2 DEF Prefix
    <2>11. \A i \in DOMAIN ipc_port' : Letter(ipc_port', a, i) /\ ipc_port'[i].slot \in app[a].used
              => ipc_port'[i].slot \in app'[a].used
      BY <2>2, <2>3, <2>4 DEF Letters
    <2>12. \A i \in DOMAIN reply_port'[a] : Letter(reply_port'[a], a, i) /\ reply_port'[a][i].slot \in app[a].used
              => reply_port'[a][i].slot \in app'[a].used
      <3> SUFFICES ASSUME NEW i \in DOMAIN reply_port'[a], Letter(reply_port'[a], a, i),
                          reply_port'[a][i].slot \in app[a].used
                   PROVE  reply_port'[a][i].slot # m.slot
        BY <2>2
      <3>1. Letter(reply_port[a], a, i + 1) /\ reply_port'[a][i] = reply_port[a][i + 1] /\ i + 1 # 1
            /\ i + 1 \in DOMAIN reply_port[a]
        BY <2>5 DEF Letter
      <3> QED BY <2>4, <3>1 DEF Letters
    <2>13. \A i \in DOMAIN stack'[a] : stack'[a][i].op = "send" /\ stack'[a][i].slot \in app[a].used
              => stack'[a][i].slot \in app'[a].used
      BY <2>2, <2>6, <2>9, <2>10 DEF Letters
    <2> QED BY <1>2, <1>4, <2>2, <2>3, <2>8, <2>11, <2>12, <2>13, LettersKept
  <1> QED
    BY <1>1, <1>6, <1>7, <1>8, <1>9, <1>10, <1>11, <1>12, <1>13, PutCalls, ProcessCases,
       DrainCases
          DEF Calls, AppStep

LEMMA LettersDaemon ==
  ASSUME TypeOK, Entries, Awaited, NEW a \in Apps, Letters(a), DaemonStep \/ HostStep
  PROVE  Letters(a)'
  <1>0. ipc_port \in Seq(ClientMsg) /\ reply_port[a] \in Seq(RequestMsg \cup ClientMsg)
    BY DEF TypeOK
  <1>1. From(ipc_port, ipc_port, a, Here) /\ From(reply_port[a], reply_port[a], a, Here)
    BY <1>0, FromHere
  <1>2. CASE Control
    <2>1. UNCHANGED <<app, stack, reply_port, ipc_port>>
      BY <1>2 DEF Control, cvars
    <2>2. OldSends(a)
      BY <2>1 DEF OldSends
    <2> QED BY <1>1, <2>1, <2>2, LettersQuiet
  <1>3. CASE Sends
    <2>1. PICK kind \in AllKinds, s \in Active, ci \in 0..(AB_MAX_CLIENTS + 1) :
             SendRequest(kind, clients[s].port, ci)
      BY <1>3 DEF Sends
    <2>2. PICK x : x = Request(Len(reqs) + 1)
      OBVIOUS
    <2>3. reply_port'[a] \in {reply_port[a], Append(reply_port[a], x)} /\ UNCHANGED <<app, stack, ipc_port>>
      <3>1. reply_port' = [reply_port EXCEPT ![clients[s].port] = Append(@, x)]
        BY <2>1, <2>2 DEF SendRequest
      <3>2. reply_port \in [Apps -> Seq(RequestMsg \cup ClientMsg)]
        BY DEF TypeOK
      <3> QED BY <2>1, <3>1, <3>2 DEF SendRequest, cvars
    <2>4. From(reply_port[a], reply_port'[a], a, Here)
      <3>1. x.kind = "req"
        BY <2>2 DEF Request
      <3> QED BY <1>0, <1>1, <2>3, <3>1, FromAppend
    <2>5. OldSends(a)
      BY <2>3 DEF OldSends
    <2> QED BY <1>1, <2>3, <2>4, <2>5, LettersQuiet
  <1> QED BY <1>2, <1>3, DaemonCases, LettersServes

-------------------------------------------------------------------------------
(* Registering and unregistering, while requests are served.                  *)

Bound(a) == Coming(a) /\ Staying(a) /\ Leaving(a)

\* Once the daemon has begun to shut down it never serves again.
LEMMA UpDaemon ==
  ASSUME TypeOK, Entries, Awaited, DaemonStep \/ HostStep, Up'
  PROVE  Up /\ (Sends => \A r \in DOMAIN reqs' : reqs'[r].kind = "shutdown" => r \in DOMAIN reqs /\ reqs'[r] = reqs[r])
  <1>1. ASSUME Sends
        PROVE  Up /\ \A r \in DOMAIN reqs' : reqs'[r].kind = "shutdown" => r \in DOMAIN reqs /\ reqs'[r] = reqs[r]
    <2>1. PICK kind \in AllKinds, s \in Active, ci \in 0..(AB_MAX_CLIENTS + 1) :
             /\ SendRequest(kind, clients[s].port, ci) /\ daemon.pc = (IF ci = 0 THEN "loop" ELSE "notify")
             /\ kind = "shutdown" <=> ci # 0
      BY <1>1 DEF Sends
    <2>2. ci = 0
      BY <2>1 DEF SendRequest, Up
    <2>3. Up
      BY <2>1, <2>2 DEF Up, Awaited
    <2>4. PICK t \in Apps : t = clients[s].port
      BY TargetType
    <2>5. /\ Len(reqs) \in Nat /\ DOMAIN reqs = 1..Len(reqs) /\ DOMAIN reqs' = 1..(Len(reqs) + 1)
          /\ \A r \in DOMAIN reqs : reqs'[r] = reqs[r]
          /\ reqs'[Len(reqs) + 1] = [kind |-> kind, to |-> t, port |-> "open", back |-> FALSE]
      <3>1. SendRequest(kind, t, ci)
        BY <2>1, <2>4
      <3> QED BY <3>1, SendFacts
    <2>6. reqs'[Len(reqs) + 1].kind = kind
      BY <2>5
    <2> QED BY <2>1, <2>2, <2>3, <2>5, <2>6
  <1>2. Up
    <2>1. CASE Control /\ (Up' => Up)
      BY <2>1
    <2>2. CASE \E id \in Nat : Serves(id)
      BY <2>2 DEF Serves, Up
    <2> QED BY <1>1, <2>1, <2>2, DaemonCases
  <1> QED BY <1>1, <1>2

LEMMA NoShutdownDaemon ==
  ASSUME TypeOK, Entries, Awaited, DaemonStep \/ HostStep, Up',
         \A r \in DOMAIN reqs : reqs[r].kind # "shutdown"
  PROVE  \A r \in DOMAIN reqs' : reqs'[r].kind # "shutdown"
  <1>1. CASE Control
    BY <1>1 DEF Control, SameRequests
  <1>2. CASE Sends
    BY <1>2, UpDaemon
  <1>3. CASE \E id \in Nat : Serves(id)
    BY <1>3 DEF Serves
  <1> QED BY <1>1, <1>2, <1>3, DaemonCases

\* A program that nothing tells of a shutdown goes on.
LEMMA NoOffApp ==
  ASSUME TypeOK, NEW a \in Apps, Held(a), Frames(a), Opening(a), Calls(a) \/ AppStep(a),
         app[a].conn # "off", \A r \in DOMAIN reqs : reqs[r].kind # "shutdown"
  PROVE  app'[a].conn # "off"
  <1>0. app[a] \in Program /\ app \in [Apps -> Program]
    BY DEF TypeOK
  <1>1. CASE Puts(a)
    <2>1. PICK k \in 1..MSG_POOL_SIZE, type \in {"REGISTER", "UNREGISTER", "DATA"}, op \in {"send", "sendmem"} :
             Put(a, k, type, op)
      BY <1>1 DEF Puts
    <2> QED BY <2>1, PutFacts
  <1>2. CASE SendGetOwn(a)
    BY <1>2, OwnFacts
  <1>3. CASE HandleDone(a)
    <2>1. stack[a] # <<>> /\ Top(a).op = "handle"
      BY <1>3 DEF HandleDone, InCall
    <2>2. Len(stack[a]) \in DOMAIN stack[a] /\ stack[a][Len(stack[a])] = Top(a)
      BY <2>1, TopFacts
    <2>3. reqs[Top(a).req].kind # "shutdown"
      BY <2>1, <2>2 DEF Held, Owed
    <2> QED BY <1>0, <1>3, <2>3 DEF HandleDone
  <1>4. CASE ab_poll(a) \/ PollGet(a) \/ PollEnd(a) \/ SendGetOther(a) \/ CleanupDrain(a)
    BY <1>4 DEF ab_poll, PollGet, PollEnd, SendGetOther, CleanupDrain, Process
  <1>5. CASE SendMemGet(a) \/ CleanupEnd(a)
    BY <1>0, <1>5 DEF SendMemGet, CleanupEnd, Program
  <1> QED BY <1>1, <1>2, <1>3, <1>4, <1>5, PutCalls DEF Calls, AppStep

\* A step that leaves a program alone, but for an entry that it loses.
LEMMA BoundAlone ==
  ASSUME NEW a \in Apps, Bound(a), app'[a] = app[a], stack'[a] = stack[a], reply_port'[a] = reply_port[a],
         \A s \in Registered(a)' : s \in Registered(a) /\ clients'[s].id = clients[s].id, OldLetters(a)
  PROVE  Bound(a)'
  <1>1. Registered(a) = {} => Registered(a)' = {}
    OBVIOUS
  <1>2. \A i \in DOMAIN ipc_port' : Letter(ipc_port', a, i) =>
           \E j \in DOMAIN ipc_port : Letter(ipc_port, a, j) /\ ipc_port'[i] = ipc_port[j]
    BY DEF OldLetters, Letter
  <1>3. Coming(a)'
    BY DEF Bound, Coming
  <1>4. Staying(a)'
    <2>1. app'[a].conn = "up" => \A i \in DOMAIN ipc_port' : Letter(ipc_port', a, i) =>
             ipc_port'[i].type # "REGISTER" /\ ipc_port'[i].id = app'[a].id
      BY <1>2 DEF Bound, Staying
    <2>2. app'[a].conn = "up" => \A s \in Registered(a)' : clients'[s].id = app'[a].id
      BY DEF Bound, Staying
    <2> QED BY <2>1, <2>2 DEF Staying
  <1>5. Leaving(a)'
    <2>1. \A i \in DOMAIN ipc_port' :
          Letter(ipc_port', a, i) => (ipc_port'[i].type = "REGISTER" <=> app'[a].conn = "init")
      BY <1>2 DEF Bound, Leaving
    <2>2. \A i \in DOMAIN reply_port'[a] :
          Letter(reply_port'[a], a, i) /\ reply_port'[a][i].type = "UNREGISTER" => Registered(a)' = {}
      BY <1>1 DEF Bound, Leaving
    <2>3. stack'[a] # <<>> /\ stack'[a][1].op = "cleanup" /\ Len(stack'[a]) = 1 => Registered(a)' = {}
      BY <1>1 DEF Bound, Leaving
    <2>4. stack'[a] # <<>> /\ stack'[a][1].op = "cleanup" /\ Len(stack'[a]) > 1 =>
                \A i \in DOMAIN ipc_port' :
                      Letter(ipc_port', a, i) /\ ipc_port'[i].slot = stack'[a][2].slot
                         => ipc_port'[i].type = "UNREGISTER"
      BY <1>2 DEF Bound, Leaving
    <2>5. stack'[a] # <<>> /\ stack'[a][1].op = "cleanup" /\ Len(stack'[a]) > 1 =>
                \A i \in DOMAIN reply_port'[a] :
                      Letter(reply_port'[a], a, i) /\ reply_port'[a][i].slot = stack'[a][2].slot
                         => reply_port'[a][i].type = "UNREGISTER"
      BY DEF Bound, Leaving
    <2>6. app'[a].conn = "gone" => Registered(a)' = {}
      BY <1>1 DEF Bound, Leaving
    <2> QED BY <2>1, <2>2, <2>3, <2>4, <2>5, <2>6 DEF Leaving
  <1> QED BY <1>3, <1>4, <1>5 DEF Bound

LEMMA BoundSends ==
  ASSUME TypeOK, Entries, NEW a \in Apps, Opening(a), Bound(a), Sends
  PROVE  Bound(a)'
  <1>1. PICK kind \in AllKinds, s \in Active, ci \in 0..(AB_MAX_CLIENTS + 1) :
           SendRequest(kind, clients[s].port, ci)
    BY DEF Sends
  <1>2. PICK t \in Apps : t = clients[s].port
    BY TargetType
  <1>3. PICK x : x = Request(Len(reqs) + 1)
    OBVIOUS
  <1>4. /\ reply_port' = [reply_port EXCEPT ![t] = Append(@, x)] /\ x.kind = "req"
        /\ UNCHANGED <<clients, ipc_port, app, stack>>
    BY <1>1, <1>2, <1>3 DEF SendRequest, cvars, Request
  <1>5. Registered(a)' = Registered(a) /\ OldLetters(a)
    BY <1>4 DEF Registered, Active, OldLetters
  <1>6. reply_port \in [Apps -> Seq(RequestMsg \cup ClientMsg)]
    BY DEF TypeOK
  <1>7. CASE t # a
    <2>1. reply_port'[a] = reply_port[a]
      BY <1>4, <1>6, <1>7
    <2> QED BY <1>4, <1>5, <2>1, BoundAlone
  <1>8. CASE t = a
    <2>1. Registered(a) # {}
      BY <1>2, <1>8 DEF Registered
    <2>2. app[a].conn = "init" => reply_port[a] # <<>>
      BY <2>1 DEF Opening
    <2>3. reply_port'[a] = Append(reply_port[a], x) /\ reply_port[a] \in Seq(RequestMsg \cup ClientMsg)
      BY <1>4, <1>6, <1>8
    <2>4. reply_port[a] # <<>> => Head(reply_port'[a]) = Head(reply_port[a])
      BY <2>3
    <2>5. \A i \in DOMAIN reply_port'[a] : Letter(reply_port'[a], a, i) =>
             i \in DOMAIN reply_port[a] /\ Letter(reply_port[a], a, i) /\ reply_port'[a][i] = reply_port[a][i]
      <3>1. \A i \in DOMAIN reply_port'[a] : \/ reply_port'[a][i] = x
                                             \/ i \in DOMAIN reply_port[a] /\ reply_port'[a][i] = reply_port[a][i]
        BY <2>3
      <3> QED BY <1>4, <3>1 DEF Letter
    <2>6. Coming(a)'
      BY <1>4, <1>5, <2>2, <2>4 DEF Bound, Coming
    <2>7. Staying(a)'
      BY <1>4, <1>5 DEF Bound, Staying
    <2>8. Leaving(a)'
      <3>1. \A i \in DOMAIN reply_port'[a] :
              Letter(reply_port'[a], a, i) /\ reply_port'[a][i].type = "UNREGISTER" => Registered(a)' = {}
        BY <1>5, <2>5 DEF Bound, Leaving
      <3>2. stack[a] # <<>> /\ stack[a][1].op = "cleanup" /\ Len(stack[a]) > 1 =>
              \A i \in DOMAIN reply_port'[a] :
                 Letter(reply_port'[a], a, i) /\ reply_port'[a][i].slot = stack[a][2].slot
                    => reply_port'[a][i].type = "UNREGISTER"
        BY <2>5 DEF Bound, Leaving
      <3> QED BY <1>4, <1>5, <3>1, <3>2 DEF Bound, Leaving
    <2> QED BY <2>6, <2>7, <2>8 DEF Bound
  <1> QED BY <1>7, <1>8

\* The answer to a program that waits in ab_init, or to one that is registered.
LEMMA BoundServes ==
  ASSUME TypeOK, Up, NEW a \in Apps, Frames(a), Opening(a), Letters(a), Bound(a), app[a].conn # "off",
         NEW id \in Nat, Serves(id)
  PROVE  Bound(a)'
  <1> DEFINE m == ipc_port[1]
             n == Len(reply_port[a])
  <1>0. /\ reply_port[a] \in Seq(RequestMsg \cup ClientMsg) /\ ipc_port \in Seq(ClientMsg)
        /\ app[a] \in Program /\ UNCHANGED <<app, stack>> /\ n \in Nat /\ DOMAIN reply_port[a] = 1..n
    BY DEF TypeOK, Serves, cvars
  <1>1. OldLetters(a)
    BY ServePorts DEF OldLetters
  <1>2. 1 \in DOMAIN ipc_port /\ m \in ClientMsg
    BY ServePorts
  <1>3. a = m.app => Letter(ipc_port, a, 1)
    BY <1>2 DEF Letter, ClientMsg
  <1>4. Letter(ipc_port, a, 1) => (m.type = "REGISTER" <=> app[a].conn = "init")
    BY <1>2 DEF Bound, Leaving
  <1>5. \A s \in Registered(a)' :
           \/ /\ s \in Registered(a) /\ clients'[s].id = clients[s].id
              /\ m.type = "UNREGISTER" => clients[s].id # m.id
           \/ Letter(ipc_port, a, 1) /\ m.type = "REGISTER" /\ clients'[s].id = id
    BY <1>3 DEF Serves
  <1> HIDE DEF m, n
  <1>6. CASE reply_port'[a] = reply_port[a] /\ ~(Letter(ipc_port, a, 1) /\ a \in open)
    <2>1. app[a].conn = "init" => a \in open
      BY DEF Frames
    <2>2. \A s \in Registered(a)' : s \in Registered(a) /\ clients'[s].id = clients[s].id
      BY <1>4, <1>5, <1>6, <2>1
    <2> QED BY <1>0, <1>1, <1>6, <2>2, BoundAlone
  <1>7. CASE Got(a, id)
    <2>1. /\ Letter(ipc_port, a, 1) /\ DOMAIN reply_port'[a] = 1..(n + 1)
          /\ \A j \in DOMAIN reply_port[a] : reply_port'[a][j] = reply_port[a][j]
          /\ reply_port'[a][n + 1].id = id /\ reply_port'[a][n + 1].slot = m.slot
          /\ reply_port'[a][n + 1].type = m.type
      BY <1>7 DEF Got, m, n
    <2>2. app[a].conn = "init" => reply_port[a] = <<>>
      <3> SUFFICES ASSUME app[a].conn = "init", reply_port[a] # <<>> PROVE FALSE
        OBVIOUS
      <3>1. OwnReply(a, Head(reply_port[a])) /\ m.slot = stack[a][1].slot /\ Len(stack[a]) = 1
        BY <1>2, <2>1 DEF Opening, m
      <3>2. 1 \in DOMAIN reply_port[a] /\ reply_port[a][1] = Head(reply_port[a])
        BY <1>0
      <3>3. Letter(reply_port[a], a, 1) /\ reply_port[a][1].slot = m.slot
        BY <3>1, <3>2 DEF OwnReply, Letter, Top
      <3> QED BY <1>2, <2>1, <3>2, <3>3 DEF Letters, m
    <2>3. m.type # "REGISTER" => \A s \in Registered(a)' :
              /\ s \in Registered(a) /\ clients'[s].id = clients[s].id
              /\ m.type = "UNREGISTER" => clients[s].id # m.id
      BY <1>5
    <2>4. app[a].conn # "init" => m.type # "REGISTER"
      BY <1>4, <2>1
    <2>5. Coming(a)'
      <3> SUFFICES ASSUME app[a].conn = "init", NEW s \in Registered(a)' PROVE clients'[s].id = Head(reply_port'[a]).id
        BY <1>0 DEF Coming
      <3>1. reply_port[a] = <<>> /\ n = 0
        BY <1>0, <2>2 DEF n
      <3>2. Registered(a) = {}
        BY <3>1 DEF Opening
      <3>3. clients'[s].id = id
        BY <1>5, <3>2
      <3>4. reply_port'[a] # <<>> /\ Head(reply_port'[a]) = reply_port'[a][1]
        BY <2>1, <3>1
      <3> QED BY <2>1, <3>1, <3>3, <3>4
    <2>6. Staying(a)'
      <3>1. app[a].conn = "up" => \A i \in DOMAIN ipc_port' : Letter(ipc_port', a, i) =>
               ipc_port'[i].type # "REGISTER" /\ ipc_port'[i].id = app'[a].id
        BY <1>0, <1>1 DEF OldLetters, Letter, Bound, Staying
      <3>2. app[a].conn = "up" => \A s \in Registered(a)' : clients'[s].id = app'[a].id
        BY <1>0, <2>3, <2>4 DEF Bound, Staying
      <3> QED BY <1>0, <3>1, <3>2 DEF Staying
    <2>7. Registered(a) = {} /\ app[a].conn # "init" => Registered(a)' = {}
      BY <2>3, <2>4
    <2>8. Leaving(a)'
      <3>1. \A i \in DOMAIN ipc_port' : Letter(ipc_port', a, i) =>
               \E j \in DOMAIN ipc_port : Letter(ipc_port, a, j) /\ ipc_port'[i] = ipc_port[j]
        BY <1>1 DEF OldLetters, Letter
      <3>2. \A j \in DOMAIN reply_port'[a] : Letter(reply_port'[a], a, j) =>
               \/ j \in DOMAIN reply_port[a] /\ Letter(reply_port[a], a, j) /\ reply_port'[a][j] = reply_port[a][j]
               \/ j = n + 1
        BY <1>0, <2>1 DEF Letter
      <3>3. \A i \in DOMAIN ipc_port' :
               Letter(ipc_port', a, i) => (ipc_port'[i].type = "REGISTER" <=> app'[a].conn = "init")
        BY <1>0, <3>1 DEF Bound, Leaving
      <3>4. ASSUME NEW j \in DOMAIN reply_port'[a], Letter(reply_port'[a], a, j),
                   reply_port'[a][j].type = "UNREGISTER"
            PROVE  Registered(a)' = {}
        <4>1. CASE j \in DOMAIN reply_port[a] /\ Letter(reply_port[a], a, j) /\ reply_port'[a][j] = reply_port[a][j]
          <5>1. Registered(a) = {}
            BY <3>4, <4>1 DEF Bound, Leaving
          <5>2. reply_port[a] # <<>>
            BY <4>1
          <5> QED BY <2>2, <2>7, <5>1, <5>2
        <4>2. CASE j = n + 1
          <5>1. m.type = "UNREGISTER" /\ app[a].conn # "init"
            BY <1>4, <2>1, <3>4, <4>2
          <5>2. app[a].conn # "new"
            BY <1>2, <2>1 DEF Opening
          <5>3. app[a].conn \in {"up", "gone"}
            BY <1>0, <5>1, <5>2 DEF Program
          <5>4. app[a].conn = "up" => \A s \in Registered(a) : clients[s].id = m.id
            BY <1>2, <2>1 DEF Bound, Staying, m
          <5>5. app[a].conn = "gone" => Registered(a) = {}
            BY DEF Bound, Leaving
          <5> QED BY <2>3, <5>1, <5>3, <5>4, <5>5
        <4> QED BY <3>2, <3>4, <4>1, <4>2
      <3>5. stack[a] # <<>> /\ stack[a][1].op = "cleanup" => app[a].conn # "init"
        BY DEF Opening
      <3>6. stack[a] # <<>> /\ stack[a][1].op = "cleanup" /\ Len(stack[a]) = 1 => Registered(a)' = {}
        BY <2>7, <3>5 DEF Bound, Leaving
      <3>7. stack[a] # <<>> /\ stack[a][1].op = "cleanup" /\ Len(stack[a]) > 1 =>
               \A i \in DOMAIN ipc_port' : Letter(ipc_port', a, i) /\ ipc_port'[i].slot = stack[a][2].slot
                  => ipc_port'[i].type = "UNREGISTER"
        BY <3>1 DEF Bound, Leaving
      <3>8. stack[a] # <<>> /\ stack[a][1].op = "cleanup" /\ Len(stack[a]) > 1 =>
               \A j \in DOMAIN reply_port'[a] : Letter(reply_port'[a], a, j) /\ reply_port'[a][j].slot = stack[a][2].slot
                  => reply_port'[a][j].type = "UNREGISTER"
        <4>1. stack[a] # <<>> /\ stack[a][1].op = "cleanup" /\ Len(stack[a]) > 1 =>
                 (m.slot = stack[a][2].slot => m.type = "UNREGISTER")
          BY <1>2, <2>1 DEF Bound, Leaving, m
        <4>2. stack[a] # <<>> /\ stack[a][1].op = "cleanup" /\ Len(stack[a]) > 1 =>
                 \A j \in DOMAIN reply_port[a] : Letter(reply_port[a], a, j) /\ reply_port[a][j].slot = stack[a][2].slot
                    => reply_port[a][j].type = "UNREGISTER"
          BY DEF Bound, Leaving
        <4> QED BY <2>1, <3>2, <4>1, <4>2
      <3>9. app[a].conn = "gone" => Registered(a)' = {}
        BY <2>7 DEF Bound, Leaving
      <3> QED BY <1>0, <3>3, <3>4, <3>6, <3>7, <3>8, <3>9 DEF Leaving
    <2> QED BY <2>5, <2>6, <2>8 DEF Bound
  <1> QED BY <1>6, <1>7, ServePorts

\* A step of a registered program that sends nothing; if it leaves ab_cleanup with the
\* message before it answered, the registry has forgotten it.
LEMMA BoundQuiet ==
  ASSUME NEW a \in Apps, Bound(a), clients' = clients, app[a].conn # "init",
         app'[a].conn = app[a].conn, app'[a].id = app[a].id, OldLetters(a),
         \A i \in DOMAIN reply_port'[a] : Letter(reply_port'[a], a, i) =>
            \E j \in DOMAIN reply_port[a] : reply_port'[a][i] = reply_port[a][j],
         stack'[a] # <<>> /\ stack'[a][1].op = "cleanup" =>
            \/ Len(stack'[a]) = 1 /\ Registered(a) = {}
            \/ /\ stack[a] # <<>> /\ stack[a][1].op = "cleanup" /\ Len(stack[a]) > 1
               /\ Len(stack'[a]) > 1 /\ stack'[a][2].slot = stack[a][2].slot
  PROVE  Bound(a)'
  <1>1. Registered(a)' = Registered(a)
    BY DEF Registered, Active
  <1>2. \A i \in DOMAIN ipc_port' : Letter(ipc_port', a, i) =>
           \E j \in DOMAIN ipc_port : Letter(ipc_port, a, j) /\ ipc_port'[i] = ipc_port[j]
    BY DEF OldLetters, Letter
  <1>3. \A i \in DOMAIN reply_port'[a] : Letter(reply_port'[a], a, i) =>
           \E j \in DOMAIN reply_port[a] : Letter(reply_port[a], a, j) /\ reply_port'[a][i] = reply_port[a][j]
    BY DEF Letter
  <1>4. Coming(a)'
    BY DEF Coming
  <1>5. Staying(a)'
    <2>1. app'[a].conn = "up" => \A i \in DOMAIN ipc_port' : Letter(ipc_port', a, i) =>
             ipc_port'[i].type # "REGISTER" /\ ipc_port'[i].id = app'[a].id
      BY <1>2 DEF Bound, Staying
    <2>2. app'[a].conn = "up" => \A s \in Registered(a)' : clients'[s].id = app'[a].id
      BY <1>1 DEF Bound, Staying
    <2> QED BY <2>1, <2>2 DEF Staying
  <1>6. Leaving(a)'
    <2>1. \A i \in DOMAIN ipc_port' :
          Letter(ipc_port', a, i) => (ipc_port'[i].type = "REGISTER" <=> app'[a].conn = "init")
      BY <1>2 DEF Bound, Leaving
    <2>2. \A i \in DOMAIN reply_port'[a] :
          Letter(reply_port'[a], a, i) /\ reply_port'[a][i].type = "UNREGISTER" => Registered(a)' = {}
      BY <1>1, <1>3 DEF Bound, Leaving
    <2>3. stack'[a] # <<>> /\ stack'[a][1].op = "cleanup" /\ Len(stack'[a]) = 1 => Registered(a)' = {}
      BY <1>1
    <2>4. stack'[a] # <<>> /\ stack'[a][1].op = "cleanup" /\ Len(stack'[a]) > 1 =>
             /\ stack[a] # <<>> /\ stack[a][1].op = "cleanup" /\ Len(stack[a]) > 1
             /\ stack'[a][2].slot = stack[a][2].slot
      OBVIOUS
    <2>5. stack[a] # <<>> /\ stack[a][1].op = "cleanup" /\ Len(stack[a]) > 1 =>
             /\ \A i \in DOMAIN ipc_port' :
                      Letter(ipc_port', a, i) /\ ipc_port'[i].slot = stack[a][2].slot
                         => ipc_port'[i].type = "UNREGISTER"
             /\ \A i \in DOMAIN reply_port'[a] :
                      Letter(reply_port'[a], a, i) /\ reply_port'[a][i].slot = stack[a][2].slot
                         => reply_port'[a][i].type = "UNREGISTER"
      BY <1>2, <1>3 DEF Bound, Leaving
    <2>6. app'[a].conn = "gone" => Registered(a)' = {}
      BY <1>1 DEF Bound, Leaving
    <2> QED BY <2>1, <2>2, <2>3, <2>4, <2>5, <2>6 DEF Leaving
  <1> QED BY <1>4, <1>5, <1>6 DEF Bound

\* A call that sends: REGISTER from a program that is not registered, UNREGISTER with the
\* id that the registry holds.
LEMMA BoundPut ==
  ASSUME TypeOK, NEW a \in Apps, a \notin SendMemUsers, Frames(a), Opening(a), Letters(a), Bound(a),
         NEW k \in 1..MSG_POOL_SIZE,
         NEW type \in {"REGISTER", "UNREGISTER", "DATA"}, NEW op \in {"send", "sendmem"}, Put(a, k, type, op)
  PROVE  Bound(a)'
  <1>0. ipc_port \in Seq(ClientMsg) /\ stack[a] \in Seq(LibraryCall)
    BY DEF TypeOK
  <1>1. /\ app'[a].conn = (IF type = "REGISTER" THEN "init" ELSE "up")
        /\ app[a].conn = (IF type = "REGISTER" THEN "new" ELSE "up")
        /\ app'[a].id = app[a].id /\ k \notin app[a].used /\ reply_port' = reply_port
    BY PutFacts
  <1>2. clients' = clients /\ Registered(a)' = Registered(a)
    BY DEF Put, dvars, Registered, Active
  <1>3. \A i \in DOMAIN ipc_port' : Letter(ipc_port', a, i) =>
           \/ i \in DOMAIN ipc_port /\ Letter(ipc_port, a, i) /\ ipc_port'[i] = ipc_port[i]
           \/ ipc_port'[i].slot = k /\ ipc_port'[i].type = type /\ ipc_port'[i].id = app[a].id
    <2>1. CASE ipc_port' = ipc_port
      BY <2>1
    <2>2. CASE ipc_port' = Append(ipc_port, Message(a, k, type, app[a].id))
      <3>1. \A i \in DOMAIN ipc_port' : \/ i \in DOMAIN ipc_port /\ ipc_port'[i] = ipc_port[i]
                                        \/ ipc_port'[i] = Message(a, k, type, app[a].id)
        <4> HIDE DEF Message
        <4> QED BY <1>0, <2>2
      <3> QED BY <3>1 DEF Letter, Message
    <2> QED BY <2>1, <2>2 DEF Put
  <1>4. app[a].conn = "new" => reply_port[a] = <<>> /\ \A i \in DOMAIN ipc_port : ~Letter(ipc_port, a, i)
    BY DEF Opening
  <1>5. Coming(a)'
    BY <1>1, <1>4 DEF Coming
  <1>6. Staying(a)'
    <2>1. app'[a].conn = "up" => app[a].conn = "up" /\ type # "REGISTER"
      BY <1>1
    <2>2. app'[a].conn = "up" => \A i \in DOMAIN ipc_port' : Letter(ipc_port', a, i) =>
             ipc_port'[i].type # "REGISTER" /\ ipc_port'[i].id = app'[a].id
      BY <1>1, <1>3, <2>1 DEF Bound, Staying
    <2> QED BY <1>1, <1>2, <2>1, <2>2 DEF Bound, Staying
  <1>7. \A i \in DOMAIN ipc_port' :
          Letter(ipc_port', a, i) => (ipc_port'[i].type = "REGISTER" <=> app'[a].conn = "init")
    <2>1. CASE type = "REGISTER"
      BY <1>1, <1>3, <1>4, <2>1
    <2>2. CASE type # "REGISTER"
      BY <1>1, <1>3, <2>2 DEF Bound, Leaving
    <2> QED BY <2>1, <2>2
  <1>8. \A i \in DOMAIN reply_port'[a] :
          Letter(reply_port'[a], a, i) /\ reply_port'[a][i].type = "UNREGISTER" => Registered(a)' = {}
    BY <1>1, <1>2 DEF Bound, Leaving
  <1>9. app'[a].conn # "gone"
    BY <1>1
  <1>10. \A i \in DOMAIN ipc_port : Letter(ipc_port, a, i) => ipc_port[i].slot # k
    BY <1>1 DEF Letters
  <1>11. \A i \in DOMAIN reply_port[a] : Letter(reply_port[a], a, i) => reply_port[a][i].slot # k
    BY <1>1 DEF Letters
  <1>12. ASSUME stack'[a] # <<>>, stack'[a][1].op = "cleanup"
         PROVE  /\ Len(stack'[a]) = 1 => Registered(a)' = {}
                /\ Len(stack'[a]) > 1 =>
                      /\ \A i \in DOMAIN ipc_port' :
                            Letter(ipc_port', a, i) /\ ipc_port'[i].slot = stack'[a][2].slot
                               => ipc_port'[i].type = "UNREGISTER"
                      /\ \A i \in DOMAIN reply_port'[a] :
                            Letter(reply_port'[a], a, i) /\ reply_port'[a][i].slot = stack'[a][2].slot
                               => reply_port'[a][i].type = "UNREGISTER"
    <2>1. CASE type = "UNREGISTER"
      <3>1. stack'[a] = <<Frame("cleanup", k, 0), Frame("send", k, 0)>>
        BY <2>1, PutFacts
      <3>2. Len(stack'[a]) = 2 /\ stack'[a][2].slot = k
        BY <3>1 DEF Frame
      <3> QED BY <1>1, <1>3, <1>10, <1>11, <2>1, <3>2
    <2>2. CASE type # "UNREGISTER"
      <3>1. PICK f : f = Frame(op, k, 0)
        OBVIOUS
      <3>2. stack'[a] = Append(stack[a], f) /\ f.op = op /\ op # "cleanup"
        <4>1. stack'[a] = Append(stack[a], f)
          BY <2>2, <3>1, PutFacts
        <4>2. f.op = op /\ op # "cleanup"
          BY <3>1 DEF Frame
        <4> QED BY <4>1, <4>2
      <3>3. stack[a] # <<>>
        <4>1. stack[a] = <<>> => stack'[a][1] = f
          BY <3>2
        <4> QED BY <1>12, <3>2, <4>1
      <3>4. type = "DATA" /\ InCall(a, "handle")
        <4>1. type # "REGISTER"
          BY <1>1, <3>3 DEF Frames
        <4>2. type = "DATA"
          BY <2>2, <4>1
        <4> QED BY <3>3, <4>2, PutFacts
      <3>5. stack'[a][1] = stack[a][1] /\ Len(stack[a]) \in Nat \ {0} /\ Len(stack'[a]) = Len(stack[a]) + 1
        BY <1>0, <3>2, <3>3
      <3>6. Len(stack[a]) > 1
        <4>1. Len(stack[a]) = 1 => Top(a) = stack[a][1]
          BY DEF Top
        <4>2. Top(a).op = "handle"
          BY <3>4 DEF InCall
        <4>3. stack[a][1].op = "cleanup"
          BY <1>12, <3>5
        <4>4. Len(stack[a]) # 1
          BY <4>1, <4>2, <4>3
        <4>5. Len(stack[a]) \in Nat /\ Len(stack[a]) # 0
          BY <3>5
        <4>6. \A n \in Nat : n # 0 /\ n # 1 => n > 1
          OBVIOUS
        <4> QED BY <4>4, <4>5, <4>6
      <3>7. stack'[a][2] = stack[a][2] /\ 2 \in DOMAIN stack[a] /\ 1 \in DOMAIN stack[a]
        BY <1>0, <3>2, <3>5, <3>6
      <3>8. stack[a][2].op = "send"
        BY <1>12, <3>5, <3>7 DEF Frames
      <3>9. stack[a][2].slot # k
        BY <1>1, <3>7, <3>8 DEF Letters
      <3>10. /\ \A i \in DOMAIN ipc_port : Letter(ipc_port, a, i) /\ ipc_port[i].slot = stack[a][2].slot
                    => ipc_port[i].type = "UNREGISTER"
             /\ \A i \in DOMAIN reply_port[a] : Letter(reply_port[a], a, i) /\ reply_port[a][i].slot = stack[a][2].slot
                    => reply_port[a][i].type = "UNREGISTER"
        BY <1>12, <3>3, <3>5, <3>6 DEF Bound, Leaving
      <3>11. Len(stack'[a]) > 1
        BY <3>5, <3>6
      <3> QED BY <1>1, <1>3, <3>7, <3>9, <3>10, <3>11
    <2> QED BY <2>1, <2>2
  <1>13. Leaving(a)'
    BY <1>7, <1>8, <1>9, <1>12 DEF Leaving
  <1> QED BY <1>5, <1>6, <1>13 DEF Bound

\* Small lengths.
LEMMA Lengths ==
  /\ \A n \in Nat : n # 0 /\ n # 1 => n > 1
  /\ \A n \in Nat : n # 0 /\ ~(n > 1) => n = 1
  /\ \A n, m \in Nat : m = n - 1 /\ m # 0 => n > 1 /\ (m = 1 => n = 2)
  /\ \A n, m \in Nat : m = n + 1 /\ n > 1 => m > 1
  OBVIOUS

\* The answer to a program's own message.
LEMMA BoundOwnReply ==
  ASSUME TypeOK, NEW a \in Apps, a \notin SendMemUsers, Frames(a), Opening(a), Letters(a), Bound(a),
         app[a].conn # "off", SendGetOwn(a)
  PROVE  Bound(a)'
  <1>0. /\ reply_port[a] \in Seq(RequestMsg \cup ClientMsg) /\ stack[a] \in Seq(LibraryCall)
        /\ app[a] \in Program /\ stack \in Stacks
    BY DEF TypeOK, Stacks
  <1>1. PICK m \in ClientMsg : m = Head(reply_port[a])
    BY OwnFacts
  <1>2. /\ InCall(a, "send") /\ reply_port[a] # <<>> /\ OwnReply(a, m) /\ m.slot = Top(a).slot
        /\ reply_port'[a] = Tail(reply_port[a])
        /\ app[a].conn # "init" => app'[a].conn = app[a].conn /\ app'[a].id = app[a].id
        /\ app[a].conn = "init" => app'[a].conn = (IF m.id # 0 THEN "up" ELSE "gone") /\ app'[a].id = m.id
    BY <1>1, OwnFacts
  <1>3. ipc_port' = ipc_port /\ clients' = clients /\ stack' = [stack EXCEPT ![a] = Pop(@)]
    BY DEF SendGetOwn, dvars
  <1>4. OldLetters(a) /\ Registered(a)' = Registered(a)
    BY <1>3 DEF OldLetters, Registered, Active
  <1>5. 1 \in DOMAIN reply_port[a] /\ Letter(reply_port[a], a, 1) /\ reply_port[a][1] = m
    <2>1. 1 \in DOMAIN reply_port[a] /\ reply_port[a][1] = m
      BY <1>0, <1>1, <1>2
    <2> QED BY <1>2, <2>1 DEF OwnReply, Letter
  <1>6. \A i \in DOMAIN reply_port'[a] : \E j \in DOMAIN reply_port[a] : reply_port'[a][i] = reply_port[a][j]
    <2>1. \A i \in DOMAIN reply_port'[a] : i + 1 \in DOMAIN reply_port[a] /\ reply_port'[a][i] = reply_port[a][i + 1]
      BY <1>0, <1>2
    <2> QED BY <2>1
  <1>7. /\ stack[a] # <<>> /\ stack'[a] = Pop(stack[a]) /\ Len(stack[a]) \in Nat /\ Len(stack[a]) # 0
        /\ Len(stack'[a]) = Len(stack[a]) - 1 /\ DOMAIN stack[a] = 1..Len(stack[a])
        /\ \A i \in DOMAIN stack'[a] : stack'[a][i] = stack[a][i]
    <2>1. stack[a] # <<>>
      BY <1>2 DEF InCall
    <2>2. stack'[a] = Pop(stack[a])
      BY <1>0, <1>3 DEF Stacks
    <2>3. Len(stack[a]) \in Nat /\ Len(stack[a]) # 0 /\ DOMAIN stack[a] = 1..Len(stack[a])
      BY <1>0, <2>1
    <2> QED BY <1>0, <2>1, <2>2, <2>3, PopFacts
  <1>8. CASE app[a].conn = "init"
    <2>1. Len(stack[a]) = 1 /\ stack[a][1].slot = m.slot
      BY <1>2, <1>8 DEF Opening, Top
    <2>2. stack'[a] = <<>>
      BY <1>0, <1>7, <2>1 DEF Pop
    <2>3. \A i \in DOMAIN ipc_port' : ~Letter(ipc_port', a, i)
      <3> SUFFICES ASSUME NEW i \in DOMAIN ipc_port, Letter(ipc_port, a, i) PROVE FALSE
        BY <1>3
      <3>1. ipc_port[i].slot = m.slot
        BY <1>8, <2>1 DEF Opening
      <3> QED BY <1>5, <3>1 DEF Letters
    <2>4. \A s \in Registered(a) : clients[s].id = m.id /\ clients[s].id # 0
      BY <1>1, <1>2, <1>8 DEF Bound, Coming, Registered, Active
    <2>5. app'[a].conn # "init"
      BY <1>2, <1>8
    <2>6. Coming(a)'
      BY <2>5 DEF Coming
    <2>7. Staying(a)'
      BY <1>2, <1>3, <1>4, <1>8, <2>3, <2>4 DEF Staying
    <2>8. app'[a].conn = "gone" => Registered(a)' = {}
      BY <1>2, <1>4, <1>8, <2>4
    <2>9. \A i \in DOMAIN reply_port'[a] :
             Letter(reply_port'[a], a, i) /\ reply_port'[a][i].type = "UNREGISTER" => Registered(a)' = {}
      BY <1>4, <1>6 DEF Letter, Bound, Leaving
    <2>10. Leaving(a)'
      BY <2>2, <2>3, <2>8, <2>9 DEF Leaving
    <2> QED BY <2>6, <2>7, <2>10 DEF Bound
  <1>9. CASE app[a].conn # "init"
    <2>1. ASSUME stack'[a] # <<>>, stack'[a][1].op = "cleanup"
          PROVE  /\ stack[a][1].op = "cleanup" /\ Len(stack[a]) > 1
                 /\ \/ Len(stack'[a]) = 1 /\ Registered(a) = {}
                    \/ Len(stack'[a]) > 1 /\ stack'[a][2].slot = stack[a][2].slot
      <3>1. Len(stack'[a]) \in Nat /\ Len(stack'[a]) # 0 /\ DOMAIN stack'[a] = 1..Len(stack'[a])
        <4>1. stack'[a] \in Seq(LibraryCall)
          BY <1>0, <1>7, PopFacts
        <4> QED BY <2>1, <4>1
      <3>2. stack[a][1].op = "cleanup"
        <4>1. 1 \in DOMAIN stack'[a]
          BY <3>1
        <4> QED BY <1>7, <2>1, <4>1
      <3>3. Len(stack[a]) > 1 /\ (Len(stack'[a]) = 1 => Len(stack[a]) = 2)
        BY <1>7, <3>1, Lengths
      <3>4. CASE Len(stack'[a]) = 1
        <4>1. Len(stack[a]) = 2 /\ Top(a) = stack[a][2]
          BY <3>3, <3>4 DEF Top
        <4>2. m.type = "UNREGISTER"
          BY <1>2, <1>5, <1>7, <3>2, <3>3, <4>1 DEF Bound, Leaving
        <4>3. Registered(a) = {}
          BY <1>5, <4>2 DEF Bound, Leaving
        <4> QED BY <3>2, <3>3, <3>4, <4>3
      <3>5. CASE Len(stack'[a]) # 1
        <4>1. Len(stack'[a]) > 1
          BY <3>1, <3>5, Lengths
        <4>2. 2 \in DOMAIN stack'[a]
          BY <3>1, <4>1
        <4> QED BY <1>7, <3>2, <3>3, <4>1, <4>2
      <3> QED BY <3>4, <3>5
    <2>2. \A i \in DOMAIN reply_port'[a] : Letter(reply_port'[a], a, i) =>
            \E j \in DOMAIN reply_port[a] : reply_port'[a][i] = reply_port[a][j]
      BY <1>6
    <2> QED BY <1>2, <1>3, <1>4, <1>7, <1>9, <2>1, <2>2, BoundQuiet
  <1> QED BY <1>8, <1>9

\* A step of a registered program without a message of its own.
LEMMA BoundOwn ==
  ASSUME TypeOK, NEW a \in Apps, a \notin SendMemUsers, Frames(a), Opening(a), Letters(a), Held(a), Bound(a),
         app[a].conn # "off", \A r \in DOMAIN reqs : reqs[r].kind # "shutdown",
         Calls(a) \/ AppStep(a)
  PROVE  Bound(a)'
  <1>0. /\ reply_port[a] \in Seq(RequestMsg \cup ClientMsg) /\ stack[a] \in Seq(LibraryCall)
        /\ app[a] \in Program /\ stack \in Stacks /\ app \in [Apps -> Program]
        /\ reply_port \in [Apps -> Seq(RequestMsg \cup ClientMsg)]
    BY DEF TypeOK, Stacks
  <1>1. CASE Puts(a)
    BY <1>1, BoundPut DEF Puts
  <1>2. CASE SendGetOwn(a)
    BY <1>2, BoundOwnReply
  <1>3. CASE ~SendGetOwn(a) /\ (ab_poll(a) \/ AppStep(a))
    <2>1. app[a].conn \notin {"new", "init"} /\ app'[a].conn \notin {"new", "init"}
      BY <1>3, Established
    <2>2. ASSUME ipc_port' = ipc_port PROVE OldLetters(a)
      BY <2>2 DEF OldLetters
    <2>3. ASSUME reply_port[a] # <<>>, reply_port' = [reply_port EXCEPT ![a] = Tail(@)]
          PROVE  \A i \in DOMAIN reply_port'[a] : \E j \in DOMAIN reply_port[a] : reply_port'[a][i] = reply_port[a][j]
      <3>1. reply_port'[a] = Tail(reply_port[a])
        BY <1>0, <2>3
      <3>2. \A i \in DOMAIN reply_port'[a] : i + 1 \in DOMAIN reply_port[a] /\ reply_port'[a][i] = reply_port[a][i + 1]
        BY <1>0, <2>3, <3>1
      <3> QED BY <3>2
    <2>4. stack[a] # <<>> => /\ Len(stack[a]) \in Nat /\ Len(stack[a]) # 0 /\ DOMAIN stack[a] = 1..Len(stack[a])
                             /\ Len(stack[a]) \in DOMAIN stack[a] /\ stack[a][Len(stack[a])] = Top(a)
      BY <1>0 DEF Top
    <2>5. stack[a] # <<>> /\ stack[a][1].op = "cleanup" /\ ~(Len(stack[a]) > 1) => Len(stack[a]) = 1 /\ Registered(a) = {}
      <3>1. stack[a] # <<>> /\ ~(Len(stack[a]) > 1) => Len(stack[a]) = 1
        BY <2>4, Lengths
      <3> QED BY <3>1 DEF Bound, Leaving
    <2>6. CASE ab_poll(a)
      <3>1. /\ stack'[a] = <<Frame("poll", 0, 0)>> /\ clients' = clients /\ app' = app
            /\ ipc_port' = ipc_port /\ reply_port' = reply_port
        BY <1>0, <2>6 DEF ab_poll, Stacks, dvars
      <3>2. stack'[a][1].op = "poll"
        BY <3>1 DEF Frame
      <3> QED BY <2>1, <2>2, <3>1, <3>2, BoundQuiet
    <2>7. CASE Handles(a)
      <3>1. PICK f : f = Frame("handle", 0, Head(reply_port[a]).req)
        OBVIOUS
      <3>2. /\ stack[a] # <<>> /\ Top(a).op \in {"poll", "send"} /\ stack'[a] = Append(stack[a], f)
            /\ clients' = clients /\ app' = app /\ ipc_port' = ipc_port /\ reply_port[a] # <<>>
            /\ reply_port' = [reply_port EXCEPT ![a] = Tail(@)]
        BY <1>0, <2>7, <3>1 DEF Handles, Stacks, dvars
      <3>3. /\ stack'[a][1] = stack[a][1] /\ Len(stack'[a]) = Len(stack[a]) + 1
            /\ Len(stack[a]) > 1 => stack'[a][2] = stack[a][2]
        BY <1>0, <3>2
      <3>4. stack'[a][1].op = "cleanup" => Len(stack[a]) > 1 /\ Len(stack'[a]) > 1
        <4>1. stack'[a][1].op = "cleanup" => Len(stack[a]) # 1
          BY <2>4, <3>2, <3>3
        <4>2. Len(stack[a]) # 1 => Len(stack[a]) > 1
          BY <2>4, <3>2, Lengths
        <4>3. Len(stack[a]) > 1 => Len(stack'[a]) > 1
          <5>1. Len(stack'[a]) \in Nat
            BY <2>4, <3>2, <3>3
          <5> QED BY <2>4, <3>2, <3>3, <5>1, Lengths
        <4> QED BY <4>1, <4>2, <4>3
      <3> QED BY <2>1, <2>2, <2>3, <3>2, <3>3, <3>4, BoundQuiet
    <2>8. CASE Rotates(a)
      <3>1. /\ reply_port[a] # <<>> /\ app' = app /\ ipc_port' = ipc_port /\ stack' = stack /\ clients' = clients
            /\ reply_port'[a] = Append(Tail(reply_port[a]), Head(reply_port[a]))
        BY <1>0, <2>8 DEF Rotates, dvars
      <3>2. From(reply_port[a], reply_port'[a], a, Round(Len(reply_port[a])))
        BY <1>0, <3>1, FromRound
      <3>3. \A i \in DOMAIN reply_port'[a] : Letter(reply_port'[a], a, i) =>
               \E j \in DOMAIN reply_port[a] : reply_port'[a][i] = reply_port[a][j]
        BY <3>2 DEF From
      <3> QED BY <2>1, <2>2, <2>5, <3>1, <3>3, BoundQuiet
    <2>9. CASE HandleDone(a)
      <3>1. stack[a] # <<>> /\ Top(a).op = "handle"
        BY <2>9 DEF HandleDone, InCall
      <3>2. reqs[Top(a).req].kind # "shutdown"
        BY <2>4, <3>1 DEF Held, Owed
      <3>3. app[a].conn = "up"
        BY <1>0, <2>1, <3>1 DEF Frames, Program
      <3>4. app' = app /\ stack'[a] = Pop(stack[a]) /\ clients' = clients /\ ipc_port' = ipc_port /\ reply_port' = reply_port
        BY <1>0, <2>9, <3>2, <3>3 DEF HandleDone, Stacks
      <3>5. /\ Len(stack'[a]) = Len(stack[a]) - 1 /\ stack'[a] \in Seq(LibraryCall)
            /\ \A i \in DOMAIN stack'[a] : i \in DOMAIN stack[a] /\ stack'[a][i] = stack[a][i]
        BY <1>0, <3>1, <3>4, PopFacts
      <3>6. ASSUME stack'[a] # <<>>, stack'[a][1].op = "cleanup"
            PROVE  /\ stack[a][1].op = "cleanup" /\ Len(stack[a]) > 1
                   /\ Len(stack'[a]) > 1 /\ stack'[a][2].slot = stack[a][2].slot
        <4>1. /\ 1 \in DOMAIN stack'[a] /\ Len(stack'[a]) \in Nat /\ Len(stack'[a]) # 0
              /\ DOMAIN stack'[a] = 1..Len(stack'[a])
          <5>1. \A st \in Seq(LibraryCall) : st # <<>> =>
                   /\ 1 \in DOMAIN st /\ Len(st) \in Nat /\ Len(st) # 0 /\ DOMAIN st = 1..Len(st)
            OBVIOUS
          <5> QED BY <3>5, <3>6, <5>1, Zenon
        <4>2. stack[a][1].op = "cleanup"
          BY <3>5, <3>6, <4>1
        <4>3. Len(stack'[a]) # 1
          <5> SUFFICES ASSUME Len(stack'[a]) = 1 PROVE FALSE
            OBVIOUS
          <5>1. Len(stack[a]) = 2
            BY <2>4, <3>1, <3>5, <4>1, Lengths
          <5>2. 2 \in DOMAIN stack[a] /\ stack[a][2] = Top(a)
            BY <2>4, <3>1, <5>1
          <5>3. stack[a][2].op = "send"
            BY <4>2, <5>2 DEF Frames
          <5> QED BY <3>1, <5>2, <5>3
        <4>4. Len(stack'[a]) > 1 /\ Len(stack[a]) > 1
          BY <2>4, <3>1, <3>5, <4>1, <4>3, Lengths
        <4>5. 2 \in DOMAIN stack'[a]
          BY <4>1, <4>4
        <4> QED BY <3>5, <4>2, <4>4, <4>5
      <3>7. \A i \in DOMAIN reply_port'[a] : Letter(reply_port'[a], a, i) =>
               \E j \in DOMAIN reply_port[a] : reply_port'[a][i] = reply_port[a][j]
        BY <3>4
      <3> QED BY <2>1, <2>2, <3>1, <3>4, <3>6, <3>7, BoundQuiet
    <2>10. CASE Dismisses(a)
      <3>1. /\ app' = app /\ ipc_port' = ipc_port /\ stack' = stack /\ clients' = clients /\ reply_port[a] # <<>>
            /\ reply_port' = [reply_port EXCEPT ![a] = Tail(@)]
        BY <2>10 DEF Dismisses
      <3> QED BY <2>1, <2>2, <2>3, <2>5, <3>1, BoundQuiet
    <2>11. CASE PollEnd(a)
      <3>1. /\ stack[a] # <<>> /\ Top(a).op = "poll" /\ stack' = [stack EXCEPT ![a] = Pop(@)]
            /\ app' = app /\ ipc_port' = ipc_port /\ reply_port' = reply_port /\ clients' = clients
        BY <2>11 DEF PollEnd, InCall, dvars
      <3>2. Len(stack[a]) = 1
        <4>1. \A i \in DOMAIN stack[a] : stack[a][i].op = "poll" => i = 1
          BY DEF Frames
        <4> QED BY <2>4, <3>1, <4>1
      <3>3. stack'[a] = <<>>
        BY <1>0, <3>1, <3>2 DEF Stacks, Pop
      <3> QED BY <2>1, <2>2, <3>1, <3>3, BoundQuiet
    <2>12. CASE CleanupEnd(a)
      <3>1. /\ stack[a] # <<>> /\ Top(a).op = "cleanup" /\ stack' = [stack EXCEPT ![a] = Pop(@)]
            /\ app'[a].conn = "gone" /\ ipc_port' = ipc_port /\ reply_port' = reply_port /\ clients' = clients
            /\ reply_port[a] = <<>>
        BY <1>0, <2>12 DEF CleanupEnd, InCall, dvars, Program
      <3>2. Len(stack[a]) = 1
        BY <2>4, <3>1 DEF Frames
      <3>3. stack'[a] = <<>>
        BY <1>0, <3>1, <3>2 DEF Stacks, Pop
      <3>4. Registered(a) = {}
        BY <2>4, <3>1, <3>2 DEF Bound, Leaving
      <3>5. Registered(a)' = {}
        BY <3>1, <3>4 DEF Registered, Active
      <3>6. \A i \in DOMAIN ipc_port' : Letter(ipc_port', a, i) => ipc_port'[i].type # "REGISTER"
        BY <2>1, <3>1 DEF Bound, Leaving
      <3>7. Leaving(a)'
        BY <3>1, <3>3, <3>5, <3>6 DEF Leaving
      <3>8. Coming(a)' /\ Staying(a)'
        BY <3>1 DEF Coming, Staying
      <3> QED BY <3>7, <3>8 DEF Bound
    <2>13. CASE SendMemGet(a)
      <3>1. stack[a] # <<>> /\ Top(a).op = "sendmem"
        BY <2>13 DEF SendMemGet, InCall
      <3> QED BY <2>4, <3>1 DEF Frames
    <2> QED
      BY <1>3, <2>6, <2>7, <2>8, <2>9, <2>10, <2>11, <2>12, <2>13, ProcessCases, DrainCases DEF
         AppStep
  <1> QED BY <1>1, <1>2, <1>3, PutCalls DEF Calls

-------------------------------------------------------------------------------
(* The invariant.                                                             *)

LEMMA HoldingAll ==
  ASSUME IInv, NEW a \in Apps
  PROVE  Holding(a)
  <1>1. InOrder(a) /\ Held(a)
    BY DEF IInv
  <1>2. a \notin SendMemUsers => Keeps(a)
    <2>1. RequestsAreNotLost
      BY DEF IInv
    <2> QED BY <2>1 DEF RequestsAreNotLost, Keeps, Owed
  <1> QED BY <1>1, <1>2 DEF Holding

\* What the programs hold covers every request that is not replied.
LEMMA NotLostAll ==
  ASSUME TypeOK', \A a \in Apps : Holding(a)'
  PROVE  RequestsAreNotLost'
  <1> SUFFICES ASSUME NEW r \in DOMAIN reqs', ~reqs'[r].back, reqs'[r].to \notin SendMemUsers
               PROVE  HoldsRequest(reqs[r].to, r)'
    BY DEF RequestsAreNotLost
  <1>1. reqs' \in Seq(Sent)
    BY DEF TypeOK
  <1>2. reqs'[r] \in Sent
    BY <1>1
  <1>3. PICK a \in Apps : a = reqs'[r].to
    BY <1>2 DEF Sent
  <1>4. Owed(a, r)'
    BY <1>3 DEF Owed
  <1>5. HoldsRequest(a, r)'
    BY <1>3, <1>4 DEF Holding, Keeps
  <1> QED BY <1>3, <1>5 DEF HoldsRequest

LEMMA ForgetsDaemon ==
  ASSUME IInv, DaemonStep \/ HostStep
  PROVE  Forgets'
  <1> SUFFICES ASSUME Up' PROVE /\ \A r \in DOMAIN reqs' : reqs'[r].kind # "shutdown"
                                /\ \A a \in Apps : app'[a].conn # "off"
                                /\ \A a \in Apps \ SendMemUsers : Bound(a)'
    BY DEF Forgets, Bound
  <1>0. TypeOK /\ Entries /\ Awaited
    BY DEF IInv
  <1>1. Up
    BY <1>0, UpDaemon
  <1>2. /\ \A r \in DOMAIN reqs : reqs[r].kind # "shutdown"
        /\ \A a \in Apps : app[a].conn # "off"
        /\ \A a \in Apps \ SendMemUsers : Bound(a)
    BY <1>1 DEF IInv, Forgets, Bound
  <1>3. \A r \in DOMAIN reqs' : reqs'[r].kind # "shutdown"
    BY <1>0, <1>2, NoShutdownDaemon
  <1>4. app' = app
    <2>1. Control \/ (\E id \in Nat : Serves(id)) => app' = app
      BY DEF Control, Serves, cvars
    <2>2. Sends => app' = app
      BY DEF Sends, SendRequest, cvars
    <2> QED BY <1>0, <2>1, <2>2, DaemonCases
  <1>5. ASSUME NEW a \in Apps \ SendMemUsers PROVE Bound(a)'
    <2>1. Frames(a) /\ Opening(a) /\ Letters(a) /\ Bound(a) /\ app[a].conn # "off"
      BY <1>2 DEF IInv
    <2>2. CASE Control
      <3>1. OldLetters(a) /\ Registered(a)' = Registered(a) /\ UNCHANGED <<app, stack, reply_port, clients>>
        BY <2>2 DEF Control, OldLetters, Registered, Active, cvars
      <3> QED BY <2>1, <3>1, BoundAlone
    <2> QED BY <1>0, <1>1, <2>1, <2>2, DaemonCases, BoundSends, BoundServes
  <1> QED BY <1>2, <1>3, <1>4, <1>5

LEMMA ForgetsApp ==
  ASSUME IInv, NEW b \in Apps, Calls(b) \/ AppStep(b)
  PROVE  Forgets'
  <1> SUFFICES ASSUME Up' PROVE /\ \A r \in DOMAIN reqs' : reqs'[r].kind # "shutdown"
                                /\ \A a \in Apps : app'[a].conn # "off"
                                /\ \A a \in Apps \ SendMemUsers : Bound(a)'
    BY DEF Forgets, Bound
  <1>0. TypeOK /\ Frames(b) /\ Opening(b) /\ Held(b) /\ Holding(b)
    BY HoldingAll DEF IInv
  <1>1. /\ daemon' = daemon
        /\ UNCHANGED reqs \/ \E r : Owed(b, r) /\ ReturnRequest(r)
    BY <1>0, AppRequests
  <1>2. /\ \A r \in DOMAIN reqs : reqs[r].kind # "shutdown"
        /\ \A a \in Apps : app[a].conn # "off"
        /\ \A a \in Apps \ SendMemUsers : Bound(a)
    BY <1>1 DEF IInv, Forgets, Bound, Up
  <1>3. \A r \in DOMAIN reqs' : reqs'[r].kind # "shutdown"
    <2>1. CASE UNCHANGED reqs
      BY <1>2, <2>1
    <2>2. CASE \E r : Owed(b, r) /\ ReturnRequest(r)
      <3>1. PICK r \in DOMAIN reqs : ReturnRequest(r)
        BY <2>2 DEF Owed
      <3> QED BY <1>0, <1>2, <3>1, ReturnFacts
    <2> QED BY <1>1, <2>1, <2>2
  <1>4. ASSUME NEW a \in Apps PROVE app'[a].conn # "off"
    <2>1. CASE a = b
      BY <1>0, <1>2, <2>1, NoOffApp
    <2>2. CASE a # b
      BY <1>0, <1>2, <2>2, OthersKept
    <2> QED BY <2>1, <2>2
  <1>5. ASSUME NEW a \in Apps \ SendMemUsers PROVE Bound(a)'
    <2>1. Letters(a) /\ Bound(a)
      BY <1>2 DEF IInv
    <2>2. CASE a = b
      BY <1>0, <1>2, <2>1, <2>2, BoundOwn
    <2>3. CASE a # b
      <3>1. OldLetters(a)
        BY <1>0, <2>3, LettersOld
      <3>2. stack'[a] = stack[a] /\ reply_port'[a] = reply_port[a] /\ app'[a] = app[a] /\ clients' = clients
        BY <1>0, <2>3, OthersKept
      <3>3. Registered(a)' = Registered(a)
        BY <3>2 DEF Registered, Active
      <3> QED BY <2>1, <3>1, <3>2, <3>3, BoundAlone
    <2> QED BY <2>2, <2>3
  <1> QED BY <1>3, <1>4, <1>5

LEMMA InvDaemon ==
  ASSUME IInv, DaemonStep \/ HostStep
  PROVE  IInv'
  <1>0. /\ TypeOK /\ Entries /\ Awaited /\ Pool /\ HookPorts /\ HookRepliesReachLivePorts
        /\ \A a \in Apps : InOrder(a) /\ Held(a) /\ Frames(a) /\ Opening(a) /\ HookIsServed(a)
        /\ \A a \in Apps \ SendMemUsers : Letters(a)
    BY DEF IInv
  <1>1. TypeOK'
    BY <1>0, TypeDaemon
  <1>2. Entries'
    <2>1. CASE Control \/ Sends
      <3>1. clients' = clients /\ next_client_id' = next_client_id
        BY <2>1 DEF Control, Sends, SendRequest
      <3> QED BY <1>0, <3>1 DEF Entries, Active
    <2> QED BY <1>0, <2>1, DaemonCases
  <1>3. Awaited' /\ Pool' /\ HookPorts' /\ HookRepliesReachLivePorts'
    BY <1>0, AwaitedDaemon, PoolDaemon, HookPortsDaemon
  <1>4. \A a \in Apps : Holding(a)'
    BY <1>0, <1>1, HoldingAll, HoldingDaemon
  <1>5. \A a \in Apps : Frames(a)'
    <2>1. UNCHANGED <<open, app, stack>>
      <3>1. Control \/ (\E id \in Nat : Serves(id)) => UNCHANGED <<open, app, stack>>
        BY DEF Control, Serves, cvars
      <3>2. Sends => UNCHANGED <<open, app, stack>>
        BY DEF Sends, SendRequest, cvars
      <3> QED BY <1>0, <3>1, <3>2, DaemonCases
    <2> QED BY <1>0, <2>1 DEF Frames
  <1>6. \A a \in Apps : Opening(a)' /\ HookIsServed(a)'
    BY <1>0, HoldingAll, OpeningDaemon, ServedDaemon
  <1>7. \A a \in Apps \ SendMemUsers : Letters(a)'
    BY <1>0, LettersDaemon
  <1>8. RequestsAreNotLost'
    BY <1>1, <1>4, NotLostAll
  <1>9. Forgets'
    BY ForgetsDaemon
  <1>10. \A a \in Apps : InOrder(a)' /\ Held(a)'
    BY <1>4 DEF Holding
  <1> QED BY <1>1, <1>2, <1>3, <1>5, <1>6, <1>7, <1>8, <1>9, <1>10 DEF IInv

LEMMA InvApp ==
  ASSUME IInv, NEW b \in Apps, Calls(b) \/ AppStep(b)
  PROVE  IInv'
  <1>0. /\ TypeOK /\ Entries /\ Awaited /\ Pool /\ HookPorts /\ HookRepliesReachLivePorts
        /\ \A a \in Apps : InOrder(a) /\ Held(a) /\ Frames(a) /\ Opening(a) /\ HookIsServed(a)
        /\ \A a \in Apps \ SendMemUsers : Letters(a)
    BY DEF IInv
  <1>1. \A a \in Apps : Holding(a)
    BY HoldingAll
  <1>2. TypeOK'
    BY <1>0, TypeApp
  <1>3. /\ daemon' = daemon /\ msg_pool_used' = msg_pool_used
        /\ \/ UNCHANGED reqs /\ stray' \subseteq stray \cup {"ipc_port"}
           \/ \E r : Owed(b, r) /\ ReturnRequest(r)
    BY <1>0, <1>1, AppRequests
  <1>4. UNCHANGED reqs \/ \E r \in DOMAIN reqs : ReturnRequest(r)
    BY <1>3 DEF Owed
  <1>5. Entries'
    <2>1. clients' = clients /\ next_client_id' = next_client_id
      <3>1. CASE Puts(b)
        BY <3>1 DEF Puts, Put, dvars
      <3>2. CASE ab_poll(b) \/ Ends(b) \/ Handles(b) \/ Rotates(b) \/ HandleDone(b) \/ Dismisses(b)
        BY <3>2 DEF ab_poll, Ends, Handles, Rotates, HandleDone, Dismisses, dvars
      <3> QED BY <1>0, <3>1, <3>2, AppCases
    <2> QED BY <1>0, <2>1 DEF Entries, Active
  <1>6. Awaited' /\ Pool' /\ HookPorts' /\ HookRepliesReachLivePorts'
    BY <1>0, <1>3, <1>4, AwaitedApp, PoolApp, HookPortsApp
  <1>7. \A a \in Apps : Holding(a)'
    BY <1>0, <1>1, <1>2, HoldingApp
  <1>8. ASSUME NEW a \in Apps PROVE Frames(a)' /\ Opening(a)' /\ HookIsServed(a)'
    <2>1. CASE a = b
      BY <1>0, <1>1, <1>2, <2>1, FramesApp, OpeningOwn, ServedOwn
    <2>2. CASE a # b
      <3>1. Opening(a)' /\ HookIsServed(a)'
        BY <1>0, <1>1, <2>2, OpeningOther, ServedOther
      <3>2. stack'[a] = stack[a] /\ app'[a] = app[a] /\ (a \in open' <=> a \in open)
        BY <1>0, <2>2, OthersKept
      <3>3. Frames(a)'
        BY <1>0, <3>2 DEF Frames
      <3> QED BY <3>1, <3>3
    <2> QED BY <2>1, <2>2
  <1>9. ASSUME NEW a \in Apps \ SendMemUsers PROVE Letters(a)'
    <2>1. CASE a = b
      BY <1>0, <2>1, LettersOwn
    <2>2. CASE a # b
      BY <1>0, <2>2, LettersOther
    <2> QED BY <2>1, <2>2
  <1>10. RequestsAreNotLost'
    BY <1>2, <1>7, NotLostAll
  <1>11. Forgets'
    BY ForgetsApp
  <1>12. \A a \in Apps : InOrder(a)' /\ Held(a)'
    BY <1>7 DEF Holding
  <1> QED BY <1>2, <1>5, <1>6, <1>8, <1>9, <1>10, <1>11, <1>12 DEF IInv

LEMMA InvInit == Init => IInv
  <1> SUFFICES ASSUME Init PROVE IInv
    OBVIOUS
  <1> USE DEF Init
  <1>1. TypeOK
    <2>1. Inactive \in Entry
      BY DEF Inactive, Entry
    <2>2. clients \in [Slots -> Entry]
      BY <2>1
    <2>3. daemon \in [pc : {"loop", "wait", "notify", "drain", "down"},
                      req : 0..MaxReqs, ci : 0..(AB_MAX_CLIENTS + 1)]
      BY IpcAssumption
    <2>4. msg_pool_used \in 0..IPC_MSG_POOL_SIZE /\ next_client_id \in Nat \ {0} /\ open \subseteq Apps
      BY IpcAssumption
    <2>5. app \in [Apps -> Program]
      BY DEF Program
    <2>6. /\ reqs \in Seq(Sent) /\ ipc_port \in Seq(ClientMsg) /\ stack \in [Apps -> Seq(LibraryCall)]
          /\ reply_port \in [Apps -> Seq(RequestMsg \cup ClientMsg)]
      OBVIOUS
    <2>7. stray \subseteq {"reply_port", "ipc_port"} \cup AllKinds
      OBVIOUS
    <2> QED BY <2>2, <2>3, <2>4, <2>5, <2>6, <2>7 DEF TypeOK
  <1>2. Active = {}
    BY DEF Active, Inactive
  <1>3. \A a \in Apps : Registered(a) = {}
    BY <1>2 DEF Registered
  <1>4. DOMAIN reqs = {} /\ DOMAIN ipc_port = {} /\ Len(reqs) = 0
    OBVIOUS
  <1>5. \A a \in Apps : stack[a] = <<>> /\ DOMAIN stack[a] = {} /\ reply_port[a] = <<>> /\ DOMAIN reply_port[a] = {}
    OBVIOUS
  <1>6. Entries
    BY <1>2 DEF Entries
  <1>7. Awaited
    BY <1>4, IpcAssumption DEF Awaited
  <1>8. Pool
    <2>1. Lent = {}
      BY <1>4 DEF Lent
    <2> QED BY <2>1, FS_EmptySet DEF Pool
  <1>9. HookPorts /\ HookRepliesReachLivePorts /\ RequestsAreNotLost
    BY <1>4 DEF HookPorts, HookRepliesReachLivePorts, RequestsAreNotLost
  <1>10. ASSUME NEW a \in Apps
         PROVE  InOrder(a) /\ Held(a) /\ Frames(a) /\ Opening(a) /\ HookIsServed(a) /\ Letters(a) /\ Bound(a)
    <2>1. app[a].conn = "new" /\ app[a].used = {} /\ a \notin open
      OBVIOUS
    <2>2. InOrder(a) /\ Held(a) /\ HookIsServed(a)
      BY <1>5, <1>10 DEF InOrder, Held, HookIsServed
    <2>3. Frames(a)
      BY <1>5, <1>10, <2>1 DEF Frames
    <2>4. Opening(a)
      BY <1>3, <1>4, <1>5, <1>10, <2>1 DEF Opening
    <2>5. Letters(a)
      BY <1>4, <1>5, <1>10 DEF Letters
    <2>6. Bound(a)
      BY <1>3, <1>4, <1>5, <1>10, <2>1 DEF Bound, Coming, Staying, Leaving
    <2> QED BY <2>2, <2>3, <2>4, <2>5, <2>6
  <1>11. Forgets
    <2>1. \A a \in Apps : app[a].conn # "off"
      OBVIOUS
    <2> QED BY <1>4, <1>10, <2>1 DEF Forgets, Bound
  <1> QED BY <1>1, <1>6, <1>7, <1>8, <1>9, <1>10, <1>11 DEF IInv

LEMMA InvStutter == IInv /\ UNCHANGED vars => IInv'
  <1> SUFFICES ASSUME IInv, UNCHANGED vars PROVE IInv'
    OBVIOUS
  <1> USE DEF vars
  <1>1. TypeOK' /\ Entries' /\ Awaited'
    BY DEF IInv, TypeOK, Entries, Active, Awaited
  <1>2. Pool' /\ HookPorts' /\ HookRepliesReachLivePorts' /\ RequestsAreNotLost'
    BY DEF IInv, Pool, Lent, HookPorts, HookRepliesReachLivePorts, RequestsAreNotLost, HoldsRequest
  <1>3. ASSUME NEW a \in Apps PROVE Registered(a)' = Registered(a)
    BY DEF Registered, Active
  <1>4. ASSUME NEW a \in Apps PROVE InOrder(a)' /\ Held(a)' /\ Frames(a)' /\ Opening(a)' /\ HookIsServed(a)'
    <2>1. InOrder(a) /\ Held(a) /\ Frames(a) /\ Opening(a) /\ HookIsServed(a)
      BY DEF IInv
    <2>2. InOrder(a)' /\ Held(a)' /\ Frames(a)'
      BY <2>1 DEF InOrder, Held, Owed, Frames
    <2>3. Opening(a)'
      BY <1>3, <2>1 DEF Opening, OwnReply, Top
    <2>4. HookIsServed(a)'
      BY <2>1 DEF HookIsServed, InCall, OwnReply, Top
    <2> QED BY <2>2, <2>3, <2>4
  <1>5. ASSUME NEW a \in Apps \ SendMemUsers PROVE Letters(a)'
    BY DEF IInv, Letters
  <1>6. Forgets'
    <2>1. Forgets
      BY DEF IInv
    <2>2. ASSUME NEW a \in Apps \ SendMemUsers, Coming(a) /\ Staying(a) /\ Leaving(a)
          PROVE  Coming(a)' /\ Staying(a)' /\ Leaving(a)'
      BY <1>3, <2>2 DEF Coming, Staying, Leaving
    <2> QED BY <2>1, <2>2 DEF Forgets, Up
  <1> QED BY <1>1, <1>2, <1>4, <1>5, <1>6 DEF IInv

\* The invariant of the message ports: every reachable state satisfies it.
THEOREM Invariant == Spec => []IInv
  <1>1. IInv /\ [Next]_vars => IInv'
    <2> SUFFICES ASSUME IInv, [Next]_vars PROVE IInv'
      OBVIOUS
    <2> QED BY InvDaemon, InvApp, InvStutter DEF Next
  <1> QED BY <1>1, InvInit, PTL DEF Spec

-------------------------------------------------------------------------------
(* What the runs check, for every value of the constants.                     *)

\* Every reachable state has the shape that the model gives it; in particular the pool
\* counter of the daemon's messages never leaves 0..IPC_MSG_POOL_SIZE.
THEOREM TypeCorrect == Spec => []TypeOK
  <1>1. IInv => TypeOK
    BY DEF IInv
  <1> QED BY <1>1, Invariant, PTL

\* The client registry: ids and names are unique, no id is given out twice, and until
\* the shutdown every registered port exists (client_register, client_unregister,
\* ab_cleanup).
THEOREM RegistrySound == Spec => []RegistryIsSound
  <1>1. IInv => RegistryIsSound
    <2> SUFFICES ASSUME IInv PROVE RegistryIsSound
      OBVIOUS
    <2>1. TypeOK /\ Entries
      BY DEF IInv
    <2>2. ASSUME daemon.pc \in {"loop", "wait"}, daemon.ci = 0, NEW s \in Active
          PROVE  clients[s].port \in open \cup SendMemUsers
      <3>1. PICK a \in Apps : a = clients[s].port
        BY <2>1 DEF Entries
      <3>2. Registered(a) # {}
        BY <3>1 DEF Registered
      <3> SUFFICES ASSUME a \notin SendMemUsers, a \notin open PROVE FALSE
        BY <3>1
      <3>3. Frames(a) /\ Opening(a) /\ Leaving(a)
        BY <2>2 DEF IInv, Forgets, Up
      <3>4. app[a].conn \in {"new", "gone"}
        BY <2>1, <3>3 DEF TypeOK, Program, Frames
      <3> QED BY <3>2, <3>3, <3>4 DEF Opening, Leaving
    <2> QED BY <2>1, <2>2 DEF Entries, RegistryIsSound
  <1> QED BY <1>1, Invariant, PTL

\* ipc_send_to_client: the counter covers every pooled message that a client still has.
THEOREM PooledHeld == Spec => []PooledMessagesAreHeld
  <1>1. IInv => PooledMessagesAreHeld
    <2> SUFFICES ASSUME IInv PROVE PooledMessagesAreHeld
      OBVIOUS
    <2> DEFINE H == {r \in DOMAIN reqs : Pooled(reqs[r].kind) /\ ~reqs[r].back}
    <2>1. TypeOK /\ Pool
      BY DEF IInv
    <2>2. IsFiniteSet(Lent) /\ Cardinality(Lent) \in Nat
      BY <2>1, LentFinite
    <2>3. H \subseteq Lent
      BY DEF Lent
    <2>4. Cardinality(H) \in Nat /\ Cardinality(H) <= Cardinality(Lent)
      BY <2>2, <2>3, FS_Subset, FS_CardinalityType
    <2>5. Cardinality(Lent) <= msg_pool_used /\ msg_pool_used \in Nat
      BY <2>1, IpcAssumption DEF Pool, TypeOK
    <2> HIDE DEF H
    <2>6. Cardinality(H) <= msg_pool_used
      BY <2>2, <2>4, <2>5
    <2> QED BY <2>6 DEF H, PooledMessagesAreHeld
  <1> QED BY <1>1, Invariant, PTL

\* send_and_wait, ab_poll and ab_cleanup: a request that was not replied is queued or
\* being handled at its client.
THEOREM NotLost == Spec => []RequestsAreNotLost
  <1>1. IInv => RequestsAreNotLost
    BY DEF IInv
  <1> QED BY <1>1, Invariant, PTL

\* handle_callhook: no reply is put to its temporary port after the port is gone.
THEOREM HookReplies == Spec => []HookRepliesReachLivePorts
  <1>1. IInv => HookRepliesReachLivePorts
    BY DEF IInv
  <1> QED BY <1>1, Invariant, PTL

\* handle_callhook and send_and_wait do not wait for each other.
THEOREM HookServed == Spec => []HookNeverDeadlocks
  <1>1. IInv => HookNeverDeadlocks
    <2> SUFFICES ASSUME IInv, NEW a \in Apps, daemon.pc = "wait", reqs[daemon.req].kind = "hook",
                        Frame("handle", 0, daemon.req) \in {stack[a][i] : i \in DOMAIN stack[a]},
                        InCall(a, "send")
                 PROVE  LET mine(q) == \E i \in DOMAIN q : OwnReply(a, q[i])
                        IN (mine(ipc_port) /\ Serving) \/ mine(reply_port[a])
      BY DEF HookNeverDeadlocks
    <2>1. PICK i \in DOMAIN stack[a] : stack[a][i] = Frame("handle", 0, daemon.req)
      OBVIOUS
    <2>2. HookIsServed(a)
      BY DEF IInv
    <2>3. \/ \E k \in DOMAIN ipc_port : OwnReply(a, ipc_port[k])
          \/ \E k \in DOMAIN reply_port[a] : OwnReply(a, reply_port[a][k])
      BY <2>1, <2>2 DEF HookIsServed
    <2>4. Serving
      BY DEF Serving, ServesIpc
    <2> QED BY <2>3, <2>4
  <1> QED BY <1>1, Invariant, PTL
=============================================================================
