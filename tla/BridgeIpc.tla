----------------------------- MODULE BridgeIpc -----------------------------
(***************************************************************************)
(* The message ports between the AmigaBridge daemon and the applications   *)
(* linked with the client library: client_registry.c, ipc_manager.c, the   *)
(* request/reply part of protocol_handler.c (EXEC, GETVAR/SETVAR,          *)
(* CALLHOOK, GETPERF/LISTRESOURCES), main.c's shutdown notification, and   *)
(* bridge_client.c.                                                        *)
(*                                                                         *)
(* Daemon and applications are preemptive tasks of one address space. A    *)
(* message is owned by whoever holds it: PutMsg lends it, ReplyMsg returns *)
(* it to its mn_ReplyPort, and a port that is deleted while a message that *)
(* must return to it is still lent out is written after it was freed.      *)
(***************************************************************************)
EXTENDS Naturals, Sequences, FiniteSets

CONSTANTS
    Apps,                  \* runs of client programs (each calls ab_init once)
    NoApp,                 \* the replyPort of a free registry slot
    AppName,               \* [Apps -> names]: two runs may share a name
    Kinds,                 \* the requests the host issues in this instance
    SendMemUsers,          \* the applications that call ab_send_mem
    Fair,                  \* the applications that keep running (liveness)
    AB_MAX_CLIENTS, IPC_MSG_POOL_SIZE, MSG_POOL_SIZE,
    MaxReqs,               \* bound: requests the daemon sends
    MaxSends               \* bound: calls of an application into the library

AllKinds == {"exec", "var", "hook", "perf", "shutdown"}

ASSUME IpcAssumption ==
    /\ NoApp \notin Apps
    /\ Kinds \subseteq AllKinds
    /\ SendMemUsers \subseteq Apps
    /\ Fair \subseteq Apps
    /\ {AB_MAX_CLIENTS, IPC_MSG_POOL_SIZE, MSG_POOL_SIZE} \subseteq Nat \ {0}
    /\ {MaxReqs, MaxSends} \subseteq Nat

VARIABLES
    clients,         \* the registry: slot -> entry; id 0 is an inactive slot
    next_client_id,
    msg_pool_used,   \* slots of the daemon's message pool taken
    daemon,          \* [pc, req, ci]: what the daemon's task is doing
    reqs,            \* every request sent: [kind, to, port, back]
    ipc_port,        \* client messages waiting at the daemon's port
    reply_port,      \* app -> messages waiting at its reply port
    open,            \* the applications whose reply port exists
    app,             \* app -> [conn, id, used, sends]
    stack,           \* app -> its active library calls, innermost last
    stray            \* what was written to after it was freed: a client's or the
                     \* daemon's port, the temporary port of a kind of request

dvars == <<clients, next_client_id, msg_pool_used, daemon, reqs>>
cvars == <<open, app, stack>>
vars == <<clients, next_client_id, msg_pool_used, daemon, reqs, ipc_port,
          reply_port, open, app, stack, stray>>

Slots == 1..AB_MAX_CLIENTS
Names == {AppName[a] : a \in Apps}
Inactive == [id |-> 0, name |-> NoApp, port |-> NoApp]
Active == {s \in Slots : clients[s].id # 0}

Least(S) == CHOOSE n \in S : \A m \in S : n <= m

Request(r) == [kind |-> "req", req |-> r]
Message(a, k, type, id) ==
    [kind |-> "msg", app |-> a, slot |-> k, type |-> type, id |-> id]
Frame(op, k, r) == [op |-> op, slot |-> k, req |-> r]

Top(a) == stack[a][Len(stack[a])]
Pop(st) == SubSeq(st, 1, Len(st) - 1)
InCall(a, op) == stack[a] # <<>> /\ Top(a).op = op

Init ==
    /\ clients = [s \in Slots |-> Inactive]
    /\ next_client_id = 1
    /\ msg_pool_used = 0
    /\ daemon = [pc |-> "loop", req |-> 0, ci |-> 0]
    /\ reqs = <<>>
    /\ ipc_port = <<>>
    /\ reply_port = [a \in Apps |-> <<>>]
    /\ open = {}
    /\ app = [a \in Apps |-> [conn |-> "new", id |-> 0, used |-> {}, sends |-> 0]]
    /\ stack = [a \in Apps |-> <<>>]
    /\ stray = {}

----------------------------------------------------------------------------
\* The registry.

client_find(id) == {s \in Active : clients[s].id = id}
client_find_by_name(n) == {s \in Active : clients[s].name = n}
FreeSlots == Slots \ Active

\* client_register: a name that is registered keeps its entry and id and gets
\* the caller's port; otherwise the first free slot and the next id; 0 stands
\* for the -1 of a full table.
client_register(n, a) ==
    LET old == client_find_by_name(n) IN
    IF old # {}
      THEN LET s == Least(old) IN
           [table |-> [clients EXCEPT ![s].port = a],
            id |-> clients[s].id, next |-> next_client_id]
    ELSE IF FreeSlots = {}
      THEN [table |-> clients, id |-> 0, next |-> next_client_id]
    ELSE [table |-> [clients EXCEPT ![Least(FreeSlots)] =
                        [id |-> next_client_id, name |-> n, port |-> a]],
          id |-> next_client_id, next |-> next_client_id + 1]

client_unregister(id) ==
    [s \in Slots |-> IF s \in client_find(id) THEN Inactive ELSE clients[s]]

----------------------------------------------------------------------------
\* Sending. A request is lent to the application it is put to; a reply goes
\* to the port the message names, which may be gone.

Pooled(kind) == kind \in {"exec", "shutdown"}
\* Slip: the waits do not call ipc_process.
ServesIpcNever(kind) == FALSE

ServesIpc(kind) == kind \in {"var", "hook"}

\* Slip: the port is deleted on every path.
PortAfterTimeoutDeleted(kind) == "deleted"

\* The temporary port after a timeout: only CALLHOOK leaves it in place.
PortAfterTimeout(kind) == IF kind = "hook" THEN "leaked" ELSE "deleted"

\* The daemon's half of a request: take a pool slot if the request uses one,
\* create the temporary port, PutMsg.
SendRequest(kind, a, ci) ==
    LET r == Len(reqs) + 1 IN
    /\ r <= MaxReqs
    /\ reqs' = Append(reqs, [kind |-> kind, to |-> a, port |-> "open",
                             back |-> FALSE])
    /\ msg_pool_used' = msg_pool_used + (IF Pooled(kind) THEN 1 ELSE 0)
    /\ daemon' = [pc |-> "wait", req |-> r, ci |-> ci]
    /\ reply_port' = [reply_port EXCEPT ![a] = Append(@, Request(r))]
    /\ stray' = IF a \in open THEN stray ELSE stray \cup {"reply_port"}
    /\ UNCHANGED <<clients, next_client_id, ipc_port, cvars>>

\* ReplyMsg of a client's message by the daemon.
DaemonReply(m) ==
    IF m.app \in open
      THEN /\ reply_port' = [reply_port EXCEPT ![m.app] = Append(@, m)]
           /\ UNCHANGED stray
      ELSE /\ stray' = stray \cup {"reply_port"}
           /\ UNCHANGED reply_port

\* ReplyMsg of a daemon's request by application a.
ReturnRequest(r) ==
    /\ reqs' = [reqs EXCEPT ![r].back = TRUE]
    /\ stray' = IF reqs[r].port = "deleted" THEN stray \cup {reqs[r].kind} ELSE stray

----------------------------------------------------------------------------
\* The client library (bridge_client.c).

FreeMsgs(a) == (1..MSG_POOL_SIZE) \ app[a].used

\* pool_alloc and PutMsg to the daemon's port; ops is what the call pushes.
PutToDaemon(a, type, ops, conn) ==
    LET k == Least(FreeMsgs(a)) IN
    /\ app' = [app EXCEPT ![a].conn = conn, ![a].used = @ \cup {k},
                          ![a].sends = @ + 1]
    /\ stack' = [stack EXCEPT ![a] = @ \o
                    [i \in 1..Len(ops) |-> Frame(ops[i], k, 0)]]
    /\ IF daemon.pc = "down"
         THEN stray' = stray \cup {"ipc_port"} /\ UNCHANGED ipc_port
         ELSE /\ ipc_port' = Append(ipc_port, Message(a, k, type, app[a].id))
              /\ UNCHANGED stray
    /\ UNCHANGED <<dvars, reply_port>>

ab_init(a) ==
    /\ app[a].conn = "new"
    /\ daemon.pc \notin {"drain", "down"}           \* FindPort
    /\ open' = open \cup {a}
    /\ PutToDaemon(a, "REGISTER", <<"send">>, "init")

\* Where application code runs: its main program, or a command handler or
\* hook that the library called.
MayCall(a) ==
    /\ app[a].conn = "up" /\ app[a].sends < MaxSends /\ FreeMsgs(a) # {}
    /\ \/ stack[a] = <<>>
       \/ InCall(a, "handle") /\ reqs[Top(a).req].kind \in {"exec", "hook"}

\* ab_log, ab_push_var, ab_heartbeat, ab_cmd_respond, ab_register_*: all are
\* send_simple.
send_simple(a) ==
    /\ MayCall(a)
    /\ PutToDaemon(a, "DATA", <<"send">>, app[a].conn)
    /\ UNCHANGED open

ab_send_mem(a) ==
    /\ a \in SendMemUsers /\ MayCall(a)
    /\ PutToDaemon(a, "DATA", <<"sendmem">>, app[a].conn)
    /\ UNCHANGED open

\* Slip: ab_cleanup without UNREGISTER.
AbCleanupSilent(a) ==
    /\ app[a].conn = "up" /\ stack[a] = <<>>
    /\ stack' = [stack EXCEPT ![a] = <<Frame("cleanup", 0, 0)>>]
    /\ UNCHANGED <<dvars, ipc_port, reply_port, open, app, stray>>

\* (At depth 0 a message is free: a slot is leaked only with connected cleared.)
ab_cleanup(a) ==
    /\ app[a].conn = "up" /\ stack[a] = <<>> /\ FreeMsgs(a) # {}
    /\ PutToDaemon(a, "UNREGISTER", <<"cleanup", "send">>, app[a].conn)
    /\ UNCHANGED open

ab_poll(a) ==
    /\ app[a].conn = "up" /\ stack[a] = <<>> /\ reply_port[a] # <<>>
    /\ stack' = [stack EXCEPT ![a] = <<Frame("poll", 0, 0)>>]
    /\ UNCHANGED <<dvars, ipc_port, reply_port, open, app, stray>>

\* process_daemon_msg up to the call of a handler. A message of the
\* application's own falls into the default case: ReplyMsg sends it to its
\* mn_ReplyPort, which is this very port.
Process(a, m) ==
    /\ IF m.kind = "req"
         THEN /\ stack' = [stack EXCEPT ![a] = Append(@, Frame("handle", 0, m.req))]
              /\ reply_port' = [reply_port EXCEPT ![a] = Tail(@)]
         ELSE /\ reply_port' = [reply_port EXCEPT ![a] = Append(Tail(@), m)]
              /\ UNCHANGED stack
    /\ UNCHANGED <<dvars, ipc_port, open, app, stray>>

PollGet(a) ==
    /\ InCall(a, "poll") /\ app[a].conn = "up" /\ reply_port[a] # <<>>
    /\ Process(a, Head(reply_port[a]))

PollEnd(a) ==
    /\ InCall(a, "poll") /\ (app[a].conn # "up" \/ reply_port[a] = <<>>)
    /\ stack' = [stack EXCEPT ![a] = Pop(@)]
    /\ UNCHANGED <<dvars, ipc_port, reply_port, open, app, stray>>

\* send_and_wait compares the message it got with the one it sent.
OwnReply(a, m) == m.kind = "msg" /\ m.app = a /\ m.slot = Top(a).slot

\* Slip: send_and_wait skips what is not its reply.
SendGetOtherSkips(a) ==
    /\ InCall(a, "send") /\ reply_port[a] # <<>>
    /\ ~OwnReply(a, Head(reply_port[a]))
    /\ reply_port' = [reply_port EXCEPT ![a] = Tail(@)]
    /\ UNCHANGED <<dvars, ipc_port, open, app, stack, stray>>

\* A message that is not the awaited reply is processed inline.
SendGetOther(a) ==
    /\ InCall(a, "send") /\ reply_port[a] # <<>>
    /\ ~OwnReply(a, Head(reply_port[a]))
    /\ Process(a, Head(reply_port[a]))

\* The awaited reply: pool_free, return. For REGISTER the reply carries the
\* id; 0 is a refusal, and ab_init deletes the port again.
SendGetOwn(a) ==
    LET m == Head(reply_port[a]) IN
    /\ InCall(a, "send") /\ reply_port[a] # <<>> /\ OwnReply(a, m)
    /\ stack' = [stack EXCEPT ![a] = Pop(@)]
    /\ reply_port' = [reply_port EXCEPT ![a] = Tail(@)]
    /\ IF app[a].conn # "init"
         THEN /\ app' = [app EXCEPT ![a].used = @ \ {m.slot}]
              /\ UNCHANGED open
         ELSE /\ app' = [app EXCEPT ![a].used = @ \ {m.slot}, ![a].id = m.id,
                             ![a].conn = IF m.id # 0 THEN "up" ELSE "gone"]
              /\ open' = IF m.id # 0 THEN open ELSE open \ {a}
    /\ UNCHANGED <<dvars, ipc_port, stray>>

\* ab_send_mem takes whatever arrives for its reply.
SendMemGet(a) ==
    /\ InCall(a, "sendmem") /\ reply_port[a] # <<>>
    /\ stack' = [stack EXCEPT ![a] = Pop(@)]
    /\ reply_port' = [reply_port EXCEPT ![a] = Tail(@)]
    /\ app' = [app EXCEPT ![a].used = @ \ {Top(a).slot}]
    /\ UNCHANGED <<dvars, ipc_port, open, stray>>

\* The handler is done: ReplyMsg. SHUTDOWN clears connected first, and then a
\* send_and_wait below gives up, leaving its message lent and its slot taken.
HandleDone(a) ==
    LET r == Top(a).req
        off == reqs[r].kind = "shutdown"
        st == Pop(stack[a])
        gone == off \/ app[a].conn # "up"
    IN
    /\ InCall(a, "handle")
    /\ ReturnRequest(r)
    /\ app' = IF off THEN [app EXCEPT ![a].conn = "off"] ELSE app
    /\ stack' = [stack EXCEPT ![a] =
                    IF st # <<>> /\ st[Len(st)].op = "send" /\ gone THEN Pop(st) ELSE st]
    /\ UNCHANGED <<clients, next_client_id, msg_pool_used, daemon, ipc_port,
                   reply_port, open>>

\* ab_cleanup after UNREGISTER: reply to what is left, delete the port.
CleanupDrain(a) ==
    LET m == Head(reply_port[a]) IN
    /\ InCall(a, "cleanup") /\ reply_port[a] # <<>>
    /\ IF m.kind = "req"
         THEN /\ ReturnRequest(m.req)
              /\ reply_port' = [reply_port EXCEPT ![a] = Tail(@)]
         ELSE /\ reply_port' = [reply_port EXCEPT ![a] = Append(Tail(@), m)]
              /\ UNCHANGED <<reqs, stray>>
    /\ UNCHANGED <<clients, next_client_id, msg_pool_used, daemon, ipc_port,
                   open, app, stack>>

CleanupEnd(a) ==
    /\ InCall(a, "cleanup") /\ reply_port[a] = <<>>
    /\ stack' = [stack EXCEPT ![a] = Pop(@)]
    /\ app' = [app EXCEPT ![a].conn = "gone", ![a].id = 0]
    /\ open' = open \ {a}
    /\ UNCHANGED <<dvars, ipc_port, reply_port, stray>>

----------------------------------------------------------------------------
\* The daemon's task.

\* ipc_process, one message: from the main loop, and from the waits of
\* var_send_and_wait and handle_callhook.
Serving ==
    \/ daemon.pc = "loop"
    \/ daemon.pc = "wait" /\ ServesIpc(reqs[daemon.req].kind)

ipc_process ==
    LET m == Head(ipc_port)
        reg == client_register(AppName[m.app], m.app)
    IN
    /\ Serving /\ ipc_port # <<>>
    /\ ipc_port' = Tail(ipc_port)
    /\ clients' = CASE m.type = "REGISTER" -> reg.table
                    [] m.type = "UNREGISTER" -> client_unregister(m.id)
                    [] OTHER -> clients
    /\ next_client_id' = IF m.type = "REGISTER" THEN reg.next ELSE next_client_id
    /\ DaemonReply(IF m.type = "REGISTER" THEN [m EXCEPT !.id = reg.id] ELSE m)
    /\ UNCHANGED <<msg_pool_used, daemon, reqs, cvars>>

\* handle_exec: the named client, else the first id of 1..AB_MAX_CLIENTS that
\* is registered.
FallbackIds == {i \in 1..AB_MAX_CLIENTS : client_find(i) # {}}

ExecTargets(n) ==
    IF client_find_by_name(n) # {} THEN client_find_by_name(n)
    ELSE IF FallbackIds # {} THEN client_find(Least(FallbackIds))
    ELSE {}

\* Slip: ipc_send_to_client without the check of alloc_msg's result.
SendRequestAlways ==
    /\ daemon.pc = "loop" /\ "exec" \in Kinds
    /\ \E n \in Names : \E s \in ExecTargets(n) :
           SendRequest("exec", clients[s].port, 0)

handle_exec ==
    /\ daemon.pc = "loop" /\ "exec" \in Kinds
    /\ msg_pool_used < IPC_MSG_POOL_SIZE           \* alloc_msg, else return
    /\ \E n \in Names : \E s \in ExecTargets(n) :
           SendRequest("exec", clients[s].port, 0)

\* GETVAR/SETVAR (var_send_and_wait), CALLHOOK, GETPERF/LISTRESOURCES name a
\* registered client.
handle_query(kind) ==
    /\ daemon.pc = "loop" /\ kind \in Kinds
    /\ \E s \in Active : SendRequest(kind, clients[s].port, 0)

AfterWait(ci) == [pc |-> IF ci = 0 THEN "loop" ELSE "notify", req |-> 0, ci |-> ci]

WaitReply ==
    LET r == daemon.req IN
    /\ daemon.pc = "wait" /\ reqs[r].back
    /\ daemon' = AfterWait(daemon.ci)
    /\ reqs' = [reqs EXCEPT ![r].port = "deleted"]
    /\ msg_pool_used' = msg_pool_used - (IF Pooled(reqs[r].kind) THEN 1 ELSE 0)
    /\ UNCHANGED <<clients, next_client_id, ipc_port, reply_port, cvars, stray>>

\* Slip: ipc_send_to_client freeing the message whether or not it came back.
WaitTimeoutFreesSlot ==
    LET r == daemon.req IN
    /\ daemon.pc = "wait"
    /\ daemon' = AfterWait(daemon.ci)
    /\ reqs' = [reqs EXCEPT ![r].port = PortAfterTimeout(reqs[r].kind)]
    /\ msg_pool_used' = msg_pool_used - (IF Pooled(reqs[r].kind) THEN 1 ELSE 0)
    /\ UNCHANGED <<clients, next_client_id, ipc_port, reply_port, cvars, stray>>

\* Slip: A wait without a limit.
WaitTimeoutNever == FALSE /\ UNCHANGED vars

\* The retries run out; the last Delay is not followed by another GetMsg, so
\* this may happen with the reply already there.
WaitTimeout ==
    LET r == daemon.req IN
    /\ daemon.pc = "wait"
    /\ daemon' = AfterWait(daemon.ci)
    /\ reqs' = [reqs EXCEPT ![r].port = PortAfterTimeout(reqs[r].kind)]
    /\ UNCHANGED <<clients, next_client_id, msg_pool_used, ipc_port, reply_port,
                   cvars, stray>>

\* main() after the loop: SHUTDOWN to the ids 1..AB_MAX_CLIENTS in turn, then
\* ipc_cleanup replies to what is left at the port and deletes it.
Shutdown ==
    /\ daemon.pc = "loop" /\ "shutdown" \in Kinds
    /\ daemon' = [pc |-> "notify", req |-> 0, ci |-> 1]
    /\ UNCHANGED <<clients, next_client_id, msg_pool_used, reqs, ipc_port,
                   reply_port, cvars, stray>>

NotifySend ==
    /\ daemon.pc = "notify" /\ daemon.ci <= AB_MAX_CLIENTS
    /\ msg_pool_used < IPC_MSG_POOL_SIZE
    /\ \E s \in client_find(daemon.ci) :
           SendRequest("shutdown", clients[s].port, daemon.ci + 1)

NotifySkip ==
    /\ daemon.pc = "notify" /\ daemon.ci <= AB_MAX_CLIENTS
    /\ \/ client_find(daemon.ci) = {}
       \/ msg_pool_used = IPC_MSG_POOL_SIZE
    /\ daemon' = [daemon EXCEPT !.ci = @ + 1]
    /\ UNCHANGED <<clients, next_client_id, msg_pool_used, reqs, ipc_port,
                   reply_port, cvars, stray>>

\* ipc_cleanup: RemPort, reply to what is left, delete the port.
IpcRemPort ==
    /\ daemon.pc = "notify" /\ daemon.ci > AB_MAX_CLIENTS
    /\ daemon' = [daemon EXCEPT !.pc = "drain"]
    /\ UNCHANGED <<clients, next_client_id, msg_pool_used, reqs, ipc_port,
                   reply_port, cvars, stray>>

IpcDrain ==
    /\ daemon.pc = "drain" /\ ipc_port # <<>>
    /\ ipc_port' = Tail(ipc_port)
    /\ DaemonReply([Head(ipc_port) EXCEPT !.id = 0])
    /\ UNCHANGED <<dvars, cvars>>

IpcClose ==
    /\ daemon.pc = "drain" /\ ipc_port = <<>>
    /\ daemon' = [daemon EXCEPT !.pc = "down"]
    /\ UNCHANGED <<clients, next_client_id, msg_pool_used, reqs, ipc_port,
                   reply_port, cvars, stray>>

----------------------------------------------------------------------------
Calls(a) ==
    ab_init(a) \/ send_simple(a) \/ ab_send_mem(a) \/ ab_cleanup(a) \/ ab_poll(a)

AppStep(a) ==
    \/ PollGet(a) \/ PollEnd(a)
    \/ SendGetOther(a) \/ SendGetOwn(a) \/ SendMemGet(a)
    \/ HandleDone(a)
    \/ CleanupDrain(a) \/ CleanupEnd(a)

DaemonStep ==
    \/ ipc_process
    \/ WaitReply \/ WaitTimeout
    \/ NotifySend \/ NotifySkip \/ IpcRemPort \/ IpcDrain \/ IpcClose

HostStep ==
    \/ handle_exec
    \/ \E kind \in {"var", "hook", "perf"} : handle_query(kind)
    \/ Shutdown

Next ==
    \/ DaemonStep \/ HostStep
    \/ \E a \in Apps : Calls(a) \/ AppStep(a)

Spec == Init /\ [][Next]_vars

\* The daemon's task runs whenever it has something to do, its polling waits
\* are bounded, and the applications in Fair are scheduled and return from
\* their handlers; the others may stop at any point.
FairSpec ==
    /\ Spec
    /\ WF_vars(DaemonStep)
    /\ \A a \in Fair : WF_vars(AppStep(a))

----------------------------------------------------------------------------
Entry == [id : Nat, name : Names \cup {NoApp}, port : Apps \cup {NoApp}]
RequestMsg == [kind : {"req"}, req : 1..MaxReqs]
ClientMsg == [kind : {"msg"}, app : Apps, slot : 1..MSG_POOL_SIZE,
              type : {"REGISTER", "UNREGISTER", "DATA"}, id : Nat]
Sent == [kind : AllKinds, to : Apps, port : {"open", "leaked", "deleted"}, back : BOOLEAN]
Program == [conn : {"new", "init", "up", "off", "gone"}, id : Nat,
            used : SUBSET (1..MSG_POOL_SIZE), sends : Nat]
LibraryCall == [op : {"send", "sendmem", "poll", "handle", "cleanup"},
                slot : 0..MSG_POOL_SIZE, req : 0..MaxReqs]

\* The shape of the state; the pool counter and the ids stay in range.
TypeOK ==
    /\ clients \in [Slots -> Entry]
    /\ next_client_id \in Nat \ {0}
    /\ msg_pool_used \in 0..IPC_MSG_POOL_SIZE
    /\ daemon \in [pc : {"loop", "wait", "notify", "drain", "down"},
                   req : 0..MaxReqs, ci : 0..(AB_MAX_CLIENTS + 1)]
    /\ reqs \in Seq(Sent)
    /\ ipc_port \in Seq(ClientMsg)
    /\ reply_port \in [Apps -> Seq(RequestMsg \cup ClientMsg)]
    /\ open \subseteq Apps
    /\ app \in [Apps -> Program]
    /\ stack \in [Apps -> Seq(LibraryCall)]
    /\ stray \subseteq {"reply_port", "ipc_port"} \cup AllKinds

\* client_registry.c: ids and names identify one entry each and no id is given
\* out twice (a stale UNREGISTER cannot hit a newer client of another name); and
\* ab_cleanup deletes a reply port only once the daemon has forgotten it: while
\* requests are served, every registered port exists, whatever order
\* registrations under one name, clean-ups and timed-out requests come in. (A
\* program that used ab_send_mem may have missed the answer to its own message,
\* and take it for that to its UNREGISTER.)
RegistryIsSound ==
    /\ \A s, t \in Active :
          s # t => clients[s].id # clients[t].id /\ clients[s].name # clients[t].name
    /\ \A s \in Active : clients[s].id < next_client_id
    /\ (daemon.pc \in {"loop", "wait"} /\ daemon.ci = 0) =>
          \A s \in Active : clients[s].port \in open \cup SendMemUsers

\* ipc_send_to_client: a pool slot is not given out again while its message is
\* still with a client ("we cannot safely free it").
PooledMessagesAreHeld ==
    Cardinality({r \in DOMAIN reqs : Pooled(reqs[r].kind) /\ ~reqs[r].back})
        <= msg_pool_used

HoldsRequest(a, r) ==
    \/ \E i \in DOMAIN reply_port[a] : reply_port[a][i] = Request(r)
    \/ \E i \in DOMAIN stack[a] : stack[a][i] = Frame("handle", 0, r)

\* send_and_wait, ab_poll and ab_cleanup between them lose no request: one
\* that was not replied is still queued at its client or being handled there
\* ("We must process those inline to avoid deadlock/lost messages"). ab_send_mem
\* does lose them: its users are left out.
RequestsAreNotLost ==
    \A r \in DOMAIN reqs :
        ~reqs[r].back /\ reqs[r].to \notin SendMemUsers => HoldsRequest(reqs[r].to, r)

\* A reply to a CALLHOOK goes to a port that exists, also when it comes after
\* the daemon's timeout ("Leak both to avoid use-after-free crash when client
\* eventually calls ReplyMsg()").
HookRepliesReachLivePorts == "hook" \notin stray

\* ipc_send_to_client, on a timeout: "we cannot safely free it ... becomes a
\* small permanent leak (better than a crash)": a late reply to an EXEC is no
\* write to a freed port either.
ExecRepliesReachLivePorts == "exec" \notin stray

\* While CALLHOOK waits for a client whose hook function is itself waiting for
\* the daemon, that client's message is about to be served or was replied:
\* neither waits for the other ("If we don't process those, we deadlock").
HookNeverDeadlocks ==
    \A a \in Apps :
        (/\ daemon.pc = "wait" /\ reqs[daemon.req].kind = "hook"
         /\ Frame("handle", 0, daemon.req) \in {stack[a][i] : i \in DOMAIN stack[a]}
         /\ InCall(a, "send"))
        => LET mine(q) == \E i \in DOMAIN q : OwnReply(a, q[i])
           IN (mine(ipc_port) /\ Serving) \/ mine(reply_port[a])

\* Every call into the client library returns, whatever other applications do and
\* whenever requests arrive, as long as the daemon serves its port; at its shutdown
\* a message that is never replied leaves its sender waiting.
CallsReturn ==
    \A a \in Fair :
        stack[a] # <<>> ~> (stack[a] = <<>> \/ daemon.pc \notin {"loop", "wait"})
============================================================================
