---------------------------- MODULE WinuaeProofs ----------------------------
(***************************************************************************)
(* Proofs about the WinUAE debugger session: its types, that a request is  *)
(* resolved by its own answer only, that the session's points and those of *)
(* WinUAE agree between two operations, that the session knows when WinUAE *)
(* is stopped, and that a pause gets its stop.                             *)
(*                                                                         *)
(* The invariant: at most one request is outstanding, in one direction of  *)
(* the connection (ExchangeInv), which makes the answers that the plans    *)
(* see the answers to their own requests (ReplyInv); on that rests what    *)
(* WinUAE has of the session's points in each phase of a plan (Keeps), how *)
(* far status replies may lag behind stops (CpuInv), and that the last     *)
(* interrupt is followed by no order to run (PauseInv).                    *)
(***************************************************************************)
EXTENDS Winuae, SequenceTheorems, TLAPS

USE WinuaeAssumption

-----------------------------------------------------------------------------
(* The invariant.                                                          *)

\* Packets that run or stop the CPU; WinUAE answers all the others.
Orders == {"c", "s", "int"}
IsRequest(m) == m.cmd \notin Orders
IsReply(m) == m.kind = "reply"

\* A reply has come, or no request was made.
Quiet == lock = NoOne \/ reply # NoReply

\* The holder of the lock and its plan.
PlanInv ==
    /\ lock = NoOne => plan = Idle /\ reply = NoReply
    /\ lock # NoOne => plan.phase # "none"
    /\ lock = Process <=> plan.phase \in {"pc", "shot"}
    /\ lock = Process => processing > 0
    /\ plan.phase \in {"set", "arm"} => plan.p \in DOMAIN plan.kept
    /\ plan.phase = "arm" => plan.left \subseteq DOMAIN plan.kept
    /\ Wire(plan.phase) \in {"Z", "z"} => plan.p \in Points

\* At most one request is outstanding, in one of the two directions, and it is
\* the one that the holder of the lock waits for.
Outstanding(m) == ~Quiet /\ m.cmd = Wire(plan.phase) /\ m.p = plan.p
ExchangeInv ==
    /\ \A i \in 1..Len(toEmu) : IsRequest(toEmu[i]) =>
          /\ Outstanding(toEmu[i])
          /\ \A j \in 1..Len(toEmu) : IsRequest(toEmu[j]) => i = j
          /\ \A j \in 1..Len(toHost) : ~IsReply(toHost[j])
    /\ \A i \in 1..Len(toHost) : IsReply(toHost[i]) =>
          /\ Outstanding(toHost[i])
          /\ \A j \in 1..Len(toHost) : IsReply(toHost[j]) => i = j

\* What is left of a connection that was closed.
ClosedInv ==
    ~connected =>
        /\ ~emu.session /\ toEmu = <<>> /\ toHost = <<>>
        /\ Quiet
        /\ lock = Process => points = NoPoints
ResolvedInv == reply = Closed => ~connected

\* The answer to a request, as far as it is known from the request.
Truthful(r) ==
    /\ r.cmd = "exec" => r.val \in {"running", "stopped"} /\ r.ok
    /\ r.cmd = "z" => r.ok
    /\ r.cmd = "Z" => (r.ok <=> r.p \notin Refused)
AnswersInv ==
    /\ \A i \in 1..Len(toHost) : IsReply(toHost[i]) => Truthful(toHost[i])
    /\ IsReply(reply) => Truthful(reply)

\* What WinUAE refuses is in no table that is put back.
AcceptedInv ==
    /\ DOMAIN points \cap Refused = {}
    /\ plan.phase \in {"arm", "keys"} => DOMAIN plan.kept \cap Refused = {}
    /\ \A c \in Callers : DOMAIN caller[c].saved \cap Refused = {}

\* The request of the plan has not been taken by WinUAE yet.
Pending == \E i \in 1..Len(toEmu) : IsRequest(toEmu[i])

\* An answer that has come, to its reader or no further than the connection.
Come(r) ==
    /\ IsReply(r)
    /\ r = reply \/ \E i \in 1..Len(toHost) : r = toHost[i]

\* What WinUAE has of the session's points in each phase of a plan.
Keeps ==
    LET D == DOMAIN points  E == emu.points  F == forgotten
        p == plan.p  left == plan.left IN
    CASE plan.phase = "bye" -> TRUE
      [] plan.phase = "set" ->
            E = F \cup (IF Pending \/ p \in Refused THEN D ELSE D \cup {p})
      [] plan.phase = "del" ->
            /\ E = F \cup (IF Pending THEN D ELSE D \ {p})
            /\ p \in D /\ left \subseteq D \ {p}
      [] plan.phase = "shot" -> E = F \cup (IF Pending THEN D ELSE D \ {p})
      [] plan.phase = "lift" ->
            /\ E = F \cup (D \ (plan.lifted \cup (IF Pending THEN {} ELSE {p})))
            /\ p \in D /\ left \subseteq D /\ plan.lifted \subseteq D
      [] plan.phase = "save" -> E = F \cup (D \ plan.lifted) /\ plan.lifted \subseteq D
      [] plan.phase = "back" ->
            /\ E = F \cup (D \ (left \cup (IF Pending THEN {p} ELSE {})))
            /\ p \in D /\ left \subseteq D /\ p \notin left
      [] plan.phase = "arm" ->
            /\ F \cup D \subseteq E /\ E \subseteq F \cup DOMAIN plan.kept
            /\ DOMAIN plan.kept = D \cup left \cup {p}
            /\ ~Pending => p \in E
      [] plan.phase = "restore" ->
            /\ Pending => E = F \cup D
            /\ \A r \in Replies : Come(r) => E = IF r.ok THEN {} ELSE F \cup D
      [] OTHER -> E = F \cup D
PointsInv == connected /\ emu.session => Keeps

\* What the session knows of its execution while requests are under way; the phases
\* in which the session is paused throughout.
PausedPhases == {"lift", "save", "restore", "vcont"}
SessionInv ==
    connected =>
        /\ stop <=> execution = "stopped"
        /\ plan.phase \in PausedPhases => execution = "stopped"
        /\ plan.phase = "exec" /\ newer => execution # "disconnected"

\* An order to run that is on its way.
RunIsOrdered == \E i \in 1..Len(toEmu) : toEmu[i].cmd \in {"c", "s"}
Known == execution = "stopped" \/ StopIsUnderWay \/ RunIsOrdered

\* A status that was given before a stop is older than the stop; a step over that
\* was accepted has run, or its stop is on its way.
CpuInv ==
    connected /\ emu.session /\ emu.cpu = "stopped" =>
        /\ \/ Known \/ plan.phase = "over"
           \/ execution = "disconnected" /\ plan.phase \in {"hello", "exec"}
        /\ \A r \in Replies : Come(r) =>
              /\ r.cmd = "exec" /\ r.val = "running" => newer \/ StopIsUnderWay
              /\ r.cmd = "over" /\ r.ok => Known

\* The last interrupt is not followed by an order to run.
IntIsLast ==
    \E i \in 1..Len(toEmu) :
        /\ toEmu[i].cmd = "int"
        /\ \A j \in 1..Len(toEmu) : toEmu[j].cmd \in {"c", "s"} => j < i
PauseInv ==
    \A c \in Callers : caller[c].pc = "pausing" =>
        /\ connected /\ execution # "stopped" /\ interrupting
        /\ plan.phase # "over"
        /\ emu.session =>
              /\ StopIsUnderWay \/ IntIsLast
              /\ emu.cpu = "stopped" => StopIsUnderWay \/ RunIsOrdered

-----------------------------------------------------------------------------
(* Tables of points.                                                       *)

LEMMA TableFact ==
    ASSUME NEW t PROVE t \in Tables <=> t \in [DOMAIN t -> Attr] /\ DOMAIN t \subseteq Points
BY DEF Tables

LEMMA NoPointsFact == NoPoints \in Tables /\ DOMAIN NoPoints = {}
BY TableFact DEF NoPoints

LEMMA WithFact ==
    ASSUME NEW t \in Tables, NEW q \in Points, NEW a \in Attr
    PROVE  With(t, q, a) \in Tables /\ DOMAIN With(t, q, a) = DOMAIN t \cup {q}
<1>1. DOMAIN With(t, q, a) = DOMAIN t \cup {q} BY DEF With
<1>2. \A x \in DOMAIN t \cup {q} : With(t, q, a)[x] \in Attr BY TableFact DEF With
<1>3. With(t, q, a) \in [DOMAIN t \cup {q} -> Attr] BY <1>2 DEF With
<1> QED BY <1>1, <1>3, TableFact

LEMMA WithoutFact ==
    ASSUME NEW t \in Tables, NEW q
    PROVE  Without(t, q) \in Tables /\ DOMAIN Without(t, q) = DOMAIN t \ {q}
<1>1. DOMAIN Without(t, q) = DOMAIN t \ {q} BY DEF Without
<1>2. \A x \in DOMAIN t \ {q} : Without(t, q)[x] \in Attr BY TableFact DEF Without
<1>3. Without(t, q) \in [DOMAIN t \ {q} -> Attr] BY <1>2 DEF Without
<1> QED BY <1>1, <1>3, TableFact

LEMMA UpdatedFact ==
    ASSUME NEW t \in Tables, NEW u \in Tables
    PROVE  Updated(t, u) \in Tables /\ DOMAIN Updated(t, u) = DOMAIN t \cup DOMAIN u
<1>1. DOMAIN Updated(t, u) = DOMAIN t \cup DOMAIN u BY DEF Updated
<1>2. \A x \in DOMAIN t \cup DOMAIN u : Updated(t, u)[x] \in Attr BY TableFact DEF Updated
<1>3. Updated(t, u) \in [DOMAIN t \cup DOMAIN u -> Attr] BY <1>2 DEF Updated
<1> QED BY <1>1, <1>3, TableFact

LEMMA MergedFact ==
    ASSUME NEW t \in Tables, NEW u \in Tables, NEW replaced \in BOOLEAN
    PROVE  /\ Merged(t, u, replaced) \in Tables
           /\ DOMAIN Merged(t, u, replaced) \subseteq DOMAIN t \cup DOMAIN u
           /\ DOMAIN t \subseteq DOMAIN Merged(t, u, replaced) \cup Watches
<1> DEFINE own == [q \in DOMAIN t \ (IF replaced THEN Watches ELSE {}) |-> t[q]]
<1>1. DOMAIN own \subseteq DOMAIN t /\ DOMAIN t \subseteq DOMAIN own \cup Watches OBVIOUS
<1>2. own \in [DOMAIN own -> Attr] BY TableFact
<1>3. own \in Tables BY <1>1, <1>2, TableFact
<1>4. Merged(t, u, replaced) = Updated(own, u) BY DEF Merged
<1> HIDE DEF own
<1> QED BY <1>1, <1>3, <1>4, UpdatedFact

LEMMA SkippedFact ==
    ASSUME NEW t \in Tables, NEW q \in DOMAIN t, t[q].skip > 0
    PROVE  /\ [t EXCEPT ![q].skip = @ - 1] \in Tables
           /\ DOMAIN [t EXCEPT ![q].skip = @ - 1] = DOMAIN t
<1>1. t \in [DOMAIN t -> Attr] /\ DOMAIN t \subseteq Points BY TableFact
<1>2. t[q].skip - 1 \in 0..MaxSkip BY <1>1 DEF Attr
<1>3. [t[q] EXCEPT !.skip = @ - 1] \in Attr BY <1>1, <1>2 DEF Attr
<1>4. [t EXCEPT ![q].skip = @ - 1] \in [DOMAIN t -> Attr] BY <1>1, <1>3
<1> QED BY <1>1, <1>4, TableFact
-----------------------------------------------------------------------------
(* Replies.                                                                *)

LEMMA ConcatTwo ==
    ASSUME NEW S, NEW s \in Seq(S), NEW a, NEW b
    PROVE  s \o <<a, b>> = Append(Append(s, a), b)
<1> DEFINE u == s \o <<a, b>>
          v == Append(Append(s, a), b)
          T == S \cup {a, b}
<1>1. s \in Seq(T) /\ a \in T /\ b \in T OBVIOUS
<1>2. u \in Seq(T) /\ v \in Seq(T) BY <1>1
<1>3. Len(u) = Len(s) + 2 /\ Len(v) = Len(s) + 2 BY <1>1
<1>4. \A i \in 1..Len(u) : u[i] = v[i] BY <1>1, <1>3
<1> QED BY <1>2, <1>3, <1>4, SeqEqual

LEMMA HeadFact ==
    ASSUME NEW S, NEW s \in Seq(S), s # <<>>
    PROVE  /\ Head(s) \in S /\ Tail(s) \in Seq(S) /\ Head(s) = s[1]
           /\ Len(s) \in Nat /\ Len(s) >= 1 /\ Len(Tail(s)) = Len(s) - 1
           /\ \A i \in 1..(Len(s) - 1) : Tail(s)[i] = s[i + 1]
OBVIOUS

LEMMA ReplyFact ==
    ASSUME TypeOK, toEmu # <<>>, NEW ok \in BOOLEAN,
           NEW val \in Points \cup {NoPoint, "running", "stopped"}
    PROVE  /\ Reply(ok, val) \in Replies /\ IsReply(Reply(ok, val))
           /\ Reply(ok, val).cmd = Head(toEmu).cmd /\ Reply(ok, val).p = Head(toEmu).p
           /\ Reply(ok, val).ok = ok /\ Reply(ok, val).val = val
<1>1. toEmu \in Seq([cmd : Commands, p : Points \cup {NoPoint}]) BY DEF TypeOK
<1>2. Head(toEmu) \in [cmd : Commands, p : Points \cup {NoPoint}] BY <1>1, HeadFact
<1> QED BY <1>2 DEF Reply, Answer, Replies, IsReply

-----------------------------------------------------------------------------
(* What the steps do to the connection.                                    *)

\* Nothing or one order is sent.
Sends ==
    \/ toEmu' = toEmu
    \/ connected /\ \E o \in Orders : toEmu' = Append(toEmu, Packet(o, NoPoint))
Local == UNCHANGED <<connected, emu, toHost>>

Apart == Local /\ UNCHANGED lvars /\ Sends /\ (lock = Process => UNCHANGED points)
Leaves == Quiet /\ Local /\ Release /\ Sends
Asks ==
    /\ Quiet /\ connected /\ Local
    /\ lock' # NoOne /\ reply' = NoReply
    /\ toEmu' = Append(toEmu, Packet(Wire(plan'.phase), plan'.p))
Opens ==
    /\ ~connected /\ connected' /\ lock' # NoOne /\ reply' = NoReply
    /\ plan' = [Idle EXCEPT !.phase = "hello"]
    /\ \E cpu \in {"running", "stopped"} :
           emu' = [Detached EXCEPT !.session = TRUE, !.cpu = cpu]
    /\ toEmu' = <<Packet("hello", NoPoint)>> /\ toHost' = <<>>
Loses ==
    /\ ~connected'
    /\ emu' = Detached /\ toEmu' = <<>> /\ toHost' = <<>> /\ points' = NoPoints
    /\ \/ Release
       \/ UNCHANGED <<lock, plan>> /\ reply' = IF Quiet THEN reply ELSE Closed

\* The reader.
TakesStop ==
    /\ connected /\ UNCHANGED <<connected, points, lvars, emu, toEmu>>
    /\ toHost # <<>> /\ Head(toHost).kind = "stop" /\ toHost' = Tail(toHost)
TakesReply ==
    /\ connected /\ UNCHANGED <<connected, points, lock, plan, emu, toEmu>>
    /\ toHost # <<>> /\ IsReply(Head(toHost)) /\ toHost' = Tail(toHost)
    /\ ~Quiet /\ reply' = Head(toHost)

\* WinUAE takes a packet, and answers it or, for an order, may stop.
TakesOrder ==
    /\ emu.session /\ emu'.session /\ UNCHANGED <<connected, points, lvars>>
    /\ toEmu # <<>> /\ ~IsRequest(Head(toEmu)) /\ toEmu' = Tail(toEmu)
    /\ toHost' = toHost \/ toHost' = Append(toHost, Stop(FALSE))
TakesRequest ==
    /\ emu.session /\ emu'.session /\ UNCHANGED <<connected, points, lvars>>
    /\ toEmu # <<>> /\ IsRequest(Head(toEmu)) /\ toEmu' = Tail(toEmu)
    /\ \E r \in Replies :
          /\ r.cmd = Head(toEmu).cmd /\ r.p = Head(toEmu).p /\ Truthful(r)
          /\ \/ toHost' = Append(toHost, r)
             \/ \E plain \in BOOLEAN : toHost' = Append(Append(toHost, Stop(plain)), r)

\* WinUAE stops by itself, is resumed, or goes away.
Emits ==
    /\ emu.session /\ emu'.session /\ UNCHANGED <<connected, points, lvars, toEmu>>
    /\ \/ toHost' = toHost
       \/ \E plain \in BOOLEAN : toHost' = Append(toHost, Stop(plain))
Leaving ==
    /\ emu.session /\ emu' = Detached /\ UNCHANGED <<connected, points, lvars>>
    /\ toEmu' = <<>> /\ toHost' = Append(toHost, Eof)

HostTraffic == Apart \/ Leaves \/ Asks \/ Opens \/ Loses \/ TakesStop \/ TakesReply
EmuTraffic == TakesOrder \/ TakesRequest \/ Emits \/ Leaving
Traffic == HostTraffic \/ EmuTraffic

Emulator == EmuCommand \/ EmuStop \/ EmuReset \/ EmuDrop \/ GuiResume

LEMMA StepTraffic ==
    ASSUME TypeOK, PlanInv, ClosedInv, [Next]_vars
    PROVE  HostTraffic \/ (Emulator /\ EmuTraffic)
<1>1. ASSUME NEW c \in Callers, Connect(c) PROVE Opens
    BY <1>1 DEF Connect, Call, Open, Opens, vars, hvars, lvars, cvars, evars,
       TypeOK, PlanInv, Wire, Idle, Detached
<1>2. ASSUME NEW c \in Callers, ConnectRefused(c) PROVE Apart
    BY <1>2 DEF ConnectRefused, Call, Apart, Local, Sends, Orders, vars, hvars,
       lvars, cvars, evars, TypeOK, PlanInv, Wire, Idle
<1>3. ASSUME NEW c \in Callers, Disconnect(c) PROVE Asks
    BY <1>3 DEF Disconnect, Call, Start, Asks, Local, Quiet, vars, hvars, lvars,
       cvars, evars, TypeOK, PlanInv, Wire, Idle
<1>4. ASSUME NEW c \in Callers, Status(c) PROVE Asks
    BY <1>4 DEF Status, Call, Start, Asks, Local, Quiet, vars, hvars, lvars,
       cvars, evars, TypeOK, PlanInv, Wire, Idle
<1>5. ASSUME NEW c \in Callers, Resume(c) PROVE Apart
    BY <1>5 DEF Resume, Call, _run, _paused, Apart, Local, Sends, Orders, vars,
       hvars, lvars, cvars, evars, TypeOK, PlanInv, Wire, Idle
<1>6. ASSUME NEW c \in Callers, Step(c) PROVE Apart
    BY <1>6 DEF Step, Call, _run, _paused, Apart, Local, Sends, Orders, vars,
       hvars, lvars, cvars, evars, TypeOK, PlanInv, Wire, Idle
<1>7. ASSUME NEW c \in Callers, step_over(c) PROVE Asks
    BY <1>7 DEF step_over, Call, Start, _paused, Asks, Local, Quiet, vars, hvars,
       lvars, cvars, evars, TypeOK, PlanInv, Wire, Idle
<1>8. ASSUME NEW c \in Callers, Pause(c) PROVE Apart
    BY <1>8 DEF Pause, Call, Apart, Local, Sends, Orders, vars, hvars, lvars,
       cvars, evars, TypeOK, PlanInv, Wire, Idle
<1>9. ASSUME NEW c \in Callers, wait_stopped(c) PROVE Apart
    BY <1>9 DEF wait_stopped, Apart, Local, Sends, Orders, vars, hvars, lvars,
       cvars, evars, TypeOK, PlanInv, Wire, Idle
<1>10. ASSUME NEW c \in Callers, WaitTimeout(c) PROVE Apart
    BY <1>10 DEF WaitTimeout, Apart, Local, Sends, Orders, vars, hvars, lvars,
       cvars, evars, TypeOK, PlanInv, Wire, Idle
<1>11. ASSUME NEW c \in Callers, Reset(c) PROVE Asks
    BY <1>11 DEF Reset, Call, Start, Asks, Local, Quiet, vars, hvars, lvars,
       cvars, evars, TypeOK, PlanInv, Wire, Idle
<1>12. ASSUME NEW c \in Callers, ResetGivesUp(c) PROVE Apart
    BY <1>12 DEF ResetGivesUp, Apart, Local, Sends, Orders, vars, hvars, lvars,
       cvars, evars, TypeOK, PlanInv, Wire, Idle
<1>13. ASSUME NEW c \in Callers, range_step(c) PROVE Asks
    BY <1>13 DEF range_step, Call, Start, _paused, Asks, Local, Quiet, vars,
       hvars, lvars, cvars, evars, TypeOK, PlanInv, Wire, Idle
<1>14. ASSUME NEW c \in Callers, Add(c) PROVE Apart \/ Asks
    BY <1>14 DEF Add, Call, Start, _paused, Apart, Local, Sends, Orders, Asks,
       Quiet, vars, hvars, lvars, cvars, evars, TypeOK, PlanInv, Wire, Idle
<1>15. ASSUME NEW c \in Callers, Remove(c) PROVE Asks
    BY <1>15 DEF Remove, Call, Start, _paused, Asks, Local, Quiet, vars, hvars,
       lvars, cvars, evars, TypeOK, PlanInv, Wire, Idle
<1>16. ASSUME NEW c \in Callers, InspectionTools(c) PROVE Asks
    BY <1>16 DEF InspectionTools, registers_and_memory, chipset, diagnostics,
       hunk_load, symbol_read, input, Ask, Call, Start, _paused, Asks, Local,
       Quiet, vars, hvars, lvars, cvars, evars, TypeOK, PlanInv, Wire, Idle
<1>17. ASSUME NEW c \in Callers, CheckpointSave(c) PROVE Asks
    BY <1>17 DEF CheckpointSave, Call, Start, _paused, Asks, Local, Quiet, vars,
       hvars, lvars, cvars, evars, TypeOK, PlanInv, Wire, Idle
<1>18. ASSUME NEW c \in Callers, CheckpointRestore(c) PROVE Asks
    BY <1>18 DEF CheckpointRestore, Call, Start, _paused, Asks, Local, Quiet,
       vars, hvars, lvars, cvars, evars, TypeOK, PlanInv, Wire, Idle
<1>19. ASSUME NEW c \in Callers, ResetSeen(c) PROVE Apart
    BY <1>19 DEF ResetSeen, Apart, Local, Sends, Orders, vars, hvars, lvars,
       cvars, evars, TypeOK, PlanInv, Wire, Idle
<1>20. ASSUME NEW c \in Callers, ResetReconnect(c) PROVE Opens \/ Apart
    BY <1>20 DEF ResetReconnect, Open, Opens, Apart, Local, Sends, Orders, vars,
       hvars, lvars, cvars, evars, TypeOK, PlanInv, Wire, Idle, Detached
<1>21. ASSUME NEW c \in Callers, ResetRearm(c) PROVE Apart \/ Asks
    BY <1>21 DEF ResetRearm, Start, Next1, Apart, Local, Sends, Orders, Asks,
       Quiet, vars, hvars, lvars, cvars, evars, TypeOK, PlanInv, Wire, Idle
<1>22. ASSUME NEW c \in Callers, ResetResume(c) PROVE Apart
    BY <1>22 DEF ResetResume, _run, _paused, Apart, Local, Sends, Orders, vars,
       hvars, lvars, cvars, evars, TypeOK, PlanInv, Wire, Idle
<1>23. ASSUME HelloDone PROVE Asks \/ Leaves
    BY <1>23 DEF HelloDone, Ok, Answered, Request, Release, Asks, Local, Quiet,
       Leaves, Sends, Orders, vars, hvars, lvars, cvars, evars, TypeOK, PlanInv,
       Wire, Idle
<1>24. ASSUME HelloDenied PROVE Loses \/ Leaves
    BY <1>24 DEF HelloDenied, Denied, Answered, Lost, Release, Loses, Quiet,
       Leaves, Local, Sends, Orders, vars, hvars, lvars, cvars, evars, TypeOK,
       PlanInv, Wire, Idle
<1>25. ASSUME ExecutionDone PROVE Leaves
    BY <1>25 DEF ExecutionDone, Ok, Answered, TakeStatus, Release, Leaves, Local,
       Sends, Quiet, Orders, vars, hvars, lvars, cvars, evars, TypeOK, PlanInv,
       Wire, Idle
<1>26. ASSUME ByeDone PROVE Loses
    BY <1>26 DEF ByeDone, Answered, Lost, Release, Loses, Quiet, vars, hvars,
       lvars, cvars, evars, TypeOK, PlanInv, Wire, Idle
<1>27. ASSUME StepOverDone PROVE Leaves
    BY <1>27 DEF StepOverDone, Ok, Answered, Release, Leaves, Local, Sends, Quiet,
       Orders, vars, hvars, lvars, cvars, evars, TypeOK, PlanInv, Wire, Idle
<1>28. ASSUME StepOverDenied PROVE Leaves
    BY <1>28 DEF StepOverDenied, Denied, Answered, Release, Leaves, Local, Sends,
       Quiet, Orders, vars, hvars, lvars, cvars, evars, TypeOK, PlanInv, Wire,
       Idle
<1>29. ASSUME RangeStepDone PROVE Leaves
    BY <1>29 DEF RangeStepDone, Ok, Answered, _run, Release, Leaves, Local, Sends,
       Quiet, Orders, vars, hvars, lvars, cvars, evars, TypeOK, PlanInv, Wire,
       Idle
<1>30. ASSUME AddDone PROVE Leaves
    BY <1>30 DEF AddDone, Ok, Answered, Release, Leaves, Local, Sends, Quiet,
       Orders, vars, hvars, lvars, cvars, evars, TypeOK, PlanInv, Wire, Idle
<1>31. ASSUME RemoveDone PROVE Asks \/ Leaves
    BY <1>31 DEF RemoveDone, Ok, Answered, Request, Release, Asks, Local, Quiet,
       Leaves, Sends, Orders, vars, hvars, lvars, cvars, evars, TypeOK, PlanInv,
       Wire, Idle
<1>32. ASSUME SequenceDone PROVE Leaves
    BY <1>32 DEF SequenceDone, Ok, Answered, _run, Release, Leaves, Local, Sends,
       Quiet, Orders, vars, hvars, lvars, cvars, evars, TypeOK, PlanInv, Wire,
       Idle
<1>33. ASSUME AskMore PROVE Asks \/ Leaves
    BY <1>33 DEF AskMore, Answered, Request, Release, Asks, Local, Quiet, Leaves,
       Sends, Orders, vars, hvars, lvars, cvars, evars, TypeOK, PlanInv, Wire,
       Idle
<1>34. ASSUME AskDone PROVE Leaves
    BY <1>34 DEF AskDone, Answered, Denied, Release, Leaves, Local, Sends, Quiet,
       Orders, vars, hvars, lvars, cvars, evars, TypeOK, PlanInv, Wire, Idle
<1>35. ASSUME LiftDone PROVE Asks \/ Leaves
    BY <1>35 DEF LiftDone, Ok, Answered, Lift, Request, Release, Asks, Local,
       Quiet, Leaves, Sends, Orders, vars, hvars, lvars, cvars, evars, TypeOK,
       PlanInv, Wire, Idle
<1>36. ASSUME SaveDone PROVE Asks \/ Leaves
    BY <1>36 DEF SaveDone, Ok, Answered, Denied, PutBack, Checkpointed, Request,
       Release, Asks, Local, Quiet, Leaves, Sends, Orders, vars, hvars, lvars,
       cvars, evars, TypeOK, PlanInv, Wire, Idle
<1>37. ASSUME PutBackDone PROVE Asks \/ Leaves
    BY <1>37 DEF PutBackDone, Ok, Answered, Checkpointed, Request, Release, Asks,
       Local, Quiet, Leaves, Sends, Orders, vars, hvars, lvars, cvars, evars,
       TypeOK, PlanInv, Wire, Idle
<1>38. ASSUME RestoreDone PROVE Asks \/ Leaves
    BY <1>38 DEF RestoreDone, Ok, Answered, Rearm, Next1, Checkpointed, Request,
       Release, Asks, Local, Quiet, Leaves, Sends, Orders, vars, hvars, lvars,
       cvars, evars, TypeOK, PlanInv, Wire, Idle
<1>39. ASSUME ArmDone PROVE Asks \/ Leaves
    BY <1>39 DEF ArmDone, Ok, Answered, Next1, Checkpointed, Request, Release,
       Asks, Local, Quiet, Leaves, Sends, Orders, vars, hvars, lvars, cvars,
       evars, TypeOK, PlanInv, Wire, Idle
<1>40. ASSUME ArmDenied PROVE Leaves
    BY <1>40 DEF ArmDenied, Denied, Answered, Release, Leaves, Local, Sends,
       Quiet, Orders, vars, hvars, lvars, cvars, evars, TypeOK, PlanInv, Wire,
       Idle
<1>41. ASSUME KeysDone PROVE Leaves
    BY <1>41 DEF KeysDone, Ok, Answered, _run, Resetting, Release, Leaves, Local,
       Sends, Quiet, Orders, vars, hvars, lvars, cvars, evars, TypeOK, PlanInv,
       Wire, Idle
<1>42. ASSUME KeysDenied PROVE Leaves
    BY <1>42 DEF KeysDenied, Denied, Answered, Resetting, Release, Leaves, Local,
       Sends, Quiet, Orders, vars, hvars, lvars, cvars, evars, TypeOK, PlanInv,
       Wire, Idle
<1>43. ASSUME ProcessSkips PROVE Leaves
  <2>1. lock = Process BY <1>43 DEF ProcessSkips, Ok, Answered, PlanInv
  <2>2. connected BY <1>43, <2>1, NoPointsFact DEF ProcessSkips, ClosedInv
  <2> QED
    BY <1>43, <2>2 DEF ProcessSkips, Ok, Answered, Release, Leaves, Local, Sends, Quiet,
       Orders, vars, hvars, lvars, cvars, evars
<1>44. ASSUME ProcessOneshot PROVE Asks \/ Leaves
    BY <1>44 DEF ProcessOneshot, Ok, Answered, SkipApplies, Request, Release,
       Asks, Local, Quiet, Leaves, Sends, Orders, vars, hvars, lvars, cvars,
       evars, TypeOK, PlanInv, Wire, Idle
<1>45. ASSUME ProcessReports PROVE Leaves
    BY <1>45 DEF ProcessReports, Ok, Denied, Answered, SkipApplies, Report,
       _signal_stop, Release, Leaves, Local, Sends, Quiet, Orders, vars, hvars,
       lvars, cvars, evars, TypeOK, PlanInv, Wire, Idle
<1>46. ASSUME RequestTimeout PROVE Loses
    BY <1>46 DEF RequestTimeout, Lost, Resetting, Release, Loses, Quiet, vars,
       hvars, lvars, cvars, evars, TypeOK, PlanInv, Wire, Idle
<1>47. ASSUME ProcessTimeout PROVE Loses
    BY <1>47 DEF ProcessTimeout, Release, Loses, Quiet, vars, hvars, lvars, cvars,
       evars, TypeOK, PlanInv, Wire, Idle
<1>48. ASSUME ProcessStart PROVE Asks \/ Leaves
  <2>1. CASE connected
    BY <1>48, <2>1 DEF ProcessStart, Start, Asks, Local, Quiet, Wire, Idle, vars, hvars, lvars,
       cvars, evars
  <2>2. CASE ~connected
    BY <1>48, <2>2 DEF ProcessStart, Report, _signal_stop, Release, Leaves, Local, Sends,
       Quiet, vars, hvars, lvars, cvars, evars
  <2> QED BY <2>1, <2>2
<1>49. ASSUME ReadStop PROVE TakesStop
    BY <1>49 DEF ReadStop, Incoming, MayBeBreakpoint, _signal_stop, TakesStop,
       vars, hvars, lvars, cvars, evars, TypeOK, PlanInv, Wire, Idle
<1>50. ASSUME ReadReply PROVE TakesReply
    BY <1>50 DEF ReadReply, Incoming, TakesReply, Quiet, IsReply, vars, hvars,
       lvars, cvars, evars, TypeOK, PlanInv, Wire, Idle
<1>51. ASSUME ReadClosed PROVE Loses
    BY <1>51 DEF ReadClosed, Incoming, Lost, Loses, Quiet, Release, vars, hvars,
       lvars, cvars, evars, TypeOK, PlanInv, Wire, Idle
<1>52. ASSUME EmuHello PROVE TakesRequest
  <2>1. PICK ok \in BOOLEAN : toHost' = Append(toHost, Reply(ok, NoPoint))
    BY <1>52 DEF EmuHello, Put
  <2>2. Reply(ok, NoPoint) \in Replies BY <1>52, ReplyFact DEF EmuHello, Taken
  <2>3. emu'.session BY <1>52 DEF EmuHello, Taken, TypeOK
  <2>4. Reply(ok, NoPoint).cmd = Head(toEmu).cmd /\ Reply(ok, NoPoint).p = Head(toEmu).p
    BY <1>52, ReplyFact DEF EmuHello, Taken
  <2>5. Truthful(Reply(ok, NoPoint)) /\ IsRequest(Head(toEmu))
    BY <1>52, <2>4 DEF EmuHello, Taken, Truthful, IsRequest, Orders
  <2> QED 
    BY <1>52, <2>1, <2>2, <2>3, <2>4, <2>5 DEF EmuHello, Taken, TakesRequest, vars, hvars, lvars,
       cvars, evars
<1>53. ASSUME EmuStatus PROVE TakesRequest
  <2>1. emu.cpu \in Points \cup {NoPoint, "running", "stopped"} BY DEF TypeOK, Execs
  <2>2. Reply(TRUE, emu.cpu) \in Replies BY <1>53, <2>1, ReplyFact DEF EmuStatus, Taken
  <2>3. toHost' = Append(toHost, Reply(TRUE, emu.cpu)) BY <1>53 DEF EmuStatus, Put
  <2>4. emu'.session BY <1>53 DEF EmuStatus, Taken, TypeOK
  <2> QED
    BY <1>53, <2>1, <2>2, <2>3, <2>4, ReplyFact DEF EmuStatus, Taken, Put, TakesRequest,
       IsRequest, Orders, Truthful, vars, hvars, lvars, cvars, evars, TypeOK
<1>54. ASSUME EmuPc PROVE TakesRequest
  <2>1. emu.at \in Points \cup {NoPoint, "running", "stopped"} BY DEF TypeOK, Execs
  <2>2. Reply(TRUE, emu.at) \in Replies BY <1>54, <2>1, ReplyFact DEF EmuPc, Taken
  <2>3. toHost' = Append(toHost, Reply(TRUE, emu.at)) BY <1>54 DEF EmuPc, Put
  <2>4. emu'.session BY <1>54 DEF EmuPc, Taken, TypeOK
  <2> QED
    BY <1>54, <2>1, <2>2, <2>3, <2>4, ReplyFact DEF EmuPc, Taken, Put, TakesRequest, IsRequest,
       Orders, Truthful, vars, hvars, lvars, cvars, evars
<1>55. ASSUME EmuAnswer PROVE TakesRequest
  <2>1. PICK ok \in BOOLEAN : toHost' = Append(toHost, Reply(ok, NoPoint))
    BY <1>55 DEF EmuAnswer, Put
  <2>2. Reply(ok, NoPoint) \in Replies BY <1>55, ReplyFact DEF EmuAnswer, Taken
  <2>3. emu'.session BY <1>55 DEF EmuAnswer, Taken, TypeOK
  <2>4. Reply(ok, NoPoint).cmd = Head(toEmu).cmd /\ Reply(ok, NoPoint).p = Head(toEmu).p
    BY <1>55, ReplyFact DEF EmuAnswer, Taken
  <2>5. Truthful(Reply(ok, NoPoint)) /\ IsRequest(Head(toEmu))
    BY <1>55, <2>4 DEF EmuAnswer, Taken, Truthful, IsRequest, Orders
  <2> QED 
    BY <1>55, <2>1, <2>2, <2>3, <2>4, <2>5 DEF EmuAnswer, Taken, TakesRequest, vars, hvars, lvars,
       cvars, evars
<1>56. ASSUME EmuInsert PROVE TakesRequest
  <2> DEFINE q == Head(toEmu).p
             ok == q \notin Refused
  <2>1. ok \in BOOLEAN OBVIOUS
  <2>2. Reply(ok, NoPoint) \in Replies
    BY <1>56, <2>1, ReplyFact DEF EmuInsert, Taken
  <2>3. toHost' = Append(toHost, Reply(ok, NoPoint)) BY <1>56 DEF EmuInsert, Put
  <2>4. emu'.session BY <1>56 DEF EmuInsert, Taken, TypeOK
  <2>5. Reply(ok, NoPoint).ok = ok /\ Reply(ok, NoPoint).cmd = Head(toEmu).cmd
        /\ Reply(ok, NoPoint).p = q
    BY <1>56, <2>1, ReplyFact DEF EmuInsert, Taken
  <2>6. Truthful(Reply(ok, NoPoint)) BY <1>56, <2>5 DEF Truthful, EmuInsert, Taken
  <2> QED
    BY <1>56, <2>2, <2>3, <2>4, <2>5, <2>6 DEF EmuInsert, Taken, TakesRequest, IsRequest,
       Orders, vars, hvars, lvars, cvars, evars
<1>57. ASSUME EmuRemove PROVE TakesRequest
  <2>1. NoPoint \in Points \cup {NoPoint, "running", "stopped"} BY DEF TypeOK, Execs
  <2>2. Reply(TRUE, NoPoint) \in Replies BY <1>57, <2>1, ReplyFact DEF EmuRemove, Taken
  <2>3. toHost' = Append(toHost, Reply(TRUE, NoPoint)) BY <1>57 DEF EmuRemove, Put
  <2>4. emu'.session BY <1>57 DEF EmuRemove, Taken, TypeOK
  <2> QED
    BY <1>57, <2>1, <2>2, <2>3, <2>4, ReplyFact DEF EmuRemove, Taken, Put, TakesRequest,
       IsRequest, Orders, Truthful, vars, hvars, lvars, cvars, evars
<1>58. ASSUME EmuRun PROVE TakesOrder
    BY <1>58 DEF EmuRun, Taken, TakesOrder, IsRequest, Orders, vars, hvars, lvars,
       cvars, evars, TypeOK, PlanInv, Wire, Idle
<1>59. ASSUME EmuInterrupt PROVE TakesOrder
    BY <1>59 DEF EmuInterrupt, Taken, Put, TakesOrder, IsRequest, Orders, vars,
       hvars, lvars, cvars, evars, TypeOK, PlanInv, Wire, Idle, Stop
<1>60. ASSUME EmuStepOver PROVE TakesRequest
  <2>1. PICK ok \in BOOLEAN, plain \in BOOLEAN :
           \/ toHost' = Append(toHost, Reply(ok, NoPoint))
           \/ toHost' = toHost \o <<Stop(plain), Reply(ok, NoPoint)>>
    BY <1>60 DEF EmuStepOver, Put
  <2>2. Reply(ok, NoPoint) \in Replies BY <1>60, ReplyFact DEF EmuStepOver, Taken
  <2>3. toHost \o <<Stop(plain), Reply(ok, NoPoint)>>
           = Append(Append(toHost, Stop(plain)), Reply(ok, NoPoint))
    BY <2>2, ConcatTwo
  <2>4. emu'.session BY <1>60 DEF EmuStepOver, Taken, TypeOK
  <2>5. Reply(ok, NoPoint).cmd = Head(toEmu).cmd /\ Reply(ok, NoPoint).p = Head(toEmu).p
    BY <1>60, ReplyFact DEF EmuStepOver, Taken
  <2>6. Truthful(Reply(ok, NoPoint)) /\ IsRequest(Head(toEmu))
    BY <1>60, <2>5 DEF EmuStepOver, Taken, Truthful, IsRequest, Orders
  <2> QED
    BY <1>60, <2>1, <2>2, <2>3, <2>4, <2>5, <2>6 DEF EmuStepOver, Taken, TakesRequest, vars, hvars,
       lvars, cvars, evars
<1>61. ASSUME EmuSave PROVE TakesRequest
  <2>1. PICK ok \in BOOLEAN, plain \in BOOLEAN :
           \/ toHost' = Append(toHost, Reply(ok, NoPoint))
           \/ toHost' = toHost \o <<Stop(plain), Reply(ok, NoPoint)>>
    BY <1>61 DEF EmuSave, Put
  <2>2. Reply(ok, NoPoint) \in Replies BY <1>61, ReplyFact DEF EmuSave, Taken
  <2>3. toHost \o <<Stop(plain), Reply(ok, NoPoint)>>
           = Append(Append(toHost, Stop(plain)), Reply(ok, NoPoint))
    BY <2>2, ConcatTwo
  <2>4. emu'.session BY <1>61 DEF EmuSave, Taken, TypeOK
  <2>5. Reply(ok, NoPoint).cmd = Head(toEmu).cmd /\ Reply(ok, NoPoint).p = Head(toEmu).p
    BY <1>61, ReplyFact DEF EmuSave, Taken
  <2>6. Truthful(Reply(ok, NoPoint)) /\ IsRequest(Head(toEmu))
    BY <1>61, <2>5 DEF EmuSave, Taken, Truthful, IsRequest, Orders
  <2> QED
    BY <1>61, <2>1, <2>2, <2>3, <2>4, <2>5, <2>6 DEF EmuSave, Taken, TakesRequest, vars, hvars,
       lvars, cvars, evars
<1>62. ASSUME EmuRestore PROVE TakesRequest
  <2>1. PICK ok \in BOOLEAN : toHost' = Append(toHost, Reply(ok, NoPoint))
    BY <1>62 DEF EmuRestore, Put
  <2>2. Reply(ok, NoPoint) \in Replies BY <1>62, ReplyFact DEF EmuRestore, Taken
  <2>3. emu'.session BY <1>62 DEF EmuRestore, Taken, TypeOK
  <2>4. Reply(ok, NoPoint).cmd = Head(toEmu).cmd /\ Reply(ok, NoPoint).p = Head(toEmu).p
    BY <1>62, ReplyFact DEF EmuRestore, Taken
  <2>5. Truthful(Reply(ok, NoPoint)) /\ IsRequest(Head(toEmu))
    BY <1>62, <2>4 DEF EmuRestore, Taken, Truthful, IsRequest, Orders
  <2> QED 
    BY <1>62, <2>1, <2>2, <2>3, <2>4, <2>5 DEF EmuRestore, Taken, TakesRequest, vars, hvars, lvars,
       cvars, evars
<1>63. ASSUME EmuKeys PROVE TakesRequest
  <2>1. PICK ok \in BOOLEAN : toHost' = Append(toHost, Reply(ok, NoPoint))
    BY <1>63 DEF EmuKeys, Put
  <2>2. Reply(ok, NoPoint) \in Replies BY <1>63, ReplyFact DEF EmuKeys, Taken
  <2>3. emu'.session BY <1>63 DEF EmuKeys, Taken, TypeOK
  <2>4. Reply(ok, NoPoint).cmd = Head(toEmu).cmd /\ Reply(ok, NoPoint).p = Head(toEmu).p
    BY <1>63, ReplyFact DEF EmuKeys, Taken
  <2>5. Truthful(Reply(ok, NoPoint)) /\ IsRequest(Head(toEmu))
    BY <1>63, <2>4 DEF EmuKeys, Taken, Truthful, IsRequest, Orders
  <2> QED 
    BY <1>63, <2>1, <2>2, <2>3, <2>4, <2>5 DEF EmuKeys, Taken, TakesRequest, vars, hvars, lvars,
       cvars, evars
<1>64. ASSUME EmuDetach PROVE TakesRequest
  <2>1. NoPoint \in Points \cup {NoPoint, "running", "stopped"} BY DEF TypeOK, Execs
  <2>2. Reply(TRUE, NoPoint) \in Replies BY <1>64, <2>1, ReplyFact DEF EmuDetach, Taken
  <2>3. toHost' = Append(toHost, Reply(TRUE, NoPoint)) BY <1>64 DEF EmuDetach, Put
  <2>4. emu'.session BY <1>64 DEF EmuDetach, Taken, TypeOK
  <2> QED
    BY <1>64, <2>1, <2>2, <2>3, <2>4, ReplyFact DEF EmuDetach, Taken, Put, TakesRequest,
       IsRequest, Orders, Truthful, vars, hvars, lvars, cvars, evars
<1>65. ASSUME EmuStop PROVE Emits
    BY <1>65 DEF EmuStop, Put, Emits, vars, hvars, lvars, cvars, evars, TypeOK,
       PlanInv, Wire, Idle, Stop
<1>66. ASSUME EmuReset PROVE Leaving
    BY <1>66 DEF EmuReset, Gone, Put, Leaving, vars, hvars, lvars, cvars, evars,
       TypeOK, PlanInv, Wire, Idle, Stop
<1>67. ASSUME EmuDrop PROVE Leaving
    BY <1>67 DEF EmuDrop, Gone, Put, Leaving, vars, hvars, lvars, cvars, evars,
       TypeOK, PlanInv, Wire, Idle, Stop
<1>68. ASSUME GuiResume PROVE Emits
    BY <1>68 DEF GuiResume, Emits, vars, hvars, lvars, cvars, evars, TypeOK,
       PlanInv, Wire, Idle
<1>69. ASSUME UNCHANGED vars PROVE Apart
    BY <1>69 DEF Apart, Local, Sends, vars, hvars, lvars, cvars, evars
<1> QED
    BY <1>1, <1>2, <1>3, <1>4, <1>5, <1>6, <1>7, <1>8, <1>9, <1>10, <1>11, <1>12,
       <1>13, <1>14, <1>15, <1>16, <1>17, <1>18, <1>19, <1>20, <1>21, <1>22,
       <1>23, <1>24, <1>25, <1>26, <1>27, <1>28, <1>29, <1>30, <1>31, <1>32,
       <1>33, <1>34, <1>35, <1>36, <1>37, <1>38, <1>39, <1>40, <1>41, <1>42,
       <1>43, <1>44, <1>45, <1>46, <1>47, <1>48, <1>49, <1>50, <1>51, <1>52,
       <1>53, <1>54, <1>55, <1>56, <1>57, <1>58, <1>59, <1>60, <1>61, <1>62,
       <1>63, <1>64, <1>65, <1>66, <1>67, <1>68, <1>69, Zenon DEF Next,
       Operations, ResetStep, HolderStep, ReaderStep, EmuCommand,
       amiga_winuae_control, amiga_winuae_range_step, PointTools,
       amiga_winuae_checkpoint, HostTraffic,
       EmuTraffic, Emulator

-----------------------------------------------------------------------------
(* The exchange of requests and replies.                                   *)

LEMMA AppendFact ==
    ASSUME NEW S, NEW s \in Seq(S), NEW x
    PROVE  /\ Len(s) \in Nat /\ Len(Append(s, x)) = Len(s) + 1
           /\ \A i \in 1..Len(s) : Append(s, x)[i] = s[i]
           /\ Append(s, x)[Len(s) + 1] = x
OBVIOUS

\* No request is outstanding: neither queue holds one, nor a reply.
Clear ==
    /\ \A i \in 1..Len(toEmu) : ~IsRequest(toEmu[i])
    /\ \A i \in 1..Len(toHost) : ~IsReply(toHost[i])

\* Outstanding after the step.
StillOut(m) == ~Quiet' /\ m.cmd = Wire(plan'.phase) /\ m.p = plan'.p

LEMMA QuietIsClear == ASSUME ExchangeInv, Quiet PROVE Clear
BY DEF ExchangeInv, Outstanding, Clear

\* An order more or less changes nothing.
LEMMA SendsKeepsClear ==
    ASSUME NEW S, toEmu \in Seq(S), Clear, Sends, UNCHANGED toHost
    PROVE  Clear'
<1>1. CASE toEmu' = toEmu BY <1>1 DEF Clear
<1>2. CASE \E o \in Orders : toEmu' = Append(toEmu, Packet(o, NoPoint))
  <2>1. PICK o \in Orders : toEmu' = Append(toEmu, Packet(o, NoPoint)) BY <1>2
  <2>2. ~IsRequest(Packet(o, NoPoint)) BY DEF IsRequest, Packet
  <2>3. PICK n \in Nat : n = Len(toEmu) OBVIOUS
  <2>4. \A i \in 1..Len(toEmu') : i \in 1..n \/ i = n + 1
    BY <2>1, <2>3, AppendFact
  <2>5. \A i \in 1..Len(toEmu') : ~IsRequest(toEmu'[i])
    BY <2>1, <2>2, <2>3, <2>4, AppendFact DEF Clear
  <2> QED BY <2>5 DEF Clear
<1> QED BY <1>1, <1>2 DEF Sends

LEMMA SendsKeepsExchange ==
    ASSUME NEW S, toEmu \in Seq(S), ExchangeInv, Sends, UNCHANGED <<toHost, lvars>>
    PROVE  ExchangeInv'
<1>0. \A m : StillOut(m) <=> Outstanding(m) BY DEF Outstanding, StillOut, Quiet, lvars
<1>1. CASE toEmu' = toEmu BY <1>0, <1>1 DEF ExchangeInv, Outstanding, StillOut
<1>2. CASE \E o \in Orders : toEmu' = Append(toEmu, Packet(o, NoPoint))
  <2>1. PICK o \in Orders : toEmu' = Append(toEmu, Packet(o, NoPoint)) BY <1>2
  <2>2. ~IsRequest(Packet(o, NoPoint)) BY DEF IsRequest, Packet
  <2>3. PICK n \in Nat : n = Len(toEmu) OBVIOUS
  <2>4. \A i \in 1..Len(toEmu') : i \in 1..n \/ i = n + 1
    BY <2>1, <2>3, AppendFact
  <2>5. \A i \in 1..Len(toEmu') : IsRequest(toEmu'[i]) => i \in 1..n /\ toEmu'[i] = toEmu[i]
    BY <2>1, <2>2, <2>3, <2>4, AppendFact
  <2> QED BY <1>0, <2>3, <2>5 DEF ExchangeInv, Outstanding, StillOut
<1> QED BY <1>1, <1>2 DEF Sends

\* A new request is the only one.
LEMMA AsksMakesExchange ==
    ASSUME NEW S, toEmu \in Seq(S), Clear, Asks
    PROVE  ExchangeInv'
<1> DEFINE m == Packet(Wire(plan'.phase), plan'.p)
<1>1. toEmu' = Append(toEmu, m) BY DEF Asks
<1>2. StillOut(m) BY DEF StillOut, Packet, Asks, Quiet
<1>3. PICK n \in Nat : n = Len(toEmu) OBVIOUS
<1> HIDE DEF m
<1>4. \A i \in 1..Len(toEmu') : i \in 1..n \/ i = n + 1 BY <1>1, <1>3, AppendFact
<1>5. \A i \in 1..Len(toEmu') : IsRequest(toEmu'[i]) => i = n + 1
  BY <1>1, <1>3, <1>4, AppendFact DEF Clear
<1>6. toEmu'[n + 1] = m BY <1>1, <1>3, AppendFact
<1>7. \A i \in 1..Len(toHost') : ~IsReply(toHost'[i]) BY DEF Asks, Local, Clear
<1>8. \A i \in 1..Len(toEmu') : IsRequest(toEmu'[i]) => StillOut(toEmu'[i])
  BY <1>2, <1>5, <1>6
<1> QED BY <1>5, <1>7, <1>8 DEF ExchangeInv, Outstanding, StillOut

\* The reader.
LEMMA TailFact ==
    ASSUME NEW S, NEW s \in Seq(S), s # <<>>
    PROVE  /\ \A i \in 1..Len(Tail(s)) : i + 1 \in 1..Len(s) /\ Tail(s)[i] = s[i + 1]
           /\ \A i \in 1..Len(Tail(s)) : i + 1 # 1
           /\ \A i, j \in 1..Len(Tail(s)) : i + 1 = j + 1 => i = j
           /\ 1 \in 1..Len(s) /\ Head(s) = s[1]
OBVIOUS

LEMMA TakesStopKeepsExchange ==
    ASSUME NEW S, toHost \in Seq(S), ExchangeInv, TakesStop
    PROVE  ExchangeInv'
<1>0. \A m : StillOut(m) <=> Outstanding(m) BY DEF Outstanding, StillOut, Quiet, lvars, TakesStop
<1>1. \A i \in 1..Len(toHost') : i + 1 \in 1..Len(toHost) /\ toHost'[i] = toHost[i + 1]
  BY TailFact DEF TakesStop
<1>2. \A i, j \in 1..Len(toHost') : i + 1 = j + 1 => i = j BY TailFact DEF TakesStop
<1>3. toEmu' = toEmu BY DEF TakesStop
<1>4. \A i \in 1..Len(toHost') : IsReply(toHost'[i]) => IsReply(toHost[i + 1]) BY <1>1
<1>5. ASSUME NEW i \in 1..Len(toEmu'), IsRequest(toEmu'[i])
      PROVE  /\ StillOut(toEmu'[i])
             /\ \A j \in 1..Len(toEmu') : IsRequest(toEmu'[j]) => i = j
             /\ \A j \in 1..Len(toHost') : ~IsReply(toHost'[j])
  BY <1>0, <1>1, <1>3, <1>4, <1>5 DEF ExchangeInv
<1>6. ASSUME NEW i \in 1..Len(toHost'), IsReply(toHost'[i])
      PROVE  /\ StillOut(toHost'[i])
             /\ \A j \in 1..Len(toHost') : IsReply(toHost'[j]) => i = j
  BY <1>0, <1>1, <1>2, <1>4, <1>6 DEF ExchangeInv
<1> QED BY <1>5, <1>6 DEF ExchangeInv, Outstanding, StillOut

LEMMA TakesReplyMakesClear ==
    ASSUME NEW S, toHost \in Seq(S), ExchangeInv, TakesReply
    PROVE  Clear' /\ Outstanding(Head(toHost))
<1>1. /\ \A i \in 1..Len(toHost') : i + 1 \in 1..Len(toHost) /\ toHost'[i] = toHost[i + 1]
      /\ \A i \in 1..Len(toHost') : i + 1 # 1
      /\ 1 \in 1..Len(toHost) /\ Head(toHost) = toHost[1]
  BY TailFact DEF TakesReply
<1>2. IsReply(toHost[1]) BY <1>1 DEF TakesReply
<1>3. toEmu' = toEmu BY DEF TakesReply
<1>4. \A i \in 1..Len(toHost') : ~IsReply(toHost'[i]) BY <1>1, <1>2 DEF ExchangeInv
<1>5. \A i \in 1..Len(toEmu') : ~IsRequest(toEmu'[i]) BY <1>1, <1>2, <1>3 DEF ExchangeInv
<1> QED BY <1>1, <1>2, <1>4, <1>5 DEF ExchangeInv, Clear

\* WinUAE.
LEMMA NoReplyAdded ==
    ASSUME NEW T, toHost \in Seq(T), NEW m, toHost' = Append(toHost, m), ~IsReply(m)
    PROVE  \A i \in 1..Len(toHost') : IsReply(toHost'[i]) =>
               i \in 1..Len(toHost) /\ toHost'[i] = toHost[i]
<1>1. PICK n \in Nat : n = Len(toHost) OBVIOUS
<1>2. \A i \in 1..Len(toHost') : i \in 1..n \/ i = n + 1 BY <1>1, AppendFact
<1> QED BY <1>1, <1>2, AppendFact

LEMMA TakesOrderKeepsExchange ==
    ASSUME NEW S, toEmu \in Seq(S), NEW T, toHost \in Seq(T), ExchangeInv, TakesOrder
    PROVE  ExchangeInv'
<1>0. \A m : StillOut(m) <=> Outstanding(m)
  BY DEF Outstanding, StillOut, Quiet, lvars, TakesOrder
<1>1. \A i \in 1..Len(toEmu') : i + 1 \in 1..Len(toEmu) /\ toEmu'[i] = toEmu[i + 1]
  BY TailFact DEF TakesOrder
<1>2. \A i, j \in 1..Len(toEmu') : i + 1 = j + 1 => i = j BY TailFact DEF TakesOrder
<1>3. \A i \in 1..Len(toHost') : IsReply(toHost'[i]) =>
          i \in 1..Len(toHost) /\ toHost'[i] = toHost[i]
  <2>1. CASE toHost' = toHost BY <2>1
  <2>2. CASE toHost' = Append(toHost, Stop(FALSE))
    <3>1. ~IsReply(Stop(FALSE)) BY DEF IsReply, Stop
    <3> QED BY <2>2, <3>1, NoReplyAdded
  <2> QED BY <2>1, <2>2 DEF TakesOrder
<1>4. \A i \in 1..Len(toHost') : IsReply(toHost'[i]) => IsReply(toHost[i])
  BY <1>3
<1>5. ASSUME NEW i \in 1..Len(toEmu'), IsRequest(toEmu'[i])
      PROVE  /\ StillOut(toEmu'[i])
             /\ \A j \in 1..Len(toEmu') : IsRequest(toEmu'[j]) => i = j
             /\ \A j \in 1..Len(toHost') : ~IsReply(toHost'[j])
  BY <1>0, <1>1, <1>2, <1>3, <1>4, <1>5 DEF ExchangeInv
<1>6. ASSUME NEW i \in 1..Len(toHost'), IsReply(toHost'[i])
      PROVE  /\ StillOut(toHost'[i])
             /\ \A j \in 1..Len(toHost') : IsReply(toHost'[j]) => i = j
  BY <1>0, <1>3, <1>4, <1>6 DEF ExchangeInv
<1> QED BY <1>5, <1>6 DEF ExchangeInv, Outstanding, StillOut

LEMMA TakesRequestKeepsExchange ==
    ASSUME NEW S, toEmu \in Seq(S), NEW T, toHost \in Seq(T), ExchangeInv, TakesRequest
    PROVE  ExchangeInv'
<1>0. \A m : StillOut(m) <=> Outstanding(m)
  BY DEF Outstanding, StillOut, Quiet, lvars, TakesRequest
<1>1. /\ \A i \in 1..Len(toEmu') : i + 1 \in 1..Len(toEmu) /\ toEmu'[i] = toEmu[i + 1]
      /\ \A i \in 1..Len(toEmu') : i + 1 # 1
      /\ 1 \in 1..Len(toEmu) /\ Head(toEmu) = toEmu[1]
  BY TailFact DEF TakesRequest
<1>2. IsRequest(toEmu[1]) BY <1>1 DEF TakesRequest
<1>3. \A i \in 1..Len(toEmu') : ~IsRequest(toEmu'[i]) BY <1>1, <1>2 DEF ExchangeInv
<1>4. \A i \in 1..Len(toHost) : ~IsReply(toHost[i]) BY <1>1, <1>2 DEF ExchangeInv
<1>5. PICK r \in Replies :
         /\ r.cmd = Head(toEmu).cmd /\ r.p = Head(toEmu).p
         /\ \/ toHost' = Append(toHost, r)
            \/ \E plain \in BOOLEAN : toHost' = Append(Append(toHost, Stop(plain)), r)
  BY DEF TakesRequest
<1>6. StillOut(r) BY <1>0, <1>1, <1>2, <1>5 DEF ExchangeInv, Outstanding
<1>7. PICK n \in Nat : \A i \in 1..Len(toHost') : IsReply(toHost'[i]) => i = n /\ toHost'[i] = r
  <2>0. PICK n \in Nat : n = Len(toHost) OBVIOUS
  <2>1. CASE toHost' = Append(toHost, r)
    <3>1. \A i \in 1..Len(toHost') : i \in 1..n \/ i = n + 1 BY <2>0, <2>1, AppendFact
    <3>2. \A i \in 1..Len(toHost') : IsReply(toHost'[i]) => i = n + 1 /\ toHost'[i] = r
      BY <2>0, <2>1, <3>1, <1>4, AppendFact
    <3>3. n + 1 \in Nat OBVIOUS
    <3> QED BY <3>2, <3>3, Zenon
  <2>2. CASE \E plain \in BOOLEAN : toHost' = Append(Append(toHost, Stop(plain)), r)
    <3>0. PICK plain \in BOOLEAN : toHost' = Append(Append(toHost, Stop(plain)), r) BY <2>2
    <3> DEFINE u == Append(toHost, Stop(plain))
    <3>1. u \in Seq(T \cup {Stop(plain)}) OBVIOUS
    <3>2. Len(u) = n + 1 /\ (\A i \in 1..n : u[i] = toHost[i]) /\ u[n + 1] = Stop(plain)
      BY <2>0, AppendFact
    <3>3. ~IsReply(Stop(plain)) BY DEF IsReply, Stop
    <3>4. \A i \in 1..(n + 1) : ~IsReply(u[i])
      <4>1. \A i \in 1..(n + 1) : i \in 1..n \/ i = n + 1 OBVIOUS
      <4> QED BY <1>4, <2>0, <3>2, <3>3, <4>1
    <3>5. Len(toHost') = n + 2 /\ (\A i \in 1..(n + 1) : toHost'[i] = u[i])
          /\ toHost'[n + 2] = r
      BY <3>0, <3>1, <3>2, AppendFact
    <3>6. \A i \in 1..Len(toHost') : i \in 1..(n + 1) \/ i = n + 2 BY <3>5
    <3>7. \A i \in 1..Len(toHost') : IsReply(toHost'[i]) => i = n + 2 /\ toHost'[i] = r
      BY <3>4, <3>5, <3>6
    <3>8. n + 2 \in Nat OBVIOUS
    <3> QED BY <3>7, <3>8, Zenon
  <2> QED BY <1>5, <2>1, <2>2
<1> QED BY <1>3, <1>6, <1>7 DEF ExchangeInv, Outstanding, StillOut

LEMMA EmitsKeepsExchange ==
    ASSUME NEW T, toHost \in Seq(T), ExchangeInv, Emits \/ Leaving
    PROVE  ExchangeInv'
<1>0. \A m : StillOut(m) <=> Outstanding(m)
  BY DEF Outstanding, StillOut, Quiet, lvars, Emits, Leaving
<1>1. \A i \in 1..Len(toHost') : IsReply(toHost'[i]) =>
          i \in 1..Len(toHost) /\ toHost'[i] = toHost[i]
  <2>1. CASE toHost' = toHost BY <2>1
  <2>2. ASSUME NEW m, toHost' = Append(toHost, m), ~IsReply(m)
        PROVE  \A i \in 1..Len(toHost') : IsReply(toHost'[i]) =>
                   i \in 1..Len(toHost) /\ toHost'[i] = toHost[i]
    BY <2>2, NoReplyAdded
  <2>3. ~IsReply(Eof) /\ \A plain \in BOOLEAN : ~IsReply(Stop(plain))
    BY DEF IsReply, Eof, Stop
  <2> QED BY <2>1, <2>2, <2>3 DEF Emits, Leaving
<1>2. toEmu' = toEmu \/ toEmu' = <<>> BY DEF Emits, Leaving
<1>3. \A i \in 1..Len(toEmu') : i \in 1..Len(toEmu) /\ toEmu'[i] = toEmu[i] /\ toEmu' = toEmu
  BY <1>2
<1>4. \A j \in 1..Len(toHost') : IsReply(toHost'[j]) => IsReply(toHost[j]) BY <1>1
<1>5. ASSUME NEW i \in 1..Len(toEmu'), IsRequest(toEmu'[i])
      PROVE  /\ StillOut(toEmu'[i])
             /\ \A j \in 1..Len(toEmu') : IsRequest(toEmu'[j]) => i = j
             /\ \A j \in 1..Len(toHost') : ~IsReply(toHost'[j])
  BY <1>0, <1>1, <1>3, <1>4, <1>5 DEF ExchangeInv
<1>6. ASSUME NEW i \in 1..Len(toHost'), IsReply(toHost'[i])
      PROVE  /\ StillOut(toHost'[i])
             /\ \A j \in 1..Len(toHost') : IsReply(toHost'[j]) => i = j
  BY <1>0, <1>1, <1>4, <1>6 DEF ExchangeInv
<1> QED BY <1>5, <1>6 DEF ExchangeInv, Outstanding, StillOut

LEMMA ExchangeStep ==
    ASSUME TypeOK, ExchangeInv, ClosedInv, Traffic
    PROVE  ExchangeInv'
<1>1. /\ toEmu \in Seq([cmd : Commands, p : Points \cup {NoPoint}])
      /\ toHost \in Seq(Replies \cup {Stop(TRUE), Stop(FALSE), Eof})
  BY DEF TypeOK
<1>2. CASE Apart BY <1>1, <1>2, SendsKeepsExchange DEF Apart, Local
<1>3. CASE Leaves
  <2>1. Clear BY <1>3, QuietIsClear DEF Leaves
  <2>2. Clear' BY <1>1, <1>3, <2>1, SendsKeepsClear DEF Leaves, Local
  <2> QED BY <2>2 DEF ExchangeInv, Clear
<1>4. CASE Asks
  <2>1. Clear BY <1>4, QuietIsClear DEF Asks
  <2> QED BY <1>1, <1>4, <2>1, AsksMakesExchange
<1>5. CASE Opens
  <2>1. toEmu = <<>> /\ toHost = <<>> BY <1>5 DEF Opens, ClosedInv
  <2>2. /\ Len(toEmu') = 1 /\ toEmu'[1] = Packet("hello", NoPoint) /\ Len(toHost') = 0
    BY <1>5 DEF Opens
  <2>3. StillOut(toEmu'[1])
    BY <1>5, <2>2 DEF Opens, StillOut, Quiet, Packet, Wire, Idle
  <2>4. \A i \in 1..Len(toEmu') : i = 1 BY <2>2
  <2> QED BY <2>2, <2>3, <2>4 DEF ExchangeInv, Outstanding, StillOut
<1>6. CASE Loses
  <2>1. toEmu' = <<>> /\ toHost' = <<>> BY <1>6 DEF Loses
  <2> QED BY <2>1 DEF ExchangeInv
<1>7. CASE TakesStop BY <1>1, <1>7, TakesStopKeepsExchange
<1>8. CASE TakesReply
  <2>1. Clear' BY <1>1, <1>8, TakesReplyMakesClear
  <2> QED BY <2>1 DEF ExchangeInv, Clear
<1>9. CASE TakesOrder BY <1>1, <1>9, TakesOrderKeepsExchange
<1>10. CASE TakesRequest BY <1>1, <1>10, TakesRequestKeepsExchange
<1>11. CASE Emits BY <1>1, <1>11, EmitsKeepsExchange
<1>12. CASE Leaving BY <1>1, <1>12, EmitsKeepsExchange
<1> QED
    BY <1>2, <1>3, <1>4, <1>5, <1>6, <1>7, <1>8, <1>9, <1>10, <1>11, <1>12 DEF Traffic,
       HostTraffic, EmuTraffic

-----------------------------------------------------------------------------
(* The connection that was closed, and the replies.                        *)

LEMMA KindsDiffer == NoReply # Closed /\ ~IsReply(Closed) /\ ~IsReply(NoReply)
<1>1. NoReply.kind = "none" /\ Closed.kind = "closed" BY DEF NoReply, Closed
<1> QED BY <1>1 DEF IsReply

LEMMA ClosedStep ==
    ASSUME TypeOK, ClosedInv, Traffic
    PROVE  ClosedInv'
<1>1. CASE Apart
  BY <1>1 DEF Apart, Local, Sends, Quiet, lvars, ClosedInv
<1>2. CASE Leaves
  BY <1>2 DEF Leaves, Local, Sends, Release, Quiet, ClosedInv
<1>3. CASE Loses
  <2>1. Quiet' BY <1>3, KindsDiffer DEF Loses, Release, Quiet
  <2> QED BY <1>3, <2>1 DEF Loses, Detached, ClosedInv
<1>4. CASE Asks \/ Opens \/ TakesStop \/ TakesReply
  <2>1. connected' BY <1>4 DEF Asks, Opens, Local, TakesStop, TakesReply
  <2> QED BY <2>1 DEF ClosedInv
<1>5. CASE TakesOrder \/ TakesRequest \/ Emits \/ Leaving
  <2>1. connected' BY <1>5 DEF TakesOrder, TakesRequest, Emits, Leaving, ClosedInv
  <2> QED BY <2>1 DEF ClosedInv
<1> QED BY <1>1, <1>2, <1>3, <1>4, <1>5 DEF Traffic, HostTraffic, EmuTraffic

LEMMA ResolvedStep ==
    ASSUME ResolvedInv, Traffic
    PROVE  ResolvedInv'
<1>1. CASE Apart BY <1>1 DEF Apart, Local, lvars, ResolvedInv
<1>2. CASE Leaves \/ Asks \/ Opens
  <2>1. reply' = NoReply BY <1>2 DEF Leaves, Release, Asks, Opens
  <2> QED BY <2>1, KindsDiffer DEF ResolvedInv
<1>3. CASE Loses BY <1>3 DEF Loses, ResolvedInv
<1>4. CASE TakesReply
  <2>1. IsReply(reply') BY <1>4 DEF TakesReply
  <2> QED BY <2>1, KindsDiffer DEF ResolvedInv
<1>5. CASE TakesStop \/ TakesOrder \/ TakesRequest \/ Emits \/ Leaving
  <2>1. UNCHANGED <<connected, reply>>
    BY <1>5 DEF TakesStop, TakesOrder, TakesRequest, Emits, Leaving, lvars
  <2> QED BY <2>1 DEF ResolvedInv
<1> QED BY <1>1, <1>2, <1>3, <1>4, <1>5 DEF Traffic, HostTraffic, EmuTraffic

\* The replies on the connection after the step that were not on it before.
LEMMA OldReplies ==
    ASSUME TypeOK, Traffic
    PROVE  \A i \in 1..Len(toHost') : IsReply(toHost'[i]) =>
               \/ \E j \in 1..Len(toHost) : toHost'[i] = toHost[j]
               \/ TakesRequest /\ Truthful(toHost'[i])
<1> DEFINE T == Replies \cup {Stop(TRUE), Stop(FALSE), Eof}
<1>1. toHost \in Seq(T) BY DEF TypeOK
<1> HIDE DEF T
<1>2. CASE Apart \/ Leaves \/ Asks
  <2>1. toHost' = toHost BY <1>2 DEF Apart, Leaves, Asks, Local
  <2> QED BY <2>1
<1>3. CASE Opens \/ Loses
  <2>1. toHost' = <<>> BY <1>3 DEF Opens, Loses
  <2> QED BY <2>1
<1>4. CASE TakesStop \/ TakesReply
  <2>1. toHost # <<>> /\ toHost' = Tail(toHost) BY <1>4 DEF TakesStop, TakesReply
  <2> QED BY <1>1, <2>1, TailFact
<1>5. ASSUME NEW m, toHost' = Append(toHost, m), ~IsReply(m)
      PROVE  \A i \in 1..Len(toHost') : IsReply(toHost'[i]) =>
                 \E j \in 1..Len(toHost) : toHost'[i] = toHost[j]
  BY <1>1, <1>5, NoReplyAdded
<1>6. ~IsReply(Eof) /\ \A plain \in BOOLEAN : ~IsReply(Stop(plain))
  BY DEF IsReply, Eof, Stop
<1>7. CASE toHost' = toHost BY <1>7
<1>8. CASE TakesOrder BY <1>5, <1>6, <1>7, <1>8 DEF TakesOrder
<1>9. CASE Emits \/ Leaving BY <1>5, <1>6, <1>7, <1>9 DEF Emits, Leaving
<1>10. CASE TakesRequest
  <2>1. PICK r \in Replies :
           /\ Truthful(r)
           /\ \/ toHost' = Append(toHost, r)
              \/ \E plain \in BOOLEAN : toHost' = Append(Append(toHost, Stop(plain)), r)
    BY <1>10 DEF TakesRequest
  <2>2. PICK n \in Nat : n = Len(toHost) BY <1>1
  <2>3. CASE toHost' = Append(toHost, r)
    <3>1. \A i \in 1..Len(toHost') : i \in 1..n \/ i = n + 1 BY <1>1, <2>2, <2>3, AppendFact
    <3> QED BY <1>1, <1>10, <2>1, <2>2, <2>3, <3>1, AppendFact
  <2>4. ASSUME NEW plain \in BOOLEAN, toHost' = Append(Append(toHost, Stop(plain)), r)
        PROVE  \A i \in 1..Len(toHost') : IsReply(toHost'[i]) =>
                  \/ \E j \in 1..Len(toHost) : toHost'[i] = toHost[j]
                  \/ Truthful(toHost'[i])
    <3> DEFINE u == Append(toHost, Stop(plain))
    <3>1. u \in Seq(T \cup {Stop(plain)}) BY <1>1
    <3>2. Len(u) = n + 1 /\ (\A i \in 1..n : u[i] = toHost[i]) /\ u[n + 1] = Stop(plain)
      BY <1>1, <2>2, AppendFact
    <3>3. Len(toHost') = n + 2 /\ (\A i \in 1..(n + 1) : toHost'[i] = u[i])
          /\ toHost'[n + 2] = r
      BY <2>4, <3>1, <3>2, AppendFact
    <3>4. ~IsReply(Stop(plain)) BY <1>6
    <3>5. \A i \in 1..Len(toHost') : i \in 1..n \/ i = n + 1 \/ i = n + 2 BY <3>3
    <3>6. \A i \in 1..n : toHost'[i] = toHost[i] BY <3>2, <3>3
    <3>7. toHost'[n + 1] = Stop(plain) BY <3>2, <3>3
    <3> QED BY <2>1, <2>2, <3>3, <3>4, <3>5, <3>6, <3>7
  <2> QED BY <1>10, <2>1, <2>3, <2>4
<1> QED
    BY <1>2, <1>3, <1>4, <1>8, <1>9, <1>10 DEF Traffic, HostTraffic, EmuTraffic

LEMMA AnswersStep ==
    ASSUME TypeOK, AnswersInv, Traffic
    PROVE  AnswersInv'
<1>1. \A i \in 1..Len(toHost') : IsReply(toHost'[i]) => Truthful(toHost'[i])
  BY OldReplies DEF AnswersInv
<1>2. IsReply(reply') => Truthful(reply')
  <2>1. CASE reply' = reply BY <2>1 DEF AnswersInv
  <2>2. CASE reply' = NoReply \/ reply' = Closed BY <2>2, KindsDiffer
  <2>3. CASE TakesReply
    <3>1. 1 \in 1..Len(toHost) /\ Head(toHost) = toHost[1]
      BY <2>3, TailFact DEF TakesReply, TypeOK
    <3>2. reply' = toHost[1] /\ IsReply(toHost[1]) BY <2>3, <3>1 DEF TakesReply
    <3> QED BY <3>1, <3>2 DEF AnswersInv
  <2>4. reply' = reply \/ reply' = NoReply \/ reply' = Closed \/ TakesReply
    BY DEF Traffic, HostTraffic, EmuTraffic, Apart, Leaves, Asks, Opens, Loses, TakesStop,
       TakesOrder, TakesRequest,
           Emits, Leaving, Release, lvars
  <2> QED BY <2>1, <2>2, <2>3, <2>4
<1> QED BY <1>1, <1>2 DEF AnswersInv

LEMMA OwnStep ==
    ASSUME TypeOK, ExchangeInv, RepliesAreOwn, Traffic
    PROVE  RepliesAreOwn'
<1>1. CASE Apart \/ TakesStop \/ TakesOrder \/ TakesRequest \/ Emits \/ Leaving
  <2>1. UNCHANGED <<plan, reply>>
    BY <1>1 DEF Apart, TakesStop, TakesOrder, TakesRequest, Emits, Leaving, lvars
  <2> QED BY <2>1 DEF RepliesAreOwn
<1>2. CASE Leaves \/ Asks \/ Opens
  <2>1. reply' = NoReply BY <1>2 DEF Leaves, Release, Asks, Opens
  <2> QED BY <2>1, KindsDiffer DEF RepliesAreOwn, IsReply
<1>3. CASE Loses
  BY <1>3, KindsDiffer DEF Loses, Release, RepliesAreOwn, IsReply
<1>4. CASE TakesReply
  <2>1. Outstanding(Head(toHost)) BY <1>4, TakesReplyMakesClear DEF TypeOK
  <2> QED BY <1>4, <2>1 DEF TakesReply, Outstanding, RepliesAreOwn
<1> QED BY <1>1, <1>2, <1>3, <1>4 DEF Traffic, HostTraffic, EmuTraffic

-----------------------------------------------------------------------------
(* Types.                                                                  *)

PlanType == [phase : Phases, p : Points \cup {NoPoint}, left : SUBSET Points,
             lifted : SUBSET Points, kept : Tables, ok : BOOLEAN]
CallerType == [pc : {"idle", "waiting", "pausing", "reset", "parted", "reconnect", "rearm",
                     "resume"},
               saved : Tables]
EmuType == [session : BOOLEAN, cpu : {"running", "stopped"}, mode : {"go", "step"},
            points : SUBSET Points, at : Execs \cup {NoPoint}, reset : BOOLEAN]
PacketType == [cmd : Commands, p : Points \cup {NoPoint}]
MessageType == Replies \cup {Stop(TRUE), Stop(FALSE), Eof}

\* TypeOK in the parts that a step leaves alone or changes together.
FlagsOK ==
    /\ connected \in BOOLEAN
    /\ execution \in {"disconnected", "running", "stopped"}
    /\ stop \in BOOLEAN /\ interrupting \in BOOLEAN /\ newer \in BOOLEAN
    /\ run_mode \in {"none", "continue", "step", "over", "range"}
CountsOK ==
    /\ processing \in Nat /\ calls \in 0..MaxCalls
    /\ faults \in [drops : 0..MaxDrops, gui : 0..MaxGui]
HolderOK ==
    /\ lock \in Callers \cup {Process, NoOne}
    /\ plan \in PlanType /\ reply \in Replies \cup {NoReply, Closed}
TablesOK == points \in Tables /\ caller \in [Callers -> CallerType]
ForgottenOK == forgotten \subseteq Watches
EmuOK == emu \in EmuType
WiresOK == toEmu \in Seq(PacketType) /\ toHost \in Seq(MessageType)

LEMMA TypeParts ==
    TypeOK <=> FlagsOK /\ CountsOK /\ HolderOK /\ TablesOK /\ ForgottenOK /\ EmuOK /\ WiresOK
BY DEF TypeOK, ForgottenOK, FlagsOK, CountsOK, HolderOK, TablesOK, EmuOK, WiresOK, PlanType, CallerType, EmuType,
       PacketType, MessageType

\* What WinUAE does leaves the session alone.
LEMMA EmulatorFact ==
    ASSUME Emulator
    PROVE  /\ UNCHANGED <<hvars, newer, points, forgotten, lvars, cvars>>
           /\ UNCHANGED faults \/ EmuDrop \/ GuiResume
BY DEF Emulator, EmuCommand, EmuHello, EmuStatus, EmuPc, EmuAnswer, EmuInsert, EmuRemove,
       EmuRun, EmuInterrupt, EmuStepOver, EmuSave, EmuRestore, EmuKeys, EmuDetach, EmuStop,
       EmuReset, EmuDrop, GuiResume, Taken

LEMMA IdleFact ==
    /\ Idle \in PlanType /\ Idle.phase = "none" /\ Idle.p = NoPoint
    /\ Idle.left = {} /\ Idle.lifted = {} /\ Idle.kept = NoPoints /\ Idle.ok
BY NoPointsFact DEF Idle, PlanType, Phases

LEMMA WokenFact ==
    ASSUME caller \in [Callers -> CallerType]
    PROVE  /\ Woken \in [Callers -> CallerType]
           /\ \A c \in Callers :
                 /\ Woken[c].saved = caller[c].saved
                 /\ Woken[c].pc = IF caller[c].pc \in {"waiting", "pausing"} THEN "idle"
                                  ELSE caller[c].pc
<1>1. \A c \in Callers : [caller[c] EXCEPT !.pc = "idle"] \in CallerType BY DEF CallerType
<1>2. Woken \in [Callers -> CallerType] BY <1>1 DEF Woken
<1>3. ASSUME NEW c \in Callers
      PROVE  /\ Woken[c].saved = caller[c].saved
             /\ Woken[c].pc = IF caller[c].pc \in {"waiting", "pausing"} THEN "idle"
                              ELSE caller[c].pc
  <2>1. Woken[c] = IF caller[c].pc \in {"waiting", "pausing"}
                   THEN [caller[c] EXCEPT !.pc = "idle"] ELSE caller[c]
    BY DEF Woken
  <2> QED BY <2>1 DEF CallerType
<1> QED BY <1>2, <1>3

LEMMA PartedFact ==
    ASSUME NEW w \in [Callers -> CallerType]
    PROVE  /\ Parted(w) \in [Callers -> CallerType]
           /\ \A c \in Callers :
                 /\ Parted(w)[c].saved = w[c].saved
                 /\ Parted(w)[c].pc = IF w[c].pc = "reset" THEN "parted" ELSE w[c].pc
<1>1. \A c \in Callers : [w[c] EXCEPT !.pc = "parted"] \in CallerType BY DEF CallerType
<1>2. Parted(w) \in [Callers -> CallerType] BY <1>1 DEF Parted
<1>3. ASSUME NEW c \in Callers
      PROVE  /\ Parted(w)[c].saved = w[c].saved
             /\ Parted(w)[c].pc = IF w[c].pc = "reset" THEN "parted" ELSE w[c].pc
  <2>1. Parted(w)[c] = IF w[c].pc = "reset" THEN [w[c] EXCEPT !.pc = "parted"] ELSE w[c]
    BY DEF Parted
  <2> QED BY <2>1 DEF CallerType
<1> QED BY <1>2, <1>3

\* What a caller sees after a step that wakes, or parts, all of them, or none.
Seen == {caller, Woken, Parted(caller), Parted(Woken)}
LEMMA SeenFact ==
    ASSUME caller \in [Callers -> CallerType], NEW w \in Seen
    PROVE  /\ w \in [Callers -> CallerType]
           /\ \A c \in Callers :
                 /\ w[c].saved = caller[c].saved
                 /\ w[c].pc = "pausing" => caller[c].pc = "pausing"
<1>1. /\ Woken \in [Callers -> CallerType]
      /\ \A c \in Callers :
            /\ Woken[c].saved = caller[c].saved
            /\ Woken[c].pc # "pausing"
  BY WokenFact
<1>2. CASE w \in {caller, Woken} BY <1>1, <1>2
<1>3. CASE w = Parted(caller) BY <1>3, PartedFact
<1>4. CASE w = Parted(Woken) BY <1>1, <1>4, PartedFact
<1> QED BY <1>2, <1>3, <1>4 DEF Seen

LEMMA ResavedFact ==
    ASSUME caller \in [Callers -> CallerType], NEW S, NEW tables \in [Callers -> Tables]
    PROVE  /\ Resaved(S, tables) \in [Callers -> CallerType]
           /\ \A c \in Callers :
                 /\ Resaved(S, tables)[c].saved \in {caller[c].saved, tables[c]}
                 /\ Resaved(S, tables)[c].pc = caller[c].pc
<1>1. \A c \in Callers : [caller[c] EXCEPT !.saved = tables[c]] \in CallerType
  BY DEF CallerType
<1>2. Resaved(S, tables) \in [Callers -> CallerType] BY <1>1 DEF Resaved
<1>3. ASSUME NEW c \in Callers
      PROVE  /\ Resaved(S, tables)[c].saved \in {caller[c].saved, tables[c]}
             /\ Resaved(S, tables)[c].pc = caller[c].pc
  <2>1. Resaved(S, tables)[c] = IF c \in S THEN [caller[c] EXCEPT !.saved = tables[c]]
                                ELSE caller[c]
    BY DEF Resaved
  <2> QED BY <2>1 DEF CallerType
<1> QED BY <1>2, <1>3

\* A watch that was added or removed may be so in what resets have saved.
LEMMA AddDoneSaved ==
    ASSUME caller \in [Callers -> CallerType], plan \in PlanType,
           plan.p \in DOMAIN plan.kept, AddDone
    PROVE  /\ caller' \in [Callers -> CallerType]
           /\ \A c \in Callers :
                 /\ caller'[c].pc = caller[c].pc
                 /\ DOMAIN caller'[c].saved \subseteq DOMAIN caller[c].saved \cup {plan.p}
<1> DEFINE tables == [c \in Callers |-> With(caller[c].saved, plan.p, plan.kept[plan.p])]
<1>1. plan.p \in Points /\ plan.kept[plan.p] \in Attr BY TableFact DEF PlanType
<1>2. \A c \in Callers : caller[c].saved \in Tables BY DEF CallerType
<1>3. tables \in [Callers -> Tables] BY <1>1, <1>2, WithFact
<1>4. \A c \in Callers : DOMAIN tables[c] = DOMAIN caller[c].saved \cup {plan.p}
  BY <1>1, <1>2, WithFact
<1>5. caller' = caller \/ \E S \in SUBSET Callers : caller' = Resaved(S, tables)
  BY DEF AddDone
<1> HIDE DEF tables
<1>6. CASE caller' = caller BY <1>6
<1>7. ASSUME NEW S \in SUBSET Callers, caller' = Resaved(S, tables)
      PROVE  /\ caller' \in [Callers -> CallerType]
             /\ \A c \in Callers :
                   /\ caller'[c].pc = caller[c].pc
                   /\ DOMAIN caller'[c].saved \subseteq DOMAIN caller[c].saved \cup {plan.p}
  BY <1>3, <1>4, <1>7, ResavedFact
<1> QED BY <1>5, <1>6, <1>7

LEMMA RemoveDoneSaved ==
    ASSUME caller \in [Callers -> CallerType], RemoveDone
    PROVE  /\ caller' \in [Callers -> CallerType]
           /\ \A c \in Callers :
                 /\ caller'[c].pc = caller[c].pc
                 /\ DOMAIN caller'[c].saved \subseteq DOMAIN caller[c].saved
<1> DEFINE tables == [c \in Callers |-> Without(caller[c].saved, plan.p)]
<1>1. \A c \in Callers : caller[c].saved \in Tables BY DEF CallerType
<1>2. tables \in [Callers -> Tables] BY <1>1, WithoutFact
<1>3. \A c \in Callers : DOMAIN tables[c] \subseteq DOMAIN caller[c].saved
  BY <1>1, WithoutFact
<1>4. caller' = caller \/ \E S \in SUBSET Callers : caller' = Resaved(S, tables)
  BY DEF RemoveDone
<1> HIDE DEF tables
<1>5. CASE caller' = caller BY <1>5
<1>6. ASSUME NEW S \in SUBSET Callers, caller' = Resaved(S, tables)
      PROVE  /\ caller' \in [Callers -> CallerType]
             /\ \A c \in Callers :
                   /\ caller'[c].pc = caller[c].pc
                   /\ DOMAIN caller'[c].saved \subseteq DOMAIN caller[c].saved
  BY <1>2, <1>3, <1>6, ResavedFact
<1> QED BY <1>4, <1>5, <1>6

-----------------------------------------------------------------------------
(* What the holder of the lock goes on to.                                 *)

Plan(ph, q, left, lifted, kept, ok) ==
    [phase |-> ph, p |-> q, left |-> left, lifted |-> lifted, kept |-> kept, ok |-> ok]

LEMMA PlanFact ==
    ASSUME NEW ph \in Phases, NEW q \in Points \cup {NoPoint}, NEW left \in SUBSET Points,
           NEW lifted \in SUBSET Points, NEW kept \in Tables, NEW ok \in BOOLEAN
    PROVE  /\ Plan(ph, q, left, lifted, kept, ok) \in PlanType
           /\ Plan(ph, q, left, lifted, kept, ok).phase = ph
           /\ Plan(ph, q, left, lifted, kept, ok).p = q
           /\ Plan(ph, q, left, lifted, kept, ok).left = left
           /\ Plan(ph, q, left, lifted, kept, ok).lifted = lifted
           /\ Plan(ph, q, left, lifted, kept, ok).kept = kept
BY DEF Plan, PlanType

LEMMA PlanWith ==
    ASSUME NEW pl \in PlanType, NEW ph, NEW q
    PROVE  [pl EXCEPT !.phase = ph, !.p = q]
              = Plan(ph, q, pl.left, pl.lifted, pl.kept, pl.ok)
<1> DEFINE u == [pl EXCEPT !.phase = ph, !.p = q]
<1>1. DOMAIN u = {"phase", "p", "left", "lifted", "kept", "ok"} BY DEF PlanType
<1>2. u = [x \in {"phase", "p", "left", "lifted", "kept", "ok"} |-> u[x]] BY <1>1
<1>3. u.phase = ph /\ u.p = q /\ u.left = pl.left /\ u.lifted = pl.lifted
      /\ u.kept = pl.kept /\ u.ok = pl.ok
  BY DEF PlanType
<1> HIDE DEF u
<1>4. u = Plan(ph, q, pl.left, pl.lifted, pl.kept, pl.ok) BY <1>1, <1>2, <1>3 DEF Plan
<1> QED BY <1>4 DEF u

LEMMA IdleIsPlan == Idle = Plan("none", NoPoint, {}, {}, NoPoints, TRUE)
BY DEF Idle, Plan

\* The plan after a step that makes a request: of the coroutine that took the lock,
\* and of the one that holds it.
Begins(who, ph, q, left, kept) ==
    /\ lock = NoOne /\ lock' = who /\ reply' = NoReply
    /\ plan' = Plan(ph, q, left, {}, kept, TRUE)
GoesOn(ph, q, left, lifted, kept, ok) ==
    /\ connected /\ lock' = lock /\ reply' = NoReply
    /\ plan' = Plan(ph, q, left, lifted, kept, ok)

LEMMA StartBegins ==
    ASSUME NEW who, NEW ph, NEW q, lock = NoOne, Start(who, Idle, ph, q)
    PROVE  Begins(who, ph, q, {}, NoPoints)
<1>1. plan' = [Idle EXCEPT !.phase = ph, !.p = q] BY DEF Start
<1>2. plan' = Plan(ph, q, {}, {}, NoPoints, TRUE) BY <1>1, IdleIsPlan DEF Plan
<1> QED BY <1>2 DEF Start, Begins

LEMMA StartWithLeft ==
    ASSUME NEW who, NEW ph, NEW q, NEW left, lock = NoOne,
           Start(who, [Idle EXCEPT !.left = left], ph, q)
    PROVE  Begins(who, ph, q, left, NoPoints)
<1>1. plan' = [[Idle EXCEPT !.left = left] EXCEPT !.phase = ph, !.p = q] BY DEF Start
<1>2. plan' = Plan(ph, q, left, {}, NoPoints, TRUE) BY <1>1, IdleIsPlan DEF Plan
<1> QED BY <1>2 DEF Start, Begins

LEMMA StartWithKept ==
    ASSUME NEW who, NEW ph, NEW q, NEW kept, lock = NoOne,
           Start(who, [Idle EXCEPT !.kept = kept], ph, q)
    PROVE  Begins(who, ph, q, {}, kept)
<1>1. plan' = [[Idle EXCEPT !.kept = kept] EXCEPT !.phase = ph, !.p = q] BY DEF Start
<1>2. plan' = Plan(ph, q, {}, {}, kept, TRUE) BY <1>1, IdleIsPlan DEF Plan
<1> QED BY <1>2 DEF Start, Begins

LEMMA StartWithBoth ==
    ASSUME NEW who, NEW ph, NEW q, NEW left, NEW kept, lock = NoOne,
           Start(who, [Idle EXCEPT !.kept = kept, !.left = left], ph, q)
    PROVE  Begins(who, ph, q, left, kept)
<1>1. plan' = [[Idle EXCEPT !.kept = kept, !.left = left] EXCEPT !.phase = ph, !.p = q]
  BY DEF Start
<1>2. plan' = Plan(ph, q, left, {}, kept, TRUE) BY <1>1, IdleIsPlan DEF Plan
<1> QED BY <1>2 DEF Start, Begins

LEMMA RequestGoesOn ==
    ASSUME NEW pl \in PlanType, NEW ph, NEW q, Request(pl, ph, q)
    PROVE  (Release /\ ~connected) \/ GoesOn(ph, q, pl.left, pl.lifted, pl.kept, pl.ok)
<1>1. CASE connected
  <2>1. plan' = Plan(ph, q, pl.left, pl.lifted, pl.kept, pl.ok)
    BY <1>1, PlanWith DEF Request
  <2> QED BY <1>1, <2>1 DEF Request, GoesOn
<1>2. CASE ~connected BY <1>2 DEF Request
<1> QED BY <1>1, <1>2

LEMMA LeftFact ==
    ASSUME NEW pl \in PlanType, NEW left \in SUBSET Points
    PROVE  /\ [pl EXCEPT !.left = left] \in PlanType
           /\ [pl EXCEPT !.left = left].left = left
           /\ [pl EXCEPT !.left = left].lifted = pl.lifted
           /\ [pl EXCEPT !.left = left].kept = pl.kept
           /\ [pl EXCEPT !.left = left].ok = pl.ok
BY DEF PlanType

\* What each operation begins with.
LEMMA AddMoves ==
    ASSUME TypeOK, NEW c \in Callers, Add(c)
    PROVE  \/ UNCHANGED lvars
           \/ \E q \in Points, a \in Attr :
                 /\ UNCHANGED points
                 /\ Begins(c, "set", q, {}, With(NoPoints, q, a))
<1>1. PICK q \in Points, a \in Attr :
         \/ UNCHANGED lvars
         \/ /\ Start(c, [Idle EXCEPT !.kept = With(NoPoints, q, a)], "set", q)
            /\ UNCHANGED points
  BY DEF Add
<1>2. CASE UNCHANGED lvars BY <1>2
<1>3. CASE /\ Start(c, [Idle EXCEPT !.kept = With(NoPoints, q, a)], "set", q)
           /\ UNCHANGED points
  <2>1. Begins(c, "set", q, {}, With(NoPoints, q, a))
    BY <1>3, StartWithKept DEF Add, Call
  <2> QED BY <1>3, <2>1
<1> QED BY <1>1, <1>2, <1>3

LEMMA RemoveMoves ==
    ASSUME TypeOK, NEW c \in Callers, Remove(c)
    PROVE  \E S \in SUBSET DOMAIN points : \E q \in S :
               Begins(c, "del", q, S \ {q}, NoPoints)
<1>1. PICK S \in SUBSET DOMAIN points :
         \E q \in S : Start(c, [Idle EXCEPT !.left = S \ {q}], "del", q)
  BY DEF Remove, Cleared1
<1>2. PICK q \in S : Start(c, [Idle EXCEPT !.left = S \ {q}], "del", q) BY <1>1
<1>3. lock = NoOne BY DEF Remove, Call
<1>4. Begins(c, "del", q, S \ {q}, NoPoints) BY <1>2, <1>3, StartWithLeft
<1> QED BY <1>4

LEMMA InspectionMoves ==
    ASSUME NEW c \in Callers, InspectionTools(c)
    PROVE  \E ph \in {"ask", "seq"} :
              connected /\ lock = NoOne /\ Ask(c, ph) /\ Begins(c, ph, NoPoint, {}, NoPoints)
<1>1. PICK ph \in {"ask", "seq"} : connected /\ Ask(c, ph)
  BY DEF InspectionTools, registers_and_memory, chipset, diagnostics, hunk_load, symbol_read,
         input, _paused
<1>2. lock = NoOne /\ Start(c, Idle, ph, NoPoint) BY <1>1 DEF Ask, Call
<1> QED BY <1>1, <1>2, StartBegins

LEMMA CheckpointSaveMoves ==
    ASSUME NEW c \in Callers, CheckpointSave(c)
    PROVE  \/ DOMAIN points \ Watches = {} /\ Begins(c, "save", NoPoint, {}, NoPoints)
           \/ \E q \in DOMAIN points \ Watches :
                 Begins(c, "lift", q, (DOMAIN points \ Watches) \ {q}, NoPoints)
<1> DEFINE own == DOMAIN points \ Watches
<1>1. lock = NoOne BY DEF CheckpointSave, Call
<1>2. \/ own = {} /\ Start(c, Idle, "save", NoPoint)
      \/ \E q \in own : Start(c, [Idle EXCEPT !.left = own \ {q}], "lift", q)
  BY DEF CheckpointSave
<1> HIDE DEF own
<1>3. CASE own = {} /\ Start(c, Idle, "save", NoPoint)
  <2>1. Begins(c, "save", NoPoint, {}, NoPoints) BY <1>1, <1>3, StartBegins
  <2> QED BY <1>3, <2>1 DEF own
<1>4. ASSUME NEW q \in own, Start(c, [Idle EXCEPT !.left = own \ {q}], "lift", q)
      PROVE  Begins(c, "lift", q, own \ {q}, NoPoints)
  BY <1>1, <1>4, StartWithLeft
<1> QED BY <1>2, <1>3, <1>4 DEF own

LEMMA ResetRearmMoves ==
    ASSUME NEW c \in Callers, ResetRearm(c)
    PROVE  \E replaced \in BOOLEAN :
              LET all == Merged(points, caller[c].saved, replaced) IN
              \/ (connected => DOMAIN all = {}) /\ UNCHANGED <<lvars, toEmu>>
              \/ /\ connected /\ caller' = Parted(caller)
                 /\ \E q \in DOMAIN all : Begins(c, "arm", q, DOMAIN all \ {q}, all)
<1>1. lock = NoOne BY DEF ResetRearm
<1>2. PICK replaced \in BOOLEAN :
         LET all == Merged(points, caller[c].saved, replaced) IN
         IF DOMAIN all = {} \/ ~connected THEN UNCHANGED <<lvars, toEmu>>
         ELSE /\ \E q \in Next1(DOMAIN all) :
                     Start(c, [Idle EXCEPT !.kept = all, !.left = DOMAIN all \ {q}], "arm", q)
              /\ caller' = Parted(caller)
  BY DEF ResetRearm
<1> DEFINE all == Merged(points, caller[c].saved, replaced)
<1>3. CASE DOMAIN all = {} \/ ~connected BY <1>2, <1>3
<1>4. CASE DOMAIN all # {} /\ connected
  <2>1. PICK q \in DOMAIN all :
           Start(c, [Idle EXCEPT !.kept = all, !.left = DOMAIN all \ {q}], "arm", q)
    BY <1>2, <1>4 DEF Next1
  <2>2. caller' = Parted(caller) BY <1>2, <1>4
  <2> HIDE DEF all
  <2>3. Begins(c, "arm", q, DOMAIN all \ {q}, all) BY <1>1, <2>1, StartWithBoth
  <2> QED BY <1>4, <2>1, <2>2, <2>3 DEF all
<1> QED BY <1>3, <1>4

\* What the holder of the lock does after a reply.
LEMMA RemoveDoneMoves ==
    ASSUME HolderOK, RemoveDone
    PROVE  \/ Release
           \/ \E q \in plan.left :
                 GoesOn("del", q, plan.left \ {q}, plan.lifted, plan.kept, plan.ok)
<1>1. CASE plan.left = {} BY <1>1 DEF RemoveDone
<1>2. CASE plan.left # {}
  <2>1. PICK q \in plan.left : Request([plan EXCEPT !.left = @ \ {q}], "del", q)
    BY <1>2 DEF RemoveDone, Cleared1
  <2>2. plan \in PlanType /\ plan.left \ {q} \in SUBSET Points BY DEF HolderOK, PlanType
  <2> DEFINE pl == [plan EXCEPT !.left = plan.left \ {q}]
  <2>3. Request(pl, "del", q) BY <2>1, <2>2 DEF PlanType
  <2>4. /\ pl \in PlanType /\ pl.left = plan.left \ {q} /\ pl.lifted = plan.lifted
        /\ pl.kept = plan.kept /\ pl.ok = plan.ok
    BY <2>2, LeftFact
  <2> HIDE DEF pl
  <2>5. Release \/ GoesOn("del", q, pl.left, pl.lifted, pl.kept, pl.ok)
    BY <2>3, <2>4, RequestGoesOn
  <2> QED BY <2>4, <2>5
<1> QED BY <1>1, <1>2

LEMMA LiftDoneMoves ==
    ASSUME HolderOK, LiftDone, plan.p \in Points
    PROVE  \/ Release /\ ~connected
           \/ /\ plan.left = {}
              /\ GoesOn("save", NoPoint, {}, plan.lifted \cup {plan.p}, plan.kept, plan.ok)
           \/ \E q \in plan.left :
                 GoesOn("lift", q, plan.left \ {q}, plan.lifted \cup {plan.p}, plan.kept,
                        plan.ok)
<1> DEFINE lifted == plan.lifted \cup {plan.p}
          pm == [plan EXCEPT !.lifted = lifted]
<1>1. plan \in PlanType /\ lifted \in SUBSET Points BY DEF HolderOK, PlanType
<1>2. /\ pm \in PlanType /\ pm.lifted = lifted /\ pm.left = plan.left
      /\ pm.kept = plan.kept /\ pm.ok = plan.ok
  BY <1>1 DEF PlanType
<1>3. Lift(pm, plan.left) BY <1>1 DEF LiftDone, PlanType
<1>4. plan.left \in SUBSET Points BY <1>1 DEF PlanType
<1> HIDE DEF pm
<1>5. CASE plan.left = {}
  <2> DEFINE pl == [pm EXCEPT !.left = {}]
  <2>1. Request(pl, "save", NoPoint) BY <1>3, <1>5 DEF Lift
  <2>2. {} \in SUBSET Points OBVIOUS
  <2>3. /\ pl \in PlanType /\ pl.left = {} /\ pl.lifted = pm.lifted
        /\ pl.kept = pm.kept /\ pl.ok = pm.ok
    BY <1>2, <2>2, LeftFact
  <2> HIDE DEF pl
  <2>4. (Release /\ ~connected)
        \/ GoesOn("save", NoPoint, pl.left, pl.lifted, pl.kept, pl.ok)
    BY <2>1, <2>3, RequestGoesOn
  <2> QED BY <1>2, <1>5, <2>3, <2>4
<1>6. CASE plan.left # {}
  <2>1. PICK q \in plan.left : Request([pm EXCEPT !.left = plan.left \ {q}], "lift", q)
    BY <1>3, <1>6 DEF Lift
  <2> DEFINE pl == [pm EXCEPT !.left = plan.left \ {q}]
  <2>2. plan.left \ {q} \in SUBSET Points BY <1>4
  <2>3. /\ pl \in PlanType /\ pl.left = plan.left \ {q} /\ pl.lifted = pm.lifted
        /\ pl.kept = pm.kept /\ pl.ok = pm.ok
    BY <1>2, <2>2, LeftFact
  <2> HIDE DEF pl
  <2>4. (Release /\ ~connected)
        \/ GoesOn("lift", q, pl.left, pl.lifted, pl.kept, pl.ok)
    BY <2>1, <2>3, RequestGoesOn DEF pl
  <2> QED BY <1>2, <2>3, <2>4
<1> QED BY <1>5, <1>6

LEMMA CheckpointedMoves ==
    ASSUME NEW seen, Checkpointed(seen)
    PROVE  Release \/ GoesOn("ask", NoPoint, {}, {}, NoPoints, TRUE)
<1>1. Request(Idle, "ask", NoPoint) BY DEF Checkpointed
<1>2. Release \/ GoesOn("ask", NoPoint, Idle.left, Idle.lifted, Idle.kept, Idle.ok)
  BY <1>1, IdleFact, RequestGoesOn
<1>3. Idle.ok = TRUE BY DEF Idle
<1> QED BY <1>2, <1>3, IdleFact

LEMMA SaveDoneMoves ==
    ASSUME HolderOK, SaveDone
    PROVE  \/ Release /\ (plan.lifted = {} \/ ~connected)
           \/ /\ Ok("save") /\ plan.lifted = {}
              /\ GoesOn("ask", NoPoint, {}, {}, NoPoints, TRUE)
           \/ \E q \in plan.lifted : \E ok \in BOOLEAN :
                 GoesOn("back", q, plan.lifted \ {q}, plan.lifted, plan.kept, ok)
<1>1. CASE plan.lifted # {}
  <2>0. PutBack(Ok("save")) BY <1>1 DEF SaveDone
  <2>1. PICK q \in plan.lifted :
           Request([plan EXCEPT !.left = plan.lifted \ {q}, !.ok = Ok("save")], "back", q)
    BY <2>0 DEF PutBack
  <2>2. Ok("save") \in BOOLEAN BY DEF Ok, Answered
  <2>3. PICK ok \in BOOLEAN : ok = Ok("save") BY <2>2
  <2> DEFINE pl == [plan EXCEPT !.left = plan.lifted \ {q}, !.ok = ok]
  <2>4. Request(pl, "back", q) BY <2>1, <2>3, Zenon
  <2>5. /\ pl \in PlanType /\ pl.left = plan.lifted \ {q} /\ pl.lifted = plan.lifted
        /\ pl.kept = plan.kept /\ pl.ok = ok
    BY DEF HolderOK, PlanType
  <2> HIDE DEF pl
  <2>6. (Release /\ ~connected)
        \/ GoesOn("back", q, pl.left, pl.lifted, pl.kept, pl.ok)
    BY <2>4, <2>5, RequestGoesOn
  <2> QED BY <2>5, <2>6
<1>2. CASE plan.lifted = {} /\ Ok("save")
  <2>1. Checkpointed(Woken) BY <1>2 DEF SaveDone
  <2> QED BY <1>2, <2>1, CheckpointedMoves
<1>3. CASE plan.lifted = {} /\ ~Ok("save") BY <1>3 DEF SaveDone
<1> QED BY <1>1, <1>2, <1>3

LEMMA PutBackDoneMoves ==
    ASSUME HolderOK, PutBackDone
    PROVE  \/ Release /\ (Denied("back") \/ plan.left = {} \/ ~connected)
           \/ /\ Ok("back")
              /\ \E q \in plan.left :
                    GoesOn("back", q, plan.left \ {q}, plan.lifted, plan.kept, plan.ok)
           \/ /\ Ok("back") /\ plan.left = {}
              /\ GoesOn("ask", NoPoint, {}, {}, NoPoints, TRUE)
<1>1. CASE Ok("back") /\ plan.left # {}
  <2>1. PICK q \in plan.left : Request([plan EXCEPT !.left = @ \ {q}], "back", q)
    BY <1>1 DEF PutBackDone
  <2>2. plan \in PlanType /\ plan.left \ {q} \in SUBSET Points BY DEF HolderOK, PlanType
  <2> DEFINE pl == [plan EXCEPT !.left = plan.left \ {q}]
  <2>3. Request(pl, "back", q) BY <2>1, <2>2 DEF PlanType
  <2>4. /\ pl \in PlanType /\ pl.left = plan.left \ {q} /\ pl.lifted = plan.lifted
        /\ pl.kept = plan.kept /\ pl.ok = plan.ok
    BY <2>2, LeftFact
  <2>5. ~connected => Release BY <2>3 DEF Request
  <2>6. connected => ~Release
    <3>1. connected => plan' = [pl EXCEPT !.phase = "back", !.p = q] BY <2>3 DEF Request
    <3>2. connected => plan'.phase = "back" BY <2>4, <3>1 DEF PlanType
    <3> QED BY <3>2, IdleFact DEF Release
  <2> HIDE DEF pl
  <2>7. Release \/ GoesOn("back", q, pl.left, pl.lifted, pl.kept, pl.ok)
    BY <2>3, <2>4, RequestGoesOn
  <2> QED BY <1>1, <2>4, <2>5, <2>6, <2>7
<1>2. CASE Ok("back") /\ plan.left = {} /\ plan.ok
  <2>1. Checkpointed(Woken) BY <1>2 DEF PutBackDone
  <2> QED BY <1>2, <2>1, CheckpointedMoves
<1>3. CASE Ok("back") /\ plan.left = {} /\ ~plan.ok BY <1>3 DEF PutBackDone
<1>4. CASE ~Ok("back")
  <2>1. Denied("back") BY <1>4 DEF PutBackDone, Ok, Denied
  <2> QED BY <1>4, <2>1 DEF PutBackDone
<1> QED BY <1>1, <1>2, <1>3, <1>4

LEMMA RestoreDoneMoves ==
    ASSUME RestoreDone, points \in Tables
    PROVE  \/ /\ DOMAIN points = {} /\ UNCHANGED points
              /\ Release \/ GoesOn("ask", NoPoint, {}, {}, NoPoints, TRUE)
           \/ /\ points' = NoPoints
              /\ \E q \in DOMAIN points :
                    \/ Release /\ ~connected
                    \/ GoesOn("arm", q, DOMAIN points \ {q}, {}, points, TRUE)
<1>1. CASE DOMAIN points = {}
  BY <1>1, CheckpointedMoves DEF RestoreDone
<1>2. CASE DOMAIN points # {}
  <2>1. Rearm(points) BY <1>2 DEF RestoreDone
  <2>2. PICK q \in DOMAIN points :
           Request([Idle EXCEPT !.kept = points, !.left = DOMAIN points \ {q}], "arm", q)
    BY <2>1 DEF Rearm, Next1
  <2> DEFINE left == DOMAIN points \ {q}
            pl == [Idle EXCEPT !.kept = points, !.left = left]
  <2>3. DOMAIN points \subseteq Points BY TableFact
  <2>4. Idle \in PlanType /\ left \in SUBSET Points BY <2>3, IdleFact
  <2>5. /\ pl \in PlanType /\ pl.left = left /\ pl.lifted = {}
        /\ pl.kept = points /\ pl.ok = TRUE
    BY <2>4, IdleFact DEF PlanType, Idle
  <2>6. CASE connected
    <3>1. plan' = [pl EXCEPT !.phase = "arm", !.p = q] BY <2>2, <2>6 DEF Request
    <3> HIDE DEF pl
    <3>2. plan' = Plan("arm", q, pl.left, pl.lifted, pl.kept, pl.ok)
      BY <2>5, <3>1, PlanWith
    <3>3. GoesOn("arm", q, left, {}, points, TRUE)
      BY <2>2, <2>5, <2>6, <3>2 DEF GoesOn, Request
    <3> QED BY <2>1, <3>3 DEF Rearm
  <2>7. CASE ~connected BY <2>1, <2>2, <2>7 DEF Request, Rearm
  <2> QED BY <2>6, <2>7
<1> QED BY <1>1, <1>2

LEMMA ArmDoneMoves ==
    ASSUME HolderOK, ArmDone
    PROVE  \/ Release /\ (plan.left = {} \/ ~connected)
           \/ \E q \in plan.left :
                 GoesOn("arm", q, plan.left \ {q}, plan.lifted, plan.kept, plan.ok)
           \/ plan.left = {} /\ GoesOn("ask", NoPoint, {}, {}, NoPoints, TRUE)
<1>1. CASE plan.left # {}
  <2>1. PICK q \in plan.left : Request([plan EXCEPT !.left = @ \ {q}], "arm", q)
    BY <1>1 DEF ArmDone, Next1
  <2>2. plan \in PlanType /\ plan.left \ {q} \in SUBSET Points BY DEF HolderOK, PlanType
  <2> DEFINE pl == [plan EXCEPT !.left = plan.left \ {q}]
  <2>3. Request(pl, "arm", q) BY <2>1, <2>2 DEF PlanType
  <2>4. /\ pl \in PlanType /\ pl.left = plan.left \ {q} /\ pl.lifted = plan.lifted
        /\ pl.kept = plan.kept /\ pl.ok = plan.ok
    BY <2>2, LeftFact
  <2>5. CASE connected
    <3>1. plan' = [pl EXCEPT !.phase = "arm", !.p = q] BY <2>3, <2>5 DEF Request
    <3> HIDE DEF pl
    <3>2. plan' = Plan("arm", q, pl.left, pl.lifted, pl.kept, pl.ok)
      BY <2>4, <3>1, PlanWith
    <3> QED BY <2>3, <2>4, <2>5, <3>2 DEF GoesOn, Request
  <2>6. CASE ~connected BY <2>3, <2>6 DEF Request
  <2> QED BY <2>5, <2>6
<1>2. CASE plan.left = {} /\ caller[lock].pc = "rearm" BY <1>2 DEF ArmDone
<1>3. CASE plan.left = {} /\ caller[lock].pc # "rearm"
  <2>1. Checkpointed(Woken) BY <1>3 DEF ArmDone
  <2> QED BY <1>3, <2>1, CheckpointedMoves
<1> QED BY <1>1, <1>2, <1>3

\* A step that makes a request, or leaves the lock, keeps the holder's invariants.
HolderInv == HolderOK /\ PlanInv

LEMMA BeginsFine ==
    ASSUME NEW who \in Callers \cup {Process}, NEW ph \in Phases,
           NEW q \in Points \cup {NoPoint}, NEW left \in SUBSET Points, NEW kept \in Tables,
           Begins(who, ph, q, left, kept),
           ph # "none", who = Process <=> ph \in {"pc", "shot"},
           who = Process => processing' > 0,
           ph \in {"set", "arm"} => q \in DOMAIN kept,
           ph = "arm" => left \subseteq DOMAIN kept,
           Wire(ph) \in {"Z", "z"} => q \in Points
    PROVE  HolderInv'
<1>0. PICK none \in SUBSET Points, ok \in BOOLEAN : none = {} /\ ok = TRUE OBVIOUS
<1> DEFINE pl == Plan(ph, q, left, none, kept, ok)
<1>1. /\ pl \in PlanType /\ pl.phase = ph /\ pl.p = q /\ pl.left = left
      /\ pl.lifted = none /\ pl.kept = kept
  BY PlanFact
<1>a. plan' = pl BY <1>0, Zenon DEF Begins
<1> HIDE DEF pl
<1>2. /\ plan' \in PlanType /\ plan'.phase = ph /\ plan'.p = q /\ plan'.left = left
      /\ plan'.kept = kept
  BY <1>1, <1>a
<1>3. lock' = who /\ reply' = NoReply BY DEF Begins
<1> QED BY <1>2, <1>3 DEF HolderInv, HolderOK, PlanInv

LEMMA GoesOnFine ==
    ASSUME HolderInv, NEW ph \in Phases,
           NEW q \in Points \cup {NoPoint}, NEW left \in SUBSET Points,
           NEW lifted \in SUBSET Points, NEW kept \in Tables, NEW ok \in BOOLEAN,
           GoesOn(ph, q, left, lifted, kept, ok),
           lock # NoOne, ph # "none", lock = Process <=> ph \in {"pc", "shot"},
           UNCHANGED processing,
           ph \in {"set", "arm"} => q \in DOMAIN kept,
           ph = "arm" => left \subseteq DOMAIN kept,
           Wire(ph) \in {"Z", "z"} => q \in Points
    PROVE  HolderInv'
<1>2. /\ plan' \in PlanType /\ plan'.phase = ph /\ plan'.p = q /\ plan'.left = left
      /\ plan'.kept = kept
  BY PlanFact DEF GoesOn
<1>3. lock' = lock /\ reply' = NoReply BY DEF GoesOn
<1> QED BY <1>2, <1>3 DEF HolderInv, HolderOK, PlanInv

LEMMA ReleaseFine == ASSUME Release PROVE HolderInv'
BY IdleFact DEF Release, HolderInv, HolderOK, PlanInv, Wire

LEMMA KeepsFine ==
    ASSUME HolderInv, UNCHANGED <<lock, plan>>, reply' \in Replies \cup {NoReply, Closed},
           lock = NoOne => reply' = NoReply, lock = Process => processing' > 0
    PROVE  HolderInv'
BY DEF HolderInv, HolderOK, PlanInv

LEMMA FlagsStep ==
    ASSUME TypeOK, PlanInv, ExchangeInv, ClosedInv, RepliesAreOwn, AnswersInv, [Next]_vars
    PROVE  FlagsOK'
<1>0. FlagsOK BY TypeParts
<1>1. ASSUME NEW c \in Callers, Connect(c) PROVE FlagsOK'
    BY <1>1, <1>0 DEF Connect, Call, Open, vars, hvars, lvars, cvars, evars, FlagsOK
<1>2. ASSUME NEW c \in Callers, ConnectRefused(c) PROVE FlagsOK'
    BY <1>2, <1>0 DEF ConnectRefused, Call, vars, hvars, lvars, cvars, evars,
       FlagsOK
<1>3. ASSUME NEW c \in Callers, Disconnect(c) PROVE FlagsOK'
    BY <1>3, <1>0 DEF Disconnect, Call, Start, vars, hvars, lvars, cvars, evars,
       FlagsOK
<1>4. ASSUME NEW c \in Callers, Status(c) PROVE FlagsOK'
    BY <1>4, <1>0 DEF Status, Call, Start, vars, hvars, lvars, cvars, evars, FlagsOK
<1>5. ASSUME NEW c \in Callers, Resume(c) PROVE FlagsOK'
    BY <1>5, <1>0 DEF Resume, Call, _run, _paused, vars, hvars, lvars, cvars, evars,
       FlagsOK
<1>6. ASSUME NEW c \in Callers, Step(c) PROVE FlagsOK'
    BY <1>6, <1>0 DEF Step, Call, _run, _paused, vars, hvars, lvars, cvars, evars,
       FlagsOK
<1>7. ASSUME NEW c \in Callers, step_over(c) PROVE FlagsOK'
    BY <1>7, <1>0 DEF step_over, Call, Start, _paused, vars, hvars, lvars, cvars,
       evars, FlagsOK
<1>8. ASSUME NEW c \in Callers, Pause(c) PROVE FlagsOK'
    BY <1>8, <1>0 DEF Pause, Call, vars, hvars, lvars, cvars, evars, FlagsOK
<1>9. ASSUME NEW c \in Callers, wait_stopped(c) PROVE FlagsOK'
    BY <1>9, <1>0 DEF wait_stopped, vars, hvars, lvars, cvars, evars, FlagsOK
<1>10. ASSUME NEW c \in Callers, WaitTimeout(c) PROVE FlagsOK'
    BY <1>10, <1>0 DEF WaitTimeout, vars, hvars, lvars, cvars, evars, FlagsOK
<1>11. ASSUME NEW c \in Callers, Reset(c) PROVE FlagsOK'
    BY <1>11, <1>0 DEF Reset, Call, Start, vars, hvars, lvars, cvars, evars, FlagsOK
<1>12. ASSUME NEW c \in Callers, ResetGivesUp(c) PROVE FlagsOK'
    BY <1>12, <1>0 DEF ResetGivesUp, vars, hvars, lvars, cvars, evars, FlagsOK
<1>13. ASSUME NEW c \in Callers, range_step(c) PROVE FlagsOK'
    BY <1>13, <1>0 DEF range_step, Call, Start, _paused, vars, hvars, lvars, cvars,
       evars, FlagsOK
<1>14. ASSUME NEW c \in Callers, Add(c) PROVE FlagsOK'
    BY <1>14, <1>0 DEF Add, Call, Start, _paused, vars, hvars, lvars, cvars, evars,
       FlagsOK
<1>15. ASSUME NEW c \in Callers, Remove(c) PROVE FlagsOK'
    BY <1>15, <1>0 DEF Remove, Call, Start, _paused, vars, hvars, lvars, cvars,
       evars, FlagsOK
<1>16. ASSUME NEW c \in Callers, InspectionTools(c) PROVE FlagsOK'
    BY <1>16, <1>0 DEF InspectionTools, registers_and_memory, chipset, diagnostics,
       hunk_load, symbol_read, input, Ask, Call, Start, _paused, vars, hvars, lvars,
       cvars, evars, FlagsOK
<1>17. ASSUME NEW c \in Callers, CheckpointSave(c) PROVE FlagsOK'
    BY <1>17, <1>0 DEF CheckpointSave, Call, Start, _paused, vars, hvars, lvars,
       cvars, evars, FlagsOK
<1>18. ASSUME NEW c \in Callers, CheckpointRestore(c) PROVE FlagsOK'
    BY <1>18, <1>0 DEF CheckpointRestore, Call, Start, _paused, vars, hvars, lvars,
       cvars, evars, FlagsOK
<1>19. ASSUME NEW c \in Callers, ResetSeen(c) PROVE FlagsOK'
    BY <1>19, <1>0 DEF ResetSeen, vars, hvars, lvars, cvars, evars, FlagsOK
<1>20. ASSUME NEW c \in Callers, ResetReconnect(c) PROVE FlagsOK'
    BY <1>20, <1>0 DEF ResetReconnect, Open, vars, hvars, lvars, cvars, evars,
       FlagsOK
<1>21. ASSUME NEW c \in Callers, ResetRearm(c) PROVE FlagsOK'
    BY <1>21, <1>0 DEF ResetRearm, Start, Next1, vars, hvars, lvars, cvars, evars,
       FlagsOK
<1>22. ASSUME NEW c \in Callers, ResetResume(c) PROVE FlagsOK'
    BY <1>22, <1>0 DEF ResetResume, _run, _paused, vars, hvars, lvars, cvars, evars,
       FlagsOK
<1>23. ASSUME HelloDone PROVE FlagsOK'
    BY <1>23, <1>0 DEF HelloDone, Ok, Answered, Request, Release, vars, hvars,
       lvars, cvars, evars, FlagsOK
<1>24. ASSUME HelloDenied PROVE FlagsOK'
    BY <1>24, <1>0 DEF HelloDenied, Denied, Answered, Lost, Release, vars, hvars,
       lvars, cvars, evars, FlagsOK
<1>25. ASSUME ExecutionDone PROVE FlagsOK'
  <2>1. reply.val \in {"running", "stopped"}
    BY <1>25 DEF ExecutionDone, Ok, Answered, RepliesAreOwn, AnswersInv, Truthful, IsReply, Wire
  <2> QED
    BY <1>0, <1>25, <2>1 DEF ExecutionDone, TakeStatus, FlagsOK, vars, hvars, lvars, cvars, evars
<1>26. ASSUME ByeDone PROVE FlagsOK'
    BY <1>26, <1>0 DEF ByeDone, Answered, Lost, Release, vars, hvars, lvars, cvars,
       evars, FlagsOK
<1>27. ASSUME StepOverDone PROVE FlagsOK'
    BY <1>27, <1>0 DEF StepOverDone, Ok, Answered, Release, vars, hvars, lvars,
       cvars, evars, FlagsOK
<1>28. ASSUME StepOverDenied PROVE FlagsOK'
    BY <1>28, <1>0 DEF StepOverDenied, Denied, Answered, Release, vars, hvars,
       lvars, cvars, evars, FlagsOK
<1>29. ASSUME RangeStepDone PROVE FlagsOK'
    BY <1>29, <1>0 DEF RangeStepDone, Ok, Answered, _run, Release, vars, hvars,
       lvars, cvars, evars, FlagsOK
<1>30. ASSUME AddDone PROVE FlagsOK'
    BY <1>30, <1>0 DEF AddDone, Ok, Answered, Release, vars, hvars, lvars, cvars,
       evars, FlagsOK
<1>31. ASSUME RemoveDone PROVE FlagsOK'
    BY <1>31, <1>0 DEF RemoveDone, Ok, Answered, Request, Release, vars, hvars,
       lvars, cvars, evars, FlagsOK
<1>32. ASSUME SequenceDone PROVE FlagsOK'
    BY <1>32, <1>0 DEF SequenceDone, Ok, Answered, _run, Release, vars, hvars,
       lvars, cvars, evars, FlagsOK
<1>33. ASSUME AskMore PROVE FlagsOK'
    BY <1>33, <1>0 DEF AskMore, Answered, Request, Release, vars, hvars, lvars,
       cvars, evars, FlagsOK
<1>34. ASSUME AskDone PROVE FlagsOK'
    BY <1>34, <1>0 DEF AskDone, Answered, Denied, Release, vars, hvars, lvars,
       cvars, evars, FlagsOK
<1>35. ASSUME LiftDone PROVE FlagsOK'
    BY <1>35, <1>0 DEF LiftDone, Ok, Answered, Lift, Request, Release, vars, hvars,
       lvars, cvars, evars, FlagsOK
<1>36. ASSUME SaveDone PROVE FlagsOK'
    BY <1>36, <1>0 DEF SaveDone, Ok, Answered, Denied, PutBack, Checkpointed,
       Request, Release, vars, hvars, lvars, cvars, evars, FlagsOK
<1>37. ASSUME PutBackDone PROVE FlagsOK'
    BY <1>37, <1>0 DEF PutBackDone, Ok, Answered, Checkpointed, Request, Release,
       vars, hvars, lvars, cvars, evars, FlagsOK
<1>38. ASSUME RestoreDone PROVE FlagsOK'
    BY <1>38, <1>0 DEF RestoreDone, Ok, Answered, Rearm, Next1, Checkpointed,
       Request, Release, vars, hvars, lvars, cvars, evars, FlagsOK
<1>39. ASSUME ArmDone PROVE FlagsOK'
    BY <1>39, <1>0 DEF ArmDone, Ok, Answered, Next1, Checkpointed, Request, Release,
       vars, hvars, lvars, cvars, evars, FlagsOK
<1>40. ASSUME ArmDenied PROVE FlagsOK'
    BY <1>40, <1>0 DEF ArmDenied, Denied, Answered, Release, vars, hvars, lvars,
       cvars, evars, FlagsOK
<1>41. ASSUME KeysDone PROVE FlagsOK'
    BY <1>41, <1>0 DEF KeysDone, Ok, Answered, _run, Resetting, Release, vars,
       hvars, lvars, cvars, evars, FlagsOK
<1>42. ASSUME KeysDenied PROVE FlagsOK'
    BY <1>42, <1>0 DEF KeysDenied, Denied, Answered, Resetting, Release, vars,
       hvars, lvars, cvars, evars, FlagsOK
<1>43. ASSUME ProcessSkips PROVE FlagsOK'
    BY <1>43, <1>0 DEF ProcessSkips, Ok, Answered, SkipApplies, Release, vars,
       hvars, lvars, cvars, evars, FlagsOK
<1>44. ASSUME ProcessOneshot PROVE FlagsOK'
    BY <1>44, <1>0 DEF ProcessOneshot, Ok, Answered, SkipApplies, Request, Release,
       vars, hvars, lvars, cvars, evars, FlagsOK
<1>45. ASSUME ProcessReports PROVE FlagsOK'
    BY <1>45, <1>0 DEF ProcessReports, Ok, Denied, Answered, SkipApplies, Report,
       _signal_stop, Release, vars, hvars, lvars, cvars, evars, FlagsOK
<1>46. ASSUME RequestTimeout PROVE FlagsOK'
    BY <1>46, <1>0 DEF RequestTimeout, Lost, Resetting, Release, vars, hvars, lvars,
       cvars, evars, FlagsOK
<1>47. ASSUME ProcessTimeout PROVE FlagsOK'
    BY <1>47, <1>0 DEF ProcessTimeout, Release, vars, hvars, lvars, cvars, evars,
       FlagsOK
<1>48. ASSUME ProcessStart PROVE FlagsOK'
    BY <1>48, <1>0 DEF ProcessStart, Start, Report, _signal_stop, Release, vars,
       hvars, lvars, cvars, evars, FlagsOK
<1>49. ASSUME ReadStop PROVE FlagsOK'
    BY <1>49, <1>0 DEF ReadStop, Incoming, MayBeBreakpoint, _signal_stop, vars,
       hvars, lvars, cvars, evars, FlagsOK
<1>50. ASSUME ReadReply PROVE FlagsOK'
    BY <1>50, <1>0 DEF ReadReply, Incoming, vars, hvars, lvars, cvars, evars,
       FlagsOK
<1>51. ASSUME ReadClosed PROVE FlagsOK'
    BY <1>51, <1>0 DEF ReadClosed, Incoming, Lost, vars, hvars, lvars, cvars, evars,
       FlagsOK
<1>52. ASSUME Emulator PROVE FlagsOK'
    BY <1>52, <1>0, EmulatorFact DEF hvars, lvars, cvars, evars, FlagsOK
<1>53. ASSUME UNCHANGED vars PROVE FlagsOK'
    BY <1>53, <1>0 DEF vars, hvars, lvars, cvars, evars, FlagsOK
<1> QED
    BY <1>1, <1>2, <1>3, <1>4, <1>5, <1>6, <1>7, <1>8, <1>9, <1>10, <1>11, <1>12,
       <1>13, <1>14, <1>15, <1>16, <1>17, <1>18, <1>19, <1>20, <1>21, <1>22, <1>23,
       <1>24, <1>25, <1>26, <1>27, <1>28, <1>29, <1>30, <1>31, <1>32, <1>33, <1>34,
       <1>35, <1>36, <1>37, <1>38, <1>39, <1>40, <1>41, <1>42, <1>43, <1>44, <1>45,
       <1>46, <1>47, <1>48, <1>49, <1>50, <1>51, <1>52, <1>53, Zenon DEF Emulator,
       Next, Operations, ResetStep, HolderStep, ReaderStep, amiga_winuae_control,
       amiga_winuae_range_step, PointTools, amiga_winuae_checkpoint

LEMMA CountsStep ==
    ASSUME TypeOK, PlanInv, ExchangeInv, ClosedInv, RepliesAreOwn, AnswersInv, [Next]_vars
    PROVE  CountsOK'
<1>0. CountsOK /\ MaxCalls \in Nat /\ MaxDrops \in Nat /\ MaxGui \in Nat BY TypeParts
<1>1. ASSUME NEW c \in Callers, Connect(c) PROVE CountsOK'
    BY <1>1, <1>0 DEF Connect, Call, Open, vars, hvars, lvars, cvars, evars,
       CountsOK
<1>2. ASSUME NEW c \in Callers, ConnectRefused(c) PROVE CountsOK'
    BY <1>2, <1>0 DEF ConnectRefused, Call, vars, hvars, lvars, cvars, evars,
       CountsOK
<1>3. ASSUME NEW c \in Callers, Disconnect(c) PROVE CountsOK'
    BY <1>3, <1>0 DEF Disconnect, Call, Start, vars, hvars, lvars, cvars, evars,
       CountsOK
<1>4. ASSUME NEW c \in Callers, Status(c) PROVE CountsOK'
    BY <1>4, <1>0 DEF Status, Call, Start, vars, hvars, lvars, cvars, evars,
       CountsOK
<1>5. ASSUME NEW c \in Callers, Resume(c) PROVE CountsOK'
    BY <1>5, <1>0 DEF Resume, Call, _run, _paused, vars, hvars, lvars, cvars, evars,
       CountsOK
<1>6. ASSUME NEW c \in Callers, Step(c) PROVE CountsOK'
    BY <1>6, <1>0 DEF Step, Call, _run, _paused, vars, hvars, lvars, cvars, evars,
       CountsOK
<1>7. ASSUME NEW c \in Callers, step_over(c) PROVE CountsOK'
    BY <1>7, <1>0 DEF step_over, Call, Start, _paused, vars, hvars, lvars, cvars,
       evars, CountsOK
<1>8. ASSUME NEW c \in Callers, Pause(c) PROVE CountsOK'
    BY <1>8, <1>0 DEF Pause, Call, vars, hvars, lvars, cvars, evars, CountsOK
<1>9. ASSUME NEW c \in Callers, wait_stopped(c) PROVE CountsOK'
    BY <1>9, <1>0 DEF wait_stopped, vars, hvars, lvars, cvars, evars, CountsOK
<1>10. ASSUME NEW c \in Callers, WaitTimeout(c) PROVE CountsOK'
    BY <1>10, <1>0 DEF WaitTimeout, vars, hvars, lvars, cvars, evars, CountsOK
<1>11. ASSUME NEW c \in Callers, Reset(c) PROVE CountsOK'
    BY <1>11, <1>0 DEF Reset, Call, Start, vars, hvars, lvars, cvars, evars,
       CountsOK
<1>12. ASSUME NEW c \in Callers, ResetGivesUp(c) PROVE CountsOK'
    BY <1>12, <1>0 DEF ResetGivesUp, vars, hvars, lvars, cvars, evars, CountsOK
<1>13. ASSUME NEW c \in Callers, range_step(c) PROVE CountsOK'
    BY <1>13, <1>0 DEF range_step, Call, Start, _paused, vars, hvars, lvars, cvars,
       evars, CountsOK
<1>14. ASSUME NEW c \in Callers, Add(c) PROVE CountsOK'
    BY <1>14, <1>0 DEF Add, Call, Start, _paused, vars, hvars, lvars, cvars, evars,
       CountsOK
<1>15. ASSUME NEW c \in Callers, Remove(c) PROVE CountsOK'
    BY <1>15, <1>0 DEF Remove, Call, Start, _paused, vars, hvars, lvars, cvars,
       evars, CountsOK
<1>16. ASSUME NEW c \in Callers, InspectionTools(c) PROVE CountsOK'
    BY <1>16, <1>0 DEF InspectionTools, registers_and_memory, chipset, diagnostics,
       hunk_load, symbol_read, input, Ask, Call, Start, _paused, vars, hvars, lvars,
       cvars, evars, CountsOK
<1>17. ASSUME NEW c \in Callers, CheckpointSave(c) PROVE CountsOK'
  <2>1. calls < MaxCalls /\ calls' = calls + 1 /\ UNCHANGED <<processing, faults>>
    BY <1>17 DEF CheckpointSave, Call, hvars
  <2> QED BY <1>0, <2>1 DEF CountsOK
<1>18. ASSUME NEW c \in Callers, CheckpointRestore(c) PROVE CountsOK'
    BY <1>18, <1>0 DEF CheckpointRestore, Call, Start, _paused, vars, hvars, lvars,
       cvars, evars, CountsOK
<1>19. ASSUME NEW c \in Callers, ResetSeen(c) PROVE CountsOK'
    BY <1>19, <1>0 DEF ResetSeen, vars, hvars, lvars, cvars, evars, CountsOK
<1>20. ASSUME NEW c \in Callers, ResetReconnect(c) PROVE CountsOK'
    BY <1>20, <1>0 DEF ResetReconnect, Open, vars, hvars, lvars, cvars, evars,
       CountsOK
<1>21. ASSUME NEW c \in Callers, ResetRearm(c) PROVE CountsOK'
    BY <1>21, <1>0 DEF ResetRearm, Start, Next1, vars, hvars, lvars, cvars, evars,
       CountsOK
<1>22. ASSUME NEW c \in Callers, ResetResume(c) PROVE CountsOK'
    BY <1>22, <1>0 DEF ResetResume, _run, _paused, vars, hvars, lvars, cvars, evars,
       CountsOK
<1>23. ASSUME HelloDone PROVE CountsOK'
    BY <1>23, <1>0 DEF HelloDone, Ok, Answered, Request, Release, vars, hvars,
       lvars, cvars, evars, CountsOK
<1>24. ASSUME HelloDenied PROVE CountsOK'
    BY <1>24, <1>0 DEF HelloDenied, Denied, Answered, Lost, Release, vars, hvars,
       lvars, cvars, evars, CountsOK
<1>25. ASSUME ExecutionDone PROVE CountsOK'
    BY <1>25, <1>0 DEF ExecutionDone, Ok, Answered, TakeStatus, Release, vars,
       hvars, lvars, cvars, evars, CountsOK
<1>26. ASSUME ByeDone PROVE CountsOK'
    BY <1>26, <1>0 DEF ByeDone, Answered, Lost, Release, vars, hvars, lvars, cvars,
       evars, CountsOK
<1>27. ASSUME StepOverDone PROVE CountsOK'
    BY <1>27, <1>0 DEF StepOverDone, Ok, Answered, Release, vars, hvars, lvars,
       cvars, evars, CountsOK
<1>28. ASSUME StepOverDenied PROVE CountsOK'
    BY <1>28, <1>0 DEF StepOverDenied, Denied, Answered, Release, vars, hvars,
       lvars, cvars, evars, CountsOK
<1>29. ASSUME RangeStepDone PROVE CountsOK'
    BY <1>29, <1>0 DEF RangeStepDone, Ok, Answered, _run, Release, vars, hvars,
       lvars, cvars, evars, CountsOK
<1>30. ASSUME AddDone PROVE CountsOK'
    BY <1>30, <1>0 DEF AddDone, Ok, Answered, Release, vars, hvars, lvars, cvars,
       evars, CountsOK
<1>31. ASSUME RemoveDone PROVE CountsOK'
    BY <1>31, <1>0 DEF RemoveDone, Ok, Answered, Request, Release, vars, hvars,
       lvars, cvars, evars, CountsOK
<1>32. ASSUME SequenceDone PROVE CountsOK'
    BY <1>32, <1>0 DEF SequenceDone, Ok, Answered, _run, Release, vars, hvars,
       lvars, cvars, evars, CountsOK
<1>33. ASSUME AskMore PROVE CountsOK'
    BY <1>33, <1>0 DEF AskMore, Answered, Request, Release, vars, hvars, lvars,
       cvars, evars, CountsOK
<1>34. ASSUME AskDone PROVE CountsOK'
    BY <1>34, <1>0 DEF AskDone, Answered, Denied, Release, vars, hvars, lvars,
       cvars, evars, CountsOK
<1>35. ASSUME LiftDone PROVE CountsOK'
    BY <1>35, <1>0 DEF LiftDone, Ok, Answered, Lift, Request, Release, vars, hvars,
       lvars, cvars, evars, CountsOK
<1>36. ASSUME SaveDone PROVE CountsOK'
    BY <1>36, <1>0 DEF SaveDone, Ok, Answered, Denied, PutBack, Checkpointed,
       Request, Release, vars, hvars, lvars, cvars, evars, CountsOK
<1>37. ASSUME PutBackDone PROVE CountsOK'
    BY <1>37, <1>0 DEF PutBackDone, Ok, Answered, Checkpointed, Request, Release,
       vars, hvars, lvars, cvars, evars, CountsOK
<1>38. ASSUME RestoreDone PROVE CountsOK'
    BY <1>38, <1>0 DEF RestoreDone, Ok, Answered, Rearm, Next1, Checkpointed,
       Request, Release, vars, hvars, lvars, cvars, evars, CountsOK
<1>39. ASSUME ArmDone PROVE CountsOK'
    BY <1>39, <1>0 DEF ArmDone, Ok, Answered, Next1, Checkpointed, Request, Release,
       vars, hvars, lvars, cvars, evars, CountsOK
<1>40. ASSUME ArmDenied PROVE CountsOK'
    BY <1>40, <1>0 DEF ArmDenied, Denied, Answered, Release, vars, hvars, lvars,
       cvars, evars, CountsOK
<1>41. ASSUME KeysDone PROVE CountsOK'
    BY <1>41, <1>0 DEF KeysDone, Ok, Answered, _run, Resetting, Release, vars,
       hvars, lvars, cvars, evars, CountsOK
<1>42. ASSUME KeysDenied PROVE CountsOK'
    BY <1>42, <1>0 DEF KeysDenied, Denied, Answered, Resetting, Release, vars,
       hvars, lvars, cvars, evars, CountsOK
<1>43. ASSUME ProcessSkips PROVE CountsOK'
  <2>1. processing > 0 BY <1>43 DEF ProcessSkips, Ok, Denied, Answered, PlanInv
  <2>2. processing - 1 \in Nat BY <1>0, <2>1 DEF CountsOK
  <2>3. processing' = processing - 1 /\ UNCHANGED <<calls, faults>>
    BY <1>43 DEF ProcessSkips, Report, cvars, evars
  <2> QED BY <1>0, <2>2, <2>3 DEF CountsOK
<1>44. ASSUME ProcessOneshot PROVE CountsOK'
    BY <1>44, <1>0 DEF ProcessOneshot, Ok, Answered, SkipApplies, Request, Release,
       vars, hvars, lvars, cvars, evars, CountsOK
<1>45. ASSUME ProcessReports PROVE CountsOK'
  <2>1. processing > 0 BY <1>45 DEF ProcessReports, Ok, Denied, Answered, PlanInv
  <2>2. processing - 1 \in Nat BY <1>0, <2>1 DEF CountsOK
  <2>3. processing' = processing - 1 /\ UNCHANGED <<calls, faults>>
    BY <1>45 DEF ProcessReports, Report, cvars, evars
  <2> QED BY <1>0, <2>2, <2>3 DEF CountsOK
<1>46. ASSUME RequestTimeout PROVE CountsOK'
    BY <1>46, <1>0 DEF RequestTimeout, Lost, Resetting, Release, vars, hvars, lvars,
       cvars, evars, CountsOK
<1>47. ASSUME ProcessTimeout PROVE CountsOK'
  <2>1. processing > 0 BY <1>47 DEF ProcessTimeout, Ok, Denied, Answered, PlanInv
  <2>2. processing - 1 \in Nat BY <1>0, <2>1 DEF CountsOK
  <2>3. processing' = processing - 1 /\ UNCHANGED <<calls, faults>>
    BY <1>47 DEF ProcessTimeout, Report, cvars, evars
  <2> QED BY <1>0, <2>2, <2>3 DEF CountsOK
<1>48. ASSUME ProcessStart PROVE CountsOK'
    BY <1>48, <1>0 DEF ProcessStart, Start, Report, _signal_stop, Release, vars,
       hvars, lvars, cvars, evars, CountsOK
<1>49. ASSUME ReadStop PROVE CountsOK'
  <2>1. processing' \in {processing, processing + 1} /\ UNCHANGED <<calls, faults>>
    BY <1>49 DEF ReadStop
  <2> QED BY <1>0, <2>1 DEF CountsOK
<1>50. ASSUME ReadReply PROVE CountsOK'
    BY <1>50, <1>0 DEF ReadReply, Incoming, vars, hvars, lvars, cvars, evars,
       CountsOK
<1>51. ASSUME ReadClosed PROVE CountsOK'
    BY <1>51, <1>0 DEF ReadClosed, Incoming, Lost, vars, hvars, lvars, cvars, evars,
       CountsOK
<1>52. ASSUME Emulator PROVE CountsOK'
  <2>1. UNCHANGED <<processing, calls>> BY <1>52, EmulatorFact DEF hvars, cvars
  <2>2. CASE EmuDrop BY <1>0, <2>1, <2>2 DEF EmuDrop, CountsOK
  <2>3. CASE GuiResume BY <1>0, <2>1, <2>3 DEF GuiResume, CountsOK
  <2>4. CASE UNCHANGED faults BY <1>0, <2>1, <2>4 DEF CountsOK
  <2> QED BY <1>52, <2>2, <2>3, <2>4, EmulatorFact
<1>53. ASSUME UNCHANGED vars PROVE CountsOK'
    BY <1>53, <1>0 DEF vars, hvars, lvars, cvars, evars, CountsOK
<1> QED
    BY <1>1, <1>2, <1>3, <1>4, <1>5, <1>6, <1>7, <1>8, <1>9, <1>10, <1>11, <1>12,
       <1>13, <1>14, <1>15, <1>16, <1>17, <1>18, <1>19, <1>20, <1>21, <1>22, <1>23,
       <1>24, <1>25, <1>26, <1>27, <1>28, <1>29, <1>30, <1>31, <1>32, <1>33, <1>34,
       <1>35, <1>36, <1>37, <1>38, <1>39, <1>40, <1>41, <1>42, <1>43, <1>44, <1>45,
       <1>46, <1>47, <1>48, <1>49, <1>50, <1>51, <1>52, <1>53, Zenon DEF Emulator,
       Next, Operations, ResetStep, HolderStep, ReaderStep, amiga_winuae_control,
       amiga_winuae_range_step, PointTools, amiga_winuae_checkpoint

LEMMA UnchangedFine ==
    ASSUME HolderInv, UNCHANGED lvars, UNCHANGED processing
    PROVE  HolderInv'
BY DEF HolderInv, HolderOK, PlanInv, lvars

CallerOpens(c) == c \in Callers /\ lock = NoOne /\ Open(c)

LEMMA OpenFine ==
    ASSUME NEW c, CallerOpens(c)
    PROVE  HolderInv'
<1>1. plan' = [Idle EXCEPT !.phase = "hello"] BY DEF CallerOpens, Open
<1>2. plan' = Plan("hello", NoPoint, {}, {}, NoPoints, TRUE) BY <1>1, IdleIsPlan DEF Plan
<1>3. Begins(c, "hello", NoPoint, {}, NoPoints) BY <1>2 DEF CallerOpens, Open, Begins
<1> QED BY <1>3, NoPointsFact, BeginsFine DEF Wire, Phases, CallerOpens

LEMMA HolderStepOK ==
    ASSUME TypeOK, PlanInv, ExchangeInv, ClosedInv, RepliesAreOwn, AnswersInv, [Next]_vars
    PROVE  HolderInv'
<1>0. HolderInv /\ TablesOK /\ CountsOK /\ WiresOK /\ NoPoints \in Tables /\ {} \in SUBSET Points
    BY TypeParts, NoPointsFact DEF HolderInv
<1>1. ASSUME NEW c \in Callers, Connect(c) PROVE HolderInv'
  <2>1. CallerOpens(c) BY <1>1 DEF Connect, Call, CallerOpens
  <2> QED BY <2>1, OpenFine
<1>2. ASSUME NEW c \in Callers, ConnectRefused(c) PROVE HolderInv'
  <2>1. UNCHANGED lvars /\ UNCHANGED processing
    BY <1>2 DEF ConnectRefused, hvars
  <2> QED BY <1>0, <2>1, UnchangedFine
<1>3. ASSUME NEW c \in Callers, Disconnect(c) PROVE HolderInv'
  <2>1. Begins(c, "bye", NoPoint, {}, NoPoints) BY <1>3, StartBegins DEF Disconnect, Call
  <2> QED BY <1>0, <2>1, BeginsFine DEF Wire, Phases
<1>4. ASSUME NEW c \in Callers, Status(c) PROVE HolderInv'
  <2>1. Begins(c, "exec", NoPoint, {}, NoPoints) BY <1>4, StartBegins DEF Status, Call
  <2> QED BY <1>0, <2>1, BeginsFine DEF Wire, Phases
<1>5. ASSUME NEW c \in Callers, Resume(c) PROVE HolderInv'
  <2>1. UNCHANGED lvars /\ UNCHANGED processing
    BY <1>5 DEF Resume, _run, hvars
  <2> QED BY <1>0, <2>1, UnchangedFine
<1>6. ASSUME NEW c \in Callers, Step(c) PROVE HolderInv'
  <2>1. UNCHANGED lvars /\ UNCHANGED processing
    BY <1>6 DEF Step, _run, hvars
  <2> QED BY <1>0, <2>1, UnchangedFine
<1>7. ASSUME NEW c \in Callers, step_over(c) PROVE HolderInv'
  <2>1. Begins(c, "over", NoPoint, {}, NoPoints) BY <1>7, StartBegins DEF step_over, Call
  <2> QED BY <1>0, <2>1, BeginsFine DEF Wire, Phases
<1>8. ASSUME NEW c \in Callers, Pause(c) PROVE HolderInv'
  <2>1. UNCHANGED lvars /\ UNCHANGED processing
    BY <1>8 DEF Pause, hvars
  <2> QED BY <1>0, <2>1, UnchangedFine
<1>9. ASSUME NEW c \in Callers, wait_stopped(c) PROVE HolderInv'
  <2>1. UNCHANGED lvars /\ UNCHANGED processing
    BY <1>9 DEF wait_stopped, hvars
  <2> QED BY <1>0, <2>1, UnchangedFine
<1>10. ASSUME NEW c \in Callers, WaitTimeout(c) PROVE HolderInv'
  <2>1. UNCHANGED lvars /\ UNCHANGED processing
    BY <1>10 DEF WaitTimeout, hvars
  <2> QED BY <1>0, <2>1, UnchangedFine
<1>11. ASSUME NEW c \in Callers, Reset(c) PROVE HolderInv'
  <2>1. points \in Tables BY <1>0 DEF TablesOK
  <2>2. Begins(c, "keys", NoPoint, {}, points) BY <1>11, StartWithKept DEF Reset, Call
  <2> QED BY <1>0, <2>1, <2>2, BeginsFine DEF Wire, Phases
<1>12. ASSUME NEW c \in Callers, ResetGivesUp(c) PROVE HolderInv'
  <2>1. UNCHANGED lvars /\ UNCHANGED processing
    BY <1>12 DEF ResetGivesUp, hvars
  <2> QED BY <1>0, <2>1, UnchangedFine
<1>13. ASSUME NEW c \in Callers, range_step(c) PROVE HolderInv'
  <2>1. Begins(c, "vcont", NoPoint, {}, NoPoints) BY <1>13, StartBegins DEF range_step, Call
  <2> QED BY <1>0, <2>1, BeginsFine DEF Wire, Phases
<1>14. ASSUME NEW c \in Callers, Add(c) PROVE HolderInv'
  <2>1. CASE UNCHANGED lvars
    <3>1. UNCHANGED processing BY <1>14 DEF Add, hvars
    <3> QED BY <1>0, <2>1, <3>1, UnchangedFine
  <2>2. ASSUME NEW q \in Points, NEW a \in Attr,
               Begins(c, "set", q, {}, With(NoPoints, q, a))
        PROVE  HolderInv'
    <3>1. With(NoPoints, q, a) \in Tables /\ q \in DOMAIN With(NoPoints, q, a)
      <4>1. DOMAIN With(NoPoints, q, a) = DOMAIN NoPoints \cup {q}
        BY NoPointsFact, WithFact, Zenon
      <4>2. With(NoPoints, q, a) \in Tables BY NoPointsFact, WithFact, Zenon
      <4> QED BY <4>1, <4>2
    <3> QED BY <1>0, <2>2, <3>1, BeginsFine DEF Phases
  <2> QED BY <1>14, <2>1, <2>2, AddMoves
<1>15. ASSUME NEW c \in Callers, Remove(c) PROVE HolderInv'
  <2>1. PICK S \in SUBSET DOMAIN points : \E q \in S : Begins(c, "del", q, S \ {q}, NoPoints)
    BY <1>15, RemoveMoves
  <2>2. PICK q \in S : Begins(c, "del", q, S \ {q}, NoPoints) BY <2>1
  <2>3. q \in Points /\ S \ {q} \in SUBSET Points BY <1>0, TableFact DEF TablesOK
  <2> QED BY <1>0, <2>2, <2>3, BeginsFine DEF Phases
<1>16. ASSUME NEW c \in Callers, InspectionTools(c) PROVE HolderInv'
  <2>1. PICK ph \in {"ask", "seq"} : Ask(c, ph) /\ Begins(c, ph, NoPoint, {}, NoPoints)
    BY <1>16, InspectionMoves
  <2>2. ph \in Phases /\ ph \notin {"none", "pc", "shot", "set", "arm"} /\ Wire(ph) = ph
    BY <2>1 DEF Phases, Wire
  <2> QED BY <1>0, <2>1, <2>2, BeginsFine
<1>17. ASSUME NEW c \in Callers, CheckpointSave(c) PROVE HolderInv'
  <2>1. CASE Begins(c, "save", NoPoint, {}, NoPoints)
    BY <1>0, <2>1, BeginsFine DEF Wire, Phases
  <2>2. ASSUME NEW q \in DOMAIN points \ Watches,
               Begins(c, "lift", q, (DOMAIN points \ Watches) \ {q}, NoPoints)
        PROVE  HolderInv'
    <3>1. q \in Points /\ (DOMAIN points \ Watches) \ {q} \in SUBSET Points
      BY <1>0, TableFact DEF TablesOK
    <3> QED BY <1>0, <2>2, <3>1, BeginsFine DEF Phases
  <2> QED BY <1>17, <2>1, <2>2, CheckpointSaveMoves
<1>18. ASSUME NEW c \in Callers, CheckpointRestore(c) PROVE HolderInv'
  <2>1. Begins(c, "restore", NoPoint, {}, NoPoints)
    BY <1>18, StartBegins DEF CheckpointRestore, Call
  <2> QED BY <1>0, <2>1, BeginsFine DEF Wire, Phases
<1>19. ASSUME NEW c \in Callers, ResetSeen(c) PROVE HolderInv'
  <2>1. UNCHANGED lvars /\ UNCHANGED processing
    BY <1>19 DEF ResetSeen, hvars
  <2> QED BY <1>0, <2>1, UnchangedFine
<1>20. ASSUME NEW c \in Callers, ResetReconnect(c) PROVE HolderInv'
  <2>1. CASE Open(c)
    BY <1>20, <2>1, OpenFine DEF ResetReconnect, CallerOpens
  <2>2. CASE UNCHANGED <<hvars, lvars>>
    BY <1>0, <2>2, UnchangedFine DEF hvars
  <2> QED BY <1>20, <2>1, <2>2 DEF ResetReconnect
<1>21. ASSUME NEW c \in Callers, ResetRearm(c) PROVE HolderInv'
  <2>1. CASE UNCHANGED lvars
    <3>1. UNCHANGED processing BY <1>21 DEF ResetRearm, hvars
    <3> QED BY <1>0, <2>1, <3>1, UnchangedFine
  <2>0. PICK replaced \in BOOLEAN :
           LET all == Merged(points, caller[c].saved, replaced) IN
           UNCHANGED lvars \/ \E q \in DOMAIN all : Begins(c, "arm", q, DOMAIN all \ {q}, all)
    BY <1>21, ResetRearmMoves
  <2> DEFINE all == Merged(points, caller[c].saved, replaced)
  <2>2. all \in Tables BY <1>0, MergedFact DEF TablesOK, CallerType
  <2>3. DOMAIN all \subseteq Points BY <2>2, TableFact
  <2>4. \/ UNCHANGED lvars
        \/ \E q \in DOMAIN all : Begins(c, "arm", q, DOMAIN all \ {q}, all)
    BY <2>0
  <2> HIDE DEF all
  <2>5. ASSUME NEW q \in DOMAIN all, Begins(c, "arm", q, DOMAIN all \ {q}, all)
        PROVE  HolderInv'
    <3>1. q \in Points /\ DOMAIN all \ {q} \in SUBSET Points BY <2>3
    <3> QED BY <1>0, <2>2, <2>5, <3>1, BeginsFine DEF Phases
  <2> QED BY <2>1, <2>4, <2>5
<1>22. ASSUME NEW c \in Callers, ResetResume(c) PROVE HolderInv'
  <2>1. UNCHANGED lvars /\ UNCHANGED processing
    BY <1>22 DEF ResetResume, _run, hvars
  <2> QED BY <1>0, <2>1, UnchangedFine
<1>23. ASSUME HelloDone PROVE HolderInv'
  <2>0. plan \in PlanType /\ UNCHANGED processing
    BY <1>0, <1>23 DEF HolderInv, HolderOK, HelloDone, hvars
  <2>1. plan.phase \in {"hello", "ask"} BY <1>23 DEF HelloDone, Ok, Denied, Answered
  <2>2. /\ lock \notin {NoOne, Process}
        /\ plan.left \in SUBSET Points /\ plan.lifted \in SUBSET Points
        /\ plan.kept \in Tables /\ plan.ok \in BOOLEAN
    BY <1>0, <2>0, <2>1, IdleFact DEF HolderInv, PlanInv, PlanType
  <2>3. CASE Release BY <2>3, ReleaseFine
  <2>4. Release \/ GoesOn("exec", NoPoint, plan.left, plan.lifted, plan.kept, plan.ok)
    BY <1>23, <2>0, RequestGoesOn DEF HelloDone
  <2> QED BY <1>0, <2>0, <2>2, <2>3, <2>4, GoesOnFine DEF Phases, Wire
<1>24. ASSUME HelloDenied PROVE HolderInv'
  <2>1. Release BY <1>24 DEF HelloDenied
  <2> QED BY <2>1, ReleaseFine
<1>25. ASSUME ExecutionDone PROVE HolderInv'
  <2>1. Release BY <1>25 DEF ExecutionDone
  <2> QED BY <2>1, ReleaseFine
<1>26. ASSUME ByeDone PROVE HolderInv'
  <2>1. Release BY <1>26 DEF ByeDone
  <2> QED BY <2>1, ReleaseFine
<1>27. ASSUME StepOverDone PROVE HolderInv'
  <2>1. Release BY <1>27 DEF StepOverDone
  <2> QED BY <2>1, ReleaseFine
<1>28. ASSUME StepOverDenied PROVE HolderInv'
  <2>1. Release BY <1>28 DEF StepOverDenied
  <2> QED BY <2>1, ReleaseFine
<1>29. ASSUME RangeStepDone PROVE HolderInv'
  <2>1. Release BY <1>29 DEF RangeStepDone
  <2> QED BY <2>1, ReleaseFine
<1>30. ASSUME AddDone PROVE HolderInv'
  <2>1. Release BY <1>30 DEF AddDone
  <2> QED BY <2>1, ReleaseFine
<1>31. ASSUME RemoveDone PROVE HolderInv'
  <2>0. plan \in PlanType /\ UNCHANGED processing
    BY <1>0, <1>31 DEF HolderInv, HolderOK, RemoveDone, hvars
  <2>1. plan.phase \in {"del"} BY <1>31 DEF RemoveDone, Ok, Denied, Answered
  <2>2. /\ lock \notin {NoOne, Process}
        /\ plan.left \in SUBSET Points /\ plan.lifted \in SUBSET Points
        /\ plan.kept \in Tables /\ plan.ok \in BOOLEAN
    BY <1>0, <2>0, <2>1, IdleFact DEF HolderInv, PlanInv, PlanType
  <2>3. CASE Release BY <2>3, ReleaseFine
  <2>4. ASSUME NEW q \in plan.left,
               GoesOn("del", q, plan.left \ {q}, plan.lifted, plan.kept, plan.ok)
        PROVE  HolderInv'
    <3>1. q \in Points /\ plan.left \ {q} \in SUBSET Points BY <2>2
    <3> QED BY <1>0, <2>0, <2>2, <2>4, <3>1, GoesOnFine DEF Phases
  <2> QED BY <1>0, <1>31, <2>3, <2>4, RemoveDoneMoves DEF HolderInv
<1>32. ASSUME SequenceDone PROVE HolderInv'
  <2>1. Release BY <1>32 DEF SequenceDone
  <2> QED BY <2>1, ReleaseFine
<1>33. ASSUME AskMore PROVE HolderInv'
  <2>0. plan \in PlanType /\ UNCHANGED processing
    BY <1>0, <1>33 DEF HolderInv, HolderOK, AskMore, hvars
  <2>1. plan.phase \in {"hello", "ask"} BY <1>33 DEF AskMore, Ok, Denied, Answered
  <2>2. /\ lock \notin {NoOne, Process}
        /\ plan.left \in SUBSET Points /\ plan.lifted \in SUBSET Points
        /\ plan.kept \in Tables /\ plan.ok \in BOOLEAN
    BY <1>0, <2>0, <2>1, IdleFact DEF HolderInv, PlanInv, PlanType
  <2>3. CASE Release BY <2>3, ReleaseFine
  <2>4. Release \/ GoesOn("ask", NoPoint, plan.left, plan.lifted, plan.kept, plan.ok)
    BY <1>33, <2>0, RequestGoesOn DEF AskMore
  <2> QED BY <1>0, <2>0, <2>2, <2>3, <2>4, GoesOnFine DEF Phases, Wire
<1>34. ASSUME AskDone PROVE HolderInv'
  <2>1. Release BY <1>34 DEF AskDone
  <2> QED BY <2>1, ReleaseFine
<1>35. ASSUME LiftDone PROVE HolderInv'
  <2>0. plan \in PlanType /\ UNCHANGED processing
    BY <1>0, <1>35 DEF HolderInv, HolderOK, LiftDone, hvars
  <2>1. plan.phase \in {"lift"} BY <1>35 DEF LiftDone, Ok, Denied, Answered
  <2>2. /\ lock \notin {NoOne, Process}
        /\ plan.left \in SUBSET Points /\ plan.lifted \in SUBSET Points
        /\ plan.kept \in Tables /\ plan.ok \in BOOLEAN
    BY <1>0, <2>0, <2>1, IdleFact DEF HolderInv, PlanInv, PlanType
  <2>3. CASE Release BY <2>3, ReleaseFine
  <2>4. plan.p \in Points /\ plan.lifted \cup {plan.p} \in SUBSET Points
    BY <1>0, <2>1, <2>2 DEF HolderInv, PlanInv, Wire
  <2>5. CASE GoesOn("save", NoPoint, {}, plan.lifted \cup {plan.p}, plan.kept, plan.ok)
    BY <1>0, <2>0, <2>2, <2>4, <2>5, GoesOnFine DEF Phases, Wire
  <2>6. ASSUME NEW q \in plan.left,
               GoesOn("lift", q, plan.left \ {q}, plan.lifted \cup {plan.p}, plan.kept,
                      plan.ok)
        PROVE  HolderInv'
    <3>1. q \in Points /\ plan.left \ {q} \in SUBSET Points BY <2>2
    <3> QED BY <1>0, <2>0, <2>2, <2>4, <2>6, <3>1, GoesOnFine DEF Phases
  <2> QED BY <1>0, <1>35, <2>3, <2>4, <2>5, <2>6, LiftDoneMoves DEF HolderInv
<1>36. ASSUME SaveDone PROVE HolderInv'
  <2>0. plan \in PlanType /\ UNCHANGED processing
    BY <1>0, <1>36 DEF HolderInv, HolderOK, SaveDone, hvars, Checkpointed
  <2>1. plan.phase \in {"save", "lift"} BY <1>36 DEF SaveDone, Ok, Denied, Answered
  <2>2. /\ lock \notin {NoOne, Process}
        /\ plan.left \in SUBSET Points /\ plan.lifted \in SUBSET Points
        /\ plan.kept \in Tables /\ plan.ok \in BOOLEAN
    BY <1>0, <2>0, <2>1, IdleFact DEF HolderInv, PlanInv, PlanType
  <2>3. CASE Release BY <2>3, ReleaseFine
  <2>4. CASE GoesOn("ask", NoPoint, {}, {}, NoPoints, TRUE)
    BY <1>0, <2>0, <2>2, <2>4, NoPointsFact, GoesOnFine DEF Phases, Wire
  <2>5. ASSUME NEW q \in plan.lifted, NEW ok \in BOOLEAN,
               GoesOn("back", q, plan.lifted \ {q}, plan.lifted, plan.kept, ok)
        PROVE  HolderInv'
    <3>1. q \in Points /\ plan.lifted \ {q} \in SUBSET Points BY <2>2
    <3> QED BY <1>0, <2>0, <2>2, <2>5, <3>1, GoesOnFine DEF Phases
  <2> QED BY <1>0, <1>36, <2>3, <2>4, <2>5, SaveDoneMoves DEF HolderInv
<1>37. ASSUME PutBackDone PROVE HolderInv'
  <2>0. plan \in PlanType /\ UNCHANGED processing
    BY <1>0, <1>37 DEF HolderInv, HolderOK, PutBackDone, hvars, Checkpointed
  <2>1. plan.phase \in {"back"} BY <1>37 DEF PutBackDone, Ok, Denied, Answered
  <2>2. /\ lock \notin {NoOne, Process}
        /\ plan.left \in SUBSET Points /\ plan.lifted \in SUBSET Points
        /\ plan.kept \in Tables /\ plan.ok \in BOOLEAN
    BY <1>0, <2>0, <2>1, IdleFact DEF HolderInv, PlanInv, PlanType
  <2>3. CASE Release BY <2>3, ReleaseFine
  <2>4. CASE GoesOn("ask", NoPoint, {}, {}, NoPoints, TRUE)
    BY <1>0, <2>0, <2>2, <2>4, NoPointsFact, GoesOnFine DEF Phases, Wire
  <2>5. ASSUME NEW q \in plan.left,
               GoesOn("back", q, plan.left \ {q}, plan.lifted, plan.kept, plan.ok)
        PROVE  HolderInv'
    <3>1. q \in Points /\ plan.left \ {q} \in SUBSET Points BY <2>2
    <3> QED BY <1>0, <2>0, <2>2, <2>5, <3>1, GoesOnFine DEF Phases
  <2> QED BY <1>0, <1>37, <2>3, <2>4, <2>5, PutBackDoneMoves DEF HolderInv
<1>38. ASSUME RestoreDone PROVE HolderInv'
  <2>0. plan \in PlanType /\ UNCHANGED processing
    BY <1>0, <1>38 DEF HolderInv, HolderOK, RestoreDone, hvars, Checkpointed
  <2>1. plan.phase \in {"restore"} BY <1>38 DEF RestoreDone, Ok, Denied, Answered
  <2>2. /\ lock \notin {NoOne, Process}
        /\ plan.left \in SUBSET Points /\ plan.lifted \in SUBSET Points
        /\ plan.kept \in Tables /\ plan.ok \in BOOLEAN
    BY <1>0, <2>0, <2>1, IdleFact DEF HolderInv, PlanInv, PlanType
  <2>3. CASE Release BY <2>3, ReleaseFine
  <2>4. CASE GoesOn("ask", NoPoint, {}, {}, NoPoints, TRUE)
    BY <1>0, <2>0, <2>2, <2>4, NoPointsFact, GoesOnFine DEF Phases, Wire
  <2>5. points \in Tables /\ DOMAIN points \subseteq Points BY <1>0, TableFact DEF TablesOK
  <2>6. ASSUME NEW q \in DOMAIN points,
               GoesOn("arm", q, DOMAIN points \ {q}, {}, points, TRUE)
        PROVE  HolderInv'
    <3>1. q \in Points /\ DOMAIN points \ {q} \in SUBSET Points /\ {} \in SUBSET Points
      BY <2>5
    <3> QED BY <1>0, <2>0, <2>2, <2>5, <2>6, <3>1, GoesOnFine DEF Phases
  <2> QED BY <1>38, <2>3, <2>4, <2>5, <2>6, RestoreDoneMoves
<1>39. ASSUME ArmDone PROVE HolderInv'
  <2>0. plan \in PlanType /\ UNCHANGED processing
    BY <1>0, <1>39 DEF HolderInv, HolderOK, ArmDone, hvars, Checkpointed
  <2>1. plan.phase \in {"arm"} BY <1>39 DEF ArmDone, Ok, Denied, Answered
  <2>2. /\ lock \notin {NoOne, Process}
        /\ plan.left \in SUBSET Points /\ plan.lifted \in SUBSET Points
        /\ plan.kept \in Tables /\ plan.ok \in BOOLEAN
    BY <1>0, <2>0, <2>1, IdleFact DEF HolderInv, PlanInv, PlanType
  <2>3. CASE Release BY <2>3, ReleaseFine
  <2>4. CASE GoesOn("ask", NoPoint, {}, {}, NoPoints, TRUE)
    BY <1>0, <2>0, <2>2, <2>4, NoPointsFact, GoesOnFine DEF Phases, Wire
  <2>5. ASSUME NEW q \in plan.left,
               GoesOn("arm", q, plan.left \ {q}, plan.lifted, plan.kept, plan.ok)
        PROVE  HolderInv'
    <3>1. q \in Points /\ plan.left \ {q} \in SUBSET Points BY <2>2
    <3>2. q \in DOMAIN plan.kept /\ plan.left \ {q} \subseteq DOMAIN plan.kept
      BY <1>0, <2>1 DEF HolderInv, PlanInv
    <3> QED BY <1>0, <2>0, <2>2, <2>5, <3>1, <3>2, GoesOnFine DEF Phases
  <2> QED BY <1>0, <1>39, <2>3, <2>4, <2>5, ArmDoneMoves DEF HolderInv
<1>40. ASSUME ArmDenied PROVE HolderInv'
  <2>1. Release BY <1>40 DEF ArmDenied
  <2> QED BY <2>1, ReleaseFine
<1>41. ASSUME KeysDone PROVE HolderInv'
  <2>1. Release BY <1>41 DEF KeysDone
  <2> QED BY <2>1, ReleaseFine
<1>42. ASSUME KeysDenied PROVE HolderInv'
  <2>1. Release BY <1>42 DEF KeysDenied
  <2> QED BY <2>1, ReleaseFine
<1>43. ASSUME ProcessSkips PROVE HolderInv'
  <2>1. Release BY <1>43 DEF ProcessSkips
  <2> QED BY <2>1, ReleaseFine
<1>44. ASSUME ProcessOneshot PROVE HolderInv'
  <2>0. plan \in PlanType /\ UNCHANGED processing
    BY <1>0, <1>44 DEF HolderInv, HolderOK, ProcessOneshot, hvars
  <2>1. lock = Process /\ reply.val \in DOMAIN points
    BY <1>0, <1>44 DEF ProcessOneshot, Ok, Answered, HolderInv, PlanInv
  <2>2. reply.val \in Points BY <1>0, <2>1, TableFact DEF TablesOK
  <2>3. /\ plan.left \in SUBSET Points /\ plan.lifted \in SUBSET Points
        /\ plan.kept \in Tables /\ plan.ok \in BOOLEAN
    BY <2>0 DEF PlanType
  <2>4. CASE Release BY <2>4, ReleaseFine
  <2>5. CASE GoesOn("shot", reply.val, plan.left, plan.lifted, plan.kept, plan.ok)
    BY <1>0, <2>0, <2>1, <2>2, <2>3, <2>5, GoesOnFine DEF Phases
  <2>6. Request(plan, "shot", reply.val) BY <1>44 DEF ProcessOneshot
  <2> QED BY <2>0, <2>4, <2>5, <2>6, RequestGoesOn
<1>45. ASSUME ProcessReports PROVE HolderInv'
  <2>1. Release BY <1>45 DEF ProcessReports, Report
  <2> QED BY <2>1, ReleaseFine
<1>46. ASSUME RequestTimeout PROVE HolderInv'
  <2>1. Release BY <1>46 DEF RequestTimeout
  <2> QED BY <2>1, ReleaseFine
<1>47. ASSUME ProcessTimeout PROVE HolderInv'
  <2>1. Release BY <1>47 DEF ProcessTimeout
  <2> QED BY <2>1, ReleaseFine
<1>48. ASSUME ProcessStart PROVE HolderInv'
  <2>1. CASE connected
    <3>1. Begins(Process, "pc", NoPoint, {}, NoPoints)
      BY <1>48, <2>1, StartBegins DEF ProcessStart
    <3>2. processing' > 0 BY <1>48, <2>1 DEF ProcessStart, hvars
    <3> QED BY <1>0, <3>1, <3>2, BeginsFine DEF Phases, Wire
  <2>2. CASE ~connected
    <3>1. Release BY <1>48, <2>2 DEF ProcessStart, Report
    <3> QED BY <3>1, ReleaseFine
  <2> QED BY <2>1, <2>2
<1>49. ASSUME ReadStop PROVE HolderInv'
  <2>1. UNCHANGED lvars /\ processing' \in {processing, processing + 1}
    BY <1>49 DEF ReadStop
  <2>2. lock = Process => processing' > 0 BY <1>0, <2>1 DEF HolderInv, PlanInv, CountsOK
  <2> QED BY <1>0, <2>1, <2>2, KeepsFine DEF lvars, HolderInv, HolderOK, PlanInv
<1>50. ASSUME ReadReply PROVE HolderInv'
  <2>1. UNCHANGED <<lock, plan, processing>> /\ lock # NoOne /\ reply' = Head(toHost)
    BY <1>50 DEF ReadReply, hvars
  <2>2. reply' \in Replies
    <3>1. toHost # <<>> /\ IsReply(Head(toHost)) BY <1>50 DEF ReadReply, Incoming, IsReply
    <3>2. Head(toHost) \in MessageType BY <1>0, <3>1, HeadFact DEF WiresOK
    <3>3. ~IsReply(Eof) /\ \A plain \in BOOLEAN : ~IsReply(Stop(plain))
      BY DEF IsReply, Eof, Stop
    <3> QED BY <2>1, <3>1, <3>2, <3>3 DEF MessageType
  <2>3. lock = Process => processing' > 0 BY <1>0, <2>1 DEF HolderInv, PlanInv
  <2> QED BY <1>0, <2>1, <2>2, <2>3, KeepsFine
<1>51. ASSUME ReadClosed PROVE HolderInv'
  <2>1. UNCHANGED <<lock, plan, processing>>
        /\ reply' = IF lock # NoOne /\ reply = NoReply THEN Closed ELSE reply
    BY <1>51 DEF ReadClosed
  <2>2. /\ reply' \in Replies \cup {NoReply, Closed}
        /\ lock = NoOne => reply' = NoReply /\ (lock = Process => processing' > 0)
    BY <1>0, <2>1 DEF HolderInv, HolderOK, PlanInv
  <2> QED BY <1>0, <2>1, <2>2, KeepsFine DEF HolderInv, PlanInv
<1>52. ASSUME Emulator PROVE HolderInv'
  <2>1. UNCHANGED <<lvars, processing>> BY <1>52, EmulatorFact DEF hvars
  <2> QED BY <1>0, <2>1, UnchangedFine
<1>53. ASSUME UNCHANGED vars PROVE HolderInv'
    BY <1>0, <1>53, UnchangedFine DEF vars, hvars
<1> QED
    BY <1>1, <1>2, <1>3, <1>4, <1>5, <1>6, <1>7, <1>8, <1>9, <1>10, <1>11, <1>12,
       <1>13, <1>14, <1>15, <1>16, <1>17, <1>18, <1>19, <1>20, <1>21, <1>22, <1>23,
       <1>24, <1>25, <1>26, <1>27, <1>28, <1>29, <1>30, <1>31, <1>32, <1>33, <1>34,
       <1>35, <1>36, <1>37, <1>38, <1>39, <1>40, <1>41, <1>42, <1>43, <1>44, <1>45,
       <1>46, <1>47, <1>48, <1>49, <1>50, <1>51, <1>52, <1>53, Zenon DEF Emulator,
       Next, Operations, ResetStep, HolderStep, ReaderStep, amiga_winuae_control,
       amiga_winuae_range_step, PointTools, amiga_winuae_checkpoint

LEMMA ResettingFact ==
    ASSUME NEW w \in [Callers -> CallerType], plan \in PlanType, NEW pc \in {"reset", "parted"}
    PROVE  Resetting(w, pc) \in [Callers -> CallerType]
BY DEF Resetting, CallerType, PlanType

LEMMA TablesStep ==
    ASSUME TypeOK, PlanInv, ExchangeInv, ClosedInv, RepliesAreOwn, AnswersInv, [Next]_vars
    PROVE  TablesOK'
<1>0. /\ HolderInv /\ TablesOK /\ NoPoints \in Tables
      /\ points \in Tables /\ caller \in [Callers -> CallerType]
    BY TypeParts, NoPointsFact DEF HolderInv, TablesOK
<1>1. ASSUME NEW c \in Callers, Connect(c) PROVE TablesOK'
    BY <1>1, <1>0 DEF Connect, Call, Open, hvars, lvars, cvars, evars, TablesOK
<1>2. ASSUME NEW c \in Callers, ConnectRefused(c) PROVE TablesOK'
    BY <1>2, <1>0 DEF ConnectRefused, Call, hvars, lvars, cvars, evars, TablesOK
<1>3. ASSUME NEW c \in Callers, Disconnect(c) PROVE TablesOK'
    BY <1>3, <1>0 DEF Disconnect, Call, Start, hvars, lvars, cvars, evars, TablesOK
<1>4. ASSUME NEW c \in Callers, Status(c) PROVE TablesOK'
    BY <1>4, <1>0 DEF Status, Call, Start, hvars, lvars, cvars, evars, TablesOK
<1>5. ASSUME NEW c \in Callers, Resume(c) PROVE TablesOK'
    BY <1>5, <1>0 DEF Resume, Call, _run, _paused, hvars, lvars, cvars, evars,
       TablesOK
<1>6. ASSUME NEW c \in Callers, Step(c) PROVE TablesOK'
    BY <1>6, <1>0 DEF Step, Call, _run, _paused, hvars, lvars, cvars, evars,
       TablesOK
<1>7. ASSUME NEW c \in Callers, step_over(c) PROVE TablesOK'
    BY <1>7, <1>0 DEF step_over, Call, Start, _paused, hvars, lvars, cvars, evars,
       TablesOK
<1>8. ASSUME NEW c \in Callers, Pause(c) PROVE TablesOK'
  <2>1. /\ points' \in {points, NoPoints}
        /\ \/ caller' = caller
           \/ caller' = [caller EXCEPT ![c].pc = "idle"]
           \/ caller' = [caller EXCEPT ![c].pc = "pausing"]
    BY <1>8 DEF Pause
  <2> QED BY <1>0, <2>1 DEF TablesOK, CallerType
<1>9. ASSUME NEW c \in Callers, wait_stopped(c) PROVE TablesOK'
  <2>1. /\ points' \in {points, NoPoints}
        /\ caller' = caller \/ caller' = [caller EXCEPT ![c].pc = "waiting"]
    BY <1>9 DEF wait_stopped
  <2> QED BY <1>0, <2>1 DEF TablesOK, CallerType
<1>10. ASSUME NEW c \in Callers, WaitTimeout(c) PROVE TablesOK'
  <2>1. /\ points' \in {points, NoPoints}
        /\ caller' = caller \/ caller' = [caller EXCEPT ![c].pc = "idle"]
    BY <1>10 DEF WaitTimeout
  <2> QED BY <1>0, <2>1 DEF TablesOK, CallerType
<1>11. ASSUME NEW c \in Callers, Reset(c) PROVE TablesOK'
    BY <1>11, <1>0 DEF Reset, Call, Start, hvars, lvars, cvars, evars, TablesOK
<1>12. ASSUME NEW c \in Callers, ResetGivesUp(c) PROVE TablesOK'
  <2> DEFINE idle == [pc |-> "idle", saved |-> NoPoints]
  <2>1. points' \in {points, NoPoints}
        /\ (caller' = caller \/ caller' = [caller EXCEPT ![c] = idle])
    BY <1>12 DEF ResetGivesUp
  <2>2. idle \in CallerType BY <1>0 DEF CallerType
  <2> QED BY <1>0, <2>1, <2>2 DEF TablesOK, CallerType
<1>13. ASSUME NEW c \in Callers, range_step(c) PROVE TablesOK'
    BY <1>13, <1>0 DEF range_step, Call, Start, _paused, hvars, lvars, cvars, evars,
       TablesOK
<1>14. ASSUME NEW c \in Callers, Add(c) PROVE TablesOK'
  <2>1. UNCHANGED caller BY <1>14 DEF Add
  <2>2. PICK q \in Points, a \in Attr : points' \in {points, With(points, q, a)}
    BY <1>14 DEF Add
  <2>3. With(points, q, a) \in Tables BY <1>0, WithFact
  <2> QED BY <1>0, <2>1, <2>2, <2>3 DEF TablesOK
<1>15. ASSUME NEW c \in Callers, Remove(c) PROVE TablesOK'
    BY <1>15, <1>0 DEF Remove, Call, Start, _paused, hvars, lvars, cvars, evars,
       TablesOK
<1>16. ASSUME NEW c \in Callers, InspectionTools(c) PROVE TablesOK'
    BY <1>16, <1>0 DEF InspectionTools, registers_and_memory, chipset, diagnostics,
       hunk_load, symbol_read, input, Ask, Call, Start, _paused, hvars, lvars,
       cvars, evars, TablesOK
<1>17. ASSUME NEW c \in Callers, CheckpointSave(c) PROVE TablesOK'
    BY <1>17, <1>0 DEF CheckpointSave, Call, Start, _paused, hvars, lvars, cvars,
       evars, TablesOK
<1>18. ASSUME NEW c \in Callers, CheckpointRestore(c) PROVE TablesOK'
    BY <1>18, <1>0 DEF CheckpointRestore, Call, Start, _paused, hvars, lvars, cvars,
       evars, TablesOK
<1>19. ASSUME NEW c \in Callers, ResetSeen(c) PROVE TablesOK'
  <2>1. /\ points' \in {points, NoPoints}
        /\ caller' = caller \/ caller' = [caller EXCEPT ![c].pc = "reconnect"]
    BY <1>19 DEF ResetSeen
  <2> QED BY <1>0, <2>1 DEF TablesOK, CallerType
<1>20. ASSUME NEW c \in Callers, ResetReconnect(c) PROVE TablesOK'
  <2>1. /\ points' \in {points, NoPoints}
        /\ caller' = caller \/ caller' = [caller EXCEPT ![c].pc = "rearm"]
    BY <1>20 DEF ResetReconnect, Open
  <2> QED BY <1>0, <2>1 DEF TablesOK, CallerType
<1>21. ASSUME NEW c \in Callers, ResetRearm(c) PROVE TablesOK'
  <2> DEFINE idle == [pc |-> "idle", saved |-> NoPoints]
  <2>1. PICK w \in [Callers -> CallerType] : w = Parted(caller) BY <1>0, PartedFact
  <2>2. points' = NoPoints
        /\ (caller' = w \/ caller' = [w EXCEPT ![c] = idle]
            \/ caller' = [w EXCEPT ![c].pc = "resume"])
    BY <1>21, <2>1 DEF ResetRearm
  <2>3. idle \in CallerType BY <1>0 DEF CallerType
  <2> QED BY <1>0, <2>2, <2>3 DEF TablesOK, CallerType
<1>22. ASSUME NEW c \in Callers, ResetResume(c) PROVE TablesOK'
  <2>1. /\ points' \in {points, NoPoints}
        /\ caller' = caller \/ caller' = [caller EXCEPT ![c].pc = "idle"]
    BY <1>22 DEF ResetResume
  <2> QED BY <1>0, <2>1 DEF TablesOK, CallerType
<1>23. ASSUME HelloDone PROVE TablesOK'
    BY <1>23, <1>0 DEF HelloDone, Ok, Answered, Request, Release, hvars, lvars,
       cvars, evars, TablesOK
<1>24. ASSUME HelloDenied PROVE TablesOK'
  <2>1. points' \in {points, NoPoints} /\ caller' \in Seen
    BY <1>24 DEF Seen, HelloDenied, Lost, hvars, evars, cvars
  <2> QED BY <1>0, <2>1, NoPointsFact, SeenFact DEF TablesOK
<1>25. ASSUME ExecutionDone PROVE TablesOK'
  <2>1. PICK seen \in {caller, Woken} :
           caller' = [seen EXCEPT ![lock].pc = IF @ = "reconnect" THEN "rearm" ELSE @]
    BY <1>25 DEF ExecutionDone
  <2>2. seen \in [Callers -> CallerType] BY <1>0, WokenFact DEF TablesOK
  <2>3. caller' \in [Callers -> CallerType] BY <2>1, <2>2 DEF CallerType
  <2>4. UNCHANGED points BY <1>25 DEF ExecutionDone
  <2> QED BY <1>0, <2>3, <2>4 DEF TablesOK
<1>26. ASSUME ByeDone PROVE TablesOK'
  <2>1. points' \in {points, NoPoints} /\ caller' \in Seen
    BY <1>26 DEF Seen, ByeDone, Lost, hvars, evars, cvars
  <2> QED BY <1>0, <2>1, NoPointsFact, SeenFact DEF TablesOK
<1>27. ASSUME StepOverDone PROVE TablesOK'
    BY <1>27, <1>0 DEF StepOverDone, Ok, Answered, Release, hvars, lvars, cvars,
       evars, TablesOK
<1>28. ASSUME StepOverDenied PROVE TablesOK'
  <2>1. points' \in {points, NoPoints} /\ caller' \in Seen
    BY <1>28 DEF Seen, StepOverDenied, hvars, evars, cvars
  <2> QED BY <1>0, <2>1, NoPointsFact, SeenFact DEF TablesOK
<1>29. ASSUME RangeStepDone PROVE TablesOK'
    BY <1>29, <1>0 DEF RangeStepDone, Ok, Answered, _run, Release, hvars, lvars,
       cvars, evars, TablesOK
<1>30. ASSUME AddDone PROVE TablesOK'
  <2>1. points' = With(points, plan.p, plan.kept[plan.p]) BY <1>30 DEF AddDone
  <2>2. plan.p \in DOMAIN plan.kept /\ plan.kept \in Tables
    BY <1>0, <1>30 DEF AddDone, Ok, Answered, HolderInv, HolderOK, PlanInv, PlanType
  <2>3. plan.p \in Points /\ plan.kept[plan.p] \in Attr BY <2>2, TableFact
  <2>4. caller' \in [Callers -> CallerType]
    BY <1>0, <1>30, <2>2, AddDoneSaved DEF HolderInv, HolderOK
  <2> QED BY <1>0, <2>1, <2>3, <2>4, WithFact DEF TablesOK
<1>31. ASSUME RemoveDone PROVE TablesOK'
  <2>1. points' = Without(points, plan.p) BY <1>31 DEF RemoveDone
  <2>2. caller' \in [Callers -> CallerType] BY <1>0, <1>31, RemoveDoneSaved
  <2> QED BY <1>0, <2>1, <2>2, WithoutFact DEF TablesOK
<1>32. ASSUME SequenceDone PROVE TablesOK'
    BY <1>32, <1>0 DEF SequenceDone, Ok, Answered, _run, Release, hvars, lvars,
       cvars, evars, TablesOK
<1>33. ASSUME AskMore PROVE TablesOK'
    BY <1>33, <1>0 DEF AskMore, Answered, Request, Release, hvars, lvars, cvars,
       evars, TablesOK
<1>34. ASSUME AskDone PROVE TablesOK'
    BY <1>34, <1>0 DEF AskDone, Answered, Denied, Release, hvars, lvars, cvars,
       evars, TablesOK
<1>35. ASSUME LiftDone PROVE TablesOK'
    BY <1>35, <1>0 DEF LiftDone, Ok, Answered, Lift, Request, Release, hvars, lvars,
       cvars, evars, TablesOK
<1>36. ASSUME SaveDone PROVE TablesOK'
  <2>1. points' \in {points, NoPoints} /\ caller' \in Seen
    BY <1>36 DEF Seen, SaveDone, PutBack, Checkpointed, hvars, evars, cvars
  <2> QED BY <1>0, <2>1, NoPointsFact, SeenFact DEF TablesOK
<1>37. ASSUME PutBackDone PROVE TablesOK'
  <2>1. points' \in {points, NoPoints} /\ caller' \in Seen
    BY <1>37 DEF Seen, PutBackDone, Checkpointed, hvars, evars, cvars
  <2> QED BY <1>0, <2>1, NoPointsFact, SeenFact DEF TablesOK
<1>38. ASSUME RestoreDone PROVE TablesOK'
  <2>1. points' \in {points, NoPoints} /\ caller' \in Seen
    BY <1>38 DEF Seen, RestoreDone, Checkpointed, Rearm
  <2> QED BY <1>0, <2>1, NoPointsFact, SeenFact DEF TablesOK
<1>39. ASSUME ArmDone PROVE TablesOK'
  <2>1. points' = With(points, plan.p, plan.kept[plan.p]) BY <1>39 DEF ArmDone
  <2>2. plan.p \in DOMAIN plan.kept /\ plan.kept \in Tables
    BY <1>0, <1>39 DEF ArmDone, Ok, Answered, HolderInv, HolderOK, PlanInv, PlanType
  <2>3. plan.p \in Points /\ plan.kept[plan.p] \in Attr BY <2>2, TableFact
  <2>4. points' \in Tables BY <1>0, <2>1, <2>3, WithFact DEF TablesOK
  <2>5. \/ caller' \in Seen
        \/ caller' = [caller EXCEPT ![lock] = [pc |-> "resume", saved |-> NoPoints]]
    BY <1>39 DEF ArmDone, Checkpointed, Seen
  <2>6. [pc |-> "resume", saved |-> NoPoints] \in CallerType BY <1>0 DEF CallerType
  <2> QED BY <1>0, <2>4, <2>5, <2>6, SeenFact DEF TablesOK
<1>40. ASSUME ArmDenied PROVE TablesOK'
  <2> DEFINE idle == [pc |-> "idle", saved |-> NoPoints]
  <2>1. points' \in {points, NoPoints}
        /\ (caller' = caller \/ caller' = [caller EXCEPT ![lock] = idle])
    BY <1>40 DEF ArmDenied
  <2>2. idle \in CallerType BY <1>0 DEF CallerType
  <2> QED BY <1>0, <2>1, <2>2 DEF TablesOK, CallerType
<1>41. ASSUME KeysDone PROVE TablesOK'
  <2>1. /\ UNCHANGED points
        /\ caller' \in {caller, Resetting(caller, "reset"), Resetting(caller, "parted")}
    BY <1>41 DEF KeysDone
  <2> QED BY <1>0, <2>1, ResettingFact DEF TablesOK, HolderInv, HolderOK
<1>42. ASSUME KeysDenied PROVE TablesOK'
  <2>1. /\ UNCHANGED points
        /\ caller' \in {caller, Resetting(caller, "reset"), Resetting(caller, "parted")}
    BY <1>42 DEF KeysDenied
  <2> QED BY <1>0, <2>1, ResettingFact DEF TablesOK, HolderInv, HolderOK
<1>43. ASSUME ProcessSkips PROVE TablesOK'
  <2>1. UNCHANGED caller /\ points' = [points EXCEPT ![reply.val].skip = @ - 1]
    BY <1>43 DEF ProcessSkips, cvars
  <2>2. reply.val \in DOMAIN points /\ points[reply.val].skip > 0
    BY <1>43 DEF ProcessSkips, SkipApplies
  <2> QED BY <1>0, <2>1, <2>2, SkippedFact DEF TablesOK
<1>44. ASSUME ProcessOneshot PROVE TablesOK'
    BY <1>44, <1>0 DEF ProcessOneshot, Ok, Answered, SkipApplies, Request, Release,
       hvars, lvars, cvars, evars, TablesOK
<1>45. ASSUME ProcessReports PROVE TablesOK'
  <2>1. caller' = Woken /\ points' \in {points, Without(points, plan.p)}
    BY <1>45 DEF ProcessReports, Report, _signal_stop
  <2> QED BY <1>0, <2>1, WokenFact, WithoutFact DEF TablesOK
<1>46. ASSUME RequestTimeout PROVE TablesOK'
  <2>1. points' = NoPoints BY <1>46 DEF RequestTimeout, Lost
  <2> DEFINE idle == [pc |-> "idle", saved |-> NoPoints]
  <2>2. PICK w : w = Parted(Woken) OBVIOUS
  <2>3. caller' \in {w, Resetting(w, "parted"), [w EXCEPT ![lock] = idle]}
    BY <1>46, <2>2 DEF RequestTimeout
  <2>4. w \in [Callers -> CallerType] BY <1>0, <2>2, SeenFact DEF Seen
  <2>5. idle \in CallerType BY <1>0 DEF CallerType
  <2>6. [w EXCEPT ![lock] = idle] \in [Callers -> CallerType] BY <2>4, <2>5
  <2>7. Resetting(w, "parted") \in [Callers -> CallerType]
    BY <1>0, <2>4, ResettingFact DEF HolderInv, HolderOK
  <2> QED BY <1>0, <2>1, <2>3, <2>4, <2>6, <2>7 DEF TablesOK
<1>47. ASSUME ProcessTimeout PROVE TablesOK'
  <2>1. points' \in {points, NoPoints} /\ caller' \in Seen
    BY <1>47 DEF Seen, ProcessTimeout, hvars, evars, cvars
  <2> QED BY <1>0, <2>1, NoPointsFact, SeenFact DEF TablesOK
<1>48. ASSUME ProcessStart PROVE TablesOK'
  <2>1. points' \in {points, NoPoints} /\ caller' \in Seen
    BY <1>48 DEF Seen, ProcessStart, Report, _signal_stop, hvars, evars, cvars
  <2> QED BY <1>0, <2>1, NoPointsFact, SeenFact DEF TablesOK
<1>49. ASSUME ReadStop PROVE TablesOK'
  <2>1. points' \in {points, NoPoints} /\ caller' \in Seen
    BY <1>49 DEF Seen, ReadStop, _signal_stop, hvars, evars, cvars
  <2> QED BY <1>0, <2>1, NoPointsFact, SeenFact DEF TablesOK
<1>50. ASSUME ReadReply PROVE TablesOK'
    BY <1>50, <1>0 DEF ReadReply, Incoming, hvars, lvars, cvars, evars, TablesOK
<1>51. ASSUME ReadClosed PROVE TablesOK'
  <2>1. points' \in {points, NoPoints} /\ caller' \in Seen
    BY <1>51 DEF Seen, ReadClosed, Lost, hvars, evars, cvars
  <2> QED BY <1>0, <2>1, NoPointsFact, SeenFact DEF TablesOK
<1>52. ASSUME Emulator PROVE TablesOK'
  <2>1. UNCHANGED <<points, caller>> BY <1>52, EmulatorFact DEF cvars
  <2> QED BY <1>0, <2>1 DEF TablesOK
<1>53. ASSUME UNCHANGED vars PROVE TablesOK'
    BY <1>0, <1>53 DEF vars, cvars, TablesOK
<1> QED
    BY <1>1, <1>2, <1>3, <1>4, <1>5, <1>6, <1>7, <1>8, <1>9, <1>10, <1>11, <1>12,
       <1>13, <1>14, <1>15, <1>16, <1>17, <1>18, <1>19, <1>20, <1>21, <1>22, <1>23,
       <1>24, <1>25, <1>26, <1>27, <1>28, <1>29, <1>30, <1>31, <1>32, <1>33, <1>34,
       <1>35, <1>36, <1>37, <1>38, <1>39, <1>40, <1>41, <1>42, <1>43, <1>44, <1>45,
       <1>46, <1>47, <1>48, <1>49, <1>50, <1>51, <1>52, <1>53, Zenon DEF Emulator,
       Next, Operations, ResetStep, HolderStep, ReaderStep, amiga_winuae_control,
       amiga_winuae_range_step, PointTools, amiga_winuae_checkpoint

LEMMA DetachedFact == Detached \in EmuType /\ ~Detached.session /\ Detached.points = {}
BY DEF Detached, EmuType

LEMMA EmuStepOK ==
    ASSUME TypeOK, HostTraffic \/ (Emulator /\ EmuTraffic),
           \A i \in 1..Len(toEmu) : toEmu[i].cmd \in {"Z", "z"} => toEmu[i].p \in Points
    PROVE  EmuOK'
<1>0. EmuOK /\ emu \in EmuType BY TypeParts DEF EmuOK
<1>1. CASE HostTraffic
  <2>1. \/ emu' = emu \/ emu' = Detached
        \/ \E cpu \in {"running", "stopped"} :
              emu' = [Detached EXCEPT !.session = TRUE, !.cpu = cpu]
    BY <1>1 DEF HostTraffic, Apart, Leaves, Asks, Opens, Loses, TakesStop, TakesReply, Local
  <2> QED BY <1>0, <2>1, DetachedFact DEF EmuOK, EmuType
<1>2. CASE UNCHANGED emu BY <1>0, <1>2 DEF EmuOK
<1>3. ASSUME EmuInsert PROVE EmuOK'
  <2>1. toEmu # <<>> /\ Head(toEmu).cmd = "Z" BY <1>3 DEF EmuInsert, Taken
  <2>2. 1 \in 1..Len(toEmu) /\ Head(toEmu) = toEmu[1] BY <2>1, TailFact DEF TypeOK
  <2>3. Head(toEmu).p \in Points BY <2>1, <2>2
  <2> QED BY <1>0, <1>3, <2>3 DEF EmuInsert, EmuOK, EmuType
<1>4. ASSUME EmuRemove PROVE EmuOK' BY <1>0, <1>4 DEF EmuRemove, EmuOK, EmuType
<1>5. ASSUME EmuRun PROVE EmuOK' BY <1>0, <1>5 DEF EmuRun, EmuOK, EmuType
<1>6. ASSUME EmuInterrupt PROVE EmuOK' BY <1>0, <1>6 DEF EmuInterrupt, EmuOK, EmuType
<1>7. ASSUME EmuStepOver PROVE EmuOK' BY <1>0, <1>7 DEF EmuStepOver, EmuOK, EmuType
<1>8. ASSUME EmuSave PROVE EmuOK' BY <1>0, <1>8 DEF EmuSave, EmuOK, EmuType
<1>9. ASSUME EmuRestore PROVE EmuOK' BY <1>0, <1>9 DEF EmuRestore, EmuOK, EmuType
<1>10. ASSUME EmuKeys PROVE EmuOK' BY <1>0, <1>10 DEF EmuKeys, EmuOK, EmuType
<1>11. ASSUME EmuDetach PROVE EmuOK' BY <1>0, <1>11 DEF EmuDetach, EmuOK, EmuType
<1>12. ASSUME EmuStop PROVE EmuOK'
  <2>1. \E at \in Execs \cup {NoPoint} : emu' = [emu EXCEPT !.cpu = "stopped", !.at = at]
    BY <1>12 DEF EmuStop
  <2> QED BY <1>0, <2>1 DEF EmuOK, EmuType
<1>13. ASSUME EmuReset \/ EmuDrop PROVE EmuOK'
  BY <1>13, DetachedFact DEF EmuReset, EmuDrop, Gone, EmuOK
<1>14. ASSUME GuiResume PROVE EmuOK' BY <1>0, <1>14 DEF GuiResume, EmuOK, EmuType
<1>15. ASSUME EmuHello \/ EmuStatus \/ EmuPc \/ EmuAnswer PROVE UNCHANGED emu
  BY <1>15 DEF EmuHello, EmuStatus, EmuPc, EmuAnswer
<1> QED
    BY <1>1, <1>2, <1>3, <1>4, <1>5, <1>6, <1>7, <1>8, <1>9, <1>10, <1>11, <1>12, <1>13,
       <1>14, <1>15, Zenon DEF Emulator, EmuCommand

LEMMA WireFact ==
    ASSUME NEW ph \in Phases \ {"none"} PROVE Wire(ph) \in Commands /\ Wire(ph) \notin Orders
BY DEF Wire, Phases, Commands, Orders

LEMMA WiresStep ==
    ASSUME TypeOK, Traffic, HolderInv'
    PROVE  WiresOK'
<1>0. WiresOK /\ toEmu \in Seq(PacketType) /\ toHost \in Seq(MessageType)
  BY TypeParts DEF WiresOK
<1>1. \A o \in Orders : Packet(o, NoPoint) \in PacketType
  BY DEF Orders, Packet, PacketType, Commands
<1>2. Sends => toEmu' \in Seq(PacketType) BY <1>0, <1>1 DEF Sends
<1>3. \A m \in MessageType : Append(toHost, m) \in Seq(MessageType) BY <1>0
<1>4. Eof \in MessageType /\ \A plain \in BOOLEAN : Stop(plain) \in MessageType
  BY DEF MessageType
<1>5. Replies \subseteq MessageType BY DEF MessageType
<1>6. CASE Apart \/ Leaves BY <1>0, <1>2, <1>6 DEF Apart, Leaves, Local, WiresOK
<1>7. CASE Asks
  <2>1. plan'.phase \in Phases \ {"none"} /\ plan'.p \in Points \cup {NoPoint}
    BY <1>7 DEF Asks, HolderInv, HolderOK, PlanInv, PlanType
  <2>2. Packet(Wire(plan'.phase), plan'.p) \in PacketType
    BY <2>1, WireFact DEF Packet, PacketType
  <2> QED BY <1>0, <1>7, <2>2 DEF Asks, Local, WiresOK
<1>8. CASE Opens
  <2>1. Packet("hello", NoPoint) \in PacketType BY DEF Packet, PacketType, Commands
  <2> QED BY <1>8, <2>1 DEF Opens, WiresOK
<1>9. CASE Loses BY <1>9 DEF Loses, WiresOK
<1>10. CASE TakesStop \/ TakesReply
  <2>1. toEmu' = toEmu /\ toHost' = Tail(toHost) /\ toHost # <<>>
    BY <1>10 DEF TakesStop, TakesReply
  <2> QED BY <1>0, <2>1, HeadFact DEF WiresOK
<1>11. CASE TakesOrder
  <2>1. toEmu' = Tail(toEmu) /\ toEmu # <<>> BY <1>11 DEF TakesOrder
  <2>2. toEmu' \in Seq(PacketType) BY <1>0, <2>1, HeadFact
  <2> QED BY <1>0, <1>3, <1>4, <1>11, <2>2 DEF TakesOrder, WiresOK
<1>12. CASE TakesRequest
  <2>1. toEmu' = Tail(toEmu) /\ toEmu # <<>> BY <1>12 DEF TakesRequest
  <2>2. toEmu' \in Seq(PacketType) BY <1>0, <2>1, HeadFact
  <2>3. PICK r \in Replies :
           \/ toHost' = Append(toHost, r)
           \/ \E plain \in BOOLEAN : toHost' = Append(Append(toHost, Stop(plain)), r)
    BY <1>12 DEF TakesRequest
  <2>4. r \in MessageType BY <1>5
  <2>5. \A plain \in BOOLEAN : Append(Append(toHost, Stop(plain)), r) \in Seq(MessageType)
    BY <1>3, <1>4, <2>4
  <2>6. toHost' \in Seq(MessageType) BY <1>3, <2>3, <2>4, <2>5
  <2> QED BY <2>2, <2>6 DEF WiresOK
<1>13. CASE Emits BY <1>0, <1>3, <1>4, <1>13 DEF Emits, WiresOK
<1>14. CASE Leaving BY <1>0, <1>3, <1>4, <1>14 DEF Leaving, WiresOK
<1> QED
    BY <1>6, <1>7, <1>8, <1>9, <1>10, <1>11, <1>12, <1>13, <1>14
    DEF Traffic, HostTraffic, EmuTraffic

-----------------------------------------------------------------------------
(* The invariant of the exchange.                                          *)

\* A watch is forgotten by a reset that rearms, and all are with the session or by a
\* restore.
LEMMA ForgottenFact ==
    ASSUME [Next]_vars
    PROVE  UNCHANGED forgotten \/ forgotten' = {} \/ \E c \in Callers : ResetRearm(c)
<1> DEFINE Goal == \/ UNCHANGED forgotten \/ forgotten' = {}
                   \/ \E c \in Callers : ResetRearm(c)
<1>1. ASSUME NEW c \in Callers, amiga_winuae_control(c) PROVE Goal
  BY <1>1, Zenon
  DEF amiga_winuae_control, Connect, Open, ConnectRefused, Disconnect, Status, Resume, Step,
      step_over, Pause, wait_stopped, WaitTimeout, Reset, ResetGivesUp
<1>2. ASSUME NEW c \in Callers, range_step(c) \/ Add(c) \/ Remove(c) PROVE Goal
  BY <1>2, Zenon DEF range_step, Add, Remove
<1>3. ASSUME NEW c \in Callers, InspectionTools(c) PROVE Goal
  BY <1>3, InspectionMoves, Zenon DEF Ask
<1>4. ASSUME NEW c \in Callers, amiga_winuae_checkpoint(c) PROVE Goal
  BY <1>4, Zenon DEF amiga_winuae_checkpoint, CheckpointSave, CheckpointRestore
<1>5. ASSUME NEW c \in Callers, ResetSeen(c) \/ ResetReconnect(c) \/ ResetResume(c) PROVE Goal
  BY <1>5, Zenon DEF ResetSeen, ResetReconnect, Open, ResetResume
<1>6. ASSUME HelloDone \/ HelloDenied \/ ExecutionDone \/ ByeDone \/ StepOverDone
             \/ StepOverDenied \/ RangeStepDone
      PROVE  Goal
  BY <1>6, Zenon DEF HelloDone, HelloDenied, ExecutionDone, ByeDone, StepOverDone,
     StepOverDenied, RangeStepDone, Lost
<1>7. ASSUME AddDone \/ RemoveDone \/ SequenceDone \/ AskMore \/ AskDone PROVE Goal
  BY <1>7, Zenon DEF AddDone, RemoveDone, SequenceDone, AskMore, AskDone
<1>8. ASSUME LiftDone \/ SaveDone \/ PutBackDone \/ RestoreDone \/ ArmDone \/ ArmDenied
      PROVE  Goal
  BY <1>8, Zenon DEF LiftDone, SaveDone, PutBackDone, RestoreDone, ArmDone, ArmDenied
<1>9. ASSUME KeysDone \/ KeysDenied \/ ProcessSkips \/ ProcessOneshot \/ ProcessReports
             \/ RequestTimeout \/ ProcessTimeout
      PROVE  Goal
  BY <1>9, Zenon DEF KeysDone, KeysDenied, ProcessSkips, ProcessOneshot, ProcessReports,
     RequestTimeout, ProcessTimeout, Lost
<1>10. ASSUME ProcessStart \/ ReaderStep PROVE Goal
  BY <1>10, Zenon DEF ProcessStart, ReaderStep, ReadStop, ReadReply, ReadClosed, Lost
<1>11. ASSUME Emulator PROVE Goal BY <1>11, EmulatorFact
<1>12. CASE UNCHANGED vars BY <1>12 DEF vars
<1>13. ASSUME NEW c \in Callers, ResetRearm(c) PROVE Goal BY <1>13
<1> HIDE DEF Goal
<1>14. ASSUME HolderStep PROVE Goal BY <1>6, <1>7, <1>8, <1>9, <1>14 DEF HolderStep
<1>15. ASSUME NEW c \in Callers, Operations(c) \/ ResetStep(c) PROVE Goal
  BY <1>1, <1>2, <1>3, <1>4, <1>5, <1>13, <1>15
  DEF Operations, ResetStep, amiga_winuae_range_step, PointTools
<1>16. ASSUME Next PROVE Goal BY <1>10, <1>11, <1>14, <1>15, <1>16, Zenon DEF Next, Emulator
<1> QED BY <1>12, <1>16 DEF Goal

ReplyInv ==
    /\ TypeOK /\ PlanInv /\ ExchangeInv /\ ClosedInv /\ ResolvedInv
    /\ AnswersInv /\ RepliesAreOwn

LEMMA ReplyInit == Init => ReplyInv
<1> SUFFICES ASSUME Init PROVE ReplyInv OBVIOUS
<1>0. MaxCalls \in Nat /\ MaxDrops \in Nat /\ MaxGui \in Nat OBVIOUS
<1>a. FlagsOK BY DEF Init, FlagsOK
<1>b. processing = 0 /\ calls = 0 /\ faults = [drops |-> 0, gui |-> 0] BY DEF Init
<1>1. CountsOK BY <1>0, <1>b DEF CountsOK
<1>2. HolderInv BY IdleFact DEF Init, HolderInv, HolderOK, PlanInv, Wire
<1>3. TablesOK /\ ForgottenOK BY NoPointsFact DEF Init, TablesOK, ForgottenOK, CallerType
<1>4. EmuOK /\ WiresOK BY DetachedFact DEF Init, EmuOK, WiresOK
<1>5. ExchangeInv BY DEF Init, ExchangeInv
<1>6. ClosedInv BY DetachedFact DEF Init, ClosedInv, Quiet
<1>7. ResolvedInv /\ RepliesAreOwn BY KindsDiffer DEF Init, ResolvedInv, RepliesAreOwn, IsReply
<1>8. AnswersInv BY KindsDiffer DEF Init, AnswersInv
<1> QED
    BY <1>a, <1>1, <1>2, <1>3, <1>4, <1>5, <1>6, <1>7, <1>8, TypeParts DEF ReplyInv, HolderInv

LEMMA ReplyStep == ReplyInv /\ [Next]_vars => ReplyInv'
<1> SUFFICES ASSUME ReplyInv, [Next]_vars PROVE ReplyInv' OBVIOUS
<1> USE DEF ReplyInv
<1>1. HostTraffic \/ (Emulator /\ EmuTraffic) BY StepTraffic
<1>2. Traffic BY <1>1 DEF Traffic
<1>3. HolderInv' BY HolderStepOK
<1>4. FlagsOK' /\ CountsOK' /\ TablesOK' BY FlagsStep, CountsStep, TablesStep
<1>5. WiresOK' BY <1>2, <1>3, WiresStep
<1>6. \A i \in 1..Len(toEmu) : toEmu[i].cmd \in {"Z", "z"} => toEmu[i].p \in Points
  BY DEF ExchangeInv, Outstanding, PlanInv, IsRequest, Orders
<1>7. EmuOK' BY <1>1, <1>6, EmuStepOK
<1>8. ExchangeInv' BY <1>2, ExchangeStep
<1>9. ClosedInv' BY <1>2, ClosedStep
<1>10. ResolvedInv' BY <1>2, ResolvedStep
<1>11. AnswersInv' BY <1>2, AnswersStep
<1>12. RepliesAreOwn' BY <1>2, OwnStep
<1>13. ForgottenOK'
  <2>1. CASE forgotten' \in {forgotten, {}} BY <2>1 DEF TypeOK, ForgottenOK
  <2>2. ASSUME NEW c \in Callers, ResetRearm(c) PROVE ForgottenOK'
    <3>1. forgotten' = forgotten \cup (DOMAIN points \cap Watches) BY <2>2, Zenon DEF ResetRearm
    <3> QED BY <3>1 DEF TypeOK, ForgottenOK
  <2> QED BY <2>1, <2>2, ForgottenFact
<1>14. TypeOK'
  BY <1>3, <1>4, <1>5, <1>7, <1>13
  DEF HolderInv, TypeOK, FlagsOK, CountsOK, HolderOK, TablesOK, ForgottenOK, EmuOK, WiresOK,
      PlanType, CallerType, EmuType, PacketType, MessageType
<1> QED BY <1>3, <1>8, <1>9, <1>10, <1>11, <1>12, <1>14 DEF HolderInv

LEMMA ReplyAlways == Spec => []ReplyInv
BY ReplyInit, ReplyStep, PTL DEF Spec

\* The state of the session, of its connection and of WinUAE keeps its types.
THEOREM TypeCorrect == Spec => []TypeOK
<1>1. ReplyInv => TypeOK BY DEF ReplyInv
<1> QED BY <1>1, ReplyAlways, PTL

\* winuae_debug.py's reader resolves the future of a request with the answer to that
\* request: neither a stop that WinUAE reports in between nor the late answer to an
\* earlier request takes its place, whoever calls and whatever is lost on the way.
THEOREM OwnReplies == Spec => []RepliesAreOwn
<1>1. ReplyInv => RepliesAreOwn BY DEF ReplyInv
<1> QED BY <1>1, ReplyAlways, PTL
-----------------------------------------------------------------------------
(* Points that WinUAE refuses.                                             *)

PointsAccepted == DOMAIN points \cap Refused = {}
PlanAccepted == plan.phase \in {"arm", "keys"} => DOMAIN plan.kept \cap Refused = {}
SavedAccepted == \A c \in Callers : DOMAIN caller[c].saved \cap Refused = {}

LEMMA AcceptedParts == AcceptedInv <=> PointsAccepted /\ PlanAccepted /\ SavedAccepted
BY DEF AcceptedInv, PointsAccepted, PlanAccepted, SavedAccepted

\* The answer that a plan has got.
LEMMA OkFact ==
    ASSUME ReplyInv, NEW ph, Ok(ph)
    PROVE  /\ plan.phase = ph /\ lock # NoOne /\ reply.cmd = Wire(ph) /\ reply.p = plan.p
           /\ Truthful(reply) /\ reply.ok /\ IsReply(reply) /\ reply # NoReply
<1>1. plan.phase = ph /\ reply # NoReply /\ reply.kind = "reply" /\ reply.ok
  BY DEF Ok, Answered
<1> QED BY <1>1 DEF ReplyInv, RepliesAreOwn, AnswersInv, IsReply, PlanInv

LEMMA DeniedFact ==
    ASSUME ReplyInv, NEW ph, Denied(ph), connected
    PROVE  /\ plan.phase = ph /\ lock # NoOne /\ reply.cmd = Wire(ph) /\ reply.p = plan.p
           /\ Truthful(reply) /\ ~reply.ok /\ IsReply(reply) /\ reply # NoReply
<1>1. plan.phase = ph /\ reply # NoReply /\ ~(reply.kind = "reply" /\ reply.ok)
  BY DEF Denied, Answered
<1>2. reply \in Replies \cup {NoReply, Closed} BY DEF ReplyInv, TypeOK
<1>3. reply \in Replies BY <1>1, <1>2 DEF ReplyInv, ResolvedInv
<1>4. reply.kind = "reply" BY <1>3 DEF Replies
<1> QED BY <1>1, <1>4 DEF ReplyInv, RepliesAreOwn, AnswersInv, IsReply, PlanInv

LEMMA BeginsAccepted ==
    ASSUME NEW who, NEW ph, NEW q, NEW left, NEW kept, Begins(who, ph, q, left, kept),
           ph \in {"arm", "keys"} => DOMAIN kept \cap Refused = {}
    PROVE  PlanAccepted'
<1>1. plan'.phase = ph /\ plan'.kept = kept BY DEF Begins, Plan
<1> QED BY <1>1 DEF PlanAccepted

LEMMA GoesOnAccepted ==
    ASSUME NEW ph, NEW q, NEW left, NEW lifted, NEW kept, NEW ok,
           GoesOn(ph, q, left, lifted, kept, ok),
           ph \in {"arm", "keys"} => DOMAIN kept \cap Refused = {}
    PROVE  PlanAccepted'
<1>1. plan'.phase = ph /\ plan'.kept = kept BY DEF GoesOn, Plan
<1> QED BY <1>1 DEF PlanAccepted

LEMMA ReleaseAccepted == ASSUME Release PROVE PlanAccepted'
BY IdleFact DEF Release, PlanAccepted

LEMMA PlanKeptAccepted == ASSUME PlanAccepted, UNCHANGED plan PROVE PlanAccepted'
BY DEF PlanAccepted

LEMMA PointsAcceptedStep ==
    ASSUME ReplyInv, AcceptedInv, [Next]_vars
    PROVE  PointsAccepted'
<1>0. PointsAccepted /\ points \in Tables /\ ReplyInv BY AcceptedParts DEF ReplyInv, TypeOK
<1>1. ASSUME NEW c \in Callers, Connect(c) PROVE PointsAccepted'
  <2>1. points' \in {points, NoPoints} BY <1>1 DEF Connect, Open
  <2> QED BY <1>0, <2>1, NoPointsFact DEF PointsAccepted
<1>2. ASSUME NEW c \in Callers, ConnectRefused(c) PROVE PointsAccepted'
  <2>1. points' \in {points, NoPoints} BY <1>2 DEF ConnectRefused
  <2> QED BY <1>0, <2>1, NoPointsFact DEF PointsAccepted
<1>3. ASSUME NEW c \in Callers, Disconnect(c) PROVE PointsAccepted'
  <2>1. points' \in {points, NoPoints} BY <1>3 DEF Disconnect
  <2> QED BY <1>0, <2>1, NoPointsFact DEF PointsAccepted
<1>4. ASSUME NEW c \in Callers, Status(c) PROVE PointsAccepted'
  <2>1. points' \in {points, NoPoints} BY <1>4 DEF Status
  <2> QED BY <1>0, <2>1, NoPointsFact DEF PointsAccepted
<1>5. ASSUME NEW c \in Callers, Resume(c) PROVE PointsAccepted'
  <2>1. points' \in {points, NoPoints} BY <1>5 DEF Resume
  <2> QED BY <1>0, <2>1, NoPointsFact DEF PointsAccepted
<1>6. ASSUME NEW c \in Callers, Step(c) PROVE PointsAccepted'
  <2>1. points' \in {points, NoPoints} BY <1>6 DEF Step
  <2> QED BY <1>0, <2>1, NoPointsFact DEF PointsAccepted
<1>7. ASSUME NEW c \in Callers, step_over(c) PROVE PointsAccepted'
  <2>1. points' \in {points, NoPoints} BY <1>7 DEF step_over
  <2> QED BY <1>0, <2>1, NoPointsFact DEF PointsAccepted
<1>8. ASSUME NEW c \in Callers, Pause(c) PROVE PointsAccepted'
  <2>1. points' \in {points, NoPoints} BY <1>8 DEF Pause
  <2> QED BY <1>0, <2>1, NoPointsFact DEF PointsAccepted
<1>9. ASSUME NEW c \in Callers, wait_stopped(c) PROVE PointsAccepted'
  <2>1. points' \in {points, NoPoints} BY <1>9 DEF wait_stopped
  <2> QED BY <1>0, <2>1, NoPointsFact DEF PointsAccepted
<1>10. ASSUME NEW c \in Callers, WaitTimeout(c) PROVE PointsAccepted'
  <2>1. points' \in {points, NoPoints} BY <1>10 DEF WaitTimeout
  <2> QED BY <1>0, <2>1, NoPointsFact DEF PointsAccepted
<1>11. ASSUME NEW c \in Callers, Reset(c) PROVE PointsAccepted'
  <2>1. points' \in {points, NoPoints} BY <1>11 DEF Reset
  <2> QED BY <1>0, <2>1, NoPointsFact DEF PointsAccepted
<1>12. ASSUME NEW c \in Callers, ResetGivesUp(c) PROVE PointsAccepted'
  <2>1. points' \in {points, NoPoints} BY <1>12 DEF ResetGivesUp
  <2> QED BY <1>0, <2>1, NoPointsFact DEF PointsAccepted
<1>13. ASSUME NEW c \in Callers, range_step(c) PROVE PointsAccepted'
  <2>1. points' \in {points, NoPoints} BY <1>13 DEF range_step
  <2> QED BY <1>0, <2>1, NoPointsFact DEF PointsAccepted
<1>14. ASSUME NEW c \in Callers, Add(c) PROVE PointsAccepted'
  <2>1. PICK q \in Points, a \in Attr :
           points' = points \/ (q \in DOMAIN points /\ points' = With(points, q, a))
    BY <1>14 DEF Add
  <2>2. DOMAIN With(points, q, a) = DOMAIN points \cup {q} BY <1>0, WithFact
  <2> QED BY <1>0, <2>1, <2>2 DEF PointsAccepted
<1>15. ASSUME NEW c \in Callers, Remove(c) PROVE PointsAccepted'
  <2>1. points' \in {points, NoPoints} BY <1>15 DEF Remove
  <2> QED BY <1>0, <2>1, NoPointsFact DEF PointsAccepted
<1>16. ASSUME NEW c \in Callers, InspectionTools(c) PROVE PointsAccepted'
  <2>1. points' \in {points, NoPoints}
    BY <1>16 DEF InspectionTools, InspectionTools, registers_and_memory, chipset, diagnostics,
       hunk_load, symbol_read, input, Ask
  <2> QED BY <1>0, <2>1, NoPointsFact DEF PointsAccepted
<1>17. ASSUME NEW c \in Callers, CheckpointSave(c) PROVE PointsAccepted'
  <2>1. points' \in {points, NoPoints} BY <1>17 DEF CheckpointSave
  <2> QED BY <1>0, <2>1, NoPointsFact DEF PointsAccepted
<1>18. ASSUME NEW c \in Callers, CheckpointRestore(c) PROVE PointsAccepted'
  <2>1. points' \in {points, NoPoints} BY <1>18 DEF CheckpointRestore
  <2> QED BY <1>0, <2>1, NoPointsFact DEF PointsAccepted
<1>19. ASSUME NEW c \in Callers, ResetSeen(c) PROVE PointsAccepted'
  <2>1. points' \in {points, NoPoints} BY <1>19 DEF ResetSeen
  <2> QED BY <1>0, <2>1, NoPointsFact DEF PointsAccepted
<1>20. ASSUME NEW c \in Callers, ResetReconnect(c) PROVE PointsAccepted'
  <2>1. points' \in {points, NoPoints} BY <1>20 DEF ResetReconnect, Open
  <2> QED BY <1>0, <2>1, NoPointsFact DEF PointsAccepted
<1>21. ASSUME NEW c \in Callers, ResetRearm(c) PROVE PointsAccepted'
  <2>1. points' \in {points, NoPoints} BY <1>21 DEF ResetRearm
  <2> QED BY <1>0, <2>1, NoPointsFact DEF PointsAccepted
<1>22. ASSUME NEW c \in Callers, ResetResume(c) PROVE PointsAccepted'
  <2>1. points' \in {points, NoPoints} BY <1>22 DEF ResetResume
  <2> QED BY <1>0, <2>1, NoPointsFact DEF PointsAccepted
<1>23. ASSUME HelloDone PROVE PointsAccepted'
  <2>1. points' \in {points, NoPoints} BY <1>23 DEF HelloDone
  <2> QED BY <1>0, <2>1, NoPointsFact DEF PointsAccepted
<1>24. ASSUME HelloDenied PROVE PointsAccepted'
  <2>1. points' \in {points, NoPoints} BY <1>24 DEF HelloDenied, Lost
  <2> QED BY <1>0, <2>1, NoPointsFact DEF PointsAccepted
<1>25. ASSUME ExecutionDone PROVE PointsAccepted'
  <2>1. points' \in {points, NoPoints} BY <1>25 DEF ExecutionDone
  <2> QED BY <1>0, <2>1, NoPointsFact DEF PointsAccepted
<1>26. ASSUME ByeDone PROVE PointsAccepted'
  <2>1. points' \in {points, NoPoints} BY <1>26 DEF ByeDone, Lost
  <2> QED BY <1>0, <2>1, NoPointsFact DEF PointsAccepted
<1>27. ASSUME StepOverDone PROVE PointsAccepted'
  <2>1. points' \in {points, NoPoints} BY <1>27 DEF StepOverDone
  <2> QED BY <1>0, <2>1, NoPointsFact DEF PointsAccepted
<1>28. ASSUME StepOverDenied PROVE PointsAccepted'
  <2>1. points' \in {points, NoPoints} BY <1>28 DEF StepOverDenied
  <2> QED BY <1>0, <2>1, NoPointsFact DEF PointsAccepted
<1>29. ASSUME RangeStepDone PROVE PointsAccepted'
  <2>1. points' \in {points, NoPoints} BY <1>29 DEF RangeStepDone
  <2> QED BY <1>0, <2>1, NoPointsFact DEF PointsAccepted
<1>30. ASSUME AddDone PROVE PointsAccepted'
  <2>1. points' = With(points, plan.p, plan.kept[plan.p]) BY <1>30 DEF AddDone
  <2>2. Ok("set") BY <1>30 DEF AddDone
  <2>3. plan.p \notin Refused /\ plan.phase = "set"
    BY <1>0, <2>2, OkFact DEF Truthful, Wire
  <2>4. DOMAIN points' = DOMAIN points \cup {plan.p} BY <2>1 DEF With
  <2> QED BY <1>0, <2>3, <2>4 DEF PointsAccepted
<1>31. ASSUME RemoveDone PROVE PointsAccepted'
  <2>1. points' \in {points, Without(points, plan.p)} BY <1>31 DEF RemoveDone
  <2>2. DOMAIN Without(points, plan.p) = DOMAIN points \ {plan.p} BY DEF Without
  <2> QED BY <1>0, <2>1, <2>2 DEF PointsAccepted
<1>32. ASSUME SequenceDone PROVE PointsAccepted'
  <2>1. points' \in {points, NoPoints} BY <1>32 DEF SequenceDone
  <2> QED BY <1>0, <2>1, NoPointsFact DEF PointsAccepted
<1>33. ASSUME AskMore PROVE PointsAccepted'
  <2>1. points' \in {points, NoPoints} BY <1>33 DEF AskMore
  <2> QED BY <1>0, <2>1, NoPointsFact DEF PointsAccepted
<1>34. ASSUME AskDone PROVE PointsAccepted'
  <2>1. points' \in {points, NoPoints} BY <1>34 DEF AskDone
  <2> QED BY <1>0, <2>1, NoPointsFact DEF PointsAccepted
<1>35. ASSUME LiftDone PROVE PointsAccepted'
  <2>1. points' \in {points, NoPoints} BY <1>35 DEF LiftDone
  <2> QED BY <1>0, <2>1, NoPointsFact DEF PointsAccepted
<1>36. ASSUME SaveDone PROVE PointsAccepted'
  <2>1. points' \in {points, NoPoints} BY <1>36 DEF SaveDone
  <2> QED BY <1>0, <2>1, NoPointsFact DEF PointsAccepted
<1>37. ASSUME PutBackDone PROVE PointsAccepted'
  <2>1. points' \in {points, NoPoints} BY <1>37 DEF PutBackDone
  <2> QED BY <1>0, <2>1, NoPointsFact DEF PointsAccepted
<1>38. ASSUME RestoreDone PROVE PointsAccepted'
  <2>1. points' \in {points, NoPoints} BY <1>38 DEF RestoreDone, Rearm
  <2> QED BY <1>0, <2>1, NoPointsFact DEF PointsAccepted
<1>39. ASSUME ArmDone PROVE PointsAccepted'
  <2>1. points' = With(points, plan.p, plan.kept[plan.p]) BY <1>39 DEF ArmDone
  <2>2. Ok("arm") BY <1>39 DEF ArmDone
  <2>3. plan.p \notin Refused /\ plan.phase = "arm"
    BY <1>0, <2>2, OkFact DEF Truthful, Wire
  <2>4. DOMAIN points' = DOMAIN points \cup {plan.p} BY <2>1 DEF With
  <2> QED BY <1>0, <2>3, <2>4 DEF PointsAccepted
<1>40. ASSUME ArmDenied PROVE PointsAccepted'
  <2>1. points' \in {points, NoPoints} BY <1>40 DEF ArmDenied
  <2> QED BY <1>0, <2>1, NoPointsFact DEF PointsAccepted
<1>41. ASSUME KeysDone PROVE PointsAccepted'
  <2>1. points' \in {points, NoPoints} BY <1>41 DEF KeysDone
  <2> QED BY <1>0, <2>1, NoPointsFact DEF PointsAccepted
<1>42. ASSUME KeysDenied PROVE PointsAccepted'
  <2>1. points' \in {points, NoPoints} BY <1>42 DEF KeysDenied
  <2> QED BY <1>0, <2>1, NoPointsFact DEF PointsAccepted
<1>43. ASSUME ProcessSkips PROVE PointsAccepted'
  <2>1. DOMAIN points' = DOMAIN points BY <1>43 DEF ProcessSkips
  <2> QED BY <1>0, <2>1 DEF PointsAccepted
<1>44. ASSUME ProcessOneshot PROVE PointsAccepted'
  <2>1. points' \in {points, NoPoints} BY <1>44 DEF ProcessOneshot
  <2> QED BY <1>0, <2>1, NoPointsFact DEF PointsAccepted
<1>45. ASSUME ProcessReports PROVE PointsAccepted'
  <2>1. points' \in {points, Without(points, plan.p)} BY <1>45 DEF ProcessReports
  <2>2. DOMAIN Without(points, plan.p) = DOMAIN points \ {plan.p} BY DEF Without
  <2> QED BY <1>0, <2>1, <2>2 DEF PointsAccepted
<1>46. ASSUME RequestTimeout PROVE PointsAccepted'
  <2>1. points' \in {points, NoPoints} BY <1>46 DEF RequestTimeout, Lost
  <2> QED BY <1>0, <2>1, NoPointsFact DEF PointsAccepted
<1>47. ASSUME ProcessTimeout PROVE PointsAccepted'
  <2>1. points' \in {points, NoPoints} BY <1>47 DEF ProcessTimeout
  <2> QED BY <1>0, <2>1, NoPointsFact DEF PointsAccepted
<1>48. ASSUME ProcessStart PROVE PointsAccepted'
  <2>1. points' \in {points, NoPoints} BY <1>48 DEF ProcessStart
  <2> QED BY <1>0, <2>1, NoPointsFact DEF PointsAccepted
<1>49. ASSUME ReadStop PROVE PointsAccepted'
  <2>1. points' \in {points, NoPoints} BY <1>49 DEF ReadStop
  <2> QED BY <1>0, <2>1, NoPointsFact DEF PointsAccepted
<1>50. ASSUME ReadReply PROVE PointsAccepted'
  <2>1. points' \in {points, NoPoints} BY <1>50 DEF ReadReply
  <2> QED BY <1>0, <2>1, NoPointsFact DEF PointsAccepted
<1>51. ASSUME ReadClosed PROVE PointsAccepted'
  <2>1. points' \in {points, NoPoints} BY <1>51 DEF ReadClosed, Lost
  <2> QED BY <1>0, <2>1, NoPointsFact DEF PointsAccepted
<1>52. ASSUME Emulator PROVE PointsAccepted'
  <2>1. UNCHANGED points BY <1>52, EmulatorFact
  <2> QED BY <1>0, <2>1 DEF PointsAccepted
<1>53. ASSUME UNCHANGED vars PROVE PointsAccepted'
    BY <1>0, <1>53 DEF vars, PointsAccepted
<1> QED
    BY <1>1, <1>2, <1>3, <1>4, <1>5, <1>6, <1>7, <1>8, <1>9, <1>10, <1>11, <1>12,
       <1>13, <1>14, <1>15, <1>16, <1>17, <1>18, <1>19, <1>20, <1>21, <1>22, <1>23,
       <1>24, <1>25, <1>26, <1>27, <1>28, <1>29, <1>30, <1>31, <1>32, <1>33, <1>34,
       <1>35, <1>36, <1>37, <1>38, <1>39, <1>40, <1>41, <1>42, <1>43, <1>44, <1>45,
       <1>46, <1>47, <1>48, <1>49, <1>50, <1>51, <1>52, <1>53, Zenon DEF Emulator,
       Next, Operations, ResetStep, HolderStep, ReaderStep, amiga_winuae_control,
       amiga_winuae_range_step, PointTools, amiga_winuae_checkpoint

LEMMA SavedAcceptedStep ==
    ASSUME ReplyInv, AcceptedInv, [Next]_vars
    PROVE  SavedAccepted'
<1>0. SavedAccepted /\ PlanAccepted /\ caller \in [Callers -> CallerType]
    BY AcceptedParts, TypeParts DEF ReplyInv, TablesOK
<1>1. ASSUME NEW c \in Callers, Connect(c) PROVE SavedAccepted'
  <2>1. UNCHANGED caller BY <1>1 DEF Connect, cvars
  <2> QED BY <1>0, <2>1 DEF SavedAccepted
<1>2. ASSUME NEW c \in Callers, ConnectRefused(c) PROVE SavedAccepted'
  <2>1. UNCHANGED caller BY <1>2 DEF ConnectRefused, cvars
  <2> QED BY <1>0, <2>1 DEF SavedAccepted
<1>3. ASSUME NEW c \in Callers, Disconnect(c) PROVE SavedAccepted'
  <2>1. UNCHANGED caller BY <1>3 DEF Disconnect, cvars
  <2> QED BY <1>0, <2>1 DEF SavedAccepted
<1>4. ASSUME NEW c \in Callers, Status(c) PROVE SavedAccepted'
  <2>1. UNCHANGED caller BY <1>4 DEF Status, cvars
  <2> QED BY <1>0, <2>1 DEF SavedAccepted
<1>5. ASSUME NEW c \in Callers, Resume(c) PROVE SavedAccepted'
  <2>1. UNCHANGED caller BY <1>5 DEF Resume, cvars
  <2> QED BY <1>0, <2>1 DEF SavedAccepted
<1>6. ASSUME NEW c \in Callers, Step(c) PROVE SavedAccepted'
  <2>1. UNCHANGED caller BY <1>6 DEF Step, cvars
  <2> QED BY <1>0, <2>1 DEF SavedAccepted
<1>7. ASSUME NEW c \in Callers, step_over(c) PROVE SavedAccepted'
  <2>1. UNCHANGED caller BY <1>7 DEF step_over, cvars
  <2> QED BY <1>0, <2>1 DEF SavedAccepted
<1>8. ASSUME NEW c \in Callers, Pause(c) PROVE SavedAccepted'
  <2>1. \A d \in Callers : caller'[d].saved \in {caller[d].saved, NoPoints}
    BY <1>0, <1>8 DEF Pause, CallerType
  <2> QED BY <1>0, <2>1, NoPointsFact DEF SavedAccepted
<1>9. ASSUME NEW c \in Callers, wait_stopped(c) PROVE SavedAccepted'
  <2>1. \A d \in Callers : caller'[d].saved \in {caller[d].saved, NoPoints}
    BY <1>0, <1>9 DEF wait_stopped, CallerType
  <2> QED BY <1>0, <2>1, NoPointsFact DEF SavedAccepted
<1>10. ASSUME NEW c \in Callers, WaitTimeout(c) PROVE SavedAccepted'
  <2>1. \A d \in Callers : caller'[d].saved \in {caller[d].saved, NoPoints}
    BY <1>0, <1>10 DEF WaitTimeout, CallerType
  <2> QED BY <1>0, <2>1, NoPointsFact DEF SavedAccepted
<1>11. ASSUME NEW c \in Callers, Reset(c) PROVE SavedAccepted'
  <2>1. UNCHANGED caller BY <1>11 DEF Reset, cvars
  <2> QED BY <1>0, <2>1 DEF SavedAccepted
<1>12. ASSUME NEW c \in Callers, ResetGivesUp(c) PROVE SavedAccepted'
  <2>1. \A d \in Callers : caller'[d].saved \in {caller[d].saved, NoPoints}
    BY <1>0, <1>12 DEF ResetGivesUp, CallerType
  <2> QED BY <1>0, <2>1, NoPointsFact DEF SavedAccepted
<1>13. ASSUME NEW c \in Callers, range_step(c) PROVE SavedAccepted'
  <2>1. UNCHANGED caller BY <1>13 DEF range_step, cvars
  <2> QED BY <1>0, <2>1 DEF SavedAccepted
<1>14. ASSUME NEW c \in Callers, Add(c) PROVE SavedAccepted'
  <2>1. UNCHANGED caller BY <1>14 DEF Add, cvars
  <2> QED BY <1>0, <2>1 DEF SavedAccepted
<1>15. ASSUME NEW c \in Callers, Remove(c) PROVE SavedAccepted'
  <2>1. UNCHANGED caller BY <1>15 DEF Remove, cvars
  <2> QED BY <1>0, <2>1 DEF SavedAccepted
<1>16. ASSUME NEW c \in Callers, InspectionTools(c) PROVE SavedAccepted'
  <2>1. UNCHANGED caller
    BY <1>16 DEF InspectionTools, cvars, InspectionTools, registers_and_memory, chipset,
       diagnostics, hunk_load, symbol_read, input, Ask
  <2> QED BY <1>0, <2>1 DEF SavedAccepted
<1>17. ASSUME NEW c \in Callers, CheckpointSave(c) PROVE SavedAccepted'
  <2>1. UNCHANGED caller BY <1>17 DEF CheckpointSave, cvars
  <2> QED BY <1>0, <2>1 DEF SavedAccepted
<1>18. ASSUME NEW c \in Callers, CheckpointRestore(c) PROVE SavedAccepted'
  <2>1. UNCHANGED caller BY <1>18 DEF CheckpointRestore, cvars
  <2> QED BY <1>0, <2>1 DEF SavedAccepted
<1>19. ASSUME NEW c \in Callers, ResetSeen(c) PROVE SavedAccepted'
  <2>1. \A d \in Callers : caller'[d].saved \in {caller[d].saved, NoPoints}
    BY <1>0, <1>19 DEF ResetSeen, CallerType
  <2> QED BY <1>0, <2>1, NoPointsFact DEF SavedAccepted
<1>20. ASSUME NEW c \in Callers, ResetReconnect(c) PROVE SavedAccepted'
  <2>1. \A d \in Callers : caller'[d].saved \in {caller[d].saved, NoPoints}
    BY <1>0, <1>20 DEF ResetReconnect, CallerType
  <2> QED BY <1>0, <2>1, NoPointsFact DEF SavedAccepted
<1>21. ASSUME NEW c \in Callers, ResetRearm(c) PROVE SavedAccepted'
  <2>1. PICK w : w = Parted(caller) OBVIOUS
  <2>2. /\ w \in [Callers -> CallerType]
        /\ \A d \in Callers : w[d].saved = caller[d].saved
    BY <1>0, <2>1, PartedFact
  <2>3. \/ caller' \in {w, [w EXCEPT ![c].pc = "resume"]}
        \/ caller' = [w EXCEPT ![c] = [pc |-> "idle", saved |-> NoPoints]]
    BY <1>21, <2>1 DEF ResetRearm
  <2>4. CASE caller' = [w EXCEPT ![c].pc = "resume"]
    <3>1. \A d \in Callers : caller'[d].saved = w[d].saved BY <2>2, <2>4 DEF CallerType
    <3> QED BY <1>0, <2>2, <3>1 DEF SavedAccepted
  <2> QED BY <1>0, <2>2, <2>3, <2>4, NoPointsFact DEF SavedAccepted
<1>22. ASSUME NEW c \in Callers, ResetResume(c) PROVE SavedAccepted'
  <2>1. \A d \in Callers : caller'[d].saved \in {caller[d].saved, NoPoints}
    BY <1>0, <1>22 DEF ResetResume, CallerType
  <2> QED BY <1>0, <2>1, NoPointsFact DEF SavedAccepted
<1>23. ASSUME HelloDone PROVE SavedAccepted'
  <2>1. UNCHANGED caller BY <1>23 DEF HelloDone, cvars
  <2> QED BY <1>0, <2>1 DEF SavedAccepted
<1>24. ASSUME HelloDenied PROVE SavedAccepted'
  <2>1. caller' \in Seen BY <1>24 DEF Seen, HelloDenied, cvars, Lost
  <2> QED BY <1>0, <2>1, SeenFact DEF SavedAccepted
<1>25. ASSUME ExecutionDone PROVE SavedAccepted'
  <2>1. PICK seen \in {caller, Woken} :
           caller' = [seen EXCEPT ![lock].pc = IF @ = "reconnect" THEN "rearm" ELSE @]
    BY <1>25 DEF ExecutionDone
  <2>2. seen \in [Callers -> CallerType] BY <1>0, WokenFact
  <2>3. \A d \in Callers : caller'[d].saved = seen[d].saved BY <2>1, <2>2 DEF CallerType
  <2>4. \A d \in Callers : seen[d].saved = caller[d].saved BY <1>0, WokenFact
  <2> QED BY <1>0, <2>3, <2>4 DEF SavedAccepted
<1>26. ASSUME ByeDone PROVE SavedAccepted'
  <2>1. caller' \in Seen BY <1>26 DEF Seen, ByeDone, cvars, Lost
  <2> QED BY <1>0, <2>1, SeenFact DEF SavedAccepted
<1>27. ASSUME StepOverDone PROVE SavedAccepted'
  <2>1. UNCHANGED caller BY <1>27 DEF StepOverDone, cvars
  <2> QED BY <1>0, <2>1 DEF SavedAccepted
<1>28. ASSUME StepOverDenied PROVE SavedAccepted'
  <2>1. caller' \in Seen BY <1>28 DEF Seen, StepOverDenied, cvars
  <2> QED BY <1>0, <2>1, SeenFact DEF SavedAccepted
<1>29. ASSUME RangeStepDone PROVE SavedAccepted'
  <2>1. UNCHANGED caller BY <1>29 DEF RangeStepDone, cvars
  <2> QED BY <1>0, <2>1 DEF SavedAccepted
<1>30. ASSUME AddDone PROVE SavedAccepted'
  <2>1. reply = reply /\ plan.phase = "set" /\ reply.ok /\ reply.kind = "reply" /\ reply # NoReply
    BY <1>30 DEF AddDone, Ok, Answered
  <2>2. plan.p \notin Refused BY <1>0, <1>30, OkFact DEF AddDone, Wire, Truthful
  <2>3. plan \in PlanType /\ plan.p \in DOMAIN plan.kept
    BY <1>0, <2>1, TypeParts DEF ReplyInv, PlanInv, HolderOK
  <2>4. \A d \in Callers :
           DOMAIN caller'[d].saved \subseteq DOMAIN caller[d].saved \cup {plan.p}
    BY <1>0, <1>30, <2>3, AddDoneSaved
  <2> QED BY <1>0, <2>2, <2>4 DEF SavedAccepted
<1>31. ASSUME RemoveDone PROVE SavedAccepted'
  <2>1. \A d \in Callers : DOMAIN caller'[d].saved \subseteq DOMAIN caller[d].saved
    BY <1>0, <1>31, RemoveDoneSaved
  <2> QED BY <1>0, <2>1 DEF SavedAccepted
<1>32. ASSUME SequenceDone PROVE SavedAccepted'
  <2>1. UNCHANGED caller BY <1>32 DEF SequenceDone, cvars
  <2> QED BY <1>0, <2>1 DEF SavedAccepted
<1>33. ASSUME AskMore PROVE SavedAccepted'
  <2>1. UNCHANGED caller BY <1>33 DEF AskMore, cvars
  <2> QED BY <1>0, <2>1 DEF SavedAccepted
<1>34. ASSUME AskDone PROVE SavedAccepted'
  <2>1. UNCHANGED caller BY <1>34 DEF AskDone, cvars
  <2> QED BY <1>0, <2>1 DEF SavedAccepted
<1>35. ASSUME LiftDone PROVE SavedAccepted'
  <2>1. UNCHANGED caller BY <1>35 DEF LiftDone, cvars
  <2> QED BY <1>0, <2>1 DEF SavedAccepted
<1>36. ASSUME SaveDone PROVE SavedAccepted'
  <2>1. caller' \in Seen BY <1>36 DEF Seen, SaveDone, cvars, Checkpointed
  <2> QED BY <1>0, <2>1, SeenFact DEF SavedAccepted
<1>37. ASSUME PutBackDone PROVE SavedAccepted'
  <2>1. caller' \in Seen BY <1>37 DEF Seen, PutBackDone, cvars, Checkpointed
  <2> QED BY <1>0, <2>1, SeenFact DEF SavedAccepted
<1>38. ASSUME RestoreDone PROVE SavedAccepted'
  <2>1. caller' \in Seen BY <1>38 DEF Seen, RestoreDone, cvars, Checkpointed
  <2> QED BY <1>0, <2>1, SeenFact DEF SavedAccepted
<1>39. ASSUME ArmDone PROVE SavedAccepted'
  <2>1. \/ caller' \in Seen
        \/ caller' = [caller EXCEPT ![lock] = [pc |-> "resume", saved |-> NoPoints]]
    BY <1>39 DEF ArmDone, Checkpointed, Seen
  <2> QED BY <1>0, <2>1, SeenFact, NoPointsFact DEF SavedAccepted
<1>40. ASSUME ArmDenied PROVE SavedAccepted'
  <2>1. \A d \in Callers : caller'[d].saved \in {caller[d].saved, NoPoints}
    BY <1>0, <1>40 DEF ArmDenied, CallerType
  <2> QED BY <1>0, <2>1, NoPointsFact DEF SavedAccepted
<1>41. ASSUME KeysDone PROVE SavedAccepted'
  <2>1. caller' \in {caller, Resetting(caller, "reset"), Resetting(caller, "parted")}
        /\ plan.phase = "keys"
    BY <1>41 DEF KeysDone, Ok, Denied, Answered
  <2>2. \A pc : Resetting(caller, pc) = [caller EXCEPT ![lock] = [pc |-> pc, saved |-> plan.kept]]
    BY DEF Resetting
  <2>3. DOMAIN plan.kept \cap Refused = {} BY <1>0, <2>1 DEF PlanAccepted
  <2> QED BY <1>0, <2>1, <2>2, <2>3 DEF SavedAccepted
<1>42. ASSUME KeysDenied PROVE SavedAccepted'
  <2>1. caller' \in {caller, Resetting(caller, "reset"), Resetting(caller, "parted")}
        /\ plan.phase = "keys"
    BY <1>42 DEF KeysDenied, Ok, Denied, Answered
  <2>2. \A pc : Resetting(caller, pc) = [caller EXCEPT ![lock] = [pc |-> pc, saved |-> plan.kept]]
    BY DEF Resetting
  <2>3. DOMAIN plan.kept \cap Refused = {} BY <1>0, <2>1 DEF PlanAccepted
  <2> QED BY <1>0, <2>1, <2>2, <2>3 DEF SavedAccepted
<1>43. ASSUME ProcessSkips PROVE SavedAccepted'
  <2>1. UNCHANGED caller BY <1>43 DEF ProcessSkips, cvars
  <2> QED BY <1>0, <2>1 DEF SavedAccepted
<1>44. ASSUME ProcessOneshot PROVE SavedAccepted'
  <2>1. UNCHANGED caller BY <1>44 DEF ProcessOneshot, cvars
  <2> QED BY <1>0, <2>1 DEF SavedAccepted
<1>45. ASSUME ProcessReports PROVE SavedAccepted'
  <2>1. caller' \in Seen BY <1>45 DEF Seen, ProcessReports, cvars, Report, _signal_stop
  <2> QED BY <1>0, <2>1, SeenFact DEF SavedAccepted
<1>46. ASSUME RequestTimeout PROVE SavedAccepted'
  <2>1. PICK w : w = Parted(Woken) OBVIOUS
  <2>2. \/ plan.phase = "keys"
           /\ caller' = [w EXCEPT ![lock] = [pc |-> "parted", saved |-> plan.kept]]
        \/ caller' = w
        \/ caller' = [w EXCEPT ![lock] = [pc |-> "idle", saved |-> NoPoints]]
    BY <1>46, <2>1 DEF RequestTimeout, Resetting
  <2>3. plan.phase = "keys" => DOMAIN plan.kept \cap Refused = {} BY <1>0 DEF PlanAccepted
  <2>4. /\ w \in [Callers -> CallerType]
        /\ \A d \in Callers : DOMAIN w[d].saved \cap Refused = {}
    BY <1>0, <2>1, SeenFact DEF SavedAccepted, Seen
  <2> QED BY <1>0, <2>2, <2>3, <2>4, NoPointsFact DEF SavedAccepted
<1>47. ASSUME ProcessTimeout PROVE SavedAccepted'
  <2>1. caller' \in Seen BY <1>47 DEF Seen, ProcessTimeout, cvars
  <2> QED BY <1>0, <2>1, SeenFact DEF SavedAccepted
<1>48. ASSUME ProcessStart PROVE SavedAccepted'
  <2>1. caller' \in Seen BY <1>48 DEF Seen, ProcessStart, Report, _signal_stop
  <2> QED BY <1>0, <2>1, SeenFact DEF SavedAccepted
<1>49. ASSUME ReadStop PROVE SavedAccepted'
  <2>1. caller' \in Seen BY <1>49 DEF Seen, ReadStop, cvars, _signal_stop
  <2> QED BY <1>0, <2>1, SeenFact DEF SavedAccepted
<1>50. ASSUME ReadReply PROVE SavedAccepted'
  <2>1. UNCHANGED caller BY <1>50 DEF ReadReply, cvars
  <2> QED BY <1>0, <2>1 DEF SavedAccepted
<1>51. ASSUME ReadClosed PROVE SavedAccepted'
  <2>1. caller' \in Seen BY <1>51 DEF Seen, ReadClosed, cvars, Lost
  <2> QED BY <1>0, <2>1, SeenFact DEF SavedAccepted
<1>52. ASSUME Emulator PROVE SavedAccepted'
  <2>1. UNCHANGED caller BY <1>52, EmulatorFact DEF cvars
  <2> QED BY <1>0, <2>1 DEF SavedAccepted
<1>53. ASSUME UNCHANGED vars PROVE SavedAccepted'
    BY <1>0, <1>53 DEF vars, cvars, SavedAccepted
<1> QED
    BY <1>1, <1>2, <1>3, <1>4, <1>5, <1>6, <1>7, <1>8, <1>9, <1>10, <1>11, <1>12,
       <1>13, <1>14, <1>15, <1>16, <1>17, <1>18, <1>19, <1>20, <1>21, <1>22, <1>23,
       <1>24, <1>25, <1>26, <1>27, <1>28, <1>29, <1>30, <1>31, <1>32, <1>33, <1>34,
       <1>35, <1>36, <1>37, <1>38, <1>39, <1>40, <1>41, <1>42, <1>43, <1>44, <1>45,
       <1>46, <1>47, <1>48, <1>49, <1>50, <1>51, <1>52, <1>53, Zenon DEF Emulator,
       Next, Operations, ResetStep, HolderStep, ReaderStep, amiga_winuae_control,
       amiga_winuae_range_step, PointTools, amiga_winuae_checkpoint

LEMMA PlanAcceptedStep ==
    ASSUME ReplyInv, AcceptedInv, [Next]_vars
    PROVE  PlanAccepted'
<1>0. PointsAccepted /\ SavedAccepted /\ PlanAccepted /\ HolderOK /\ ReplyInv
    BY AcceptedParts, TypeParts DEF ReplyInv
<1>1. ASSUME NEW c \in Callers, Connect(c) PROVE PlanAccepted'
  <2>1. plan' = [Idle EXCEPT !.phase = "hello"] BY <1>1 DEF Connect, Open
  <2> QED BY <2>1, IdleFact DEF PlanAccepted, PlanType
<1>2. ASSUME NEW c \in Callers, ConnectRefused(c) PROVE PlanAccepted'
  <2>1. UNCHANGED plan BY <1>2 DEF ConnectRefused, lvars
  <2> QED BY <1>0, <2>1, PlanKeptAccepted
<1>3. ASSUME NEW c \in Callers, Disconnect(c) PROVE PlanAccepted'
  <2>1. Begins(c, "bye", NoPoint, {}, NoPoints) BY <1>3, StartBegins DEF Disconnect, Call
  <2> QED BY <2>1, BeginsAccepted
<1>4. ASSUME NEW c \in Callers, Status(c) PROVE PlanAccepted'
  <2>1. Begins(c, "exec", NoPoint, {}, NoPoints) BY <1>4, StartBegins DEF Status, Call
  <2> QED BY <2>1, BeginsAccepted
<1>5. ASSUME NEW c \in Callers, Resume(c) PROVE PlanAccepted'
  <2>1. UNCHANGED plan BY <1>5 DEF Resume, lvars
  <2> QED BY <1>0, <2>1, PlanKeptAccepted
<1>6. ASSUME NEW c \in Callers, Step(c) PROVE PlanAccepted'
  <2>1. UNCHANGED plan BY <1>6 DEF Step, lvars
  <2> QED BY <1>0, <2>1, PlanKeptAccepted
<1>7. ASSUME NEW c \in Callers, step_over(c) PROVE PlanAccepted'
  <2>1. Begins(c, "over", NoPoint, {}, NoPoints) BY <1>7, StartBegins DEF step_over, Call
  <2> QED BY <2>1, BeginsAccepted
<1>8. ASSUME NEW c \in Callers, Pause(c) PROVE PlanAccepted'
  <2>1. UNCHANGED plan BY <1>8 DEF Pause, lvars
  <2> QED BY <1>0, <2>1, PlanKeptAccepted
<1>9. ASSUME NEW c \in Callers, wait_stopped(c) PROVE PlanAccepted'
  <2>1. UNCHANGED plan BY <1>9 DEF wait_stopped, lvars
  <2> QED BY <1>0, <2>1, PlanKeptAccepted
<1>10. ASSUME NEW c \in Callers, WaitTimeout(c) PROVE PlanAccepted'
  <2>1. UNCHANGED plan BY <1>10 DEF WaitTimeout, lvars
  <2> QED BY <1>0, <2>1, PlanKeptAccepted
<1>11. ASSUME NEW c \in Callers, Reset(c) PROVE PlanAccepted'
  <2>1. Begins(c, "keys", NoPoint, {}, points) BY <1>11, StartWithKept DEF Reset, Call
  <2> QED BY <1>0, <2>1, BeginsAccepted DEF PointsAccepted
<1>12. ASSUME NEW c \in Callers, ResetGivesUp(c) PROVE PlanAccepted'
  <2>1. UNCHANGED plan BY <1>12 DEF ResetGivesUp, lvars
  <2> QED BY <1>0, <2>1, PlanKeptAccepted
<1>13. ASSUME NEW c \in Callers, range_step(c) PROVE PlanAccepted'
  <2>1. Begins(c, "vcont", NoPoint, {}, NoPoints) BY <1>13, StartBegins DEF range_step, Call
  <2> QED BY <2>1, BeginsAccepted
<1>14. ASSUME NEW c \in Callers, Add(c) PROVE PlanAccepted'
  <2>1. CASE UNCHANGED lvars BY <1>0, <2>1, PlanKeptAccepted DEF lvars
  <2>2. ASSUME NEW q, NEW kept, Begins(c, "set", q, {}, kept) PROVE PlanAccepted'
    BY <2>2, BeginsAccepted
  <2> QED BY <1>0, <1>14, <2>1, <2>2, AddMoves DEF ReplyInv
<1>15. ASSUME NEW c \in Callers, Remove(c) PROVE PlanAccepted'
  <2>1. PICK S, q : Begins(c, "del", q, S, NoPoints) BY <1>0, <1>15, RemoveMoves DEF ReplyInv
  <2> QED BY <2>1, BeginsAccepted
<1>16. ASSUME NEW c \in Callers, InspectionTools(c) PROVE PlanAccepted'
  <2>1. PICK ph \in {"ask", "seq"} : Begins(c, ph, NoPoint, {}, NoPoints)
    BY <1>16, InspectionMoves
  <2> QED BY <2>1, BeginsAccepted
<1>17. ASSUME NEW c \in Callers, CheckpointSave(c) PROVE PlanAccepted'
  <2>1. ASSUME NEW ph \in {"save", "lift"}, NEW q, NEW left, Begins(c, ph, q, left, NoPoints)
        PROVE  PlanAccepted'
    BY <2>1, BeginsAccepted
  <2>2. \/ Begins(c, "save", NoPoint, {}, NoPoints)
        \/ \E q, left : Begins(c, "lift", q, left, NoPoints)
    BY <1>17, CheckpointSaveMoves
  <2> QED BY <2>1, <2>2
<1>18. ASSUME NEW c \in Callers, CheckpointRestore(c) PROVE PlanAccepted'
  <2>1. Begins(c, "restore", NoPoint, {}, NoPoints)
    BY <1>18, StartBegins DEF CheckpointRestore, Call
  <2> QED BY <2>1, BeginsAccepted
<1>19. ASSUME NEW c \in Callers, ResetSeen(c) PROVE PlanAccepted'
  <2>1. UNCHANGED plan BY <1>19 DEF ResetSeen, lvars
  <2> QED BY <1>0, <2>1, PlanKeptAccepted
<1>20. ASSUME NEW c \in Callers, ResetReconnect(c) PROVE PlanAccepted'
  <2>1. plan' = [Idle EXCEPT !.phase = "hello"] \/ UNCHANGED plan
    BY <1>20 DEF ResetReconnect, Open, lvars
  <2> QED BY <1>0, <2>1, IdleFact DEF PlanAccepted, PlanType
<1>21. ASSUME NEW c \in Callers, ResetRearm(c) PROVE PlanAccepted'
  <2>0. PICK replaced \in BOOLEAN :
           LET all == Merged(points, caller[c].saved, replaced) IN
           UNCHANGED lvars \/ \E q, left : Begins(c, "arm", q, left, all)
    BY <1>21, ResetRearmMoves
  <2> DEFINE all == Merged(points, caller[c].saved, replaced)
  <2>1. CASE UNCHANGED lvars BY <1>0, <2>1, PlanKeptAccepted DEF lvars
  <2>2. DOMAIN all \cap Refused = {}
    BY <1>0, MergedFact DEF PointsAccepted, SavedAccepted, ReplyInv, TypeOK
  <2>3. UNCHANGED lvars \/ \E q, left : Begins(c, "arm", q, left, all)
    BY <2>0
  <2> HIDE DEF all
  <2>4. ASSUME NEW q, NEW left, Begins(c, "arm", q, left, all) PROVE PlanAccepted'
    BY <2>2, <2>4, BeginsAccepted
  <2> QED BY <2>1, <2>3, <2>4
<1>22. ASSUME NEW c \in Callers, ResetResume(c) PROVE PlanAccepted'
  <2>1. UNCHANGED plan BY <1>22 DEF ResetResume, lvars
  <2> QED BY <1>0, <2>1, PlanKeptAccepted
<1>23. ASSUME HelloDone PROVE PlanAccepted'
  <2>1. Release \/ GoesOn("exec", NoPoint, plan.left, plan.lifted, plan.kept, plan.ok)
    BY <1>0, <1>23, RequestGoesOn DEF HelloDone, HolderOK
  <2> QED BY <2>1, ReleaseAccepted, GoesOnAccepted
<1>24. ASSUME HelloDenied PROVE PlanAccepted'
  <2>1. Release BY <1>24 DEF HelloDenied
  <2> QED BY <2>1, ReleaseAccepted
<1>25. ASSUME ExecutionDone PROVE PlanAccepted'
  <2>1. Release BY <1>25 DEF ExecutionDone
  <2> QED BY <2>1, ReleaseAccepted
<1>26. ASSUME ByeDone PROVE PlanAccepted'
  <2>1. Release BY <1>26 DEF ByeDone
  <2> QED BY <2>1, ReleaseAccepted
<1>27. ASSUME StepOverDone PROVE PlanAccepted'
  <2>1. Release BY <1>27 DEF StepOverDone
  <2> QED BY <2>1, ReleaseAccepted
<1>28. ASSUME StepOverDenied PROVE PlanAccepted'
  <2>1. Release BY <1>28 DEF StepOverDenied
  <2> QED BY <2>1, ReleaseAccepted
<1>29. ASSUME RangeStepDone PROVE PlanAccepted'
  <2>1. Release BY <1>29 DEF RangeStepDone
  <2> QED BY <2>1, ReleaseAccepted
<1>30. ASSUME AddDone PROVE PlanAccepted'
  <2>1. Release BY <1>30 DEF AddDone
  <2> QED BY <2>1, ReleaseAccepted
<1>31. ASSUME RemoveDone PROVE PlanAccepted'
  <2>1. CASE Release BY <2>1, ReleaseAccepted
  <2>2. ASSUME NEW ph \in {"del"}, NEW q, NEW left, NEW lifted, NEW kept, NEW ok,
               GoesOn(ph, q, left, lifted, kept, ok)
        PROVE  PlanAccepted'
    BY <2>2, GoesOnAccepted
  <2> QED BY <1>0, <1>31, <2>1, <2>2, RemoveDoneMoves
<1>32. ASSUME SequenceDone PROVE PlanAccepted'
  <2>1. Release BY <1>32 DEF SequenceDone
  <2> QED BY <2>1, ReleaseAccepted
<1>33. ASSUME AskMore PROVE PlanAccepted'
  <2>1. Release \/ GoesOn("ask", NoPoint, plan.left, plan.lifted, plan.kept, plan.ok)
    BY <1>0, <1>33, RequestGoesOn DEF AskMore, HolderOK
  <2> QED BY <2>1, ReleaseAccepted, GoesOnAccepted
<1>34. ASSUME AskDone PROVE PlanAccepted'
  <2>1. Release BY <1>34 DEF AskDone
  <2> QED BY <2>1, ReleaseAccepted
<1>35. ASSUME LiftDone PROVE PlanAccepted'
  <2>1. CASE Release BY <2>1, ReleaseAccepted
  <2>2. ASSUME NEW ph \in {"lift", "save"}, NEW q, NEW left, NEW lifted, NEW kept, NEW ok,
               GoesOn(ph, q, left, lifted, kept, ok)
        PROVE  PlanAccepted'
    BY <2>2, GoesOnAccepted
  <2>3. plan.p \in Points
    BY <1>0, <1>35 DEF LiftDone, Ok, Answered, ReplyInv, PlanInv, Wire
  <2> QED BY <1>0, <1>35, <2>1, <2>2, <2>3, LiftDoneMoves
<1>36. ASSUME SaveDone PROVE PlanAccepted'
  <2>1. CASE Release BY <2>1, ReleaseAccepted
  <2>2. ASSUME NEW ph \in {"ask", "back"}, NEW q, NEW left, NEW lifted, NEW kept, NEW ok,
               GoesOn(ph, q, left, lifted, kept, ok)
        PROVE  PlanAccepted'
    BY <2>2, GoesOnAccepted
  <2> QED BY <1>0, <1>36, <2>1, <2>2, SaveDoneMoves
<1>37. ASSUME PutBackDone PROVE PlanAccepted'
  <2>1. CASE Release BY <2>1, ReleaseAccepted
  <2>2. ASSUME NEW ph \in {"ask", "back"}, NEW q, NEW left, NEW lifted, NEW kept, NEW ok,
               GoesOn(ph, q, left, lifted, kept, ok)
        PROVE  PlanAccepted'
    BY <2>2, GoesOnAccepted
  <2> QED BY <1>0, <1>37, <2>1, <2>2, PutBackDoneMoves
<1>38. ASSUME RestoreDone PROVE PlanAccepted'
  <2>1. CASE Release BY <2>1, ReleaseAccepted
  <2>2. CASE GoesOn("ask", NoPoint, {}, {}, NoPoints, TRUE) BY <2>2, GoesOnAccepted
  <2>3. ASSUME NEW q, NEW left, GoesOn("arm", q, left, {}, points, TRUE)
        PROVE  PlanAccepted'
    BY <1>0, <2>3, GoesOnAccepted DEF PointsAccepted
  <2> QED BY <1>0, <1>38, <2>1, <2>2, <2>3, RestoreDoneMoves DEF ReplyInv, TypeOK
<1>39. ASSUME ArmDone PROVE PlanAccepted'
  <2>0. plan.phase = "arm" BY <1>39 DEF ArmDone, Ok, Answered
  <2>1. CASE Release BY <2>1, ReleaseAccepted
  <2>2. CASE GoesOn("ask", NoPoint, {}, {}, NoPoints, TRUE) BY <2>2, GoesOnAccepted
  <2>3. ASSUME NEW q, NEW left, GoesOn("arm", q, left, plan.lifted, plan.kept, plan.ok)
        PROVE  PlanAccepted'
    BY <1>0, <2>0, <2>3, GoesOnAccepted DEF PlanAccepted
  <2> QED BY <1>0, <1>39, <2>1, <2>2, <2>3, ArmDoneMoves
<1>40. ASSUME ArmDenied PROVE PlanAccepted'
  <2>1. Release BY <1>40 DEF ArmDenied
  <2> QED BY <2>1, ReleaseAccepted
<1>41. ASSUME KeysDone PROVE PlanAccepted'
  <2>1. Release BY <1>41 DEF KeysDone
  <2> QED BY <2>1, ReleaseAccepted
<1>42. ASSUME KeysDenied PROVE PlanAccepted'
  <2>1. Release BY <1>42 DEF KeysDenied
  <2> QED BY <2>1, ReleaseAccepted
<1>43. ASSUME ProcessSkips PROVE PlanAccepted'
  <2>1. Release BY <1>43 DEF ProcessSkips
  <2> QED BY <2>1, ReleaseAccepted
<1>44. ASSUME ProcessOneshot PROVE PlanAccepted'
  <2>1. Request(plan, "shot", reply.val) BY <1>44 DEF ProcessOneshot
  <2>2. Release \/ GoesOn("shot", reply.val, plan.left, plan.lifted, plan.kept, plan.ok)
    BY <1>0, <2>1, RequestGoesOn DEF HolderOK
  <2> QED BY <2>2, ReleaseAccepted, GoesOnAccepted
<1>45. ASSUME ProcessReports PROVE PlanAccepted'
  <2>1. Release BY <1>45 DEF ProcessReports, Report
  <2> QED BY <2>1, ReleaseAccepted
<1>46. ASSUME RequestTimeout PROVE PlanAccepted'
  <2>1. Release BY <1>46 DEF RequestTimeout
  <2> QED BY <2>1, ReleaseAccepted
<1>47. ASSUME ProcessTimeout PROVE PlanAccepted'
  <2>1. Release BY <1>47 DEF ProcessTimeout
  <2> QED BY <2>1, ReleaseAccepted
<1>48. ASSUME ProcessStart PROVE PlanAccepted'
  <2>1. CASE connected
    <3>1. Begins(Process, "pc", NoPoint, {}, NoPoints)
      BY <1>48, <2>1, StartBegins DEF ProcessStart
    <3> QED BY <3>1, BeginsAccepted
  <2>2. CASE ~connected
    <3>1. Release BY <1>48, <2>2 DEF ProcessStart, Report
    <3> QED BY <3>1, ReleaseAccepted
  <2> QED BY <2>1, <2>2
<1>49. ASSUME ReadStop PROVE PlanAccepted'
  <2>1. UNCHANGED plan BY <1>49 DEF ReadStop, lvars
  <2> QED BY <1>0, <2>1, PlanKeptAccepted
<1>50. ASSUME ReadReply PROVE PlanAccepted'
  <2>1. UNCHANGED plan BY <1>50 DEF ReadReply, lvars
  <2> QED BY <1>0, <2>1, PlanKeptAccepted
<1>51. ASSUME ReadClosed PROVE PlanAccepted'
  <2>1. UNCHANGED plan BY <1>51 DEF ReadClosed, lvars
  <2> QED BY <1>0, <2>1, PlanKeptAccepted
<1>52. ASSUME Emulator PROVE PlanAccepted'
  <2>1. UNCHANGED plan BY <1>52, EmulatorFact DEF lvars
  <2> QED BY <1>0, <2>1, PlanKeptAccepted
<1>53. ASSUME UNCHANGED vars PROVE PlanAccepted'
    BY <1>0, <1>53, PlanKeptAccepted DEF vars, lvars
<1> QED
    BY <1>1, <1>2, <1>3, <1>4, <1>5, <1>6, <1>7, <1>8, <1>9, <1>10, <1>11, <1>12,
       <1>13, <1>14, <1>15, <1>16, <1>17, <1>18, <1>19, <1>20, <1>21, <1>22, <1>23,
       <1>24, <1>25, <1>26, <1>27, <1>28, <1>29, <1>30, <1>31, <1>32, <1>33, <1>34,
       <1>35, <1>36, <1>37, <1>38, <1>39, <1>40, <1>41, <1>42, <1>43, <1>44, <1>45,
       <1>46, <1>47, <1>48, <1>49, <1>50, <1>51, <1>52, <1>53, Zenon DEF Emulator,
       Next, Operations, ResetStep, HolderStep, ReaderStep, amiga_winuae_control,
       amiga_winuae_range_step, PointTools, amiga_winuae_checkpoint

LEMMA AcceptedStep == ASSUME ReplyInv, AcceptedInv, [Next]_vars PROVE AcceptedInv'
<1>1. PointsAccepted' /\ PlanAccepted' /\ SavedAccepted'
  BY PointsAcceptedStep, PlanAcceptedStep, SavedAcceptedStep
<1> QED BY <1>1 DEF AcceptedInv, PointsAccepted, PlanAccepted, SavedAccepted

-----------------------------------------------------------------------------
(* The points of WinUAE.                                                   *)

\* A request that is made, and one that WinUAE has taken.
LEMMA AsksPends ==
    ASSUME ReplyInv, Asks, plan'.phase \in Phases
    PROVE  Pending' /\ \A r \in Replies : ~Come(r)'
<1> DEFINE m == Packet(Wire(plan'.phase), plan'.p)
<1>1. toEmu' = Append(toEmu, m) BY DEF Asks
<1>2. toEmu \in Seq([cmd : Commands, p : Points \cup {NoPoint}]) BY DEF ReplyInv, TypeOK
<1>3. PICK n \in Nat : n = Len(toEmu) BY <1>2
<1>4. Len(toEmu') = n + 1 /\ toEmu'[n + 1] = m BY <1>1, <1>2, <1>3, AppendFact
<1>5. IsRequest(m)
  BY DEF IsRequest, Orders, Packet, Wire, Phases
<1> HIDE DEF m
<1>6. Pending' BY <1>4, <1>5 DEF Pending
<1>7. Clear BY QuietIsClear DEF ReplyInv, Asks
<1>8. reply' = NoReply /\ toHost' = toHost BY DEF Asks, Local
<1> QED BY <1>6, <1>7, <1>8, KindsDiffer DEF Clear, Come

LEMMA TakenPends ==
    ASSUME ReplyInv, TakesRequest
    PROVE  /\ Pending /\ ~Pending' /\ Outstanding(Head(toEmu))
           /\ reply = NoReply /\ lock # NoOne
           /\ \A i \in 1..Len(toHost) : ~IsReply(toHost[i])
<1>1. /\ \A i \in 1..Len(toEmu') : i + 1 \in 1..Len(toEmu) /\ toEmu'[i] = toEmu[i + 1]
      /\ \A i \in 1..Len(toEmu') : i + 1 # 1
      /\ 1 \in 1..Len(toEmu) /\ Head(toEmu) = toEmu[1]
  BY TailFact DEF TakesRequest, ReplyInv, TypeOK
<1>2. IsRequest(toEmu[1]) BY <1>1 DEF TakesRequest
<1>3. \A i \in 1..Len(toEmu') : ~IsRequest(toEmu'[i])
  BY <1>1, <1>2 DEF ReplyInv, ExchangeInv
<1>4. Outstanding(Head(toEmu)) /\ \A i \in 1..Len(toHost) : ~IsReply(toHost[i])
  BY <1>1, <1>2 DEF ReplyInv, ExchangeInv
<1>5. Pending BY <1>1, <1>2 DEF Pending
<1>6. ~Pending' BY <1>3 DEF Pending
<1> QED BY <1>4, <1>5, <1>6 DEF Outstanding, Quiet

\* Orders and stops leave the request and its answer where they are.
LEMMA SendsPends ==
    ASSUME ReplyInv, Sends
    PROVE  Pending' <=> Pending
<1>1. CASE toEmu' = toEmu BY <1>1 DEF Pending
<1>2. CASE \E o \in Orders : toEmu' = Append(toEmu, Packet(o, NoPoint))
  <2>1. PICK o \in Orders : toEmu' = Append(toEmu, Packet(o, NoPoint)) BY <1>2
  <2>2. ~IsRequest(Packet(o, NoPoint)) BY DEF IsRequest, Packet
  <2>0. toEmu \in Seq([cmd : Commands, p : Points \cup {NoPoint}]) BY DEF ReplyInv, TypeOK
  <2>3. PICK n \in Nat : n = Len(toEmu) BY <2>0
  <2>4. /\ Len(toEmu') = n + 1 /\ toEmu'[n + 1] = Packet(o, NoPoint)
        /\ \A i \in 1..n : toEmu'[i] = toEmu[i]
    BY <2>0, <2>1, <2>3, AppendFact
  <2>5. \A i \in 1..Len(toEmu') : i \in 1..n \/ i = n + 1 BY <2>4
  <2>6. 1..n \subseteq 1..Len(toEmu') BY <2>4
  <2> QED BY <2>2, <2>3, <2>4, <2>5, <2>6 DEF Pending
<1> QED BY <1>1, <1>2 DEF Sends

LEMMA OrderPends ==
    ASSUME ReplyInv, TakesOrder
    PROVE  Pending' <=> Pending
<1>1. toEmu \in Seq([cmd : Commands, p : Points \cup {NoPoint}]) /\ toEmu # <<>>
      /\ toEmu' = Tail(toEmu)
  BY DEF ReplyInv, TypeOK, TakesOrder
<1>2. PICK n \in Nat : n = Len(toEmu) BY <1>1
<1>3. /\ n >= 1 /\ Len(toEmu') = n - 1 /\ toEmu[1] = Head(toEmu)
      /\ \A i \in 1..(n - 1) : toEmu'[i] = toEmu[i + 1]
  BY <1>1, <1>2, HeadFact
<1>4. ~IsRequest(toEmu[1]) BY <1>3 DEF TakesOrder
<1>5. ASSUME Pending PROVE Pending'
  <2>1. PICK i \in 1..n : IsRequest(toEmu[i]) BY <1>2, <1>5 DEF Pending
  <2>2. i # 1 BY <1>4, <2>1
  <2>3. i - 1 \in 1..(n - 1) /\ (i - 1) + 1 = i BY <1>2, <2>2
  <2>4. toEmu'[i - 1] = toEmu[i] BY <1>3, <2>3
  <2> QED BY <1>3, <2>1, <2>3, <2>4 DEF Pending
<1>6. ASSUME Pending' PROVE Pending
  <2>1. PICK i \in 1..(n - 1) : IsRequest(toEmu'[i]) BY <1>3, <1>6 DEF Pending
  <2>2. i + 1 \in 1..n /\ toEmu[i + 1] = toEmu'[i] BY <1>2, <1>3, <2>1
  <2> QED BY <1>2, <2>1, <2>2 DEF Pending
<1> QED BY <1>5, <1>6

\* No answer comes but by WinUAE's taking a request.
LEMMA ComeFact ==
    ASSUME ReplyInv, Traffic, ~TakesRequest, reply' = reply \/ TakesReply
    PROVE  \A r \in Replies : Come(r)' => Come(r)
<1> SUFFICES ASSUME NEW r \in Replies, Come(r)' PROVE Come(r) OBVIOUS
<1>1. IsReply(r) /\ (r = reply' \/ \E i \in 1..Len(toHost') : r = toHost'[i])
  BY DEF Come
<1>2. CASE r = reply'
  <2>1. CASE reply' = reply BY <1>1, <1>2, <2>1 DEF Come
  <2>2. CASE TakesReply
    <3>1. 1 \in 1..Len(toHost) /\ Head(toHost) = toHost[1]
      BY <2>2, TailFact DEF TakesReply, ReplyInv, TypeOK
    <3>2. r = toHost[1] BY <1>2, <2>2, <3>1 DEF TakesReply
    <3> QED BY <1>1, <3>1, <3>2 DEF Come
  <2> QED BY <2>1, <2>2
<1>3. ASSUME NEW i \in 1..Len(toHost'), r = toHost'[i] PROVE Come(r)
  <2>1. \E j \in 1..Len(toHost) : r = toHost[j]
    BY <1>1, <1>3, OldReplies DEF ReplyInv
  <2> QED BY <1>1, <2>1 DEF Come
<1> QED BY <1>1, <1>2, <1>3

\* What WinUAE holds between two operations, and the phases in which nothing is added
\* to it or taken away.
Held == forgotten \cup DOMAIN points
PlainPhases == {"none", "hello", "exec", "over", "vcont", "ask", "seq", "keys", "pc"}

LEMMA ClosedPoints == ASSUME ~connected' \/ ~emu'.session PROVE PointsInv'
BY DEF PointsInv

LEMMA PlainPoints ==
    ASSUME plan'.phase \in PlainPhases, connected' /\ emu'.session => emu'.points = Held'
    PROVE  PointsInv'
BY DEF PlainPhases, PointsInv, Keeps, Held

LEMMA ReleasePoints ==
    ASSUME Release, connected' /\ emu'.session => emu'.points = Held'
    PROVE  PointsInv'
<1>1. plan'.phase = "none" BY IdleFact DEF Release
<1> QED BY <1>1, PlainPoints DEF PlainPhases

LEMMA PlainFact ==
    ASSUME PointsInv, connected, emu.session, plan.phase \in PlainPhases
    PROVE  emu.points = Held
BY DEF PlainPhases, PointsInv, Keeps, Held

LEMMA FreeFact ==
    ASSUME PlanInv, PointsInv, connected, emu.session, lock = NoOne
    PROVE  emu.points = Held
<1>1. plan.phase = "none" BY IdleFact DEF PlanInv
<1> QED BY <1>1, PlainFact DEF PlainPhases

LEMMA SamePoints ==
    ASSUME PointsInv, connected' /\ emu'.session => connected /\ emu.session,
           DOMAIN points' = DOMAIN points, UNCHANGED <<forgotten, plan>>,
           emu'.points = emu.points,
           Pending' <=> Pending, \A r \in Replies : Come(r)' => Come(r)
    PROVE  PointsInv'
BY DEF PointsInv, Keeps

\* The holder of the lock has its answer.
LEMMA AnsweredFact ==
    ASSUME ReplyInv, reply # NoReply
    PROVE  ~Pending /\ lock # NoOne /\ (connected => reply \in Replies /\ Come(reply))
<1>1. Clear BY QuietIsClear DEF ReplyInv, Quiet
<1>2. ~Pending BY <1>1 DEF Clear, Pending
<1>3. lock # NoOne BY DEF ReplyInv, PlanInv
<1>4. ASSUME connected PROVE reply \in Replies /\ IsReply(reply)
  <2>1. reply \in Replies BY <1>4 DEF ReplyInv, TypeOK, ResolvedInv
  <2> QED BY <2>1 DEF Replies, IsReply
<1> QED BY <1>2, <1>3, <1>4 DEF Come

LEMMA ApartPoints ==
    ASSUME ReplyInv, PointsInv, Apart, DOMAIN points' = DOMAIN points, UNCHANGED forgotten
    PROVE  PointsInv'
<1>1. UNCHANGED <<connected, emu, toHost, lock, plan, reply>> /\ Sends
  BY DEF Apart, Local, lvars
<1>2. Pending' <=> Pending BY <1>1, SendsPends
<1>3. \A r \in Replies : Come(r)' => Come(r) BY <1>1 DEF Come
<1> QED BY <1>1, <1>2, <1>3, SamePoints

LEMMA ReadPoints ==
    ASSUME ReplyInv, PointsInv, TakesStop \/ TakesReply, UNCHANGED forgotten
    PROVE  PointsInv'
<1>1. UNCHANGED <<connected, points, plan, emu, toEmu>>
  BY DEF TakesStop, TakesReply, lvars
<1>2. \A r \in Replies : Come(r)' => Come(r)
  <2>1. Traffic BY DEF Traffic, HostTraffic
  <2>2. reply' = reply \/ TakesReply BY DEF TakesStop, lvars
  <2>3. ~TakesRequest \/ toEmu' # toEmu
    <3>1. ASSUME TakesRequest PROVE toEmu' # toEmu
      <4>1. toEmu \in Seq([cmd : Commands, p : Points \cup {NoPoint}]) /\ toEmu # <<>>
        BY <3>1 DEF ReplyInv, TypeOK, TakesRequest
      <4>2. toEmu' = Tail(toEmu) BY <3>1 DEF TakesRequest
      <4>3. Len(Tail(toEmu)) # Len(toEmu) BY <4>1, HeadFact
      <4> QED BY <4>2, <4>3
    <3> QED BY <3>1
  <2> QED BY <1>1, <2>1, <2>2, <2>3, ComeFact
<1>3. Pending' <=> Pending BY <1>1 DEF Pending
<1> QED BY <1>1, <1>2, <1>3, SamePoints

LEMMA BeginsPlain ==
    ASSUME ReplyInv, PointsInv, NEW who, NEW ph \in PlainPhases, NEW q, NEW left, NEW kept,
           Begins(who, ph, q, left, kept), UNCHANGED <<connected, points, forgotten, emu>>
    PROVE  PointsInv'
<1>1. plan'.phase = ph /\ lock = NoOne BY DEF Begins, Plan
<1>2. connected /\ emu.session => emu.points = Held BY <1>1, FreeFact DEF ReplyInv
<1> QED BY <1>1, <1>2, PlainPoints DEF Held

LEMMA GoesOnPlain ==
    ASSUME NEW ph \in PlainPhases, NEW q, NEW left, NEW lifted, NEW kept, NEW ok,
           GoesOn(ph, q, left, lifted, kept, ok),
           connected' /\ emu'.session => emu'.points = Held'
    PROVE  PointsInv'
<1>1. plan'.phase = ph BY DEF GoesOn, Plan
<1> QED BY <1>1, PlainPoints

\* A request of the holder of the lock.
LEMMA GoesOnAsks ==
    ASSUME ReplyInv, [Next]_vars, reply # NoReply, NEW ph \in Phases, NEW q, NEW left,
           NEW lifted, NEW kept, NEW ok, GoesOn(ph, q, left, lifted, kept, ok),
           UNCHANGED connected
    PROVE  /\ Pending' /\ (\A r \in Replies : ~Come(r)')
           /\ plan'.phase = ph /\ plan'.p = q /\ plan'.left = left /\ plan'.lifted = lifted
           /\ plan'.kept = kept
<1>1. /\ plan'.phase = ph /\ plan'.p = q /\ plan'.left = left /\ plan'.lifted = lifted
      /\ plan'.kept = kept
  BY DEF GoesOn, Plan
<1>2. lock # NoOne BY AnsweredFact
<1>3. connected /\ connected' /\ lock' # NoOne /\ reply' # reply /\ Quiet
  BY <1>2 DEF GoesOn, Quiet
<1>4. HostTraffic \/ EmuTraffic BY StepTraffic DEF ReplyInv
<1>5. Asks
  BY <1>3, <1>4 DEF HostTraffic, EmuTraffic, Apart, Leaves, Release, Opens, Loses, TakesStop,
     TakesReply, TakesOrder, TakesRequest, Emits, Leaving, lvars
<1> QED BY <1>1, <1>5, AsksPends

LEMMA BeginsAsks ==
    ASSUME ReplyInv, [Next]_vars, connected, NEW who \in Callers \cup {Process},
           NEW ph \in Phases, NEW q, NEW left, NEW kept, Begins(who, ph, q, left, kept),
           UNCHANGED connected
    PROVE  /\ Pending' /\ (\A r \in Replies : ~Come(r)')
           /\ plan'.phase = ph /\ plan'.p = q /\ plan'.left = left /\ plan'.lifted = {}
           /\ plan'.kept = kept
           /\ PointsInv /\ emu.session => emu.points = Held
<1>1. /\ plan'.phase = ph /\ plan'.p = q /\ plan'.left = left /\ plan'.lifted = {}
      /\ plan'.kept = kept
  BY DEF Begins, Plan
<1>2. lock = NoOne /\ lock' # NoOne /\ connected' BY DEF Begins
<1>3. HostTraffic \/ EmuTraffic BY StepTraffic DEF ReplyInv
<1>4. Asks
  BY <1>2, <1>3 DEF HostTraffic, EmuTraffic, Apart, Leaves, Release, Opens, Loses, TakesStop,
     TakesReply, TakesOrder, TakesRequest, Emits, Leaving, lvars
<1>5. PointsInv /\ emu.session => emu.points = Held
  BY <1>2, FreeFact DEF ReplyInv
<1> QED BY <1>1, <1>4, <1>5, AsksPends

LEMMA PointsHostStep ==
    ASSUME ReplyInv, AcceptedInv, PointsInv, ~Emulator, [Next]_vars
    PROVE  PointsInv'
<1> USE DEF Held
<1>0. ReplyInv /\ AcceptedInv /\ HolderOK /\ TypeOK /\ PlanInv BY TypeParts DEF ReplyInv
<1>1. ASSUME NEW c \in Callers, Connect(c) PROVE PointsInv'
  <2>1. plan'.phase = "hello" /\ emu'.points = {} /\ points' = NoPoints /\ forgotten' = {}
    BY <1>1 DEF Connect, Open, Idle, Detached
  <2> QED BY <2>1, NoPointsFact, PlainPoints DEF PlainPhases
<1>2. ASSUME NEW c \in Callers, ConnectRefused(c) PROVE PointsInv'
  <2>1. ~connected' BY <1>2 DEF ConnectRefused
  <2> QED BY <2>1, ClosedPoints
<1>3. ASSUME NEW c \in Callers, Disconnect(c) PROVE PointsInv'
  <2>1. Begins(c, "bye", NoPoint, {}, NoPoints) BY <1>3, StartBegins DEF Disconnect, Call
  <2>2. plan'.phase = "bye" BY <2>1 DEF Begins, Plan
  <2> QED BY <2>2 DEF PointsInv, Keeps
<1>4. ASSUME NEW c \in Callers, Status(c) PROVE PointsInv'
  <2>1. Begins(c, "exec", NoPoint, {}, NoPoints) BY <1>4, StartBegins DEF Status, Call
  <2>2. UNCHANGED <<connected, points, forgotten, emu>> BY <1>4 DEF Status, hvars
  <2> QED BY <2>1, <2>2, BeginsPlain DEF PlainPhases
<1>5. ASSUME NEW c \in Callers, Resume(c) PROVE PointsInv'
  <2>1. UNCHANGED <<points, forgotten>> BY <1>5 DEF Resume
  <2>2. Apart
    BY <1>5, <1>0 DEF Resume, Call, _run, _paused, Apart, Local, Sends, Orders,
       vars, hvars, lvars, cvars, evars
  <2> QED BY <2>1, <2>2, ApartPoints
<1>6. ASSUME NEW c \in Callers, Step(c) PROVE PointsInv'
  <2>1. UNCHANGED <<points, forgotten>> BY <1>6 DEF Step
  <2>2. Apart
    BY <1>6, <1>0 DEF Step, Call, _run, _paused, Apart, Local, Sends, Orders, vars,
       hvars, lvars, cvars, evars
  <2> QED BY <2>1, <2>2, ApartPoints
<1>7. ASSUME NEW c \in Callers, step_over(c) PROVE PointsInv'
  <2>1. Begins(c, "over", NoPoint, {}, NoPoints) BY <1>7, StartBegins DEF step_over, Call
  <2>2. UNCHANGED <<connected, points, forgotten, emu>> BY <1>7 DEF step_over, hvars
  <2> QED BY <2>1, <2>2, BeginsPlain DEF PlainPhases
<1>8. ASSUME NEW c \in Callers, Pause(c) PROVE PointsInv'
  <2>1. UNCHANGED <<points, forgotten>> BY <1>8 DEF Pause
  <2>2. Apart
    BY <1>8, <1>0 DEF Pause, Call, Apart, Local, Sends, Orders, vars, hvars, lvars,
       cvars, evars
  <2> QED BY <2>1, <2>2, ApartPoints
<1>9. ASSUME NEW c \in Callers, wait_stopped(c) PROVE PointsInv'
  <2>1. UNCHANGED <<points, forgotten>> BY <1>9 DEF wait_stopped
  <2>2. Apart
    BY <1>9, <1>0 DEF wait_stopped, Apart, Local, Sends, Orders, vars, hvars, lvars,
       cvars, evars
  <2> QED BY <2>1, <2>2, ApartPoints
<1>10. ASSUME NEW c \in Callers, WaitTimeout(c) PROVE PointsInv'
  <2>1. UNCHANGED <<points, forgotten>> BY <1>10 DEF WaitTimeout
  <2>2. Apart
    BY <1>10, <1>0 DEF WaitTimeout, Apart, Local, Sends, Orders, vars, hvars, lvars,
       cvars, evars
  <2> QED BY <2>1, <2>2, ApartPoints
<1>11. ASSUME NEW c \in Callers, Reset(c) PROVE PointsInv'
  <2>1. Begins(c, "keys", NoPoint, {}, points) BY <1>11, StartWithKept DEF Reset, Call
  <2>2. UNCHANGED <<connected, points, forgotten, emu>> BY <1>11 DEF Reset, hvars
  <2> QED BY <2>1, <2>2, BeginsPlain DEF PlainPhases
<1>12. ASSUME NEW c \in Callers, ResetGivesUp(c) PROVE PointsInv'
  <2>1. UNCHANGED <<points, forgotten>> BY <1>12 DEF ResetGivesUp
  <2>2. Apart
    BY <1>12, <1>0 DEF ResetGivesUp, Apart, Local, Sends, Orders, vars, hvars, lvars,
       cvars, evars
  <2> QED BY <2>1, <2>2, ApartPoints
<1>13. ASSUME NEW c \in Callers, range_step(c) PROVE PointsInv'
  <2>1. Begins(c, "vcont", NoPoint, {}, NoPoints) BY <1>13, StartBegins DEF range_step, Call
  <2>2. UNCHANGED <<connected, points, forgotten, emu>> BY <1>13 DEF range_step, hvars
  <2> QED BY <2>1, <2>2, BeginsPlain DEF PlainPhases
<1>14. ASSUME NEW c \in Callers, Add(c) PROVE PointsInv'
  <2>1. PICK q \in Points, a \in Attr :
           \/ /\ q \in DOMAIN points
              /\ points' = With(points, q, a) /\ UNCHANGED <<lvars, toEmu>>
           \/ /\ Start(c, [Idle EXCEPT !.kept = With(NoPoints, q, a)], "set", q)
              /\ UNCHANGED points
    BY <1>14 DEF Add
  <2>2. Local /\ connected /\ lock = NoOne /\ UNCHANGED forgotten
    BY <1>14 DEF Add, Call, _paused, Local, hvars
  <2>3. CASE q \in DOMAIN points /\ points' = With(points, q, a) /\ UNCHANGED <<lvars, toEmu>>
    <3>1. DOMAIN With(points, q, a) = DOMAIN points \cup {q} BY DEF With
    <3>2. DOMAIN points' = DOMAIN points BY <2>3, <3>1
    <3>3. Apart BY <1>0, <2>2, <2>3 DEF Apart, Sends
    <3> QED BY <2>2, <3>2, <3>3, ApartPoints
  <2>4. CASE /\ Start(c, [Idle EXCEPT !.kept = With(NoPoints, q, a)], "set", q)
             /\ UNCHANGED points
    <3>1. Begins(c, "set", q, {}, With(NoPoints, q, a)) BY <2>2, <2>4, StartWithKept
    <3>2. PICK kept : Begins(c, "set", q, {}, kept) BY <3>1
    <3>3. /\ Pending' /\ plan'.phase = "set" /\ plan'.p = q
          /\ emu.session => emu.points = Held
      BY <2>2, <3>2, BeginsAsks DEF Phases, Local
    <3> QED BY <2>2, <2>4, <3>3 DEF PointsInv, Keeps, Local
  <2> QED BY <2>1, <2>3, <2>4
<1>15. ASSUME NEW c \in Callers, Remove(c) PROVE PointsInv'
  <2>1. connected /\ UNCHANGED <<connected, points, forgotten, emu>>
    BY <1>15 DEF Remove, _paused, hvars
  <2>2. ASSUME NEW S \in SUBSET DOMAIN points, NEW q \in S,
               Begins(c, "del", q, S \ {q}, NoPoints)
        PROVE  PointsInv'
    <3>1. /\ Pending' /\ plan'.phase = "del" /\ plan'.p = q /\ plan'.left = S \ {q}
          /\ emu.session => emu.points = Held
      BY <2>1, <2>2, BeginsAsks DEF Phases
    <3> QED BY <2>1, <3>1 DEF PointsInv, Keeps
  <2> QED BY <1>0, <1>15, <2>2, RemoveMoves
<1>16. ASSUME NEW c \in Callers, InspectionTools(c) PROVE PointsInv'
  <2>1. PICK ph \in {"ask", "seq"} : Ask(c, ph) /\ Begins(c, ph, NoPoint, {}, NoPoints)
    BY <1>16, InspectionMoves
  <2>2. UNCHANGED <<connected, points, forgotten, emu>> BY <2>1 DEF Ask, hvars
  <2> QED BY <2>1, <2>2, BeginsPlain DEF PlainPhases
<1>17. ASSUME NEW c \in Callers, CheckpointSave(c) PROVE PointsInv'
  <2> DEFINE own == DOMAIN points \ Watches
  <2>1. connected /\ UNCHANGED <<connected, points, forgotten, emu>>
    BY <1>17 DEF CheckpointSave, _paused, hvars
  <2>2. own \subseteq DOMAIN points OBVIOUS
  <2> HIDE DEF own
  <2>3. ASSUME Begins(c, "save", NoPoint, {}, NoPoints) PROVE PointsInv'
    <3>1. /\ plan'.phase = "save" /\ plan'.lifted = {}
          /\ emu.session => emu.points = Held
      BY <2>1, <2>3, BeginsAsks DEF Phases
    <3> QED BY <2>1, <3>1 DEF PointsInv, Keeps
  <2>4. ASSUME NEW q \in own, Begins(c, "lift", q, own \ {q}, NoPoints) PROVE PointsInv'
    <3>1. /\ Pending' /\ plan'.phase = "lift" /\ plan'.p = q /\ plan'.left = own \ {q}
          /\ plan'.lifted = {}
          /\ emu.session => emu.points = Held
      BY <2>1, <2>4, BeginsAsks DEF Phases
    <3>2. q \in DOMAIN points /\ own \ {q} \subseteq DOMAIN points BY <2>2
    <3> QED BY <2>1, <3>1, <3>2 DEF PointsInv, Keeps
  <2> QED BY <1>17, <2>3, <2>4, CheckpointSaveMoves DEF own
<1>18. ASSUME NEW c \in Callers, CheckpointRestore(c) PROVE PointsInv'
  <2>1. Begins(c, "restore", NoPoint, {}, NoPoints)
    BY <1>18, StartBegins DEF CheckpointRestore, Call
  <2>2. connected /\ UNCHANGED <<connected, points, forgotten, emu>>
    BY <1>18 DEF CheckpointRestore, _paused, hvars
  <2>3. /\ Pending' /\ (\A r \in Replies : ~Come(r)') /\ plan'.phase = "restore"
        /\ emu.session => emu.points = Held
    BY <2>1, <2>2, BeginsAsks DEF Phases
  <2> QED BY <2>2, <2>3 DEF PointsInv, Keeps
<1>19. ASSUME NEW c \in Callers, ResetSeen(c) PROVE PointsInv'
  <2>1. UNCHANGED <<points, forgotten>> BY <1>19 DEF ResetSeen
  <2>2. Apart
    BY <1>19, <1>0 DEF ResetSeen, Apart, Local, Sends, Orders, vars, hvars, lvars,
       cvars, evars
  <2> QED BY <2>1, <2>2, ApartPoints
<1>20. ASSUME NEW c \in Callers, ResetReconnect(c) PROVE PointsInv'
  <2>1. CASE Open(c)
    <3>1. plan'.phase = "hello" /\ emu'.points = {} /\ points' = NoPoints /\ forgotten' = {}
      BY <2>1 DEF Open, Idle, Detached
    <3> QED BY <3>1, NoPointsFact, PlainPoints DEF PlainPhases
  <2>2. CASE UNCHANGED <<hvars, points, forgotten, lvars, evars>>
    <3>1. Apart BY <2>2 DEF Apart, Local, Sends, hvars, lvars, evars
    <3> QED BY <2>2, <3>1, ApartPoints
  <2> QED BY <1>20, <2>1, <2>2 DEF ResetReconnect
<1>21. ASSUME NEW c \in Callers, ResetRearm(c) PROVE PointsInv'
  <2>1. /\ UNCHANGED <<connected, emu, toHost>> /\ lock = NoOne /\ points' = NoPoints
        /\ forgotten' = forgotten \cup (DOMAIN points \cap Watches)
    BY <1>21, Zenon DEF ResetRearm, hvars
  <2>2. PICK replaced \in BOOLEAN :
           LET all == Merged(points, caller[c].saved, replaced) IN
           \/ (connected => DOMAIN all = {}) /\ UNCHANGED <<lvars, toEmu>>
           \/ connected /\ \E q \in DOMAIN all : Begins(c, "arm", q, DOMAIN all \ {q}, all)
    BY <1>21, ResetRearmMoves
  <2> DEFINE all == Merged(points, caller[c].saved, replaced)
  <2>3. points \in Tables /\ caller[c].saved \in Tables BY <1>0 DEF TypeOK
  <2>4. DOMAIN points \subseteq DOMAIN all \cup Watches BY <2>3, MergedFact
  <2>5. DOMAIN points' = {} BY <2>1, NoPointsFact
  <2> HIDE DEF all
  <2>6. CASE ~connected BY <2>1, <2>6, ClosedPoints
  <2>7. CASE connected /\ DOMAIN all = {} /\ UNCHANGED <<lvars, toEmu>>
    <3>1. Held' = Held BY <2>1, <2>4, <2>5, <2>7
    <3>2. connected' /\ emu'.session => emu'.points = Held'
      BY <1>0, <2>1, <2>7, <3>1, FreeFact DEF ReplyInv
    <3>3. plan'.phase = "none" BY <1>0, <2>1, <2>7, IdleFact DEF PlanInv, lvars
    <3> QED BY <3>2, <3>3, PlainPoints DEF PlainPhases
  <2>8. ASSUME connected, NEW q \in DOMAIN all, Begins(c, "arm", q, DOMAIN all \ {q}, all)
        PROVE  PointsInv'
    <3>1. /\ Pending' /\ plan'.phase = "arm" /\ plan'.p = q
          /\ plan'.left = DOMAIN all \ {q} /\ plan'.kept = all
          /\ emu.session => emu.points = Held
      BY <2>1, <2>8, BeginsAsks DEF Phases
    <3>2. DOMAIN plan'.kept = DOMAIN points' \cup plan'.left \cup {plan'.p}
      BY <2>5, <2>8, <3>1
    <3>3. emu.session => /\ forgotten' \cup DOMAIN points' \subseteq emu.points
                         /\ emu.points \subseteq forgotten' \cup DOMAIN plan'.kept
      BY <2>1, <2>4, <2>5, <3>1
    <3> QED BY <2>1, <3>1, <3>2, <3>3 DEF PointsInv, Keeps
  <2> QED BY <2>2, <2>6, <2>7, <2>8 DEF all
<1>22. ASSUME NEW c \in Callers, ResetResume(c) PROVE PointsInv'
  <2>1. UNCHANGED <<points, forgotten>> BY <1>22 DEF ResetResume
  <2>2. Apart
    BY <1>22, <1>0 DEF ResetResume, _run, _paused, Apart, Local, Sends, Orders, vars,
       hvars, lvars, cvars, evars
  <2> QED BY <2>1, <2>2, ApartPoints
<1>23. ASSUME HelloDone PROVE PointsInv'
  <2>1. (Release /\ ~connected)
        \/ GoesOn("exec", NoPoint, plan.left, plan.lifted, plan.kept, plan.ok)
    BY <1>0, <1>23, RequestGoesOn DEF HelloDone, HolderOK
  <2>2. plan.phase = "hello" /\ UNCHANGED <<connected, points, forgotten, emu>>
    BY <1>23 DEF HelloDone, Ok, Answered, hvars
  <2>3. connected /\ emu.session => emu.points = Held
    BY <2>2, PlainFact DEF PlainPhases
  <2>4. CASE ~connected BY <2>2, <2>4, ClosedPoints
  <2> QED BY <2>1, <2>2, <2>3, <2>4, GoesOnPlain DEF PlainPhases
<1>24. ASSUME HelloDenied PROVE PointsInv'
  <2>1. ~connected' BY <1>24 DEF HelloDenied, Lost
  <2> QED BY <2>1, ClosedPoints
<1>25. ASSUME ExecutionDone PROVE PointsInv'
  <2>1. /\ Release /\ plan.phase = "exec" /\ UNCHANGED <<connected, emu>>
        /\ DOMAIN points' = DOMAIN points /\ UNCHANGED forgotten
    BY <1>25 DEF ExecutionDone, Ok, Denied, Answered, _run, hvars, evars
  <2>2. connected /\ emu.session => emu.points = Held
    BY <2>1, PlainFact DEF PlainPhases
  <2> QED BY <2>1, <2>2, ReleasePoints
<1>26. ASSUME ByeDone PROVE PointsInv'
  <2>1. ~connected' BY <1>26 DEF ByeDone, Lost
  <2> QED BY <2>1, ClosedPoints
<1>27. ASSUME StepOverDone PROVE PointsInv'
  <2>1. /\ Release /\ plan.phase = "over" /\ UNCHANGED <<connected, emu>>
        /\ DOMAIN points' = DOMAIN points /\ UNCHANGED forgotten
    BY <1>27 DEF StepOverDone, Ok, Denied, Answered, _run, hvars, evars
  <2>2. connected /\ emu.session => emu.points = Held
    BY <2>1, PlainFact DEF PlainPhases
  <2> QED BY <2>1, <2>2, ReleasePoints
<1>28. ASSUME StepOverDenied PROVE PointsInv'
  <2>1. /\ Release /\ plan.phase = "over" /\ UNCHANGED <<connected, emu>>
        /\ DOMAIN points' = DOMAIN points /\ UNCHANGED forgotten
    BY <1>28 DEF StepOverDenied, Ok, Denied, Answered, _run, hvars, evars
  <2>2. connected /\ emu.session => emu.points = Held
    BY <2>1, PlainFact DEF PlainPhases
  <2> QED BY <2>1, <2>2, ReleasePoints
<1>29. ASSUME RangeStepDone PROVE PointsInv'
  <2>1. /\ Release /\ plan.phase = "vcont" /\ UNCHANGED <<connected, emu>>
        /\ DOMAIN points' = DOMAIN points /\ UNCHANGED forgotten
    BY <1>29 DEF RangeStepDone, Ok, Denied, Answered, _run, hvars, evars
  <2>2. connected /\ emu.session => emu.points = Held
    BY <2>1, PlainFact DEF PlainPhases
  <2> QED BY <2>1, <2>2, ReleasePoints
<1>30. ASSUME AddDone PROVE PointsInv'
  <2>1. /\ Ok("set") /\ Release /\ UNCHANGED <<connected, forgotten, emu>>
        /\ points' = With(points, plan.p, plan.kept[plan.p])
    BY <1>30 DEF AddDone, hvars, evars
  <2>2. plan.phase = "set" /\ plan.p \notin Refused /\ ~Pending
    BY <1>0, <2>1, OkFact, AnsweredFact DEF Truthful, Wire
  <2>3. DOMAIN points' = DOMAIN points \cup {plan.p} BY <2>1 DEF With
  <2>4. connected /\ emu.session => emu.points = Held'
    BY <2>1, <2>2, <2>3 DEF PointsInv, Keeps
  <2> QED BY <2>1, <2>4, ReleasePoints
<1>31. ASSUME RemoveDone PROVE PointsInv'
  <2>1. /\ Ok("del") /\ UNCHANGED <<connected, forgotten, emu>> /\ points' = Without(points, plan.p)
    BY <1>31 DEF RemoveDone, hvars
  <2>2. plan.phase = "del" /\ ~Pending /\ reply # NoReply
    BY <1>0, <2>1, OkFact, AnsweredFact
  <2>3. DOMAIN points' = DOMAIN points \ {plan.p} BY <2>1 DEF Without
  <2>4. connected /\ emu.session =>
           emu.points = Held' /\ plan.left \subseteq DOMAIN points'
    BY <2>1, <2>2, <2>3 DEF PointsInv, Keeps
  <2>5. ASSUME NEW q \in plan.left,
               GoesOn("del", q, plan.left \ {q}, plan.lifted, plan.kept, plan.ok)
        PROVE  PointsInv'
    <3>1. Pending' /\ plan'.phase = "del" /\ plan'.p = q /\ plan'.left = plan.left \ {q}
      BY <2>1, <2>2, <2>5, GoesOnAsks DEF Phases
    <3> QED BY <2>1, <2>4, <3>1 DEF PointsInv, Keeps
  <2>6. CASE Release BY <2>1, <2>4, <2>6, ReleasePoints
  <2> QED BY <1>0, <1>31, <2>5, <2>6, RemoveDoneMoves
<1>32. ASSUME SequenceDone PROVE PointsInv'
  <2>1. /\ Release /\ plan.phase = "seq" /\ UNCHANGED <<connected, emu>>
        /\ DOMAIN points' = DOMAIN points /\ UNCHANGED forgotten
    BY <1>32 DEF SequenceDone, Ok, Denied, Answered, _run, hvars, evars
  <2>2. connected /\ emu.session => emu.points = Held
    BY <2>1, PlainFact DEF PlainPhases
  <2> QED BY <2>1, <2>2, ReleasePoints
<1>33. ASSUME AskMore PROVE PointsInv'
  <2>1. (Release /\ ~connected)
        \/ GoesOn("ask", NoPoint, plan.left, plan.lifted, plan.kept, plan.ok)
    BY <1>0, <1>33, RequestGoesOn DEF AskMore, HolderOK
  <2>2. plan.phase = "ask" /\ UNCHANGED <<connected, points, forgotten, emu>>
    BY <1>33 DEF AskMore, Ok, Answered, hvars
  <2>3. connected /\ emu.session => emu.points = Held
    BY <2>2, PlainFact DEF PlainPhases
  <2>4. CASE ~connected BY <2>2, <2>4, ClosedPoints
  <2> QED BY <2>1, <2>2, <2>3, <2>4, GoesOnPlain DEF PlainPhases
<1>34. ASSUME AskDone PROVE PointsInv'
  <2>1. Release /\ UNCHANGED <<connected, points, forgotten, emu>>
    BY <1>34 DEF AskDone, hvars, evars
  <2>2. CASE Answered("ask") \/ Denied("seq") \/ Denied("vcont") \/ Denied("exec")
    <3>1. plan.phase \in PlainPhases BY <2>2 DEF Denied, Answered, PlainPhases
    <3> QED BY <2>1, <3>1, PlainFact, ReleasePoints
  <2>3. CASE connected /\ Denied("set")
    <3>1. plan.phase = "set" /\ plan.p \in Refused /\ ~Pending
      BY <1>0, <2>3, DeniedFact, AnsweredFact DEF Truthful, Wire
    <3>2. emu.session => emu.points = Held BY <2>3, <3>1 DEF PointsInv, Keeps
    <3> QED BY <2>1, <3>2, ReleasePoints
  <2>4. CASE connected /\ Denied("del")
    BY <1>0, <2>4, DeniedFact DEF Truthful, Wire
  <2>5. CASE connected /\ Denied("restore")
    <3>1. plan.phase = "restore" /\ reply \in Replies /\ Come(reply) /\ ~reply.ok
      BY <1>0, <2>5, DeniedFact, AnsweredFact
    <3>2. emu.session => emu.points = Held BY <2>5, <3>1 DEF PointsInv, Keeps
    <3> QED BY <2>1, <3>2, ReleasePoints
  <2>6. CASE ~connected BY <2>1, <2>6, ClosedPoints
  <2> QED BY <1>34, <2>2, <2>3, <2>4, <2>5, <2>6 DEF AskDone
<1>35. ASSUME LiftDone PROVE PointsInv'
  <2>1. Ok("lift") /\ UNCHANGED <<connected, points, forgotten, emu>> BY <1>35 DEF LiftDone, hvars
  <2>2. plan.phase = "lift" /\ ~Pending /\ reply # NoReply
    BY <1>0, <2>1, OkFact, AnsweredFact
  <2> DEFINE lifted == plan.lifted \cup {plan.p}
  <2>3. connected /\ emu.session =>
           /\ emu.points = forgotten \cup (DOMAIN points \ lifted) /\ lifted \subseteq DOMAIN points
           /\ plan.left \subseteq DOMAIN points
    BY <2>2 DEF PointsInv, Keeps
  <2>4. plan.p \in Points BY <1>0, <2>2 DEF ReplyInv, PlanInv, Wire
  <2> HIDE DEF lifted
  <2>5. ASSUME GoesOn("save", NoPoint, {}, lifted, plan.kept, plan.ok) PROVE PointsInv'
    <3>1. plan'.phase = "save" /\ plan'.lifted = lifted BY <2>5 DEF GoesOn, Plan
    <3> QED BY <2>1, <2>3, <3>1 DEF PointsInv, Keeps
  <2>6. ASSUME NEW q \in plan.left,
               GoesOn("lift", q, plan.left \ {q}, lifted, plan.kept, plan.ok)
        PROVE  PointsInv'
    <3>1. /\ Pending' /\ plan'.phase = "lift" /\ plan'.p = q /\ plan'.left = plan.left \ {q}
          /\ plan'.lifted = lifted
      BY <2>1, <2>2, <2>6, GoesOnAsks DEF Phases
    <3> QED BY <2>1, <2>3, <3>1 DEF PointsInv, Keeps
  <2>7. CASE ~connected BY <2>1, <2>7, ClosedPoints
  <2> QED BY <1>0, <1>35, <2>4, <2>5, <2>6, <2>7, LiftDoneMoves DEF lifted
<1>36. ASSUME SaveDone PROVE PointsInv'
  <2>1. UNCHANGED <<connected, points, forgotten, emu>> /\ (Answered("save") \/ Denied("lift"))
    BY <1>36 DEF SaveDone, hvars, Checkpointed
  <2>2. reply # NoReply BY <2>1 DEF Denied, Answered
  <2>3. CASE ~connected BY <2>1, <2>3, ClosedPoints
  <2>4. CASE connected
    <3>1. ~Denied("lift") BY <1>0, <2>4, DeniedFact DEF Truthful, Wire
    <3>2. plan.phase = "save" BY <2>1, <3>1 DEF Answered
    <3>3. emu.session => emu.points = forgotten \cup (DOMAIN points \ plan.lifted)
                         /\ plan.lifted \subseteq DOMAIN points
      BY <2>4, <3>2 DEF PointsInv, Keeps
    <3>4. CASE Release /\ plan.lifted = {} BY <2>1, <3>3, <3>4, ReleasePoints
    <3>5. CASE plan.lifted = {} /\ GoesOn("ask", NoPoint, {}, {}, NoPoints, TRUE)
      BY <2>1, <3>3, <3>5, GoesOnPlain DEF PlainPhases
    <3>6. ASSUME NEW q \in plan.lifted, NEW ok \in BOOLEAN,
                 GoesOn("back", q, plan.lifted \ {q}, plan.lifted, plan.kept, ok)
          PROVE  PointsInv'
      <4>1. /\ Pending' /\ plan'.phase = "back" /\ plan'.p = q
            /\ plan'.left = plan.lifted \ {q}
        BY <2>1, <2>2, <3>6, GoesOnAsks DEF Phases
      <4>2. (plan.lifted \ {q}) \cup {q} = plan.lifted BY <3>6
      <4> QED BY <2>1, <2>4, <3>3, <4>1, <4>2 DEF PointsInv, Keeps
    <3> QED BY <1>0, <1>36, <2>4, <3>4, <3>5, <3>6, SaveDoneMoves
  <2> QED BY <2>3, <2>4
<1>37. ASSUME PutBackDone PROVE PointsInv'
  <2>1. UNCHANGED <<connected, points, forgotten, emu>> /\ Answered("back")
    BY <1>37 DEF PutBackDone, hvars, Checkpointed
  <2>2. reply # NoReply /\ plan.phase = "back" /\ ~Pending
    BY <1>0, <2>1, AnsweredFact DEF Answered
  <2>3. CASE ~connected \/ ~emu.session BY <2>1, <2>3, ClosedPoints
  <2>4. CASE connected /\ emu.session
    <3>1. /\ emu.points = forgotten \cup (DOMAIN points \ plan.left) /\ plan.p \in DOMAIN points
          /\ plan.left \subseteq DOMAIN points
      BY <2>2, <2>4 DEF PointsInv, Keeps
    <3>2. ~Denied("back")
      BY <1>0, <2>4, <3>1, DeniedFact DEF Truthful, Wire, AcceptedInv
    <3>3. CASE Release /\ plan.left = {} BY <2>1, <3>1, <3>3, ReleasePoints
    <3>4. CASE plan.left = {} /\ GoesOn("ask", NoPoint, {}, {}, NoPoints, TRUE)
      BY <2>1, <3>1, <3>4, GoesOnPlain DEF PlainPhases
    <3>5. ASSUME NEW q \in plan.left,
                 GoesOn("back", q, plan.left \ {q}, plan.lifted, plan.kept, plan.ok)
          PROVE  PointsInv'
      <4>1. /\ Pending' /\ plan'.phase = "back" /\ plan'.p = q
            /\ plan'.left = plan.left \ {q}
        BY <2>1, <2>2, <3>5, GoesOnAsks DEF Phases
      <4>2. (plan.left \ {q}) \cup {q} = plan.left BY <3>5
      <4> QED BY <2>1, <3>1, <4>1, <4>2 DEF PointsInv, Keeps
    <3> QED BY <1>0, <1>37, <2>4, <3>2, <3>3, <3>4, <3>5, PutBackDoneMoves
  <2> QED BY <2>3, <2>4
<1>38. ASSUME RestoreDone PROVE PointsInv'
  <2>1. UNCHANGED <<connected, emu>> /\ forgotten' = {} /\ Ok("restore")
    BY <1>38 DEF RestoreDone, hvars, Checkpointed
  <2>2. CASE ~connected \/ ~emu.session BY <2>1, <2>2, ClosedPoints
  <2>3. CASE connected /\ emu.session
    <3>1. /\ plan.phase = "restore" /\ reply # NoReply /\ reply \in Replies /\ Come(reply)
          /\ reply.ok
      BY <1>0, <2>1, <2>3, OkFact, AnsweredFact
    <3>2. emu.points = {} BY <2>3, <3>1 DEF PointsInv, Keeps
    <3>3. CASE DOMAIN points = {} /\ UNCHANGED points /\ Release
      BY <2>1, <3>2, <3>3, ReleasePoints
    <3>4. CASE DOMAIN points = {} /\ UNCHANGED points
                /\ GoesOn("ask", NoPoint, {}, {}, NoPoints, TRUE)
      BY <2>1, <3>2, <3>4, GoesOnPlain DEF PlainPhases
    <3>5. ASSUME points' = NoPoints, NEW q \in DOMAIN points,
                 GoesOn("arm", q, DOMAIN points \ {q}, {}, points, TRUE)
          PROVE  PointsInv'
      <4>1. /\ Pending' /\ plan'.phase = "arm" /\ plan'.p = q
            /\ plan'.left = DOMAIN points \ {q} /\ plan'.kept = points
        BY <2>1, <3>1, <3>5, GoesOnAsks DEF Phases
      <4>2. DOMAIN points' = {} BY <3>5, NoPointsFact
      <4>3. DOMAIN plan'.kept = DOMAIN points' \cup plan'.left \cup {plan'.p}
        BY <3>5, <4>1, <4>2
      <4> QED BY <2>1, <3>2, <4>1, <4>2, <4>3 DEF PointsInv, Keeps
    <3>6. points \in Tables BY <1>0 DEF ReplyInv, TypeOK
    <3> QED BY <1>38, <2>3, <3>3, <3>4, <3>5, <3>6, RestoreDoneMoves
  <2> QED BY <2>2, <2>3
<1>39. ASSUME ArmDone PROVE PointsInv'
  <2>1. /\ UNCHANGED <<connected, forgotten, emu>> /\ Ok("arm")
        /\ points' = With(points, plan.p, plan.kept[plan.p])
    BY <1>39 DEF ArmDone, hvars, Checkpointed
  <2>2. plan.phase = "arm" /\ ~Pending /\ reply # NoReply
    BY <1>0, <2>1, OkFact, AnsweredFact
  <2>3. CASE ~connected \/ ~emu.session BY <2>1, <2>3, ClosedPoints
  <2>4. CASE connected /\ emu.session
    <3>1. DOMAIN points' = DOMAIN points \cup {plan.p} BY <2>1 DEF With
    <3>2. /\ Held' \subseteq emu.points /\ emu.points \subseteq forgotten \cup DOMAIN plan.kept
          /\ DOMAIN plan.kept = DOMAIN points' \cup plan.left
      BY <2>1, <2>2, <2>4, <3>1 DEF PointsInv, Keeps
    <3>3. CASE Release /\ plan.left = {} BY <2>1, <3>2, <3>3, ReleasePoints
    <3>4. CASE plan.left = {} /\ GoesOn("ask", NoPoint, {}, {}, NoPoints, TRUE)
      BY <2>1, <3>2, <3>4, GoesOnPlain DEF PlainPhases
    <3>5. ASSUME NEW q \in plan.left,
                 GoesOn("arm", q, plan.left \ {q}, plan.lifted, plan.kept, plan.ok)
          PROVE  PointsInv'
      <4>1. /\ Pending' /\ plan'.phase = "arm" /\ plan'.p = q
            /\ plan'.left = plan.left \ {q} /\ plan'.kept = plan.kept
        BY <2>1, <2>2, <3>5, GoesOnAsks DEF Phases
      <4> QED BY <2>1, <3>2, <3>5, <4>1 DEF PointsInv, Keeps
    <3> QED BY <1>0, <1>39, <2>4, <3>3, <3>4, <3>5, ArmDoneMoves
  <2> QED BY <2>3, <2>4
<1>40. ASSUME ArmDenied PROVE PointsInv'
  <2>1. UNCHANGED connected /\ Denied("arm") BY <1>40 DEF ArmDenied, hvars
  <2>2. ASSUME connected PROVE FALSE
    <3>1. plan.phase = "arm" /\ plan.p \in Refused
      BY <1>0, <2>1, <2>2, DeniedFact DEF Truthful, Wire
    <3>2. plan.p \in DOMAIN plan.kept BY <1>0, <3>1 DEF ReplyInv, PlanInv
    <3> QED BY <3>1, <3>2 DEF AcceptedInv
  <2> QED BY <2>1, <2>2, ClosedPoints
<1>41. ASSUME KeysDone PROVE PointsInv'
  <2>1. /\ Release /\ plan.phase = "keys" /\ UNCHANGED <<connected, emu>>
        /\ DOMAIN points' = DOMAIN points /\ UNCHANGED forgotten
    BY <1>41 DEF KeysDone, Ok, Denied, Answered, _run, hvars, evars
  <2>2. connected /\ emu.session => emu.points = Held
    BY <2>1, PlainFact DEF PlainPhases
  <2> QED BY <2>1, <2>2, ReleasePoints
<1>42. ASSUME KeysDenied PROVE PointsInv'
  <2>1. /\ Release /\ plan.phase = "keys" /\ UNCHANGED <<connected, emu>>
        /\ DOMAIN points' = DOMAIN points /\ UNCHANGED forgotten
    BY <1>42 DEF KeysDenied, Ok, Denied, Answered, _run, hvars, evars
  <2>2. connected /\ emu.session => emu.points = Held
    BY <2>1, PlainFact DEF PlainPhases
  <2> QED BY <2>1, <2>2, ReleasePoints
<1>43. ASSUME ProcessSkips PROVE PointsInv'
  <2>1. /\ Release /\ plan.phase = "pc" /\ UNCHANGED <<connected, emu>>
        /\ DOMAIN points' = DOMAIN points /\ UNCHANGED forgotten
    BY <1>43 DEF ProcessSkips, Ok, Denied, Answered, _run, hvars, evars
  <2>2. connected /\ emu.session => emu.points = Held
    BY <2>1, PlainFact DEF PlainPhases
  <2> QED BY <2>1, <2>2, ReleasePoints
<1>44. ASSUME ProcessOneshot PROVE PointsInv'
  <2>1. Request(plan, "shot", reply.val) /\ UNCHANGED <<connected, points, forgotten, emu>> /\ Ok("pc")
    BY <1>44 DEF ProcessOneshot, hvars
  <2>2. (Release /\ ~connected)
        \/ GoesOn("shot", reply.val, plan.left, plan.lifted, plan.kept, plan.ok)
    BY <1>0, <2>1, RequestGoesOn DEF HolderOK
  <2>3. plan.phase = "pc" /\ reply # NoReply BY <2>1 DEF Ok, Answered
  <2>4. connected /\ emu.session => emu.points = Held
    BY <2>3, PlainFact DEF PlainPhases
  <2>5. CASE ~connected BY <2>1, <2>5, ClosedPoints
  <2>6. CASE GoesOn("shot", reply.val, plan.left, plan.lifted, plan.kept, plan.ok)
    <3>1. Pending' /\ plan'.phase = "shot" BY <2>1, <2>3, <2>6, GoesOnAsks DEF Phases
    <3> QED BY <2>1, <2>4, <3>1 DEF PointsInv, Keeps
  <2> QED BY <2>2, <2>5, <2>6
<1>45. ASSUME ProcessReports PROVE PointsInv'
  <2>1. Release /\ UNCHANGED <<connected, forgotten, emu>>
    BY <1>45 DEF ProcessReports, Report, _signal_stop, evars
  <2>2. CASE ~connected BY <2>1, <2>2, ClosedPoints
  <2>3. CASE connected /\ plan.phase = "pc"
    <3>1. points' = points BY <1>45, <2>3 DEF ProcessReports, Ok, Answered
    <3> QED BY <2>1, <2>3, <3>1, PlainFact, ReleasePoints DEF PlainPhases
  <2>4. CASE connected /\ plan.phase = "shot"
    <3>1. Answered("shot") BY <1>45, <2>4 DEF ProcessReports, Ok, Denied, Answered
    <3>2. Ok("shot") BY <1>0, <2>4, <3>1, DeniedFact DEF Ok, Denied, Truthful, Wire
    <3>3. points' = Without(points, plan.p) BY <1>45, <3>2 DEF ProcessReports
    <3>4. DOMAIN points' = DOMAIN points \ {plan.p} BY <3>3 DEF Without
    <3>5. ~Pending BY <1>0, <3>2, OkFact, AnsweredFact
    <3>6. emu.session => emu.points = Held'
      BY <2>1, <2>4, <3>4, <3>5 DEF PointsInv, Keeps
    <3> QED BY <2>1, <3>6, ReleasePoints
  <2>5. plan.phase \in {"pc", "shot"} BY <1>45 DEF ProcessReports, Ok, Denied, Answered
  <2> QED BY <2>2, <2>3, <2>4, <2>5
<1>46. ASSUME RequestTimeout PROVE PointsInv'
  <2>1. ~connected' BY <1>46 DEF RequestTimeout, Lost
  <2> QED BY <2>1, ClosedPoints
<1>47. ASSUME ProcessTimeout PROVE PointsInv'
  <2>1. ~connected' BY <1>47 DEF ProcessTimeout
  <2> QED BY <2>1, ClosedPoints
<1>48. ASSUME ProcessStart PROVE PointsInv'
  <2>1. CASE connected
    <3>1. Begins(Process, "pc", NoPoint, {}, NoPoints)
      BY <1>48, <2>1, StartBegins DEF ProcessStart
    <3>2. UNCHANGED <<connected, points, forgotten, emu>> BY <1>48, <2>1 DEF ProcessStart, hvars
    <3> QED BY <3>1, <3>2, BeginsPlain DEF PlainPhases
  <2>2. CASE ~connected
    <3>1. ~connected' BY <1>48, <2>2 DEF ProcessStart, Report, _signal_stop
    <3> QED BY <3>1, ClosedPoints
  <2> QED BY <2>1, <2>2
<1>49. ASSUME ReadStop PROVE PointsInv'
  <2>1. TakesStop /\ UNCHANGED forgotten
    BY <1>49 DEF ReadStop, TakesStop, Incoming, IsReply, Quiet, _signal_stop, hvars, lvars,
       cvars, evars
  <2> QED BY <2>1, ReadPoints
<1>50. ASSUME ReadReply PROVE PointsInv'
  <2>1. TakesReply /\ UNCHANGED forgotten
    BY <1>50 DEF ReadReply, TakesReply, Incoming, IsReply, Quiet, _signal_stop, hvars, lvars,
       cvars, evars
  <2> QED BY <2>1, ReadPoints
<1>51. ASSUME ReadClosed PROVE PointsInv'
  <2>1. ~connected' BY <1>51 DEF ReadClosed, Lost
  <2> QED BY <2>1, ClosedPoints
<1>52. ASSUME Emulator PROVE PointsInv'
  BY <1>52
<1>53. ASSUME UNCHANGED vars PROVE PointsInv'
  <2>1. UNCHANGED <<points, forgotten>> /\ Apart
    BY <1>53 DEF Apart, Local, Sends, vars, hvars, lvars, cvars, evars
  <2> QED BY <2>1, ApartPoints
<1> QED
    BY <1>1, <1>2, <1>3, <1>4, <1>5, <1>6, <1>7, <1>8, <1>9, <1>10, <1>11, <1>12,
       <1>13, <1>14, <1>15, <1>16, <1>17, <1>18, <1>19, <1>20, <1>21, <1>22, <1>23,
       <1>24, <1>25, <1>26, <1>27, <1>28, <1>29, <1>30, <1>31, <1>32, <1>33, <1>34,
       <1>35, <1>36, <1>37, <1>38, <1>39, <1>40, <1>41, <1>42, <1>43, <1>44, <1>45,
       <1>46, <1>47, <1>48, <1>49, <1>50, <1>51, <1>52, <1>53, Zenon DEF Emulator,
       Next, Operations, ResetStep, HolderStep, ReaderStep, amiga_winuae_control,
       amiga_winuae_range_step, PointTools, amiga_winuae_checkpoint

\* WinUAE.
LEMMA EmuSamePoints ==
    ASSUME ReplyInv, PointsInv, TakesOrder \/ Emits, emu'.points = emu.points,
           UNCHANGED forgotten
    PROVE  PointsInv'
<1>1. UNCHANGED <<connected, points, plan, reply>> /\ emu.session
  BY DEF TakesOrder, Emits, lvars
<1>2. Pending' <=> Pending
  <2>1. CASE TakesOrder BY <2>1, OrderPends
  <2>2. CASE Emits BY <2>2 DEF Emits, Pending
  <2> QED BY <2>1, <2>2
<1>3. \A r \in Replies : Come(r)' => Come(r)
  <2>1. Traffic BY DEF Traffic, EmuTraffic
  <2>2. ~TakesRequest
    <3>1. CASE TakesOrder BY <3>1 DEF TakesOrder, TakesRequest
    <3>2. CASE Emits
      <4>1. ASSUME TakesRequest PROVE FALSE
        <5>1. toEmu \in Seq([cmd : Commands, p : Points \cup {NoPoint}]) /\ toEmu # <<>>
          BY <4>1 DEF ReplyInv, TypeOK, TakesRequest
        <5>2. toEmu' = Tail(toEmu) /\ toEmu' = toEmu BY <3>2, <4>1 DEF TakesRequest, Emits
        <5>3. Len(Tail(toEmu)) # Len(toEmu) BY <5>1, HeadFact
        <5> QED BY <5>2, <5>3
      <4> QED BY <4>1
    <3> QED BY <3>1, <3>2
  <2> QED BY <1>1, <2>1, <2>2, ComeFact
<1> QED BY <1>1, <1>2, <1>3, SamePoints

\* A request that concerns no point, or the end of the session.
LEMMA OtherRequest ==
    ASSUME ReplyInv, PointsInv, TakesRequest, Head(toEmu).cmd \notin {"Z", "z", "restore"},
           emu'.points = emu.points \/ Head(toEmu).cmd = "bye", UNCHANGED forgotten
    PROVE  PointsInv'
<1>1. UNCHANGED <<connected, points, plan>> /\ emu.session
  BY DEF TakesRequest, lvars
<1>2. Wire(plan.phase) = Head(toEmu).cmd BY TakenPends DEF Outstanding
<1>3. plan.phase \in Phases \ {"set", "arm", "back", "del", "lift", "shot", "restore"}
  BY <1>2 DEF Wire, ReplyInv, TypeOK
<1>4. plan.phase # "bye" => emu'.points = emu.points BY <1>2, <1>3 DEF Wire
<1>5. CASE plan.phase = "bye" BY <1>1, <1>5 DEF PointsInv, Keeps
<1>6. CASE plan.phase = "save" BY <1>1, <1>4, <1>6 DEF PointsInv, Keeps
<1>7. CASE plan.phase \in PlainPhases
  BY <1>1, <1>4, <1>7, PlainFact, PlainPoints DEF PlainPhases, Held
<1> QED BY <1>3, <1>5, <1>6, <1>7 DEF Phases, PlainPhases

LEMMA InsertPoints ==
    ASSUME ReplyInv, AcceptedInv, PointsInv, EmuInsert, TakesRequest, UNCHANGED forgotten
    PROVE  PointsInv'
<1> DEFINE q == Head(toEmu).p
<1>1. UNCHANGED <<connected, points, plan>> /\ emu.session
  BY DEF TakesRequest, lvars
<1>2. /\ Wire(plan.phase) = "Z" /\ plan.p = q /\ Pending /\ ~Pending'
  BY TakenPends DEF Outstanding, EmuInsert, Taken
<1>3. plan.phase \in {"set", "arm", "back"} BY <1>2 DEF Wire, ReplyInv, TypeOK, Phases
<1>4. emu'.points = IF q \in Refused THEN emu.points ELSE emu.points \cup {q}
  BY DEF EmuInsert, ReplyInv, TypeOK
<1> HIDE DEF q
<1>5. ASSUME connected PROVE Keeps'
  <2>1. Keeps BY <1>1, <1>5 DEF PointsInv
  <2>2. CASE plan.phase = "set" BY <1>1, <1>2, <1>4, <2>1, <2>2 DEF Keeps
  <2>3. CASE plan.phase = "arm"
    <3>1. q \in DOMAIN plan.kept /\ q \notin Refused
      BY <1>2, <2>3 DEF ReplyInv, PlanInv, AcceptedInv
    <3> QED BY <1>1, <1>2, <1>4, <2>1, <2>3, <3>1 DEF Keeps
  <2>4. CASE plan.phase = "back"
    <3>1. /\ q \in DOMAIN points /\ q \notin plan.left /\ plan.left \subseteq DOMAIN points
          /\ emu.points = forgotten \cup (DOMAIN points \ (plan.left \cup {q}))
      BY <1>2, <2>1, <2>4 DEF Keeps
    <3>2. q \notin Refused BY <3>1 DEF AcceptedInv
    <3>3. emu'.points = forgotten \cup (DOMAIN points \ (plan.left \cup {})) BY <1>4, <3>1, <3>2
    <3> QED BY <1>1, <1>2, <2>4, <3>1, <3>3 DEF Keeps
  <2> QED BY <1>3, <2>2, <2>3, <2>4
<1> QED BY <1>1, <1>5 DEF PointsInv

LEMMA RemovePoints ==
    ASSUME ReplyInv, PointsInv, EmuRemove, TakesRequest, UNCHANGED forgotten
    PROVE  PointsInv'
<1>1. UNCHANGED <<connected, points, plan>> /\ emu.session
  BY DEF TakesRequest, lvars
<1>2. /\ Wire(plan.phase) = "z" /\ plan.p = Head(toEmu).p /\ Pending /\ ~Pending'
  BY TakenPends DEF Outstanding, EmuRemove, Taken
<1>3. plan.phase \in {"del", "lift", "shot"} BY <1>2 DEF Wire, ReplyInv, TypeOK, Phases
<1>4. emu'.points = emu.points \ ({plan.p} \ forgotten) BY <1>2 DEF EmuRemove, ReplyInv, TypeOK
<1>5. ASSUME connected PROVE Keeps'
  <2>1. Keeps BY <1>1, <1>5 DEF PointsInv
  <2>2. CASE plan.phase \in {"del", "shot"} BY <1>1, <1>2, <1>4, <2>1, <2>2 DEF Keeps
  <2>3. CASE plan.phase = "lift" BY <1>1, <1>2, <1>4, <2>1, <2>3 DEF Keeps
  <2> QED BY <1>3, <2>2, <2>3
<1> QED BY <1>1, <1>5 DEF PointsInv

LEMMA RestorePoints ==
    ASSUME ReplyInv, PointsInv, EmuRestore, TakesRequest, UNCHANGED forgotten
    PROVE  PointsInv'
<1>1. UNCHANGED <<connected, points, plan, reply>> /\ emu.session
  BY DEF TakesRequest, lvars
<1>2. /\ Wire(plan.phase) = "restore" /\ Pending /\ ~Pending' /\ reply = NoReply
      /\ \A i \in 1..Len(toHost) : ~IsReply(toHost[i])
  BY TakenPends DEF Outstanding, EmuRestore, Taken
<1>3. plan.phase = "restore" BY <1>2 DEF Wire, ReplyInv, TypeOK, Phases
<1>4. PICK ok \in BOOLEAN :
         /\ toHost' = Append(toHost, Reply(ok, NoPoint))
         /\ emu'.points = IF ok THEN {} ELSE emu.points
  BY DEF EmuRestore, Put, ReplyInv, TypeOK
<1>5. Reply(ok, NoPoint) \in Replies /\ Reply(ok, NoPoint).ok = ok
  BY ReplyFact DEF ReplyInv, TakesRequest
<1>6. ASSUME NEW r \in Replies, Come(r)' PROVE r = Reply(ok, NoPoint)
  <2>1. toHost \in Seq(Replies \cup {Stop(TRUE), Stop(FALSE), Eof})
    BY DEF ReplyInv, TypeOK
  <2>2. PICK n \in Nat : n = Len(toHost) BY <2>1
  <2>3. /\ Len(toHost') = n + 1 /\ toHost'[n + 1] = Reply(ok, NoPoint)
        /\ \A i \in 1..n : toHost'[i] = toHost[i]
    BY <1>4, <2>1, <2>2, AppendFact
  <2>4. \A i \in 1..Len(toHost') : i \in 1..n \/ i = n + 1 BY <2>3
  <2>5. IsReply(r) /\ r # reply' BY <1>1, <1>2, <1>6, KindsDiffer DEF Come
  <2>6. PICK i \in 1..Len(toHost') : r = toHost'[i] BY <1>6, <2>5 DEF Come
  <2> QED BY <1>2, <2>2, <2>3, <2>4, <2>5, <2>6
<1>7. connected => emu.points = Held BY <1>1, <1>2, <1>3 DEF PointsInv, Keeps, Held
<1>8. connected => \A r \in Replies : Come(r)' =>
         emu'.points = IF r.ok THEN {} ELSE Held'
  BY <1>1, <1>4, <1>5, <1>6, <1>7 DEF Held
<1> QED BY <1>1, <1>2, <1>3, <1>8 DEF PointsInv, Keeps, Held

\* WinUAE takes a request and answers it.
RequestTaken ==
    \/ EmuHello \/ EmuStatus \/ EmuPc \/ EmuAnswer \/ EmuInsert \/ EmuRemove
    \/ EmuStepOver \/ EmuSave \/ EmuRestore \/ EmuKeys \/ EmuDetach

LEMMA RequestTakenFact ==
    ASSUME ReplyInv, [Next]_vars, RequestTaken
    PROVE  TakesRequest
<1> USE DEF ReplyInv
<1>0. EmuTraffic \/ HostTraffic BY StepTraffic
<1>1. Emulator /\ Head(toEmu).cmd \notin Orders /\ toEmu # <<>> /\ toEmu' = Tail(toEmu)
  BY DEF RequestTaken, Emulator, EmuCommand, EmuHello, EmuStatus, EmuPc, EmuAnswer,
     EmuStepOver, EmuSave, EmuKeys, EmuDetach, EmuInsert, EmuRemove, EmuRestore, Taken, Orders
<1>2. emu.session /\ emu'.session
  BY DEF RequestTaken, EmuHello, EmuStatus, EmuPc, EmuAnswer, EmuStepOver, EmuSave,
     EmuKeys, EmuDetach, EmuInsert, EmuRemove, EmuRestore, Taken, TypeOK
<1>3. UNCHANGED <<connected, lvars>>
  BY DEF RequestTaken, EmuHello, EmuStatus, EmuPc, EmuAnswer, EmuStepOver, EmuSave,
     EmuKeys, EmuDetach, EmuInsert, EmuRemove, EmuRestore, Taken, hvars
<1>4. Outstanding(Head(toEmu))
  <2>1. 1 \in 1..Len(toEmu) /\ Head(toEmu) = toEmu[1] BY <1>1, TailFact DEF TypeOK
  <2> QED BY <1>1, <2>1 DEF ExchangeInv, IsRequest
<1>5. ~Quiet BY <1>4 DEF Outstanding
<1>6. ~(toEmu' = toEmu)
  <2>1. Len(Tail(toEmu)) # Len(toEmu) BY <1>1, HeadFact DEF TypeOK
  <2> QED BY <1>1, <2>1
<1>7. ~(Leaves \/ Asks) BY <1>5 DEF Leaves, Asks
<1>8. ~(Opens \/ Loses \/ Leaving)
  BY <1>2 DEF Opens, Loses, Leaving, ClosedInv, Detached
<1>9. ~(TakesStop \/ TakesReply \/ Emits) BY <1>6 DEF TakesStop, TakesReply, Emits
<1>10. ~TakesOrder BY <1>1 DEF TakesOrder, IsRequest
<1>11. ~Apart
  <2>1. ASSUME Apart PROVE FALSE
    <3>1. Sends BY <2>1 DEF Apart
    <3>2. PICK o \in Orders : toEmu' = Append(toEmu, Packet(o, NoPoint))
      BY <1>6, <3>1 DEF Sends
    <3>3. toEmu \in Seq([cmd : Commands, p : Points \cup {NoPoint}]) BY DEF TypeOK
    <3>4. Len(Tail(toEmu)) = Len(toEmu) - 1 /\ Len(toEmu) \in Nat BY <1>1, <3>3, HeadFact
    <3>5. Len(toEmu') = Len(toEmu) + 1 BY <3>2, <3>3, AppendFact
    <3> QED BY <1>1, <3>4, <3>5
  <2> QED BY <2>1
<1> QED
  BY <1>0, <1>7, <1>8, <1>9, <1>10, <1>11 DEF HostTraffic, EmuTraffic

LEMMA PointsEmuStep ==
    ASSUME ReplyInv, AcceptedInv, PointsInv, [Next]_vars, Emulator
    PROVE  PointsInv'
<1> USE DEF ReplyInv
<1>1. UNCHANGED forgotten BY EmulatorFact
<1>2. ASSUME EmuStop \/ EmuInterrupt \/ EmuRun \/ GuiResume PROVE PointsInv'
  <2>1. CASE EmuStop
    <3>1. \E at : emu' = [emu EXCEPT !.cpu = "stopped", !.at = at]
      BY <2>1, Zenon DEF EmuStop
    <3>2. \E plain \in BOOLEAN : toHost' = Append(toHost, Stop(plain))
      <4>1. Put(Stop(TRUE)) \/ Put(Stop(FALSE)) BY <2>1, Zenon DEF EmuStop
      <4>2. PICK yes \in BOOLEAN, no \in BOOLEAN : yes = TRUE /\ no = FALSE OBVIOUS
      <4>3. Put(Stop(yes)) \/ Put(Stop(no)) BY <4>1, <4>2, Zenon
      <4> QED BY <4>3 DEF Put
    <3>3. /\ emu.session /\ UNCHANGED <<hvars, points, lvars, toEmu>>
      BY <2>1, Zenon DEF EmuStop
    <3>4. emu'.points = emu.points /\ emu'.session BY <3>1, <3>3 DEF TypeOK
    <3>5. Emits BY <3>2, <3>3, <3>4 DEF Emits, hvars
    <3> QED BY <1>1, <3>4, <3>5, EmuSamePoints
  <2>2. CASE EmuInterrupt
    <3>1. emu'.points = emu.points /\ emu'.session BY <2>2 DEF EmuInterrupt, Taken, TypeOK
    <3>2. TakesOrder
      BY <2>2, <3>1 DEF EmuInterrupt, Taken, Put, TakesOrder, IsRequest, Orders, hvars, lvars
    <3> QED BY <1>1, <3>1, <3>2, EmuSamePoints
  <2>3. CASE EmuRun
    <3>1. emu'.points = emu.points /\ emu'.session BY <2>3 DEF EmuRun, Taken, TypeOK
    <3>2. TakesOrder
      BY <2>3, <3>1 DEF EmuRun, Taken, TakesOrder, IsRequest, Orders, hvars, lvars
    <3> QED BY <1>1, <3>1, <3>2, EmuSamePoints
  <2>4. CASE GuiResume
    <3>1. emu'.points = emu.points /\ emu'.session BY <2>4 DEF GuiResume, TypeOK
    <3>2. Emits BY <2>4, <3>1 DEF GuiResume, Emits, hvars, lvars
    <3> QED BY <1>1, <3>1, <3>2, EmuSamePoints
  <2> QED BY <1>2, <2>1, <2>2, <2>3, <2>4
<1>3. ASSUME EmuReset \/ EmuDrop PROVE PointsInv'
  <2>1. ~emu'.session BY <1>3 DEF EmuReset, EmuDrop, Gone, Detached
  <2> QED BY <2>1, ClosedPoints
<1>4. ASSUME RequestTaken PROVE TakesRequest BY <1>4, RequestTakenFact
<1>5. ASSUME EmuHello \/ EmuStatus \/ EmuPc \/ EmuAnswer \/ EmuStepOver \/ EmuSave \/ EmuKeys
             \/ EmuDetach
      PROVE  PointsInv'
  <2>1. /\ Head(toEmu).cmd \notin {"Z", "z", "restore"}
        /\ emu'.points = emu.points \/ Head(toEmu).cmd = "bye"
    BY <1>5 DEF EmuHello, EmuStatus, EmuPc, EmuAnswer, EmuStepOver, EmuSave, EmuKeys, EmuDetach,
       Taken, TypeOK
  <2> QED BY <1>1, <1>4, <1>5, <2>1, OtherRequest DEF RequestTaken
<1>6. CASE EmuInsert BY <1>1, <1>4, <1>6, InsertPoints DEF RequestTaken
<1>7. CASE EmuRemove BY <1>1, <1>4, <1>7, RemovePoints DEF RequestTaken
<1>8. CASE EmuRestore BY <1>1, <1>4, <1>8, RestorePoints DEF RequestTaken
<1> QED
  BY <1>2, <1>3, <1>5, <1>6, <1>7, <1>8, Zenon DEF Emulator, EmuCommand

LEMMA PointsStep ==
    ASSUME ReplyInv, AcceptedInv, PointsInv, [Next]_vars
    PROVE  PointsInv'
BY PointsHostStep, PointsEmuStep

LEMMA PointsAlways == Spec => [](AcceptedInv /\ PointsInv)
<1>1. Init => AcceptedInv /\ PointsInv
  BY NoPointsFact, IdleFact DEF Init, AcceptedInv, PointsInv
<1>2. ReplyInv /\ AcceptedInv /\ PointsInv /\ [Next]_vars => AcceptedInv' /\ PointsInv'
  BY AcceptedStep, PointsStep
<1> QED BY <1>1, <1>2, ReplyAlways, PTL DEF Spec

\* Between two operations the session lists the points that WinUAE stops at, whatever
\* went wrong in between: a point that is refused, a save or a restore that fails, a
\* reset, a one-shot, a connection that is lost and made again.
THEOREM PointsCorrect == Spec => []PointsAgree
<1>1. ReplyInv /\ PointsInv => PointsAgree
  BY FreeFact DEF ReplyInv, PointsAgree, Held
<1> QED BY <1>1, ReplyAlways, PointsAlways, PTL

-----------------------------------------------------------------------------
(* What the session knows of its execution.                                *)

LEMMA SessionLost == ASSUME ~connected' PROVE SessionInv'
BY DEF SessionInv

LEMMA SessionStopped == ASSUME stop', execution' = "stopped" PROVE SessionInv'
BY DEF SessionInv

\* Neither paused throughout nor asking for the status.
LEMMA SessionOther ==
    ASSUME SessionInv, plan'.phase \notin PausedPhases \cup {"exec"},
           \/ UNCHANGED <<connected, execution, stop>>
           \/ stop' <=> execution' = "stopped"
    PROVE  SessionInv'
BY DEF SessionInv

LEMMA SessionSame ==
    ASSUME SessionInv, UNCHANGED <<connected, execution, stop, newer, plan>>
    PROVE  SessionInv'
BY DEF SessionInv

LEMMA SessionReleased ==
    ASSUME SessionInv, Release,
           \/ UNCHANGED <<connected, execution, stop>>
           \/ stop' <=> execution' = "stopped"
    PROVE  SessionInv'
<1>1. plan'.phase = "none" BY IdleFact DEF Release
<1> QED BY <1>1, SessionOther DEF PausedPhases

\* A request is made.
LEMMA SessionBegins ==
    ASSUME SessionInv, UNCHANGED <<connected, execution, stop>>,
           NEW who, NEW ph, NEW q, NEW left, NEW kept, Begins(who, ph, q, left, kept),
           ph \in PausedPhases => execution = "stopped", ph = "exec" => ~newer'
    PROVE  SessionInv'
<1>1. plan'.phase = ph BY DEF Begins, Plan
<1> QED BY <1>1 DEF SessionInv, PausedPhases

LEMMA SessionGoesOn ==
    ASSUME SessionInv, NEW ph, NEW q, NEW left, NEW lifted, NEW kept, NEW ok,
           GoesOn(ph, q, left, lifted, kept, ok),
           ph \notin PausedPhases \cup {"exec"},
           \/ UNCHANGED <<connected, execution, stop>>
           \/ stop' <=> execution' = "stopped"
    PROVE  SessionInv'
<1>1. plan'.phase = ph BY DEF GoesOn, Plan
<1> QED BY <1>1, SessionOther

LEMMA SessionStep ==
    ASSUME ReplyInv, SessionInv, [Next]_vars
    PROVE  SessionInv'
<1>0. ReplyInv /\ HolderOK /\ TypeOK /\ PlanInv BY TypeParts DEF ReplyInv
<1>a. points \in Tables BY <1>0 DEF TypeOK
<1>1. ASSUME NEW c \in Callers, Connect(c) PROVE SessionInv'
  <2>1. plan'.phase = "hello" /\ (stop' <=> execution' = "stopped")
    BY <1>1 DEF Connect, Open, Idle
  <2> QED BY <2>1, SessionOther DEF PausedPhases
<1>2. ASSUME NEW c \in Callers, ConnectRefused(c) PROVE SessionInv'
  <2>1. ~connected' BY <1>2 DEF ConnectRefused
  <2> QED BY <2>1, SessionLost
<1>3. ASSUME NEW c \in Callers, Disconnect(c) PROVE SessionInv'
  <2>1. Begins(c, "bye", NoPoint, {}, NoPoints) BY <1>3, StartBegins DEF Disconnect, Call
  <2>2. UNCHANGED <<connected, execution, stop>> BY <1>3 DEF Disconnect, hvars
  <2> QED BY <2>1, <2>2, SessionBegins DEF PausedPhases
<1>4. ASSUME NEW c \in Callers, Status(c) PROVE SessionInv'
  <2>1. Begins(c, "exec", NoPoint, {}, NoPoints) BY <1>4, StartBegins DEF Status, Call
  <2>2. UNCHANGED <<connected, execution, stop>> BY <1>4 DEF Status, hvars
  <2>3. ~newer' BY <1>4 DEF Status
  <2> QED BY <2>1, <2>2, <2>3, SessionBegins DEF PausedPhases
<1>5. ASSUME NEW c \in Callers, Resume(c) PROVE SessionInv'
  <2>1. lock = NoOne /\ UNCHANGED plan BY <1>5 DEF Resume, Call, lvars
  <2>2. plan'.phase = "none" BY <1>0, <2>1, IdleFact DEF PlanInv
  <2>3. \/ UNCHANGED <<connected, execution, stop>>
        \/ stop' <=> execution' = "stopped"
    BY <1>5 DEF Resume, _run, hvars
  <2> QED BY <2>2, <2>3, SessionOther DEF PausedPhases
<1>6. ASSUME NEW c \in Callers, Step(c) PROVE SessionInv'
  <2>1. lock = NoOne /\ UNCHANGED plan BY <1>6 DEF Step, Call, lvars
  <2>2. plan'.phase = "none" BY <1>0, <2>1, IdleFact DEF PlanInv
  <2>3. \/ UNCHANGED <<connected, execution, stop>>
        \/ stop' <=> execution' = "stopped"
    BY <1>6 DEF Step, _run, hvars
  <2> QED BY <2>2, <2>3, SessionOther DEF PausedPhases
<1>7. ASSUME NEW c \in Callers, step_over(c) PROVE SessionInv'
  <2>1. Begins(c, "over", NoPoint, {}, NoPoints) BY <1>7, StartBegins DEF step_over, Call
  <2>2. plan'.phase = "over" BY <2>1 DEF Begins, Plan
  <2>3. stop' <=> execution' = "stopped" BY <1>7 DEF step_over
  <2> QED BY <2>2, <2>3, SessionOther DEF PausedPhases
<1>8. ASSUME NEW c \in Callers, Pause(c) PROVE SessionInv'
  <2>1. UNCHANGED <<connected, execution, stop, newer, plan>>
    BY <1>8 DEF Pause, hvars, lvars
  <2> QED BY <2>1, SessionSame
<1>9. ASSUME NEW c \in Callers, wait_stopped(c) PROVE SessionInv'
  <2>1. UNCHANGED <<connected, execution, stop, newer, plan>>
    BY <1>9 DEF wait_stopped, hvars, lvars
  <2> QED BY <2>1, SessionSame
<1>10. ASSUME NEW c \in Callers, WaitTimeout(c) PROVE SessionInv'
  <2>1. UNCHANGED <<connected, execution, stop, newer, plan>>
    BY <1>10 DEF WaitTimeout, hvars, lvars
  <2> QED BY <2>1, SessionSame
<1>11. ASSUME NEW c \in Callers, Reset(c) PROVE SessionInv'
  <2>1. Begins(c, "keys", NoPoint, {}, points) BY <1>11, StartWithKept DEF Reset, Call
  <2>2. UNCHANGED <<connected, execution, stop>> BY <1>11 DEF Reset, hvars
  <2> QED BY <2>1, <2>2, SessionBegins DEF PausedPhases
<1>12. ASSUME NEW c \in Callers, ResetGivesUp(c) PROVE SessionInv'
  <2>1. UNCHANGED <<connected, execution, stop, newer, plan>>
    BY <1>12 DEF ResetGivesUp, hvars, lvars
  <2> QED BY <2>1, SessionSame
<1>13. ASSUME NEW c \in Callers, range_step(c) PROVE SessionInv'
  <2>1. Begins(c, "vcont", NoPoint, {}, NoPoints) BY <1>13, StartBegins DEF range_step, Call
  <2>2. UNCHANGED <<connected, execution, stop>> BY <1>13 DEF range_step, hvars
  <2>3. execution = "stopped" BY <1>13 DEF range_step, _paused
  <2> QED BY <2>1, <2>2, <2>3, SessionBegins DEF PausedPhases
<1>14. ASSUME NEW c \in Callers, Add(c) PROVE SessionInv'
  <2>1. UNCHANGED <<connected, execution, stop, newer>> BY <1>14 DEF Add, hvars
  <2>2. CASE UNCHANGED lvars BY <2>1, <2>2, SessionSame DEF lvars
  <2>3. ASSUME NEW q, NEW kept, Begins(c, "set", q, {}, kept) PROVE SessionInv'
    BY <2>1, <2>3, SessionBegins DEF PausedPhases
  <2> QED BY <1>0, <1>14, <2>2, <2>3, AddMoves
<1>15. ASSUME NEW c \in Callers, Remove(c) PROVE SessionInv'
  <2>1. UNCHANGED <<connected, execution, stop>> BY <1>15 DEF Remove, hvars
  <2>2. PICK S, q : Begins(c, "del", q, S, NoPoints) BY <1>0, <1>15, RemoveMoves
  <2> QED BY <2>1, <2>2, SessionBegins DEF PausedPhases
<1>16. ASSUME NEW c \in Callers, InspectionTools(c) PROVE SessionInv'
  <2>1. PICK ph \in {"ask", "seq"} : Ask(c, ph) /\ Begins(c, ph, NoPoint, {}, NoPoints)
    BY <1>16, InspectionMoves
  <2>2. UNCHANGED <<connected, execution, stop>> BY <2>1 DEF Ask, hvars
  <2> QED BY <2>1, <2>2, SessionBegins DEF PausedPhases
<1>17. ASSUME NEW c \in Callers, CheckpointSave(c) PROVE SessionInv'
  <2>1. UNCHANGED <<connected, execution, stop>> /\ execution = "stopped"
    BY <1>17 DEF CheckpointSave, _paused, hvars
  <2>2. ASSUME NEW ph \in {"save", "lift"}, NEW q, NEW left, Begins(c, ph, q, left, NoPoints)
        PROVE  SessionInv'
    BY <2>1, <2>2, SessionBegins DEF PausedPhases
  <2>3. \/ Begins(c, "save", NoPoint, {}, NoPoints)
        \/ \E q, left : Begins(c, "lift", q, left, NoPoints)
    BY <1>17, CheckpointSaveMoves
  <2> QED BY <2>2, <2>3
<1>18. ASSUME NEW c \in Callers, CheckpointRestore(c) PROVE SessionInv'
  <2>1. Begins(c, "restore", NoPoint, {}, NoPoints)
    BY <1>18, StartBegins DEF CheckpointRestore, Call
  <2>2. UNCHANGED <<connected, execution, stop>> BY <1>18 DEF CheckpointRestore, hvars
  <2>3. execution = "stopped" BY <1>18 DEF CheckpointRestore, _paused
  <2> QED BY <2>1, <2>2, <2>3, SessionBegins DEF PausedPhases
<1>19. ASSUME NEW c \in Callers, ResetSeen(c) PROVE SessionInv'
  <2>1. UNCHANGED <<connected, execution, stop, newer, plan>>
    BY <1>19 DEF ResetSeen, hvars, lvars
  <2> QED BY <2>1, SessionSame
<1>20. ASSUME NEW c \in Callers, ResetReconnect(c) PROVE SessionInv'
  <2>1. CASE Open(c)
    <3>1. plan'.phase = "hello" /\ (stop' <=> execution' = "stopped")
      BY <2>1 DEF Open, Idle
    <3> QED BY <3>1, SessionOther DEF PausedPhases
  <2>2. CASE UNCHANGED <<hvars, newer, lvars>>
    BY <2>2, SessionSame DEF hvars, lvars
  <2> QED BY <1>20, <2>1, <2>2 DEF ResetReconnect
<1>21. ASSUME NEW c \in Callers, ResetRearm(c) PROVE SessionInv'
  <2>1. UNCHANGED <<connected, execution, stop, newer>> BY <1>21, Zenon DEF ResetRearm, hvars
  <2>2. CASE UNCHANGED lvars BY <2>1, <2>2, SessionSame DEF lvars
  <2>3. ASSUME NEW q, NEW left, NEW kept, Begins(c, "arm", q, left, kept) PROVE SessionInv'
    BY <2>1, <2>3, SessionBegins DEF PausedPhases
  <2> QED BY <1>21, <2>2, <2>3, ResetRearmMoves
<1>22. ASSUME NEW c \in Callers, ResetResume(c) PROVE SessionInv'
  <2>1. lock = NoOne /\ UNCHANGED plan BY <1>22 DEF ResetResume, Call, lvars
  <2>2. plan'.phase = "none" BY <1>0, <2>1, IdleFact DEF PlanInv
  <2>3. \/ UNCHANGED <<connected, execution, stop>>
        \/ stop' <=> execution' = "stopped"
    BY <1>22 DEF ResetResume, _run, hvars
  <2> QED BY <2>2, <2>3, SessionOther DEF PausedPhases
<1>23. ASSUME HelloDone PROVE SessionInv'
  <2>1. Release \/ GoesOn("exec", NoPoint, plan.left, plan.lifted, plan.kept, plan.ok)
    BY <1>0, <1>23, RequestGoesOn DEF HelloDone, HolderOK
  <2>2. UNCHANGED <<connected, execution, stop>> /\ ~newer' BY <1>23 DEF HelloDone, hvars
  <2>3. CASE Release BY <2>2, <2>3, SessionReleased
  <2>4. CASE GoesOn("exec", NoPoint, plan.left, plan.lifted, plan.kept, plan.ok)
    <3>1. plan'.phase = "exec" BY <2>4 DEF GoesOn, Plan
    <3> QED BY <2>2, <3>1 DEF SessionInv, PausedPhases
  <2> QED BY <2>1, <2>3, <2>4
<1>24. ASSUME HelloDenied PROVE SessionInv'
  <2>1. ~connected' BY <1>24 DEF HelloDenied, Lost
  <2> QED BY <2>1, SessionLost
<1>25. ASSUME ExecutionDone PROVE SessionInv'
  <2>1. Release /\ TakeStatus(reply.val) BY <1>25 DEF ExecutionDone
  <2>2. CASE UNCHANGED <<execution, stop>>
    <3>1. UNCHANGED connected BY <1>25 DEF ExecutionDone
    <3> QED BY <2>1, <2>2, <3>1, SessionReleased
  <2>3. CASE stop' <=> execution' = "stopped" BY <2>1, <2>3, SessionReleased
  <2> QED BY <2>1, <2>2, <2>3 DEF TakeStatus
<1>26. ASSUME ByeDone PROVE SessionInv'
  <2>1. ~connected' BY <1>26 DEF ByeDone, Lost
  <2> QED BY <2>1, SessionLost
<1>27. ASSUME StepOverDone PROVE SessionInv'
  <2>1. /\ Release
        /\ \/ UNCHANGED <<connected, execution, stop>>
           \/ stop' <=> execution' = "stopped"
    BY <1>27 DEF StepOverDone, _run, hvars
  <2> QED BY <2>1, SessionReleased
<1>28. ASSUME StepOverDenied PROVE SessionInv'
  <2>1. /\ Release
        /\ \/ UNCHANGED <<connected, execution, stop>>
           \/ stop' /\ execution' = "stopped"
    BY <1>28 DEF StepOverDenied
  <2> QED BY <2>1, SessionReleased
<1>29. ASSUME RangeStepDone PROVE SessionInv'
  <2>1. /\ Release
        /\ \/ UNCHANGED <<connected, execution, stop>>
           \/ stop' <=> execution' = "stopped"
    BY <1>29 DEF RangeStepDone, _run, hvars
  <2> QED BY <2>1, SessionReleased
<1>30. ASSUME AddDone PROVE SessionInv'
  <2>1. /\ Release
        /\ \/ UNCHANGED <<connected, execution, stop>>
           \/ stop' <=> execution' = "stopped"
    BY <1>30 DEF AddDone, _run, hvars
  <2> QED BY <2>1, SessionReleased
<1>31. ASSUME RemoveDone PROVE SessionInv'
  <2>1. \/ UNCHANGED <<connected, execution, stop>>
        \/ stop' /\ execution' = "stopped"
    BY <1>31 DEF RemoveDone, hvars, Checkpointed
  <2>2. CASE Release BY <2>1, <2>2, SessionReleased
  <2>3. ASSUME NEW ph \in {"del"}, NEW q, NEW left, NEW lifted, NEW kept, NEW ok,
               GoesOn(ph, q, left, lifted, kept, ok)
        PROVE  SessionInv'
    BY <2>1, <2>3, SessionGoesOn DEF PausedPhases
  <2> QED BY <1>0, <1>31, <2>2, <2>3, RemoveDoneMoves
<1>32. ASSUME SequenceDone PROVE SessionInv'
  <2>1. /\ Release
        /\ \/ UNCHANGED <<connected, execution, stop>>
           \/ stop' <=> execution' = "stopped"
    BY <1>32 DEF SequenceDone, _run, hvars
  <2> QED BY <2>1, SessionReleased
<1>33. ASSUME AskMore PROVE SessionInv'
  <2>1. Release \/ GoesOn("ask", NoPoint, plan.left, plan.lifted, plan.kept, plan.ok)
    BY <1>0, <1>33, RequestGoesOn DEF AskMore, HolderOK
  <2>2. UNCHANGED <<connected, execution, stop>> BY <1>33 DEF AskMore, hvars
  <2> QED BY <2>1, <2>2, SessionReleased, SessionGoesOn DEF PausedPhases
<1>34. ASSUME AskDone PROVE SessionInv'
  <2>1. /\ Release
        /\ \/ UNCHANGED <<connected, execution, stop>>
           \/ stop' <=> execution' = "stopped"
    BY <1>34 DEF AskDone, _run, hvars
  <2> QED BY <2>1, SessionReleased
<1>35. ASSUME LiftDone PROVE SessionInv'
  <2>1. UNCHANGED <<connected, execution, stop>> /\ plan.phase = "lift"
    BY <1>35 DEF LiftDone, Ok, Answered, hvars
  <2>2. connected => execution = "stopped" BY <2>1 DEF SessionInv, PausedPhases
  <2>3. CASE ~connected BY <2>1, <2>3, SessionLost
  <2>4. ASSUME connected, NEW ph \in {"lift", "save"}, NEW q, NEW left, NEW lifted, NEW kept, NEW ok,
               GoesOn(ph, q, left, lifted, kept, ok)
        PROVE  SessionInv'
    <3>1. plan'.phase = ph BY <2>4 DEF GoesOn, Plan
    <3> QED BY <2>1, <2>2, <2>4, <3>1 DEF SessionInv
  <2>5. plan.p \in Points BY <1>0, <2>1 DEF PlanInv, Wire
  <2> QED BY <1>0, <1>35, <2>3, <2>4, <2>5, LiftDoneMoves
<1>36. ASSUME SaveDone PROVE SessionInv'
  <2>1. \/ UNCHANGED <<connected, execution, stop>>
        \/ stop' /\ execution' = "stopped"
    BY <1>36 DEF SaveDone, hvars, Checkpointed
  <2>2. CASE Release BY <2>1, <2>2, SessionReleased
  <2>3. ASSUME NEW ph \in {"ask", "back"}, NEW q, NEW left, NEW lifted, NEW kept, NEW ok,
               GoesOn(ph, q, left, lifted, kept, ok)
        PROVE  SessionInv'
    BY <2>1, <2>3, SessionGoesOn DEF PausedPhases
  <2> QED BY <1>0, <1>36, <2>2, <2>3, SaveDoneMoves
<1>37. ASSUME PutBackDone PROVE SessionInv'
  <2>1. \/ UNCHANGED <<connected, execution, stop>>
        \/ stop' /\ execution' = "stopped"
    BY <1>37 DEF PutBackDone, hvars, Checkpointed
  <2>2. CASE Release BY <2>1, <2>2, SessionReleased
  <2>3. ASSUME NEW ph \in {"ask", "back"}, NEW q, NEW left, NEW lifted, NEW kept, NEW ok,
               GoesOn(ph, q, left, lifted, kept, ok)
        PROVE  SessionInv'
    BY <2>1, <2>3, SessionGoesOn DEF PausedPhases
  <2> QED BY <1>0, <1>37, <2>2, <2>3, PutBackDoneMoves
<1>38. ASSUME RestoreDone PROVE SessionInv'
  <2>1. \/ UNCHANGED <<connected, execution, stop>>
        \/ stop' /\ execution' = "stopped"
    BY <1>38 DEF RestoreDone, hvars, Checkpointed
  <2>2. CASE Release BY <2>1, <2>2, SessionReleased
  <2>3. ASSUME NEW ph \in {"ask", "arm"}, NEW q, NEW left, NEW lifted, NEW kept, NEW ok,
               GoesOn(ph, q, left, lifted, kept, ok)
        PROVE  SessionInv'
    BY <2>1, <2>3, SessionGoesOn DEF PausedPhases
  <2> QED BY <1>0, <1>a, <1>38, <2>2, <2>3, RestoreDoneMoves
<1>39. ASSUME ArmDone PROVE SessionInv'
  <2>1. \/ UNCHANGED <<connected, execution, stop>>
        \/ stop' /\ execution' = "stopped"
    BY <1>39 DEF ArmDone, hvars, Checkpointed
  <2>2. CASE Release BY <2>1, <2>2, SessionReleased
  <2>3. ASSUME NEW ph \in {"ask", "arm"}, NEW q, NEW left, NEW lifted, NEW kept, NEW ok,
               GoesOn(ph, q, left, lifted, kept, ok)
        PROVE  SessionInv'
    BY <2>1, <2>3, SessionGoesOn DEF PausedPhases
  <2> QED BY <1>0, <1>39, <2>2, <2>3, ArmDoneMoves
<1>40. ASSUME ArmDenied PROVE SessionInv'
  <2>1. /\ Release
        /\ \/ UNCHANGED <<connected, execution, stop>>
           \/ stop' <=> execution' = "stopped"
    BY <1>40 DEF ArmDenied, _run, hvars
  <2> QED BY <2>1, SessionReleased
<1>41. ASSUME KeysDone PROVE SessionInv'
  <2>1. /\ Release
        /\ \/ UNCHANGED <<connected, execution, stop>>
           \/ stop' <=> execution' = "stopped"
    BY <1>41 DEF KeysDone, _run, hvars
  <2> QED BY <2>1, SessionReleased
<1>42. ASSUME KeysDenied PROVE SessionInv'
  <2>1. /\ Release
        /\ \/ UNCHANGED <<connected, execution, stop>>
           \/ stop' <=> execution' = "stopped"
    BY <1>42 DEF KeysDenied, _run, hvars
  <2> QED BY <2>1, SessionReleased
<1>43. ASSUME ProcessSkips PROVE SessionInv'
  <2>1. /\ Release
        /\ \/ UNCHANGED <<connected, execution, stop>>
           \/ stop' <=> execution' = "stopped"
    BY <1>43 DEF ProcessSkips, _run, hvars
  <2> QED BY <2>1, SessionReleased
<1>44. ASSUME ProcessOneshot PROVE SessionInv'
  <2>1. Request(plan, "shot", reply.val) /\ UNCHANGED <<connected, execution, stop>>
    BY <1>44 DEF ProcessOneshot, hvars
  <2>2. Release \/ GoesOn("shot", reply.val, plan.left, plan.lifted, plan.kept, plan.ok)
    BY <1>0, <2>1, RequestGoesOn DEF HolderOK
  <2> QED BY <2>1, <2>2, SessionReleased, SessionGoesOn DEF PausedPhases
<1>45. ASSUME ProcessReports PROVE SessionInv'
  <2>1. stop' /\ execution' = "stopped" BY <1>45 DEF ProcessReports, Report, _signal_stop
  <2> QED BY <2>1, SessionStopped
<1>46. ASSUME RequestTimeout PROVE SessionInv'
  <2>1. ~connected' BY <1>46 DEF RequestTimeout, Lost
  <2> QED BY <2>1, SessionLost
<1>47. ASSUME ProcessTimeout PROVE SessionInv'
  <2>1. ~connected' BY <1>47 DEF ProcessTimeout
  <2> QED BY <2>1, SessionLost
<1>48. ASSUME ProcessStart PROVE SessionInv'
  <2>1. CASE connected
    <3>1. Begins(Process, "pc", NoPoint, {}, NoPoints)
      BY <1>48, <2>1, StartBegins DEF ProcessStart
    <3>2. UNCHANGED <<connected, execution, stop>> BY <1>48, <2>1 DEF ProcessStart, hvars
    <3> QED BY <3>1, <3>2, SessionBegins DEF PausedPhases
  <2>2. CASE ~connected
    <3>1. ~connected' BY <1>48, <2>2 DEF ProcessStart, Report, _signal_stop
    <3> QED BY <3>1, SessionLost
  <2> QED BY <2>1, <2>2
<1>49. ASSUME ReadStop PROVE SessionInv'
  <2>1. CASE _signal_stop BY <2>1, SessionStopped DEF _signal_stop
  <2>2. CASE UNCHANGED <<connected, execution, stop, newer>>
    <3>1. UNCHANGED plan BY <1>49 DEF ReadStop, lvars
    <3> QED BY <2>2, <3>1, SessionSame
  <2> QED BY <1>49, <2>1, <2>2 DEF ReadStop
<1>50. ASSUME ReadReply PROVE SessionInv'
  <2>1. UNCHANGED <<connected, execution, stop, newer, plan>>
    BY <1>50 DEF ReadReply, hvars, lvars
  <2> QED BY <2>1, SessionSame
<1>51. ASSUME ReadClosed PROVE SessionInv'
  <2>1. ~connected' BY <1>51 DEF ReadClosed, Lost
  <2> QED BY <2>1, SessionLost
<1>52. ASSUME Emulator PROVE SessionInv'
  <2>1. UNCHANGED <<connected, execution, stop, newer, plan>>
    BY <1>52, EmulatorFact DEF hvars, lvars
  <2> QED BY <2>1, SessionSame
<1>53. ASSUME UNCHANGED vars PROVE SessionInv'
    BY <1>53, SessionSame DEF vars, hvars, lvars
<1> QED
    BY <1>1, <1>2, <1>3, <1>4, <1>5, <1>6, <1>7, <1>8, <1>9, <1>10, <1>11, <1>12,
       <1>13, <1>14, <1>15, <1>16, <1>17, <1>18, <1>19, <1>20, <1>21, <1>22, <1>23,
       <1>24, <1>25, <1>26, <1>27, <1>28, <1>29, <1>30, <1>31, <1>32, <1>33, <1>34,
       <1>35, <1>36, <1>37, <1>38, <1>39, <1>40, <1>41, <1>42, <1>43, <1>44, <1>45,
       <1>46, <1>47, <1>48, <1>49, <1>50, <1>51, <1>52, <1>53, Zenon DEF Emulator,
       Next, Operations, ResetStep, HolderStep, ReaderStep, amiga_winuae_control,
       amiga_winuae_range_step, PointTools, amiga_winuae_checkpoint

-----------------------------------------------------------------------------
(* The CPU of WinUAE and the execution of the session.                     *)

CpuBase == ReplyInv /\ SessionInv /\ CpuInv
StoppedNow == connected /\ emu.session /\ emu.cpu = "stopped"
UnknownPhases == {"over", "hello", "exec"}
Connecting == execution = "disconnected" /\ plan.phase \in {"hello", "exec"}

\* The stops on the connection are kept when something is added to it.
Grows == toEmu' = toEmu \/ \E m : toEmu' = Append(toEmu, m)

LEMMA GrowsFact ==
    ASSUME ReplyInv, Grows
    PROVE  \A i \in 1..Len(toEmu) : i \in 1..Len(toEmu') /\ toEmu'[i] = toEmu[i]
<1>1. CASE toEmu' = toEmu BY <1>1
<1>2. ASSUME NEW m, toEmu' = Append(toEmu, m)
      PROVE  \A i \in 1..Len(toEmu) : i \in 1..Len(toEmu') /\ toEmu'[i] = toEmu[i]
  <2>1. toEmu \in Seq([cmd : Commands, p : Points \cup {NoPoint}]) BY DEF ReplyInv, TypeOK
  <2>2. PICK n \in Nat : n = Len(toEmu) BY <2>1
  <2>3. Len(toEmu') = n + 1 /\ \A i \in 1..n : toEmu'[i] = toEmu[i]
    BY <1>2, <2>1, <2>2, AppendFact
  <2> QED BY <2>2, <2>3
<1> QED BY <1>1, <1>2 DEF Grows

LEMMA UnderWayKept ==
    ASSUME UNCHANGED <<processing, toHost>>
    PROVE  StopIsUnderWay' <=> StopIsUnderWay
BY DEF StopIsUnderWay

LEMMA KnownKept ==
    ASSUME ReplyInv, Known, UNCHANGED <<execution, processing, toHost>>, Grows
    PROVE  Known'
<1>1. RunIsOrdered => RunIsOrdered' BY GrowsFact DEF RunIsOrdered
<1>2. StopIsUnderWay => StopIsUnderWay' BY UnderWayKept
<1> QED BY <1>1, <1>2 DEF Known

LEMMA StoppedKnown == ASSUME execution' = "stopped" PROVE Known'
BY DEF Known

LEMMA RunKnown ==
    ASSUME ReplyInv, NEW o \in {"c", "s"}, toEmu' = Append(toEmu, Packet(o, NoPoint))
    PROVE  Known'
<1>1. toEmu \in Seq([cmd : Commands, p : Points \cup {NoPoint}]) BY DEF ReplyInv, TypeOK
<1>2. PICK n \in Nat : n = Len(toEmu) BY <1>1
<1>3. Len(toEmu') = n + 1 /\ toEmu'[n + 1] = Packet(o, NoPoint)
  BY <1>1, <1>2, AppendFact
<1>4. RunIsOrdered' BY <1>2, <1>3 DEF RunIsOrdered, Packet
<1> QED BY <1>4 DEF Known

LEMMA CpuElsewhere == ASSUME ~StoppedNow' PROVE CpuInv'
BY DEF CpuInv, StoppedNow

\* After a step that leaves the lock or makes a request no answer has come.
LEMMA MovesOn ==
    ASSUME ReplyInv, [Next]_vars, connected, connected', Quiet,
           lock' # lock \/ reply' # reply
    PROVE  /\ UNCHANGED <<emu, toHost>> /\ Grows
           /\ \A r \in Replies : ~Come(r)'
<1>1. HostTraffic \/ EmuTraffic BY StepTraffic DEF ReplyInv
<1>2. Leaves \/ Asks
  BY <1>1 DEF HostTraffic, EmuTraffic, Apart, Opens, Loses, TakesStop, TakesReply, TakesOrder,
     TakesRequest, Emits, Leaving, lvars
<1>3. UNCHANGED <<emu, toHost>> /\ Grows /\ reply' = NoReply
  BY <1>2 DEF Leaves, Asks, Local, Sends, Release, Grows
<1>4. Clear BY QuietIsClear DEF ReplyInv
<1> QED BY <1>3, <1>4, KindsDiffer DEF Clear, Come

LEMMA QuietFact ==
    ASSUME ReplyInv, reply # NoReply \/ lock = NoOne
    PROVE  Quiet /\ (lock = NoOne => plan.phase = "none")
BY IdleFact DEF Quiet, ReplyInv, PlanInv

\* Steps that move on and do not touch the execution, or stop, or run.
LEMMA MovesKnown ==
    ASSUME CpuBase, [Next]_vars, reply # NoReply \/ lock = NoOne,
           lock' # lock \/ reply' # reply, connected' => connected,
           \/ UNCHANGED <<execution, processing>> /\ plan.phase \notin UnknownPhases
           \/ execution' = "stopped"
           \/ \E o \in {"c", "s"} : toEmu' = Append(toEmu, Packet(o, NoPoint))
    PROVE  CpuInv'
<1>0. CASE ~connected' BY <1>0, CpuElsewhere DEF StoppedNow
<1>1. CASE connected'
  <2>0. ReplyInv /\ CpuInv BY DEF CpuBase
  <2>1. Quiet BY <2>0, QuietFact
  <2>2. UNCHANGED <<emu, toHost>> /\ Grows /\ \A r \in Replies : ~Come(r)'
    BY <1>1, <2>0, <2>1, MovesOn
  <2>3. StoppedNow' => StoppedNow BY <1>1, <2>2 DEF StoppedNow
  <2>4. ASSUME StoppedNow' PROVE Known'
    <3>1. CASE UNCHANGED <<execution, processing>> /\ plan.phase \notin UnknownPhases
      <4>1. Known BY <2>0, <2>3, <2>4, <3>1 DEF CpuInv, StoppedNow, UnknownPhases
      <4> QED BY <2>0, <2>2, <3>1, <4>1, KnownKept
    <3>2. CASE execution' = "stopped" BY <3>2, StoppedKnown
    <3>3. CASE \E o \in {"c", "s"} : toEmu' = Append(toEmu, Packet(o, NoPoint))
      BY <2>0, <3>3, RunKnown
    <3> QED BY <3>1, <3>2, <3>3
  <2> QED BY <2>2, <2>4 DEF CpuInv, StoppedNow
<1> QED BY <1>0, <1>1

\* Steps that leave the lock as it is.
LEMMA StaysKnown ==
    ASSUME CpuBase, UNCHANGED <<connected, emu, toHost, processing, newer, plan, reply>>, Grows,
           \/ UNCHANGED execution
           \/ /\ plan.phase \notin UnknownPhases
              /\ \E o \in {"c", "s"} : toEmu' = Append(toEmu, Packet(o, NoPoint))
    PROVE  CpuInv'
<1>0. ReplyInv /\ CpuInv BY DEF CpuBase
<1>1. StoppedNow' <=> StoppedNow BY DEF StoppedNow
<1>2. StopIsUnderWay' <=> StopIsUnderWay BY UnderWayKept
<1>3. \A r \in Replies : Come(r)' => Come(r) BY DEF Come
<1>4. Known => Known' BY <1>0, KnownKept, RunKnown
<1>5. CASE UNCHANGED execution
  BY <1>0, <1>1, <1>2, <1>3, <1>4, <1>5 DEF CpuInv, StoppedNow
<1>6. CASE plan.phase \notin UnknownPhases
  BY <1>0, <1>1, <1>2, <1>3, <1>4, <1>6 DEF CpuInv, StoppedNow, UnknownPhases
<1> QED BY <1>5, <1>6

LEMMA ReadKeepsStops ==
    ASSUME ReplyInv, TakesReply, UNCHANGED processing, StopIsUnderWay
    PROVE  StopIsUnderWay'
<1>1. CASE processing > 0 BY <1>1 DEF StopIsUnderWay
<1>2. ASSUME NEW i \in DOMAIN toHost, toHost[i].kind = "stop" PROVE StopIsUnderWay'
  <2>1. toHost \in Seq(Replies \cup {Stop(TRUE), Stop(FALSE), Eof}) BY DEF ReplyInv, TypeOK
  <2>2. PICK n \in Nat : n = Len(toHost) BY <2>1
  <2>3. /\ n >= 1 /\ Len(toHost') = n - 1 /\ toHost[1] = Head(toHost)
        /\ \A j \in 1..(n - 1) : toHost'[j] = toHost[j + 1]
    BY <2>1, <2>2, HeadFact DEF TakesReply
  <2>4. i \in 1..n /\ i # 1 BY <1>2, <2>1, <2>2, <2>3 DEF TakesReply, IsReply
  <2>5. i - 1 \in 1..(n - 1) /\ (i - 1) + 1 = i BY <2>2, <2>4
  <2>6. toHost'[i - 1] = toHost[i] BY <2>3, <2>5
  <2>7. toHost' \in Seq(Replies \cup {Stop(TRUE), Stop(FALSE), Eof})
    BY <2>1, HeadFact DEF TakesReply
  <2>8. i - 1 \in DOMAIN toHost' BY <2>3, <2>5, <2>7
  <2> QED BY <1>2, <2>6, <2>8 DEF StopIsUnderWay
<1> QED BY <1>1, <1>2 DEF StopIsUnderWay

LEMMA TakesOneWay ==
    ASSUME ReplyInv, TakesStop \/ TakesReply
    PROVE  ~TakesRequest
<1>1. toEmu' = toEmu BY DEF TakesStop, TakesReply
<1>2. ASSUME TakesRequest PROVE FALSE
  <2>1. toEmu \in Seq([cmd : Commands, p : Points \cup {NoPoint}]) /\ toEmu # <<>>
    BY <1>2 DEF ReplyInv, TypeOK, TakesRequest
  <2>2. toEmu' = Tail(toEmu) BY <1>2 DEF TakesRequest
  <2>3. Len(Tail(toEmu)) # Len(toEmu) BY <2>1, HeadFact
  <2> QED BY <1>1, <2>2, <2>3
<1> QED BY <1>2

LEMMA CpuHostStep ==
    ASSUME CpuBase, ~Emulator, [Next]_vars
    PROVE  CpuInv'
<1>0. CpuBase /\ ReplyInv BY DEF CpuBase
<1>b. ReplyInv BY <1>0
<1>a. HolderOK /\ points \in Tables BY <1>b, TypeParts DEF ReplyInv, TypeOK
<1>1. ASSUME NEW c \in Callers, Connect(c) PROVE CpuInv'
  <2>1. plan'.phase = "hello" /\ execution' = "disconnected" /\ toHost' = <<>>
        /\ reply' = NoReply
    BY <1>1 DEF Connect, Open, Idle
  <2>2. \A r \in Replies : ~Come(r)' BY <2>1, KindsDiffer DEF Come
  <2> QED BY <2>1, <2>2 DEF CpuInv
<1>2. ASSUME NEW c \in Callers, ConnectRefused(c) PROVE CpuInv'
  <2>1. ~connected' BY <1>2 DEF ConnectRefused
  <2> QED BY <2>1, CpuElsewhere DEF StoppedNow
<1>3. ASSUME NEW c \in Callers, Disconnect(c) PROVE CpuInv'
  <2>1. UNCHANGED <<connected, execution, processing>> /\ lock = NoOne /\ lock' # lock
    BY <1>3 DEF Disconnect, Call, Start, hvars
  <2>2. plan.phase \notin UnknownPhases BY <1>0, <2>1, QuietFact DEF UnknownPhases
  <2> QED BY <1>0, <2>1, <2>2, MovesKnown
<1>4. ASSUME NEW c \in Callers, Status(c) PROVE CpuInv'
  <2>1. UNCHANGED <<connected, execution, processing>> /\ lock = NoOne /\ lock' # lock
    BY <1>4 DEF Status, Call, Start, hvars
  <2>2. plan.phase \notin UnknownPhases BY <1>0, <2>1, QuietFact DEF UnknownPhases
  <2> QED BY <1>0, <2>1, <2>2, MovesKnown
<1>5. ASSUME NEW c \in Callers, Resume(c) PROVE CpuInv'
  <2>1. /\ UNCHANGED <<connected, emu, toHost, processing, newer, plan, reply>>
        /\ toEmu' = Append(toEmu, Packet("c", NoPoint)) /\ lock = NoOne
    BY <1>5 DEF Resume, Call, _run, _paused, lvars
  <2>2. plan.phase \notin UnknownPhases BY <1>0, <2>1, QuietFact DEF UnknownPhases
  <2>3. Grows BY <2>1 DEF Grows
  <2> QED BY <1>0, <2>1, <2>2, <2>3, StaysKnown
<1>6. ASSUME NEW c \in Callers, Step(c) PROVE CpuInv'
  <2>1. /\ UNCHANGED <<connected, emu, toHost, processing, newer, plan, reply>>
        /\ toEmu' = Append(toEmu, Packet("s", NoPoint)) /\ lock = NoOne
    BY <1>6 DEF Step, Call, _run, _paused, lvars
  <2>2. plan.phase \notin UnknownPhases BY <1>0, <2>1, QuietFact DEF UnknownPhases
  <2>3. Grows BY <2>1 DEF Grows
  <2> QED BY <1>0, <2>1, <2>2, <2>3, StaysKnown
<1>7. ASSUME NEW c \in Callers, step_over(c) PROVE CpuInv'
  <2>1. /\ UNCHANGED connected /\ lock = NoOne /\ lock' # lock /\ plan'.phase = "over"
        /\ connected
    BY <1>7 DEF step_over, Call, Start, _paused, Idle
  <2>2. \A r \in Replies : ~Come(r)' BY <1>0, <2>1, QuietFact, MovesOn
  <2> QED BY <2>1, <2>2 DEF CpuInv
<1>8. ASSUME NEW c \in Callers, Pause(c) PROVE CpuInv'
  <2>1. UNCHANGED <<connected, emu, toHost, processing, newer, plan, reply, execution>>
        /\ Grows
    BY <1>8 DEF Pause, hvars, lvars, evars, Grows
  <2> QED BY <1>0, <2>1, StaysKnown
<1>9. ASSUME NEW c \in Callers, wait_stopped(c) PROVE CpuInv'
  <2>1. UNCHANGED <<connected, emu, toHost, processing, newer, plan, reply, execution>>
        /\ Grows
    BY <1>9 DEF wait_stopped, hvars, lvars, evars, Grows
  <2> QED BY <1>0, <2>1, StaysKnown
<1>10. ASSUME NEW c \in Callers, WaitTimeout(c) PROVE CpuInv'
  <2>1. UNCHANGED <<connected, emu, toHost, processing, newer, plan, reply, execution>>
        /\ Grows
    BY <1>10 DEF WaitTimeout, hvars, lvars, evars, Grows
  <2> QED BY <1>0, <2>1, StaysKnown
<1>11. ASSUME NEW c \in Callers, Reset(c) PROVE CpuInv'
  <2>1. UNCHANGED <<connected, execution, processing>> /\ lock = NoOne /\ lock' # lock
    BY <1>11 DEF Reset, Call, Start, hvars
  <2>2. plan.phase \notin UnknownPhases BY <1>0, <2>1, QuietFact DEF UnknownPhases
  <2> QED BY <1>0, <2>1, <2>2, MovesKnown
<1>12. ASSUME NEW c \in Callers, ResetGivesUp(c) PROVE CpuInv'
  <2>1. UNCHANGED <<connected, emu, toHost, processing, newer, plan, reply, execution>>
        /\ Grows
    BY <1>12 DEF ResetGivesUp, hvars, lvars, evars, Grows
  <2> QED BY <1>0, <2>1, StaysKnown
<1>13. ASSUME NEW c \in Callers, range_step(c) PROVE CpuInv'
  <2>1. UNCHANGED <<connected, execution, processing>> /\ lock = NoOne /\ lock' # lock
    BY <1>13 DEF range_step, Call, Start, hvars
  <2>2. plan.phase \notin UnknownPhases BY <1>0, <2>1, QuietFact DEF UnknownPhases
  <2> QED BY <1>0, <2>1, <2>2, MovesKnown
<1>14. ASSUME NEW c \in Callers, Add(c) PROVE CpuInv'
  <2>1. UNCHANGED <<connected, execution, processing, newer, emu, toHost>> /\ lock = NoOne
    BY <1>14 DEF Add, Call, hvars
  <2>2. CASE UNCHANGED <<lvars, toEmu>>
    BY <1>0, <2>1, <2>2, StaysKnown DEF lvars, Grows
  <2>3. CASE lock' # lock
    <3>1. plan.phase \notin UnknownPhases BY <1>0, <2>1, QuietFact DEF UnknownPhases
    <3> QED BY <1>0, <2>1, <2>3, <3>1, MovesKnown
  <2> QED BY <1>14, <2>1, <2>2, <2>3 DEF Add, Start
<1>15. ASSUME NEW c \in Callers, Remove(c) PROVE CpuInv'
  <2>1. UNCHANGED <<connected, execution, processing>> /\ lock = NoOne /\ lock' # lock
    BY <1>15 DEF Remove, Call, Start, hvars
  <2>2. plan.phase \notin UnknownPhases BY <1>0, <2>1, QuietFact DEF UnknownPhases
  <2> QED BY <1>0, <2>1, <2>2, MovesKnown
<1>16. ASSUME NEW c \in Callers, InspectionTools(c) PROVE CpuInv'
  <2>1. PICK ph \in {"ask", "seq"} : Ask(c, ph) BY <1>16, InspectionMoves
  <2>2. UNCHANGED <<connected, execution, processing>> /\ lock = NoOne /\ lock' # lock
    BY <2>1 DEF Ask, Call, Start, hvars
  <2>3. plan.phase \notin UnknownPhases BY <1>0, <2>2, QuietFact DEF UnknownPhases
  <2> QED BY <1>0, <2>2, <2>3, MovesKnown
<1>17. ASSUME NEW c \in Callers, CheckpointSave(c) PROVE CpuInv'
  <2>1. UNCHANGED <<connected, execution, processing>> /\ lock = NoOne
    BY <1>17, Zenon DEF CheckpointSave, Call, hvars
  <2>2. lock' # lock BY <1>17, <2>1, CheckpointSaveMoves DEF Begins
  <2>3. plan.phase \notin UnknownPhases BY <1>0, <2>1, QuietFact DEF UnknownPhases
  <2> QED BY <1>0, <2>1, <2>2, <2>3, MovesKnown
<1>18. ASSUME NEW c \in Callers, CheckpointRestore(c) PROVE CpuInv'
  <2>1. UNCHANGED <<connected, execution, processing>> /\ lock = NoOne /\ lock' # lock
    BY <1>18 DEF CheckpointRestore, Call, Start, hvars
  <2>2. plan.phase \notin UnknownPhases BY <1>0, <2>1, QuietFact DEF UnknownPhases
  <2> QED BY <1>0, <2>1, <2>2, MovesKnown
<1>19. ASSUME NEW c \in Callers, ResetSeen(c) PROVE CpuInv'
  <2>1. UNCHANGED <<connected, emu, toHost, processing, newer, plan, reply, execution>>
        /\ Grows
    BY <1>19 DEF ResetSeen, hvars, lvars, evars, Grows
  <2> QED BY <1>0, <2>1, StaysKnown
<1>20. ASSUME NEW c \in Callers, ResetReconnect(c) PROVE CpuInv'
  <2>1. CASE Open(c)
    <3>1. plan'.phase = "hello" /\ execution' = "disconnected" /\ toHost' = <<>>
          /\ reply' = NoReply
      BY <2>1 DEF Open, Idle
    <3>2. \A r \in Replies : ~Come(r)' BY <3>1, KindsDiffer DEF Come
    <3> QED BY <3>1, <3>2 DEF CpuInv
  <2>2. CASE UNCHANGED <<hvars, newer, lvars, evars>>
    BY <1>0, <2>2, StaysKnown DEF hvars, lvars, evars, Grows
  <2> QED BY <1>20, <2>1, <2>2 DEF ResetReconnect
<1>21. ASSUME NEW c \in Callers, ResetRearm(c) PROVE CpuInv'
  <2>1. UNCHANGED <<connected, execution, processing, newer, emu, toHost>> /\ lock = NoOne
    BY <1>21, Zenon DEF ResetRearm, hvars
  <2>2. CASE UNCHANGED <<lvars, toEmu>>
    BY <1>0, <2>1, <2>2, StaysKnown DEF lvars, Grows
  <2>3. CASE lock' # lock
    <3>1. plan.phase \notin UnknownPhases BY <1>0, <2>1, QuietFact DEF UnknownPhases
    <3> QED BY <1>0, <2>1, <2>3, <3>1, MovesKnown
  <2>4. UNCHANGED <<lvars, toEmu>> \/ lock' # lock
    BY <1>21, <2>1, ResetRearmMoves DEF Begins
  <2> QED BY <2>2, <2>3, <2>4
<1>22. ASSUME NEW c \in Callers, ResetResume(c) PROVE CpuInv'
  <2>1. /\ UNCHANGED <<connected, emu, toHost, processing, newer, plan, reply>> /\ lock = NoOne
        /\ \/ toEmu' = Append(toEmu, Packet("c", NoPoint))
           \/ UNCHANGED <<execution, toEmu>>
    BY <1>22 DEF ResetResume, _run, _paused, hvars, lvars
  <2>2. plan.phase \notin UnknownPhases BY <1>0, <2>1, QuietFact DEF UnknownPhases
  <2>3. Grows BY <2>1 DEF Grows
  <2> QED BY <1>0, <2>1, <2>2, <2>3, StaysKnown
<1>23. ASSUME HelloDone PROVE CpuInv'
  <2>1. /\ UNCHANGED <<connected, execution, processing>> /\ reply # NoReply
        /\ reply' = NoReply /\ plan.phase = "hello"
        /\ connected => plan'.phase = "exec"
    BY <1>a, <1>23 DEF HelloDone, Ok, Answered, Request, Release, hvars, HolderOK, PlanType

  <2>2. CASE ~connected BY <2>1, <2>2, CpuElsewhere DEF StoppedNow
  <2>3. CASE connected
    <3>1. reply \in Replies /\ Come(reply) /\ Quiet
      BY <1>0, <2>1, <2>3, AnsweredFact DEF CpuBase, Quiet
    <3>2. UNCHANGED <<emu, toHost>> /\ Grows /\ \A r \in Replies : ~Come(r)'
      BY <1>0, <2>1, <2>3, <3>1, MovesOn DEF CpuBase
    <3>3. StoppedNow' => StoppedNow BY <2>1, <2>3, <3>2 DEF StoppedNow
    <3>4. StoppedNow => Known \/ Connecting
      BY <1>0, <2>1 DEF CpuBase, CpuInv, StoppedNow, Connecting
    <3>5. StoppedNow' => Known' \/ Connecting'
      BY <1>0, <2>1, <2>3, <3>2, <3>3, <3>4, KnownKept DEF CpuBase, Connecting
    <3> QED BY <3>2, <3>5 DEF CpuInv, StoppedNow, Connecting
  <2> QED BY <2>2, <2>3
<1>24. ASSUME HelloDenied PROVE CpuInv'
  <2>1. ~connected' BY <1>24 DEF HelloDenied, Lost
  <2> QED BY <2>1, CpuElsewhere DEF StoppedNow
<1>25. ASSUME ExecutionDone PROVE CpuInv'
  <2>1. /\ UNCHANGED <<connected, processing, newer>> /\ reply # NoReply
        /\ reply' = NoReply /\ Ok("exec") /\ TakeStatus(reply.val)
    BY <1>25 DEF ExecutionDone, Ok, Answered, Release

  <2>2. CASE ~connected BY <2>1, <2>2, CpuElsewhere DEF StoppedNow
  <2>3. CASE connected
    <3>1. reply \in Replies /\ Come(reply) /\ Quiet
      BY <1>0, <2>1, <2>3, AnsweredFact DEF CpuBase, Quiet
    <3>2. UNCHANGED <<emu, toHost>> /\ Grows /\ \A r \in Replies : ~Come(r)'
      BY <1>0, <2>1, <2>3, <3>1, MovesOn DEF CpuBase
    <3>3. StoppedNow' => StoppedNow BY <2>1, <2>3, <3>2 DEF StoppedNow
    <3>4. plan.phase = "exec" /\ reply.cmd = "exec" /\ reply.val \in {"running", "stopped"}
      BY <1>0, <2>1, OkFact DEF CpuBase, Truthful, Wire
    <3>5. CASE newer \/ processing > 0
      <4>1. UNCHANGED execution BY <2>1, <3>5 DEF TakeStatus
      <4>2. newer => execution # "disconnected"
        BY <1>0, <2>3, <3>4 DEF CpuBase, SessionInv
      <4>3. processing > 0 => Known BY DEF Known, StopIsUnderWay
      <4>4. StoppedNow => Known
        BY <1>0, <3>4, <3>5, <4>2, <4>3 DEF CpuBase, CpuInv, StoppedNow
      <4>5. StoppedNow' => Known'
        BY <1>0, <2>1, <3>2, <3>3, <4>1, <4>4, KnownKept DEF CpuBase
      <4> QED BY <3>2, <4>5 DEF CpuInv, StoppedNow
    <3>6. CASE ~(newer \/ processing > 0)
      <4>1. execution' = reply.val BY <2>1, <3>6 DEF TakeStatus
      <4>2. StoppedNow /\ reply.val = "running" => StopIsUnderWay
        BY <1>0, <3>1, <3>4, <3>6 DEF CpuBase, CpuInv, StoppedNow
      <4>3. StopIsUnderWay => StopIsUnderWay' BY <2>1, <3>2, UnderWayKept
      <4>4. StoppedNow' => Known' BY <3>3, <3>4, <4>1, <4>2, <4>3 DEF Known
      <4> QED BY <3>2, <4>4 DEF CpuInv, StoppedNow
    <3> QED BY <3>5, <3>6
  <2> QED BY <2>2, <2>3
<1>26. ASSUME ByeDone PROVE CpuInv'
  <2>1. ~connected' BY <1>26 DEF ByeDone, Lost
  <2> QED BY <2>1, CpuElsewhere DEF StoppedNow
<1>27. ASSUME StepOverDone PROVE CpuInv'
  <2>1. /\ UNCHANGED <<connected, execution, processing>> /\ reply # NoReply
        /\ reply' = NoReply /\ Ok("over")
    BY <1>27 DEF StepOverDone, Ok, Answered, Release, hvars

  <2>2. CASE ~connected BY <2>1, <2>2, CpuElsewhere DEF StoppedNow
  <2>3. CASE connected
    <3>1. reply \in Replies /\ Come(reply) /\ Quiet
      BY <1>0, <2>1, <2>3, AnsweredFact DEF CpuBase, Quiet
    <3>2. UNCHANGED <<emu, toHost>> /\ Grows /\ \A r \in Replies : ~Come(r)'
      BY <1>0, <2>1, <2>3, <3>1, MovesOn DEF CpuBase
    <3>3. StoppedNow' => StoppedNow BY <2>1, <2>3, <3>2 DEF StoppedNow
    <3>4. reply.cmd = "over" /\ reply.ok BY <1>0, <2>1, OkFact DEF CpuBase, Wire
    <3>5. StoppedNow => Known BY <1>0, <3>1, <3>4 DEF CpuBase, CpuInv, StoppedNow
    <3>6. StoppedNow' => Known' BY <1>0, <2>1, <3>2, <3>3, <3>5, KnownKept DEF CpuBase
    <3> QED BY <3>2, <3>6 DEF CpuInv, StoppedNow
  <2> QED BY <2>2, <2>3
<1>28. ASSUME StepOverDenied PROVE CpuInv'
  <2>1. /\ UNCHANGED connected /\ reply # NoReply /\ reply' = NoReply
        /\ connected => execution' = "stopped"
    BY <1>28 DEF StepOverDenied, Denied, Answered, Release
  <2>2. CASE ~connected BY <2>1, <2>2, CpuElsewhere DEF StoppedNow
  <2> QED BY <1>0, <2>1, <2>2, MovesKnown
<1>29. ASSUME RangeStepDone PROVE CpuInv'
  <2>1. /\ UNCHANGED connected /\ reply # NoReply /\ reply' = NoReply /\ plan.phase = "vcont"
        /\ \/ UNCHANGED <<execution, processing>>
           \/ toEmu' = IF connected THEN Append(toEmu, Packet("s", NoPoint)) ELSE toEmu
    BY <1>29 DEF RangeStepDone, Ok, Answered, Release, _run, hvars
  <2>2. plan.phase \notin UnknownPhases BY <2>1 DEF UnknownPhases
  <2>3. CASE ~connected BY <2>1, <2>3, CpuElsewhere DEF StoppedNow
  <2>4. CASE connected BY <1>0, <2>1, <2>2, <2>4, MovesKnown
  <2> QED BY <2>3, <2>4
<1>30. ASSUME AddDone PROVE CpuInv'
  <2>1. /\ UNCHANGED <<connected, execution, processing>> /\ reply # NoReply
        /\ plan.phase \in {"set"}
    BY <1>30 DEF AddDone, Ok, Denied, Answered, hvars
  <2>2. reply' = NoReply BY <1>30 DEF AddDone, Release
  <2>3. plan.phase \notin UnknownPhases BY <2>1 DEF UnknownPhases
  <2> QED BY <1>0, <2>1, <2>2, <2>3, MovesKnown
<1>31. ASSUME RemoveDone PROVE CpuInv'
  <2>1. /\ UNCHANGED <<connected, execution, processing>> /\ reply # NoReply
        /\ plan.phase \in {"del"}
    BY <1>31 DEF RemoveDone, Ok, Denied, Answered, hvars
  <2>2. reply' = NoReply BY <1>31, <1>a, RemoveDoneMoves DEF Release, GoesOn
  <2>3. plan.phase \notin UnknownPhases BY <2>1 DEF UnknownPhases
  <2> QED BY <1>0, <2>1, <2>2, <2>3, MovesKnown
<1>32. ASSUME SequenceDone PROVE CpuInv'
  <2>1. /\ UNCHANGED connected /\ reply # NoReply /\ reply' = NoReply /\ plan.phase = "seq"
        /\ \/ UNCHANGED <<execution, processing>>
           \/ toEmu' = IF connected THEN Append(toEmu, Packet("c", NoPoint)) ELSE toEmu
    BY <1>32 DEF SequenceDone, Ok, Answered, Release, _run, hvars
  <2>2. plan.phase \notin UnknownPhases BY <2>1 DEF UnknownPhases
  <2>3. CASE ~connected BY <2>1, <2>3, CpuElsewhere DEF StoppedNow
  <2>4. CASE connected BY <1>0, <2>1, <2>2, <2>4, MovesKnown
  <2> QED BY <2>3, <2>4
<1>33. ASSUME AskMore PROVE CpuInv'
  <2>1. /\ UNCHANGED <<connected, execution, processing>> /\ reply # NoReply
        /\ plan.phase \in {"ask"}
    BY <1>33 DEF AskMore, Ok, Denied, Answered, hvars
  <2>2. reply' = NoReply BY <1>33 DEF AskMore, Request, Release
  <2>3. plan.phase \notin UnknownPhases BY <2>1 DEF UnknownPhases
  <2> QED BY <1>0, <2>1, <2>2, <2>3, MovesKnown
<1>34. ASSUME AskDone PROVE CpuInv'
  <2>1. /\ UNCHANGED <<connected, execution, processing>> /\ reply # NoReply /\ reply' = NoReply
        /\ Denied("exec") \/ plan.phase \in {"ask", "seq", "set", "del", "vcont", "restore"}
    BY <1>34 DEF AskDone, Denied, Answered, Release, hvars
  <2>2. CASE connected /\ Denied("exec")
    BY <1>0, <2>2, DeniedFact DEF CpuBase, Truthful, Wire
  <2>3. CASE ~connected BY <2>1, <2>3, CpuElsewhere DEF StoppedNow
  <2>4. CASE plan.phase \in {"ask", "seq", "set", "del", "vcont", "restore"}
    <3>1. plan.phase \notin UnknownPhases BY <2>4 DEF UnknownPhases
    <3> QED BY <1>0, <2>1, <3>1, MovesKnown
  <2> QED BY <2>1, <2>2, <2>3, <2>4
<1>35. ASSUME LiftDone PROVE CpuInv'
  <2>1. /\ UNCHANGED <<connected, execution, processing>> /\ reply # NoReply
        /\ plan.phase = "lift"
    BY <1>35 DEF LiftDone, Ok, Answered, hvars
  <2>2. plan.p \in Points BY <1>0, <2>1 DEF CpuBase, ReplyInv, PlanInv, Wire
  <2>3. reply' = NoReply BY <1>a, <1>35, <2>2, LiftDoneMoves DEF Release, GoesOn
  <2>4. plan.phase \notin UnknownPhases BY <2>1 DEF UnknownPhases
  <2> QED BY <1>0, <2>1, <2>3, <2>4, MovesKnown
<1>36. ASSUME SaveDone PROVE CpuInv'
  <2>1. /\ UNCHANGED connected /\ reply # NoReply /\ plan.phase \in {"save", "lift"}
        /\ UNCHANGED <<execution, processing>> \/ execution' = "stopped"
    BY <1>36 DEF SaveDone, Ok, Denied, Answered, Checkpointed, hvars
  <2>2. reply' = NoReply BY <1>a, <1>36, SaveDoneMoves DEF Release, GoesOn
  <2>3. plan.phase \notin UnknownPhases BY <2>1 DEF UnknownPhases
  <2> QED BY <1>0, <2>1, <2>2, <2>3, MovesKnown
<1>37. ASSUME PutBackDone PROVE CpuInv'
  <2>1. /\ UNCHANGED connected /\ reply # NoReply /\ plan.phase \in {"back"}
        /\ UNCHANGED <<execution, processing>> \/ execution' = "stopped"
    BY <1>37 DEF PutBackDone, Ok, Denied, Answered, Checkpointed, hvars
  <2>2. reply' = NoReply BY <1>a, <1>37, PutBackDoneMoves DEF Release, GoesOn
  <2>3. plan.phase \notin UnknownPhases BY <2>1 DEF UnknownPhases
  <2> QED BY <1>0, <2>1, <2>2, <2>3, MovesKnown
<1>38. ASSUME RestoreDone PROVE CpuInv'
  <2>1. /\ UNCHANGED connected /\ reply # NoReply /\ plan.phase \in {"restore"}
        /\ UNCHANGED <<execution, processing>> \/ execution' = "stopped"
    BY <1>38 DEF RestoreDone, Ok, Denied, Answered, Checkpointed, hvars
  <2>2. reply' = NoReply BY <1>a, <1>38, RestoreDoneMoves DEF Release, GoesOn
  <2>3. plan.phase \notin UnknownPhases BY <2>1 DEF UnknownPhases
  <2> QED BY <1>0, <2>1, <2>2, <2>3, MovesKnown
<1>39. ASSUME ArmDone PROVE CpuInv'
  <2>1. /\ UNCHANGED connected /\ reply # NoReply /\ plan.phase \in {"arm"}
        /\ UNCHANGED <<execution, processing>> \/ execution' = "stopped"
    BY <1>39 DEF ArmDone, Ok, Denied, Answered, Checkpointed, hvars
  <2>2. reply' = NoReply BY <1>a, <1>39, ArmDoneMoves DEF Release, GoesOn
  <2>3. plan.phase \notin UnknownPhases BY <2>1 DEF UnknownPhases
  <2> QED BY <1>0, <2>1, <2>2, <2>3, MovesKnown
<1>40. ASSUME ArmDenied PROVE CpuInv'
  <2>1. /\ UNCHANGED <<connected, execution, processing>> /\ reply # NoReply
        /\ plan.phase \in {"arm"}
    BY <1>40 DEF ArmDenied, Ok, Denied, Answered, hvars
  <2>2. reply' = NoReply BY <1>40 DEF ArmDenied, Release
  <2>3. plan.phase \notin UnknownPhases BY <2>1 DEF UnknownPhases
  <2> QED BY <1>0, <2>1, <2>2, <2>3, MovesKnown
<1>41. ASSUME KeysDone PROVE CpuInv'
  <2>1. /\ UNCHANGED connected /\ reply # NoReply /\ reply' = NoReply /\ plan.phase = "keys"
        /\ \/ UNCHANGED <<execution, processing>>
           \/ toEmu' = IF connected THEN Append(toEmu, Packet("c", NoPoint)) ELSE toEmu
    BY <1>41 DEF KeysDone, Ok, Answered, Release, _run, hvars
  <2>2. plan.phase \notin UnknownPhases BY <2>1 DEF UnknownPhases
  <2>3. CASE ~connected BY <2>1, <2>3, CpuElsewhere DEF StoppedNow
  <2>4. CASE connected BY <1>0, <2>1, <2>2, <2>4, MovesKnown
  <2> QED BY <2>3, <2>4
<1>42. ASSUME KeysDenied PROVE CpuInv'
  <2>1. /\ UNCHANGED <<connected, execution, processing>> /\ reply # NoReply
        /\ plan.phase \in {"keys"}
    BY <1>42 DEF KeysDenied, Ok, Denied, Answered, hvars
  <2>2. reply' = NoReply BY <1>42 DEF KeysDenied, Release
  <2>3. plan.phase \notin UnknownPhases BY <2>1 DEF UnknownPhases
  <2> QED BY <1>0, <2>1, <2>2, <2>3, MovesKnown
<1>43. ASSUME ProcessSkips PROVE CpuInv'
  <2>1. /\ UNCHANGED connected /\ reply # NoReply /\ reply' = NoReply
        /\ toEmu' = Append(toEmu, Packet("c", NoPoint))
    BY <1>43 DEF ProcessSkips, Ok, Answered, Release
  <2> QED BY <1>0, <2>1, MovesKnown
<1>44. ASSUME ProcessOneshot PROVE CpuInv'
  <2>1. /\ UNCHANGED <<connected, execution, processing>> /\ reply # NoReply
        /\ plan.phase \in {"pc"}
    BY <1>44 DEF ProcessOneshot, Ok, Denied, Answered, hvars
  <2>2. reply' = NoReply BY <1>44 DEF ProcessOneshot, Request, Release
  <2>3. plan.phase \notin UnknownPhases BY <2>1 DEF UnknownPhases
  <2> QED BY <1>0, <2>1, <2>2, <2>3, MovesKnown
<1>45. ASSUME ProcessReports PROVE CpuInv'
  <2>1. /\ UNCHANGED connected /\ reply # NoReply /\ reply' = NoReply
        /\ execution' = "stopped"
    BY <1>45 DEF ProcessReports, Ok, Denied, Answered, Report, _signal_stop, Release
  <2> QED BY <1>0, <2>1, MovesKnown
<1>46. ASSUME RequestTimeout PROVE CpuInv'
  <2>1. ~connected' BY <1>46 DEF RequestTimeout, Lost
  <2> QED BY <2>1, CpuElsewhere DEF StoppedNow
<1>47. ASSUME ProcessTimeout PROVE CpuInv'
  <2>1. ~connected' BY <1>47 DEF ProcessTimeout
  <2> QED BY <2>1, CpuElsewhere DEF StoppedNow
<1>48. ASSUME ProcessStart PROVE CpuInv'
  <2>1. CASE connected
    <3>1. UNCHANGED <<connected, execution, processing>> /\ lock = NoOne /\ lock' # lock
      BY <1>48, <2>1 DEF ProcessStart, Start, hvars
    <3>2. plan.phase \notin UnknownPhases BY <1>0, <3>1, QuietFact DEF UnknownPhases
    <3> QED BY <1>0, <3>1, <3>2, MovesKnown
  <2>2. CASE ~connected
    <3>1. ~connected' BY <1>48, <2>2 DEF ProcessStart, Report, _signal_stop
    <3> QED BY <3>1, CpuElsewhere DEF StoppedNow
  <2> QED BY <2>1, <2>2
<1>49. ASSUME ReadStop PROVE CpuInv'
  <2>1. /\ UNCHANGED <<connected, plan, reply, emu, toEmu>> /\ TakesStop
    BY <1>49 DEF ReadStop, Incoming, TakesStop, _signal_stop, hvars, lvars
  <2>2. \A r \in Replies : Come(r)' => Come(r)
    <3>1. ~TakesRequest BY <2>1, <1>b, TakesOneWay
    <3>2. Traffic BY <2>1 DEF Traffic, HostTraffic
    <3> QED BY <1>b, <2>1, <3>1, <3>2, ComeFact
  <2>3. \/ execution' = "stopped" /\ newer'
        \/ processing' = processing + 1
    BY <1>49 DEF ReadStop, _signal_stop
  <2>4. CASE execution' = "stopped" /\ newer'
    <3>1. Known' BY <2>4, StoppedKnown
    <3> QED BY <2>4, <3>1 DEF CpuInv
  <2>5. CASE processing' = processing + 1
    <3>1. processing \in Nat BY <1>b DEF ReplyInv, TypeOK
    <3>2. StopIsUnderWay' BY <2>5, <3>1 DEF StopIsUnderWay
    <3> QED BY <3>2 DEF CpuInv, Known
  <2> QED BY <2>3, <2>4, <2>5
<1>50. ASSUME ReadReply PROVE CpuInv'
  <2>1. /\ UNCHANGED <<connected, execution, processing, newer, plan, emu, toEmu>>
        /\ TakesReply
    BY <1>50 DEF ReadReply, Incoming, TakesReply, IsReply, Quiet, hvars
  <2>2. Grows BY <2>1 DEF Grows
  <2>3. StopIsUnderWay => StopIsUnderWay' BY <1>0, <1>b, <2>1, ReadKeepsStops
  <2>4. Known => Known' BY <2>1, <2>3 DEF Known, RunIsOrdered
  <2>5. Traffic /\ ~TakesRequest
    <3>1. ~TakesRequest BY <2>1, <1>b, TakesOneWay
    <3> QED BY <2>1, <3>1 DEF Traffic, HostTraffic
  <2>6. \A r \in Replies : Come(r)' => Come(r) BY <1>b, <2>1, <2>5, ComeFact
  <2> QED BY <1>0, <2>1, <2>3, <2>4, <2>6 DEF CpuBase, CpuInv
<1>51. ASSUME ReadClosed PROVE CpuInv'
  <2>1. ~connected' BY <1>51 DEF ReadClosed, Lost
  <2> QED BY <2>1, CpuElsewhere DEF StoppedNow
<1>52. ASSUME Emulator PROVE CpuInv'
  BY <1>52
<1>53. ASSUME UNCHANGED vars PROVE CpuInv'
  <2>1. /\ UNCHANGED <<connected, emu, toHost, processing, newer, plan, reply, execution>>
        /\ Grows
    BY <1>53 DEF vars, hvars, lvars, evars, Grows
  <2> QED BY <1>0, <2>1, StaysKnown
<1> QED
    BY <1>1, <1>2, <1>3, <1>4, <1>5, <1>6, <1>7, <1>8, <1>9, <1>10, <1>11, <1>12,
       <1>13, <1>14, <1>15, <1>16, <1>17, <1>18, <1>19, <1>20, <1>21, <1>22, <1>23,
       <1>24, <1>25, <1>26, <1>27, <1>28, <1>29, <1>30, <1>31, <1>32, <1>33, <1>34,
       <1>35, <1>36, <1>37, <1>38, <1>39, <1>40, <1>41, <1>42, <1>43, <1>44, <1>45,
       <1>46, <1>47, <1>48, <1>49, <1>50, <1>51, <1>52, <1>53, Zenon DEF Emulator,
       Next, Operations, ResetStep, HolderStep, ReaderStep, amiga_winuae_control,
       amiga_winuae_range_step, PointTools, amiga_winuae_checkpoint

\* WinUAE.
LEMMA StopIsEnough == ASSUME StopIsUnderWay' PROVE CpuInv'
BY DEF CpuInv, Known

LEMMA StopsStay ==
    ASSUME ReplyInv, UNCHANGED processing, NEW m, toHost' = Append(toHost, m)
    PROVE  /\ StopIsUnderWay => StopIsUnderWay'
           /\ m.kind = "stop" => StopIsUnderWay'
<1>1. toHost \in Seq(Replies \cup {Stop(TRUE), Stop(FALSE), Eof}) BY DEF ReplyInv, TypeOK
<1>2. PICK n \in Nat : n = Len(toHost) /\ DOMAIN toHost = 1..n BY <1>1
<1>3. /\ Len(toHost') = n + 1 /\ toHost'[n + 1] = m
      /\ \A i \in 1..n : toHost'[i] = toHost[i]
  BY <1>1, <1>2, AppendFact
<1>4. DOMAIN toHost' = 1..(n + 1) BY <1>1, <1>2
<1>5. \A i \in 1..n : i \in 1..(n + 1) OBVIOUS
<1>6. n + 1 \in 1..(n + 1) OBVIOUS
<1>7. StopIsUnderWay => StopIsUnderWay' BY <1>2, <1>3, <1>4, <1>5 DEF StopIsUnderWay
<1>8. m.kind = "stop" => StopIsUnderWay' BY <1>3, <1>4, <1>6 DEF StopIsUnderWay
<1> QED BY <1>7, <1>8

LEMMA RunStays ==
    ASSUME ReplyInv, toEmu # <<>>, toEmu' = Tail(toEmu), Head(toEmu).cmd \notin {"c", "s"},
           RunIsOrdered
    PROVE  RunIsOrdered'
<1>1. toEmu \in Seq([cmd : Commands, p : Points \cup {NoPoint}]) BY DEF ReplyInv, TypeOK
<1>2. PICK n \in Nat : n = Len(toEmu) BY <1>1
<1>3. /\ n >= 1 /\ Len(toEmu') = n - 1 /\ toEmu[1] = Head(toEmu)
      /\ \A i \in 1..(n - 1) : toEmu'[i] = toEmu[i + 1]
  BY <1>1, <1>2, HeadFact
<1>4. PICK i \in 1..n : toEmu[i].cmd \in {"c", "s"} BY <1>2 DEF RunIsOrdered
<1>5. i # 1 BY <1>3, <1>4
<1>6. i - 1 \in 1..(n - 1) /\ (i - 1) + 1 = i BY <1>5
<1>7. toEmu'[i - 1] = toEmu[i] BY <1>3, <1>6
<1> QED BY <1>3, <1>4, <1>6, <1>7 DEF RunIsOrdered

\* The answer to the request that WinUAE takes is the only one that has come.
LEMMA OnlyAnswer ==
    ASSUME ReplyInv, TakesRequest, NEW m, toHost' = Append(toHost, m),
           NEW r \in Replies, Come(r)'
    PROVE  r = m
<1>1. reply' = NoReply /\ \A i \in 1..Len(toHost) : ~IsReply(toHost[i])
  BY TakenPends DEF TakesRequest, lvars
<1>2. toHost \in Seq(Replies \cup {Stop(TRUE), Stop(FALSE), Eof}) BY DEF ReplyInv, TypeOK
<1>3. PICK n \in Nat : n = Len(toHost) BY <1>2
<1>4. /\ Len(toHost') = n + 1 /\ toHost'[n + 1] = m
      /\ \A i \in 1..n : toHost'[i] = toHost[i]
  BY <1>2, <1>3, AppendFact
<1>5. \A i \in 1..Len(toHost') : i \in 1..n \/ i = n + 1 BY <1>4
<1>6. IsReply(r) /\ r # reply' BY <1>1, KindsDiffer DEF Come
<1>7. PICK i \in 1..Len(toHost') : r = toHost'[i] BY <1>6 DEF Come
<1> QED BY <1>1, <1>3, <1>4, <1>5, <1>6, <1>7

LEMMA AnswerKeepsCpu ==
    ASSUME CpuBase, TakesRequest, UNCHANGED <<execution, processing>>,
           NEW ok \in BOOLEAN, NEW val \in Points \cup {NoPoint, "running", "stopped"},
           toHost' = Append(toHost, Reply(ok, val)),
           emu'.cpu = emu.cpu \/ execution = "stopped",
           Head(toEmu).cmd = "exec" => val = emu'.cpu,
           Head(toEmu).cmd = "over" => ~ok
    PROVE  CpuInv'
<1>0. ReplyInv /\ CpuInv /\ TypeOK BY DEF CpuBase, ReplyInv
<1>1. /\ UNCHANGED <<connected, plan>> /\ emu.session
      /\ toEmu # <<>> /\ toEmu' = Tail(toEmu) /\ Head(toEmu).cmd \notin {"c", "s"}
  BY DEF TakesRequest, IsRequest, Orders, lvars
<1>2. Known => Known'
  BY <1>0, <1>1, StopsStay, RunStays DEF Known
<1>3. ASSUME NEW r \in Replies, Come(r)', StoppedNow'
      PROVE  ~(r.cmd = "exec" /\ r.val = "running") /\ ~(r.cmd = "over" /\ r.ok)
  <2>1. r = Reply(ok, val) BY <1>0, <1>3, OnlyAnswer
  <2>2. r.cmd = Head(toEmu).cmd /\ r.ok = ok /\ r.val = val
    BY <1>0, <1>1, <2>1, ReplyFact
  <2> QED BY <1>3, <2>2 DEF StoppedNow
<1>4. StoppedNow' => Known' \/ plan'.phase = "over" \/ Connecting'
  <2>1. CASE execution = "stopped" BY <2>1, StoppedKnown
  <2>2. CASE emu'.cpu = emu.cpu
    <3>1. StoppedNow' => StoppedNow BY <1>1, <2>2 DEF StoppedNow
    <3>2. StoppedNow => Known \/ plan.phase = "over" \/ Connecting
      BY <1>0 DEF CpuInv, StoppedNow, Connecting
    <3>3. Connecting' <=> Connecting BY <1>1 DEF Connecting
    <3> QED BY <1>1, <1>2, <3>1, <3>2, <3>3
  <2> QED BY <2>1, <2>2
<1> QED BY <1>3, <1>4 DEF CpuInv, StoppedNow, Connecting

LEMMA EmuStopFact ==
    ASSUME ReplyInv, EmuStop
    PROVE  StopIsUnderWay'
<1>1. Put(Stop(TRUE)) \/ Put(Stop(FALSE)) BY Zenon DEF EmuStop
<1>2. PICK yes \in BOOLEAN, no \in BOOLEAN : yes = TRUE /\ no = FALSE OBVIOUS
<1>3. Put(Stop(yes)) \/ Put(Stop(no)) BY <1>1, <1>2, Zenon
<1>4. PICK plain \in BOOLEAN : toHost' = Append(toHost, Stop(plain)) BY <1>3 DEF Put
<1>5. UNCHANGED processing BY Zenon DEF EmuStop, hvars
<1>6. Stop(plain).kind = "stop" BY DEF Stop
<1> QED BY <1>4, <1>5, <1>6, StopsStay

LEMMA StopThenAnswer ==
    ASSUME ReplyInv, UNCHANGED processing, NEW plain, NEW r, toHost' = toHost \o <<Stop(plain), r>>
    PROVE  StopIsUnderWay'
<1>1. toHost \in Seq(Replies \cup {Stop(TRUE), Stop(FALSE), Eof}) BY DEF ReplyInv, TypeOK
<1>2. PICK n \in Nat : n = Len(toHost) BY <1>1
<1> DEFINE s == Stop(plain)
<1>3. s.kind = "stop" BY DEF Stop
<1> HIDE DEF s
<1>4. Len(toHost') = n + 2 /\ toHost'[n + 1] = s BY <1>1, <1>2 DEF s
<1>5. DOMAIN toHost' = 1..(n + 2) BY <1>1, <1>2
<1>6. n + 1 \in 1..(n + 2) OBVIOUS
<1> QED BY <1>3, <1>4, <1>5, <1>6 DEF StopIsUnderWay

LEMMA CpuEmuStep ==
    ASSUME CpuBase, [Next]_vars, Emulator
    PROVE  CpuInv'
<1>0. ReplyInv /\ CpuInv /\ SessionInv /\ TypeOK BY DEF CpuBase, ReplyInv
<1>1. UNCHANGED <<connected, execution, processing, plan, reply, newer>>
  BY EmulatorFact DEF hvars, lvars
<1>2. CASE EmuStop BY <1>0, <1>2, EmuStopFact, StopIsEnough
<1>3. ASSUME EmuRun \/ EmuDetach \/ GuiResume PROVE CpuInv'
  <2>1. emu'.cpu = "running" BY <1>0, <1>3 DEF EmuRun, EmuDetach, GuiResume, Taken, TypeOK
  <2> QED BY <2>1, CpuElsewhere DEF StoppedNow
<1>4. ASSUME EmuReset \/ EmuDrop PROVE CpuInv'
  <2>1. ~emu'.session BY <1>4 DEF EmuReset, EmuDrop, Gone, Detached
  <2> QED BY <2>1, CpuElsewhere DEF StoppedNow
<1>5. CASE EmuInterrupt
  <2>1. CASE emu.cpu = "running"
    <3>1. PICK no \in BOOLEAN : no = FALSE OBVIOUS
    <3>2. toHost' = Append(toHost, Stop(no)) BY <1>5, <2>1, <3>1, Zenon DEF EmuInterrupt, Put
    <3>3. Stop(no).kind = "stop" BY DEF Stop
    <3> QED BY <1>0, <1>1, <3>2, <3>3, StopsStay, StopIsEnough
  <2>2. CASE emu.cpu # "running"
    <3>1. /\ UNCHANGED <<emu, toHost>>
          /\ toEmu # <<>> /\ toEmu' = Tail(toEmu) /\ Head(toEmu).cmd \notin {"c", "s"}
      BY <1>5, <2>2 DEF EmuInterrupt, Taken
    <3>2. Known => Known' BY <1>0, <1>1, <3>1, RunStays, UnderWayKept DEF Known
    <3>3. \A r \in Replies : Come(r)' => Come(r) BY <1>1, <3>1 DEF Come
    <3>4. StopIsUnderWay => StopIsUnderWay' BY <1>1, <3>1, UnderWayKept
    <3> QED BY <1>0, <1>1, <3>1, <3>2, <3>3, <3>4 DEF CpuInv
  <2> QED BY <2>1, <2>2
<1>6. ASSUME RequestTaken, NEW ok \in BOOLEAN,
             NEW val \in Points \cup {NoPoint, "running", "stopped"}, Put(Reply(ok, val)),
             emu'.cpu = emu.cpu \/ execution = "stopped",
             Head(toEmu).cmd = "exec" => val = emu'.cpu,
             Head(toEmu).cmd = "over" => ~ok
      PROVE  CpuInv'
  <2>1. TakesRequest BY <1>0, <1>6, RequestTakenFact
  <2> QED BY <1>1, <1>6, <2>1, AnswerKeepsCpu DEF Put
<1>7. ASSUME EmuHello \/ EmuAnswer PROVE CpuInv'
  <2>1. /\ \E ok \in BOOLEAN : Put(Reply(ok, NoPoint))
        /\ UNCHANGED emu /\ Head(toEmu).cmd \notin {"exec", "over"}
    BY <1>7 DEF EmuHello, EmuAnswer, Taken
  <2> QED BY <1>6, <1>7, <2>1 DEF RequestTaken
<1>8. PICK yes \in BOOLEAN : yes = TRUE OBVIOUS
<1>9. PICK no \in BOOLEAN : no = FALSE OBVIOUS
<1>10. CASE EmuStatus
  <2>1. Put(Reply(yes, emu.cpu)) /\ UNCHANGED emu BY <1>8, <1>10, Zenon DEF EmuStatus
  <2>2. Head(toEmu).cmd = "exec" BY <1>10 DEF EmuStatus, Taken
  <2>3. emu.cpu \in {"running", "stopped"} BY <1>0 DEF TypeOK
  <2> QED BY <1>6, <1>10, <2>1, <2>2, <2>3 DEF RequestTaken
<1>11. CASE EmuPc
  <2>1. Put(Reply(yes, emu.at)) /\ UNCHANGED emu BY <1>8, <1>11, Zenon DEF EmuPc
  <2>2. Head(toEmu).cmd = "pc" BY <1>11 DEF EmuPc, Taken
  <2>3. emu.at \in Points \cup {NoPoint} BY <1>0 DEF TypeOK, Execs
  <2> QED BY <1>6, <1>11, <2>1, <2>2, <2>3 DEF RequestTaken
<1>12. CASE EmuInsert
  <2>1. \E ok \in BOOLEAN : Put(Reply(ok, NoPoint)) BY <1>12 DEF EmuInsert
  <2>2. Head(toEmu).cmd = "Z" BY <1>12 DEF EmuInsert, Taken
  <2>3. emu'.cpu = emu.cpu BY <1>0, <1>12 DEF EmuInsert, TypeOK
  <2> QED BY <1>6, <1>12, <2>1, <2>2, <2>3 DEF RequestTaken
<1>13. CASE EmuRemove
  <2>1. Put(Reply(yes, NoPoint)) BY <1>8, <1>13, Zenon DEF EmuRemove
  <2>2. Head(toEmu).cmd = "z" BY <1>13 DEF EmuRemove, Taken
  <2>3. emu'.cpu = emu.cpu BY <1>0, <1>13 DEF EmuRemove, TypeOK
  <2> QED BY <1>6, <1>13, <2>1, <2>2, <2>3 DEF RequestTaken
<1>14. CASE EmuKeys
  <2>1. Put(Reply(yes, NoPoint)) \/ Put(Reply(no, NoPoint))
    BY <1>8, <1>9, <1>14, Zenon DEF EmuKeys
  <2>2. Head(toEmu).cmd = "keys" BY <1>14 DEF EmuKeys, Taken
  <2>3. emu'.cpu = emu.cpu BY <1>0, <1>14 DEF EmuKeys, TypeOK
  <2>4. PICK ok \in BOOLEAN : Put(Reply(ok, NoPoint)) BY <2>1
  <2> QED BY <1>6, <1>14, <2>2, <2>3, <2>4 DEF RequestTaken
<1>15. CASE EmuStepOver
  <2>1. Head(toEmu).cmd = "over" BY <1>15 DEF EmuStepOver, Taken
  <2>2. CASE emu' = [emu EXCEPT !.cpu = "running", !.mode = "step"]
    <3>1. emu'.cpu = "running" BY <1>0, <2>2 DEF TypeOK
    <3> QED BY <3>1, CpuElsewhere DEF StoppedNow
  <2>3. CASE toHost' = toHost \o <<Stop(TRUE), Reply(TRUE, NoPoint)>>
    <3>1. toHost' = toHost \o <<Stop(yes), Reply(TRUE, NoPoint)>> BY <1>8, <2>3, Zenon
    <3> QED BY <1>0, <1>1, <3>1, StopThenAnswer, StopIsEnough
  <2>4. CASE Put(Reply(FALSE, NoPoint)) /\ UNCHANGED emu
    <3>1. Put(Reply(no, NoPoint)) BY <1>9, <2>4, Zenon
    <3> QED BY <1>6, <1>9, <1>15, <2>1, <2>4, <3>1 DEF RequestTaken
  <2> QED BY <1>15, <2>2, <2>3, <2>4, Zenon DEF EmuStepOver
<1>16. CASE EmuSave
  <2>1. Head(toEmu).cmd = "save" BY <1>16 DEF EmuSave, Taken
  <2>2. CASE Put(Reply(TRUE, NoPoint))
    <3>1. Put(Reply(yes, NoPoint)) BY <1>8, <2>2, Zenon
    <3>2. execution = "stopped" \/ ~connected
      <4>1. TakesRequest BY <1>0, <1>16, RequestTakenFact DEF RequestTaken
      <4>2. plan.phase = "save"
        BY <1>0, <2>1, <4>1, TakenPends DEF Outstanding, Wire, TypeOK, Phases
      <4> QED BY <1>0, <4>2 DEF SessionInv, PausedPhases
    <3>3. CASE ~connected BY <1>1, <3>3, CpuElsewhere DEF StoppedNow
    <3> QED BY <1>6, <1>16, <2>1, <3>1, <3>2, <3>3 DEF RequestTaken
  <2>3. CASE toHost' = toHost \o <<Stop(FALSE), Reply(FALSE, NoPoint)>>
    <3>1. toHost' = toHost \o <<Stop(no), Reply(FALSE, NoPoint)>> BY <1>9, <2>3, Zenon
    <3> QED BY <1>0, <1>1, <3>1, StopThenAnswer, StopIsEnough
  <2> QED BY <1>16, <2>2, <2>3, Zenon DEF EmuSave
<1>17. CASE EmuRestore
  <2>1. Head(toEmu).cmd = "restore" BY <1>17 DEF EmuRestore, Taken
  <2>2. Put(Reply(yes, NoPoint)) \/ Put(Reply(no, NoPoint))
    BY <1>8, <1>9, <1>17, Zenon DEF EmuRestore
  <2>3. PICK ok \in BOOLEAN : Put(Reply(ok, NoPoint)) BY <2>2
  <2>4. execution = "stopped" \/ ~connected
    <3>1. TakesRequest BY <1>0, <1>17, RequestTakenFact DEF RequestTaken
    <3>2. plan.phase = "restore"
      BY <1>0, <2>1, <3>1, TakenPends DEF Outstanding, Wire, TypeOK, Phases
    <3> QED BY <1>0, <3>2 DEF SessionInv, PausedPhases
  <2>5. CASE ~connected BY <1>1, <2>5, CpuElsewhere DEF StoppedNow
  <2> QED BY <1>6, <1>17, <2>1, <2>3, <2>4, <2>5 DEF RequestTaken
<1> QED
  BY <1>2, <1>3, <1>4, <1>5, <1>7, <1>10, <1>11, <1>12, <1>13, <1>14, <1>15, <1>16, <1>17, Zenon
     DEF Emulator, EmuCommand

LEMMA CpuAlways == Spec => [](SessionInv /\ CpuInv)
<1>1. Init => SessionInv /\ CpuInv BY DEF Init, SessionInv, CpuInv
<1>2. ReplyInv /\ SessionInv /\ CpuInv /\ [Next]_vars => SessionInv' /\ CpuInv'
  BY SessionStep, CpuHostStep, CpuEmuStep DEF CpuBase
<1> QED BY <1>1, <1>2, ReplyAlways, PTL DEF Spec

\* While WinUAE is stopped the session says so, or the stop, or an order to run, is on
\* its way, whatever status replies and stops arrive in what order.
THEOREM StopsAreKnown == Spec => []StopIsKnown
<1>1. ReplyInv /\ CpuInv => StopIsKnown
  <2> SUFFICES ASSUME ReplyInv, CpuInv, StoppedNow PROVE StopIsKnown
    BY DEF StopIsKnown, StoppedNow
  <2>1. Known \/ plan.phase = "over" \/ Connecting BY DEF CpuInv, StoppedNow, Connecting
  <2>2. CASE Known
    <3>1. toEmu \in Seq([cmd : Commands, p : Points \cup {NoPoint}]) BY DEF ReplyInv, TypeOK
    <3>2. DOMAIN toEmu = 1..Len(toEmu) BY <3>1
    <3> QED BY <2>2, <3>2 DEF Known, RunIsOrdered, StopIsKnown
  <2>3. CASE Connecting
    <3>1. lock # NoOne BY <2>3, IdleFact DEF Connecting, ReplyInv, PlanInv
    <3> QED BY <2>3, <3>1 DEF Connecting, StopIsKnown
  <2> QED BY <2>1, <2>2, <2>3 DEF StopIsKnown
<1> QED BY <1>1, ReplyAlways, CpuAlways, PTL

-----------------------------------------------------------------------------
(* A pause gets its stop.                                                  *)

Pausing == \E c \in Callers : caller[c].pc = "pausing"
PauseBase == ReplyInv /\ SessionInv /\ CpuInv /\ PauseInv

LEMMA PauseNone == ASSUME ~Pausing' PROVE PauseInv'
BY DEF Pausing, PauseInv

\* Nobody waits for a pause in a session that is closed or stopped.
LEMMA PauseEnds ==
    ASSUME PauseInv, Pausing' => Pausing,
           ~connected \/ execution = "stopped" \/ ~interrupting \/ plan.phase = "over"
    PROVE  PauseInv'
<1>1. ~Pausing BY DEF Pausing, PauseInv
<1> QED BY <1>1, PauseNone

LEMMA SamePausing == ASSUME UNCHANGED caller PROVE Pausing' => Pausing
BY DEF Pausing

LEMMA WokenPausing ==
    ASSUME ReplyInv, caller' \in {Woken, Parted(Woken)}
    PROVE  ~Pausing'
<1>1. caller \in [Callers -> CallerType] BY DEF ReplyInv, TypeOK, CallerType
<1>2. \A c \in Callers : Woken[c].pc # "pausing" BY <1>1, WokenFact
<1>3. Woken \in [Callers -> CallerType] BY <1>1, WokenFact
<1>4. \A c \in Callers : caller'[c].pc # "pausing" BY <1>2, <1>3, PartedFact
<1> QED BY <1>4 DEF Pausing

\* Nobody begins to wait.
LEMMA SeenPausing ==
    ASSUME ReplyInv,
           \/ caller' \in Seen
           \/ \A c \in Callers : caller'[c].pc = caller[c].pc
    PROVE  Pausing' => Pausing
<1>1. caller \in [Callers -> CallerType] BY DEF ReplyInv, TypeOK, CallerType
<1>2. \A c \in Callers : caller'[c].pc = "pausing" => caller[c].pc = "pausing"
  BY <1>1, SeenFact
<1> QED BY <1>2 DEF Pausing

\* One coroutine does something else.
LEMMA OtherPausing ==
    ASSUME NEW w \in [Callers -> CallerType], NEW c, NEW s, s.pc # "pausing",
           NEW d \in Callers, [w EXCEPT ![c] = s][d].pc = "pausing"
    PROVE  w[d].pc = "pausing"
<1>1. CASE d = c BY <1>1
<1>2. CASE d # c BY <1>2
<1> QED BY <1>1, <1>2

LEMMA OtherPcPausing ==
    ASSUME NEW w \in [Callers -> CallerType], NEW c, NEW pc, pc # "pausing",
           NEW d \in Callers, [w EXCEPT ![c].pc = pc][d].pc = "pausing"
    PROVE  w[d].pc = "pausing"
<1>1. CASE d = c BY <1>1 DEF CallerType
<1>2. CASE d # c BY <1>2
<1> QED BY <1>1, <1>2

\* No order to run is sent.
QuietSends ==
    toEmu' = toEmu \/ \E m : m.cmd \notin {"c", "s"} /\ toEmu' = Append(toEmu, m)

LEMMA IntKept ==
    ASSUME ReplyInv, QuietSends, IntIsLast
    PROVE  IntIsLast'
<1>1. CASE toEmu' = toEmu BY <1>1 DEF IntIsLast
<1>2. ASSUME NEW m, m.cmd \notin {"c", "s"}, toEmu' = Append(toEmu, m) PROVE IntIsLast'
  <2>1. toEmu \in Seq([cmd : Commands, p : Points \cup {NoPoint}]) BY DEF ReplyInv, TypeOK
  <2>2. PICK n \in Nat : n = Len(toEmu) BY <2>1
  <2>3. /\ Len(toEmu') = n + 1 /\ toEmu'[n + 1] = m /\ \A i \in 1..n : toEmu'[i] = toEmu[i]
    BY <1>2, <2>1, <2>2, AppendFact
  <2>4. PICK i \in 1..n :
           /\ toEmu[i].cmd = "int"
           /\ \A j \in 1..n : toEmu[j].cmd \in {"c", "s"} => j < i
    BY <2>2 DEF IntIsLast
  <2>5. i \in 1..(n + 1) /\ toEmu'[i].cmd = "int" BY <2>3, <2>4
  <2>6. ASSUME NEW j \in 1..(n + 1), toEmu'[j].cmd \in {"c", "s"} PROVE j < i
    <3>1. j # n + 1 BY <1>2, <2>3, <2>6
    <3>2. j \in 1..n BY <3>1
    <3> QED BY <2>3, <2>4, <2>6, <3>2
  <2> QED BY <2>3, <2>5, <2>6 DEF IntIsLast
<1> QED BY <1>1, <1>2 DEF QuietSends

LEMMA PauseKept ==
    ASSUME ReplyInv, PauseInv, Pausing' => Pausing, UNCHANGED <<connected, interrupting, emu>>,
           StopIsUnderWay => StopIsUnderWay', QuietSends,
           execution' = execution \/ execution' # "stopped",
           plan' = plan \/ plan'.phase # "over"
    PROVE  PauseInv'
<1>1. Grows BY DEF QuietSends, Grows
<1>2. RunIsOrdered => RunIsOrdered' BY <1>1, GrowsFact DEF RunIsOrdered
<1>3. IntIsLast => IntIsLast' BY IntKept
<1> SUFFICES ASSUME Pausing' PROVE PauseInv' BY PauseNone
<1>4. /\ connected /\ execution # "stopped" /\ interrupting /\ plan.phase # "over"
      /\ emu.session =>
            /\ StopIsUnderWay \/ IntIsLast
            /\ emu.cpu = "stopped" => StopIsUnderWay \/ RunIsOrdered
  BY DEF Pausing, PauseInv
<1> QED BY <1>2, <1>3, <1>4 DEF PauseInv

\* Steps that leave the lock or make a request.
LEMMA PauseMoves ==
    ASSUME ReplyInv, PauseInv, [Next]_vars, Pausing' => Pausing,
           UNCHANGED <<connected, interrupting, processing>>,
           execution' = execution \/ execution' # "stopped",
           reply # NoReply \/ lock = NoOne, lock' # lock \/ reply' # reply,
           plan'.phase # "over", toEmu' = toEmu \/ lock' # NoOne
    PROVE  PauseInv'
<1>1. CASE ~connected BY <1>1, PauseEnds
<1>2. CASE connected
  <2>1. Quiet BY QuietFact
  <2>2. UNCHANGED <<emu, toHost>> BY <1>2, <2>1, MovesOn
  <2>3. HostTraffic \/ EmuTraffic BY StepTraffic DEF ReplyInv
  <2>4. Leaves \/ Asks
    BY <1>2, <2>1, <2>3 DEF HostTraffic, EmuTraffic, Apart, Opens, Loses, TakesStop, TakesReply,
       TakesOrder, TakesRequest, Emits, Leaving, lvars
  <2>5. QuietSends
    <3>1. CASE toEmu' = toEmu BY <3>1 DEF QuietSends
    <3>2. CASE lock' # NoOne
      <4>1. toEmu' = Append(toEmu, Packet(Wire(plan'.phase), plan'.p))
        BY <2>4, <3>2 DEF Leaves, Release, Asks
      <4>2. plan'.phase \in Phases BY ReplyStep DEF ReplyInv, TypeOK
      <4>3. Packet(Wire(plan'.phase), plan'.p).cmd \notin {"c", "s"}
        BY <4>2 DEF Packet, Wire, Phases
      <4> QED BY <4>1, <4>3 DEF QuietSends
    <3> QED BY <3>1, <3>2
  <2>6. StopIsUnderWay => StopIsUnderWay' BY <2>2, UnderWayKept
  <2> QED BY <2>2, <2>5, <2>6, PauseKept
<1> QED BY <1>1, <1>2

LEMMA PauseBegins ==
    ASSUME ReplyInv, PauseInv, [Next]_vars, UNCHANGED caller,
           UNCHANGED <<connected, interrupting, processing, execution>>,
           NEW who \in Callers \cup {Process}, NEW ph, ph # "over",
           NEW q, NEW left, NEW kept, Begins(who, ph, q, left, kept)
    PROVE  PauseInv'
<1>1. /\ lock = NoOne /\ lock' # NoOne /\ plan'.phase = ph BY DEF Begins, Plan
<1> QED BY <1>1, SamePausing, PauseMoves

LEMMA RequestSends ==
    ASSUME NEW pl, NEW ph, NEW q, Request(pl, ph, q)
    PROVE  toEmu' = toEmu \/ UNCHANGED lock
BY DEF Request

\* A stop that is on its way.
LEMMA PauseStops ==
    ASSUME PauseInv, UNCHANGED <<caller, connected, execution, interrupting, plan>>,
           StopIsUnderWay'
    PROVE  PauseInv'
BY DEF PauseInv

LEMMA PauseHostStep ==
    ASSUME PauseBase, ~Emulator, [Next]_vars
    PROVE  PauseInv'
<1>c. ReplyInv /\ SessionInv /\ CpuInv /\ PauseInv BY DEF PauseBase
<1>d. caller \in [Callers -> CallerType] BY <1>c DEF ReplyInv, TypeOK, CallerType
<1>b. ReplyInv /\ SessionInv /\ CpuInv /\ PauseInv /\ caller \in [Callers -> CallerType]
  BY <1>c, <1>d
<1>a. HolderOK BY <1>c, TypeParts DEF ReplyInv
<1>1. ASSUME NEW c \in Callers, Connect(c) PROVE PauseInv'
  <2>1. UNCHANGED caller /\ (~connected \/ execution = "stopped")
    BY <1>1 DEF Connect, Open
  <2> QED BY <1>b, <2>1, SamePausing, PauseEnds
<1>2. ASSUME NEW c \in Callers, ConnectRefused(c) PROVE PauseInv'
  <2>1. UNCHANGED caller /\ (~connected \/ execution = "stopped")
    BY <1>2 DEF ConnectRefused
  <2> QED BY <1>b, <2>1, SamePausing, PauseEnds
<1>3. ASSUME NEW c \in Callers, Disconnect(c) PROVE PauseInv'
  <2>1. Begins(c, "bye", NoPoint, {}, NoPoints) BY <1>3, StartBegins DEF Disconnect, Call
  <2>2. UNCHANGED <<connected, interrupting, processing, execution, caller>>
    BY <1>3 DEF Disconnect, hvars
  <2> QED BY <1>b, <2>1, <2>2, PauseBegins
<1>4. ASSUME NEW c \in Callers, Status(c) PROVE PauseInv'
  <2>1. Begins(c, "exec", NoPoint, {}, NoPoints) BY <1>4, StartBegins DEF Status, Call
  <2>2. UNCHANGED <<connected, interrupting, processing, execution, caller>>
    BY <1>4 DEF Status, hvars
  <2> QED BY <1>b, <2>1, <2>2, PauseBegins
<1>5. ASSUME NEW c \in Callers, Resume(c) PROVE PauseInv'
  <2>1. UNCHANGED caller /\ (~connected \/ execution = "stopped")
    BY <1>5 DEF Resume, _paused
  <2> QED BY <1>b, <2>1, SamePausing, PauseEnds
<1>6. ASSUME NEW c \in Callers, Step(c) PROVE PauseInv'
  <2>1. UNCHANGED caller /\ (~connected \/ execution = "stopped")
    BY <1>6 DEF Step, _paused
  <2> QED BY <1>b, <2>1, SamePausing, PauseEnds
<1>7. ASSUME NEW c \in Callers, step_over(c) PROVE PauseInv'
  <2>1. UNCHANGED caller /\ (~connected \/ execution = "stopped")
    BY <1>7 DEF step_over, _paused
  <2> QED BY <1>b, <2>1, SamePausing, PauseEnds
<1>8. ASSUME NEW c \in Callers, Pause(c) PROVE PauseInv'
  <2>1. /\ connected /\ execution # "stopped" /\ lock = NoOne /\ interrupting'
        /\ UNCHANGED <<connected, execution, plan, processing, emu, toHost>>
        /\ toEmu' = Append(toEmu, Packet("int", NoPoint))
    BY <1>8 DEF Pause, Call, lvars
  <2>2. plan.phase = "none" BY <1>b, <2>1, IdleFact DEF ReplyInv, PlanInv
  <2>3. toEmu \in Seq([cmd : Commands, p : Points \cup {NoPoint}]) BY <1>b DEF ReplyInv, TypeOK
  <2>4. PICK n \in Nat : n = Len(toEmu) BY <2>3
  <2>5. /\ Len(toEmu') = n + 1 /\ toEmu'[n + 1] = Packet("int", NoPoint)
        /\ \A i \in 1..n : toEmu'[i] = toEmu[i]
    BY <2>1, <2>3, <2>4, AppendFact
  <2>6. IntIsLast'
    <3>1. toEmu'[n + 1].cmd = "int" BY <2>5 DEF Packet
    <3>2. \A j \in 1..(n + 1) : toEmu'[j].cmd \in {"c", "s"} => j < n + 1 BY <3>1
    <3> QED BY <2>5, <3>1, <3>2 DEF IntIsLast
  <2>7. Grows BY <2>1 DEF Grows
  <2>8. RunIsOrdered => RunIsOrdered' BY <1>b, <2>7, GrowsFact DEF RunIsOrdered
  <2>9. StopIsUnderWay => StopIsUnderWay' BY <2>1, UnderWayKept
  <2>10. emu.session /\ emu.cpu = "stopped" => StopIsUnderWay \/ RunIsOrdered
    BY <1>b, <2>1, <2>2 DEF CpuInv, Known
  <2> QED BY <2>1, <2>2, <2>6, <2>8, <2>9, <2>10 DEF PauseInv
<1>9. ASSUME NEW c \in Callers, wait_stopped(c) PROVE PauseInv'
  <2>1. /\ UNCHANGED <<connected, execution, interrupting, processing, emu, toHost, toEmu, plan>>
        /\ caller' = [caller EXCEPT ![c].pc = "waiting"]
    BY <1>9 DEF wait_stopped, hvars, lvars, evars
  <2>2. Pausing' => Pausing
    BY <1>b, <2>1, OtherPcPausing DEF Pausing
  <2>3. (StopIsUnderWay => StopIsUnderWay') /\ QuietSends
    BY <2>1, UnderWayKept DEF QuietSends
  <2> QED BY <1>b, <2>1, <2>2, <2>3, PauseKept
<1>10. ASSUME NEW c \in Callers, WaitTimeout(c) PROVE PauseInv'
  <2>1. /\ UNCHANGED <<connected, execution, interrupting, processing, emu, toHost, toEmu, plan>>
        /\ caller' = [caller EXCEPT ![c].pc = "idle"]
    BY <1>10 DEF WaitTimeout, hvars, lvars, evars
  <2>2. Pausing' => Pausing
    BY <1>b, <2>1, OtherPcPausing DEF Pausing
  <2>3. (StopIsUnderWay => StopIsUnderWay') /\ QuietSends
    BY <2>1, UnderWayKept DEF QuietSends
  <2> QED BY <1>b, <2>1, <2>2, <2>3, PauseKept
<1>11. ASSUME NEW c \in Callers, Reset(c) PROVE PauseInv'
  <2>1. Begins(c, "keys", NoPoint, {}, points) BY <1>11, StartWithKept DEF Reset, Call
  <2>2. UNCHANGED <<connected, interrupting, processing, execution, caller>>
    BY <1>11 DEF Reset, hvars
  <2> QED BY <1>b, <2>1, <2>2, PauseBegins
<1>12. ASSUME NEW c \in Callers, ResetGivesUp(c) PROVE PauseInv'
  <2>1. /\ UNCHANGED <<connected, execution, interrupting, processing, emu, toHost, toEmu, plan>>
        /\ caller' = [caller EXCEPT ![c] = [pc |-> "idle", saved |-> NoPoints]]
    BY <1>12 DEF ResetGivesUp, hvars, lvars, evars
  <2>2. Pausing' => Pausing
    BY <1>b, <2>1, OtherPausing DEF Pausing
  <2>3. (StopIsUnderWay => StopIsUnderWay') /\ QuietSends
    BY <2>1, UnderWayKept DEF QuietSends
  <2> QED BY <1>b, <2>1, <2>2, <2>3, PauseKept
<1>13. ASSUME NEW c \in Callers, range_step(c) PROVE PauseInv'
  <2>1. UNCHANGED caller /\ (~connected \/ execution = "stopped")
    BY <1>13 DEF range_step, _paused
  <2> QED BY <1>b, <2>1, SamePausing, PauseEnds
<1>14. ASSUME NEW c \in Callers, Add(c) PROVE PauseInv'
  <2>1. UNCHANGED caller /\ (~connected \/ execution = "stopped")
    BY <1>14 DEF Add, _paused
  <2> QED BY <1>b, <2>1, SamePausing, PauseEnds
<1>15. ASSUME NEW c \in Callers, Remove(c) PROVE PauseInv'
  <2>1. UNCHANGED caller /\ (~connected \/ execution = "stopped")
    BY <1>15, Zenon DEF Remove, _paused
  <2> QED BY <1>b, <2>1, SamePausing, PauseEnds
<1>16. ASSUME NEW c \in Callers, InspectionTools(c) PROVE PauseInv'
  <2>1. PICK ph \in {"ask", "seq"} : Ask(c, ph) /\ Begins(c, ph, NoPoint, {}, NoPoints)
    BY <1>16, InspectionMoves
  <2>2. UNCHANGED <<connected, interrupting, processing, execution, caller>>
    BY <2>1 DEF Ask, hvars
  <2> QED BY <1>b, <2>1, <2>2, PauseBegins
<1>17. ASSUME NEW c \in Callers, CheckpointSave(c) PROVE PauseInv'
  <2>1. UNCHANGED caller /\ (~connected \/ execution = "stopped")
    BY <1>17, Zenon DEF CheckpointSave, _paused
  <2> QED BY <1>b, <2>1, SamePausing, PauseEnds
<1>18. ASSUME NEW c \in Callers, CheckpointRestore(c) PROVE PauseInv'
  <2>1. UNCHANGED caller /\ (~connected \/ execution = "stopped")
    BY <1>18 DEF CheckpointRestore, _paused
  <2> QED BY <1>b, <2>1, SamePausing, PauseEnds
<1>19. ASSUME NEW c \in Callers, ResetSeen(c) PROVE PauseInv'
  <2>1. /\ UNCHANGED <<connected, execution, interrupting, processing, emu, toHost, toEmu, plan>>
        /\ caller' = [caller EXCEPT ![c].pc = "reconnect"]
    BY <1>19 DEF ResetSeen, hvars, lvars, evars
  <2>2. Pausing' => Pausing
    BY <1>b, <2>1, OtherPcPausing DEF Pausing
  <2>3. (StopIsUnderWay => StopIsUnderWay') /\ QuietSends
    BY <2>1, UnderWayKept DEF QuietSends
  <2> QED BY <1>b, <2>1, <2>2, <2>3, PauseKept
<1>20. ASSUME NEW c \in Callers, ResetReconnect(c) PROVE PauseInv'
  <2>1. CASE Open(c) /\ UNCHANGED caller
    <3>1. ~connected BY <2>1 DEF Open
    <3> QED BY <1>b, <2>1, <3>1, SamePausing, PauseEnds
  <2>2. CASE /\ UNCHANGED <<hvars, lvars, evars>>
             /\ caller' = [caller EXCEPT ![c].pc = "rearm"]
    <3>1. Pausing' => Pausing BY <1>b, <2>2, OtherPcPausing DEF Pausing
    <3>2. /\ UNCHANGED <<connected, execution, interrupting, processing, emu, toHost, plan>>
          /\ QuietSends
      BY <2>2 DEF hvars, lvars, evars, QuietSends
    <3> QED BY <1>b, <3>1, <3>2, UnderWayKept, PauseKept
  <2> QED BY <1>20, <2>1, <2>2 DEF ResetReconnect
<1>21. ASSUME NEW c \in Callers, ResetRearm(c) PROVE PauseInv'
  <2>1. UNCHANGED <<connected, execution, interrupting, processing, emu, toHost>>
    BY <1>21, Zenon DEF ResetRearm, hvars
  <2>2. PICK w : w = Parted(caller) OBVIOUS
  <2>3. w \in [Callers -> CallerType] /\ w \in Seen BY <1>b, <2>2, PartedFact DEF Seen
  <2>4. caller' \in {w, [w EXCEPT ![c].pc = "resume"],
                     [w EXCEPT ![c] = [pc |-> "idle", saved |-> NoPoints]]}
    BY <1>21, <2>2, Zenon DEF ResetRearm
  <2>5. ASSUME NEW d \in Callers, caller'[d].pc = "pausing" PROVE w[d].pc = "pausing"
    <3>1. CASE caller' = w BY <2>5, <3>1
    <3>2. CASE caller' = [w EXCEPT ![c].pc = "resume"] BY <2>3, <2>5, <3>2, OtherPcPausing
    <3>3. CASE caller' = [w EXCEPT ![c] = [pc |-> "idle", saved |-> NoPoints]]
      BY <2>3, <2>5, <3>3, OtherPausing
    <3> QED BY <2>4, <3>1, <3>2, <3>3
  <2>6. \A d \in Callers : w[d].pc = "pausing" => caller[d].pc = "pausing"
    BY <1>b, <2>3, SeenFact
  <2>7. Pausing' => Pausing BY <2>5, <2>6 DEF Pausing
  <2>8. CASE UNCHANGED <<lvars, toEmu>>
    <3>1. (StopIsUnderWay => StopIsUnderWay') /\ QuietSends /\ UNCHANGED plan
      BY <2>1, <2>8, UnderWayKept DEF QuietSends, lvars
    <3> QED BY <1>b, <2>1, <2>7, <3>1, PauseKept
  <2>9. ASSUME NEW q, NEW left, NEW kept, Begins(c, "arm", q, left, kept)
        PROVE  PauseInv'
    <3>1. lock = NoOne /\ lock' # NoOne /\ plan'.phase = "arm" BY <2>9 DEF Begins, Plan
    <3> QED BY <1>b, <2>1, <2>7, <3>1, PauseMoves
  <2>10. \/ UNCHANGED <<lvars, toEmu>>
         \/ \E q, left, kept : Begins(c, "arm", q, left, kept)
    BY <1>21, ResetRearmMoves
  <2> QED BY <2>8, <2>9, <2>10
<1>22. ASSUME NEW c \in Callers, ResetResume(c) PROVE PauseInv'
  <2>1. caller' = [caller EXCEPT ![c].pc = "idle"] BY <1>22 DEF ResetResume
  <2>2. Pausing' => Pausing BY <1>b, <2>1, OtherPcPausing DEF Pausing
  <2>3. CASE _paused BY <1>b, <2>2, <2>3, PauseEnds DEF _paused
  <2>4. CASE ~_paused
    <3>1. /\ UNCHANGED <<connected, execution, interrupting, processing, emu, toHost, plan>>
          /\ QuietSends
      BY <1>22, <2>4 DEF ResetResume, hvars, lvars, QuietSends
    <3> QED BY <1>b, <2>2, <3>1, UnderWayKept, PauseKept
  <2> QED BY <2>3, <2>4
<1>23. ASSUME HelloDone PROVE PauseInv'
  <2>1. /\ UNCHANGED <<connected, interrupting, processing, execution, caller>>
        /\ reply # NoReply /\ Request(plan, "exec", NoPoint)
    BY <1>23 DEF HelloDone, Ok, Answered, hvars, cvars
  <2>2. plan'.phase # "over" /\ reply' = NoReply
    <3>1. Release \/ GoesOn("exec", NoPoint, plan.left, plan.lifted, plan.kept, plan.ok)
      BY <1>a, <2>1, RequestGoesOn DEF HolderOK
    <3>2. GoesOn("exec", NoPoint, plan.left, plan.lifted, plan.kept, plan.ok)
          => plan'.phase = "exec" /\ reply' = NoReply
      BY DEF GoesOn, Plan
    <3> QED BY <3>1, <3>2, IdleFact DEF Release
  <2>3. lock # NoOne BY <1>b, <2>1, AnsweredFact
  <2>4. toEmu' = toEmu \/ lock' # NoOne BY <2>1, <2>3 DEF Request
  <2> QED BY <1>b, <2>1, <2>2, <2>4, SamePausing, PauseMoves
<1>24. ASSUME HelloDenied PROVE PauseInv'
  <2>1. CASE connected
    <3>1. caller' = Parted(Woken) BY <1>24, <2>1 DEF HelloDenied
    <3> QED BY <1>b, <3>1, WokenPausing, PauseNone
  <2>2. CASE ~connected
    <3>1. UNCHANGED caller BY <1>24, <2>2 DEF HelloDenied
    <3> QED BY <1>b, <2>2, <3>1, SamePausing, PauseEnds
  <2> QED BY <2>1, <2>2
<1>25. ASSUME ExecutionDone PROVE PauseInv'
  <2>1. /\ UNCHANGED <<connected, interrupting, processing, toEmu>>
        /\ reply # NoReply /\ reply' = NoReply /\ plan' = Idle
        /\ TakeStatus(reply.val)
    BY <1>25 DEF ExecutionDone, Ok, Answered, Release, evars
  <2>2. PICK w : /\ w = IF stop' THEN Woken ELSE caller
                 /\ caller' = [w EXCEPT ![lock].pc = IF @ = "reconnect" THEN "rearm" ELSE @]
    BY <1>25 DEF ExecutionDone
  <2>3. w \in [Callers -> CallerType] BY <1>b, <2>2, WokenFact
  <2>4. \A d \in Callers : caller'[d].pc = "pausing" => w[d].pc = "pausing"
    <3> DEFINE v == IF w[lock].pc = "reconnect" THEN "rearm" ELSE w[lock].pc
    <3>1. caller' = [w EXCEPT ![lock].pc = v] BY <2>2
    <3>2. v = "pausing" => w[lock].pc = "pausing" OBVIOUS
    <3> HIDE DEF v
    <3>3. SUFFICES ASSUME NEW d \in Callers, caller'[d].pc = "pausing" PROVE w[d].pc = "pausing"
      OBVIOUS
    <3>4. CASE d = lock
      <4>1. caller'[d].pc = v BY <2>3, <3>1, <3>4 DEF CallerType
      <4> QED BY <3>2, <3>3, <3>4, <4>1
    <3>5. CASE d # lock BY <2>3, <3>1, <3>3, <3>5
    <3> QED BY <3>4, <3>5
  <2>5. CASE stop'
    <3>1. \A d \in Callers : w[d].pc # "pausing" BY <1>b, <2>2, <2>5, WokenFact
    <3> QED BY <2>4, <3>1, PauseNone DEF Pausing
  <2>6. CASE ~stop'
    <3>1. Pausing' => Pausing BY <2>2, <2>4, <2>6 DEF Pausing
    <3>2. execution' = execution \/ execution' # "stopped" BY <2>1, <2>6 DEF TakeStatus
    <3>3. plan'.phase # "over" BY <2>1, IdleFact
    <3> QED BY <1>b, <2>1, <3>1, <3>2, <3>3, PauseMoves
  <2> QED BY <2>5, <2>6
<1>26. ASSUME ByeDone PROVE PauseInv'
  <2>1. caller' = Parted(Woken) BY <1>26 DEF ByeDone
  <2> QED BY <1>b, <2>1, WokenPausing, PauseNone
<1>27. ASSUME StepOverDone PROVE PauseInv'
  <2>1. UNCHANGED caller /\ plan.phase = "over"
    BY <1>27 DEF StepOverDone, Ok, Answered, cvars
  <2>2. ~connected \/ execution = "stopped" \/ plan.phase = "over"
    BY <1>b, <2>1 DEF SessionInv, PausedPhases
  <2> QED BY <1>b, <2>1, <2>2, SamePausing, PauseEnds
<1>28. ASSUME StepOverDenied PROVE PauseInv'
  <2>1. caller' \in {caller, Woken} /\ plan.phase \in {"over"}
    BY <1>28 DEF StepOverDenied, Ok, Denied, Answered, Checkpointed
  <2>2. Pausing' => Pausing BY <1>b, <2>1, SamePausing, WokenPausing
  <2>3. ~connected \/ execution = "stopped" \/ plan.phase = "over"
    BY <1>b, <2>1 DEF SessionInv, PausedPhases
  <2> QED BY <1>b, <2>2, <2>3, PauseEnds
<1>29. ASSUME RangeStepDone PROVE PauseInv'
  <2>1. UNCHANGED caller /\ plan.phase = "vcont"
    BY <1>29 DEF RangeStepDone, Ok, Answered, cvars
  <2>2. ~connected \/ execution = "stopped" \/ plan.phase = "over"
    BY <1>b, <2>1 DEF SessionInv, PausedPhases
  <2> QED BY <1>b, <2>1, <2>2, SamePausing, PauseEnds
<1>30. ASSUME AddDone PROVE PauseInv'
  <2>1. /\ UNCHANGED <<connected, interrupting, processing, execution, toEmu>>
        /\ reply # NoReply /\ reply' = NoReply /\ plan' = Idle
        /\ plan.phase = "set"
    BY <1>30 DEF AddDone, Ok, Denied, Answered, Release, hvars, cvars, evars
  <2>2. plan'.phase # "over" BY <2>1, IdleFact
  <2>3. Pausing' => Pausing
    BY <1>a, <1>b, <1>30, <2>1, AddDoneSaved, SeenPausing DEF HolderOK, ReplyInv, PlanInv
  <2> QED BY <1>b, <2>1, <2>2, <2>3, PauseMoves
<1>31. ASSUME RemoveDone PROVE PauseInv'
  <2>0. Pausing' => Pausing BY <1>b, <1>31, RemoveDoneSaved, SeenPausing
  <2>1. /\ UNCHANGED <<connected, interrupting, processing, execution>>
        /\ reply # NoReply
    BY <1>31 DEF RemoveDone, Ok, Answered, hvars, cvars
  <2>2. plan'.phase # "over" /\ reply' = NoReply
    <3>1. \/ Release
          \/ \E q, left : GoesOn("del", q, left, plan.lifted, plan.kept, plan.ok)
      BY <1>a, <1>31, RemoveDoneMoves
    <3>2. \A q, left : GoesOn("del", q, left, plan.lifted, plan.kept, plan.ok)
             => plan'.phase = "del" /\ reply' = NoReply
      BY DEF GoesOn, Plan
    <3> QED BY <3>1, <3>2, IdleFact DEF Release
  <2>3. lock # NoOne BY <1>b, <2>1, AnsweredFact
  <2>4. toEmu' = toEmu \/ lock' # NoOne
    <3>1. CASE plan.left = {} BY <1>31, <3>1 DEF RemoveDone
    <3>2. CASE plan.left # {}
      <4>1. \E pl, q : Request(pl, "del", q) BY <1>31, <3>2 DEF RemoveDone
      <4> QED BY <2>3, <4>1, RequestSends
    <3> QED BY <3>1, <3>2
  <2> QED BY <1>b, <2>0, <2>1, <2>2, <2>4, PauseMoves
<1>32. ASSUME SequenceDone PROVE PauseInv'
  <2>1. UNCHANGED caller BY <1>32 DEF SequenceDone, cvars
  <2>2. CASE execution = "stopped" BY <1>b, <2>1, <2>2, SamePausing, PauseEnds
  <2>3. CASE execution # "stopped"
    <3>1. /\ UNCHANGED <<connected, interrupting, processing, execution, toEmu>>
          /\ reply # NoReply /\ reply' = NoReply /\ plan' = Idle
      BY <1>32, <2>3 DEF SequenceDone, Ok, Answered, Release, hvars
    <3>2. plan'.phase # "over" BY <3>1, IdleFact
    <3> QED BY <1>b, <2>1, <3>1, <3>2, SamePausing, PauseMoves
  <2> QED BY <2>2, <2>3
<1>33. ASSUME AskMore PROVE PauseInv'
  <2>1. /\ UNCHANGED <<connected, interrupting, processing, execution, caller>>
        /\ reply # NoReply /\ Request(plan, "ask", NoPoint)
    BY <1>33 DEF AskMore, Ok, Answered, hvars, cvars
  <2>2. plan'.phase # "over" /\ reply' = NoReply
    <3>1. Release \/ GoesOn("ask", NoPoint, plan.left, plan.lifted, plan.kept, plan.ok)
      BY <1>a, <2>1, RequestGoesOn DEF HolderOK
    <3>2. GoesOn("ask", NoPoint, plan.left, plan.lifted, plan.kept, plan.ok)
          => plan'.phase = "ask" /\ reply' = NoReply
      BY DEF GoesOn, Plan
    <3> QED BY <3>1, <3>2, IdleFact DEF Release
  <2>3. lock # NoOne BY <1>b, <2>1, AnsweredFact
  <2>4. toEmu' = toEmu \/ lock' # NoOne BY <2>1, <2>3 DEF Request
  <2> QED BY <1>b, <2>1, <2>2, <2>4, SamePausing, PauseMoves
<1>34. ASSUME AskDone PROVE PauseInv'
  <2>1. /\ UNCHANGED <<connected, interrupting, processing, execution, toEmu>>
        /\ reply # NoReply /\ reply' = NoReply /\ plan' = Idle
        /\ UNCHANGED caller
    BY <1>34 DEF AskDone, Ok, Denied, Answered, Release, hvars, cvars, evars
  <2>2. plan'.phase # "over" BY <2>1, IdleFact
  <2>3. Pausing' => Pausing BY <2>1, SamePausing
  <2> QED BY <1>b, <2>1, <2>2, <2>3, PauseMoves
<1>35. ASSUME LiftDone PROVE PauseInv'
  <2>1. UNCHANGED caller /\ plan.phase = "lift"
    BY <1>35 DEF LiftDone, Ok, Answered, cvars
  <2>2. ~connected \/ execution = "stopped" \/ plan.phase = "over"
    BY <1>b, <2>1 DEF SessionInv, PausedPhases
  <2> QED BY <1>b, <2>1, <2>2, SamePausing, PauseEnds
<1>36. ASSUME SaveDone PROVE PauseInv'
  <2>1. caller' \in {caller, Woken} /\ plan.phase \in {"save", "lift"}
    BY <1>36 DEF SaveDone, Ok, Denied, Answered, Checkpointed
  <2>2. Pausing' => Pausing BY <1>b, <2>1, SamePausing, WokenPausing
  <2>3. ~connected \/ execution = "stopped" \/ plan.phase = "over"
    BY <1>b, <2>1 DEF SessionInv, PausedPhases
  <2> QED BY <1>b, <2>2, <2>3, PauseEnds
<1>37. ASSUME PutBackDone PROVE PauseInv'
  <2>1. \/ caller' = Woken
        \/ UNCHANGED <<hvars, caller>> /\ (toEmu' = toEmu \/ UNCHANGED lock)
    <3>1. \/ caller' = Woken
          \/ /\ UNCHANGED <<hvars, caller>>
             /\ toEmu' = toEmu \/ \E pl, q : Request(pl, "back", q)
      BY <1>37 DEF PutBackDone, Checkpointed
    <3> QED BY <3>1, RequestSends
  <2>2. CASE caller' = Woken BY <1>b, <2>2, WokenPausing, PauseNone
  <2>3. CASE /\ UNCHANGED hvars /\ (toEmu' = toEmu \/ UNCHANGED lock)
             /\ Pausing' => Pausing
    <3>1. UNCHANGED <<connected, interrupting, processing, execution>> /\ reply # NoReply
      BY <1>37, <2>3 DEF PutBackDone, Ok, Answered, hvars
    <3>2. plan'.phase # "over" /\ reply' = NoReply
      <4>1. \/ Release
            \/ \E phase \in {"ask", "back"} : \E q, left, lifted, kept, ok :
                  GoesOn(phase, q, left, lifted, kept, ok)
        BY <1>a, <1>37, PutBackDoneMoves
      <4>2. \A phase \in {"ask", "back"} : \A q, left, lifted, kept, ok :
               GoesOn(phase, q, left, lifted, kept, ok)
               => plan'.phase = phase /\ reply' = NoReply
        BY DEF GoesOn, Plan
      <4> QED BY <4>1, <4>2, IdleFact DEF Release
    <3>3. lock # NoOne BY <1>b, <3>1, AnsweredFact
    <3> QED BY <1>b, <2>3, <3>1, <3>2, <3>3, PauseMoves
  <2> QED BY <1>b, <2>1, <2>2, <2>3, SamePausing
<1>38. ASSUME RestoreDone PROVE PauseInv'
  <2>1. caller' \in Seen /\ plan.phase \in {"restore"}
    BY <1>38 DEF RestoreDone, Ok, Denied, Answered, Checkpointed, Seen
  <2>2. Pausing' => Pausing BY <1>b, <2>1, SeenPausing
  <2>3. ~connected \/ execution = "stopped" \/ plan.phase = "over"
    BY <1>b, <2>1 DEF SessionInv, PausedPhases
  <2> QED BY <1>b, <2>2, <2>3, PauseEnds
<1>39. ASSUME ArmDone PROVE PauseInv'
  <2>1. \/ caller' = Woken
        \/ UNCHANGED <<hvars, caller>> /\ (toEmu' = toEmu \/ UNCHANGED lock)
        \/ /\ caller' = [caller EXCEPT ![lock] = [pc |-> "resume", saved |-> NoPoints]]
           /\ UNCHANGED <<hvars, toEmu>>
    <3>1. \/ caller' = Woken
          \/ /\ UNCHANGED <<hvars, caller>>
             /\ toEmu' = toEmu \/ \E pl, q : Request(pl, "arm", q)
          \/ /\ caller' = [caller EXCEPT ![lock] = [pc |-> "resume", saved |-> NoPoints]]
             /\ UNCHANGED <<hvars, toEmu>>
      BY <1>39 DEF ArmDone, Checkpointed
    <3> QED BY <3>1, RequestSends
  <2>2. CASE caller' = Woken BY <1>b, <2>2, WokenPausing, PauseNone
  <2>3. CASE /\ UNCHANGED hvars /\ (toEmu' = toEmu \/ UNCHANGED lock)
             /\ Pausing' => Pausing
    <3>1. UNCHANGED <<connected, interrupting, processing, execution>> /\ reply # NoReply
      BY <1>39, <2>3 DEF ArmDone, Ok, Answered, hvars
    <3>2. plan'.phase # "over" /\ reply' = NoReply
      <4>1. \/ Release
            \/ \E phase \in {"ask", "arm"} : \E q, left, lifted, kept, ok :
                  GoesOn(phase, q, left, lifted, kept, ok)
        BY <1>a, <1>39, ArmDoneMoves
      <4>2. \A phase \in {"ask", "arm"} : \A q, left, lifted, kept, ok :
               GoesOn(phase, q, left, lifted, kept, ok)
               => plan'.phase = phase /\ reply' = NoReply
        BY DEF GoesOn, Plan
      <4> QED BY <4>1, <4>2, IdleFact DEF Release
    <3>3. lock # NoOne BY <1>b, <3>1, AnsweredFact
    <3> QED BY <1>b, <2>3, <3>1, <3>2, <3>3, PauseMoves
  <2> QED BY <1>b, <2>1, <2>2, <2>3, SamePausing, OtherPausing DEF Pausing
<1>40. ASSUME ArmDenied PROVE PauseInv'
  <2>1. /\ UNCHANGED <<connected, interrupting, processing, execution, toEmu>>
        /\ reply # NoReply /\ reply' = NoReply /\ plan' = Idle
        /\ caller' = [caller EXCEPT ![lock] = [pc |-> "idle", saved |-> NoPoints]]
    BY <1>40 DEF ArmDenied, Ok, Denied, Answered, Release, hvars, cvars, evars
  <2>2. plan'.phase # "over" BY <2>1, IdleFact
  <2>3. Pausing' => Pausing BY <1>b, <2>1, OtherPausing DEF Pausing
  <2> QED BY <1>b, <2>1, <2>2, <2>3, PauseMoves
<1>41. ASSUME KeysDone PROVE PauseInv'
  <2>1. \E pc \in {"reset", "parted"} : caller' = Resetting(caller, pc)
    BY <1>41 DEF KeysDone
  <2>2. Pausing' => Pausing BY <1>b, <2>1, OtherPausing DEF Pausing, Resetting
  <2>3. CASE execution = "stopped" BY <1>b, <2>2, <2>3, PauseEnds
  <2>4. CASE execution # "stopped"
    <3>1. /\ UNCHANGED <<connected, interrupting, processing, execution, toEmu>>
          /\ reply # NoReply /\ reply' = NoReply /\ plan' = Idle
      BY <1>41, <2>4 DEF KeysDone, Ok, Answered, Release, hvars
    <3>2. plan'.phase # "over" BY <3>1, IdleFact
    <3> QED BY <1>b, <2>2, <3>1, <3>2, PauseMoves
  <2> QED BY <2>3, <2>4
<1>42. ASSUME KeysDenied PROVE PauseInv'
  <2>1. /\ UNCHANGED <<connected, interrupting, processing, execution, toEmu>>
        /\ reply # NoReply /\ reply' = NoReply /\ plan' = Idle
        /\ caller' \in {caller, Resetting(caller, "parted")}
    BY <1>42 DEF KeysDenied, Ok, Denied, Answered, Release, hvars, cvars, evars
  <2>2. plan'.phase # "over" BY <2>1, IdleFact
  <2>3. Pausing' => Pausing BY <1>b, <2>1, SamePausing, OtherPausing DEF Pausing, Resetting
  <2> QED BY <1>b, <2>1, <2>2, <2>3, PauseMoves
<1>43. ASSUME ProcessSkips PROVE PauseInv'
  <2>1. UNCHANGED caller /\ ~interrupting BY <1>43 DEF ProcessSkips, SkipApplies, cvars
  <2> QED BY <1>b, <2>1, SamePausing, PauseEnds
<1>44. ASSUME ProcessOneshot PROVE PauseInv'
  <2>1. /\ UNCHANGED <<connected, interrupting, processing, execution, caller>>
        /\ reply # NoReply /\ Request(plan, "shot", reply.val)
    BY <1>44 DEF ProcessOneshot, Ok, Answered, hvars, cvars
  <2>2. plan'.phase # "over" /\ reply' = NoReply
    <3>1. Release \/ GoesOn("shot", reply.val, plan.left, plan.lifted, plan.kept, plan.ok)
      BY <1>a, <2>1, RequestGoesOn DEF HolderOK
    <3>2. GoesOn("shot", reply.val, plan.left, plan.lifted, plan.kept, plan.ok)
          => plan'.phase = "shot" /\ reply' = NoReply
      BY DEF GoesOn, Plan
    <3> QED BY <3>1, <3>2, IdleFact DEF Release
  <2>3. lock # NoOne BY <1>b, <2>1, AnsweredFact
  <2>4. toEmu' = toEmu \/ lock' # NoOne BY <2>1, <2>3 DEF Request
  <2> QED BY <1>b, <2>1, <2>2, <2>4, SamePausing, PauseMoves
<1>45. ASSUME ProcessReports PROVE PauseInv'
  <2>1. caller' = Woken BY <1>45 DEF ProcessReports, Report, _signal_stop
  <2> QED BY <1>b, <2>1, WokenPausing, PauseNone
<1>46. ASSUME RequestTimeout PROVE PauseInv'
  <2>1. PICK w : w = Parted(Woken) OBVIOUS
  <2>2. w \in [Callers -> CallerType] BY <1>b, <2>1, WokenFact, PartedFact
  <2>3. \A d \in Callers : w[d].pc # "pausing" BY <1>b, <2>1, WokenFact, PartedFact
  <2>4. caller' \in {Resetting(w, "parted"), w,
                     [w EXCEPT ![lock] = [pc |-> "idle", saved |-> NoPoints]]}
    BY <1>46, <2>1 DEF RequestTimeout
  <2>5. \A d \in Callers : caller'[d].pc # "pausing"
    BY <2>2, <2>3, <2>4, OtherPausing DEF Resetting
  <2> QED BY <2>5, PauseNone DEF Pausing
<1>47. ASSUME ProcessTimeout PROVE PauseInv'
  <2>1. caller' = Parted(Woken) BY <1>47 DEF ProcessTimeout
  <2> QED BY <1>b, <2>1, WokenPausing, PauseNone
<1>48. ASSUME ProcessStart PROVE PauseInv'
  <2>1. CASE connected
    <3>1. Begins(Process, "pc", NoPoint, {}, NoPoints)
      BY <1>48, <2>1, StartBegins DEF ProcessStart
    <3>2. UNCHANGED <<connected, interrupting, processing, execution, caller>>
      BY <1>48, <2>1 DEF ProcessStart, hvars
    <3> QED BY <1>b, <3>1, <3>2, PauseBegins
  <2>2. CASE ~connected
    <3>1. caller' = Woken BY <1>48, <2>2 DEF ProcessStart, Report, _signal_stop
    <3> QED BY <1>b, <3>1, WokenPausing, PauseNone
  <2> QED BY <2>1, <2>2
<1>49. ASSUME ReadStop PROVE PauseInv'
  <2>1. CASE _signal_stop
    <3>1. caller' = Woken BY <2>1 DEF _signal_stop
    <3> QED BY <1>b, <3>1, WokenPausing, PauseNone
  <2>2. CASE /\ UNCHANGED <<caller, connected, execution, interrupting>>
             /\ processing' = processing + 1
    <3>1. processing \in Nat BY <1>b DEF ReplyInv, TypeOK
    <3>2. StopIsUnderWay' BY <2>2, <3>1 DEF StopIsUnderWay
    <3>3. UNCHANGED plan BY <1>49 DEF ReadStop, lvars
    <3> QED BY <1>b, <2>2, <3>2, <3>3, PauseStops
  <2> QED BY <1>49, <2>1, <2>2 DEF ReadStop
<1>50. ASSUME ReadReply PROVE PauseInv'
  <2>1. /\ UNCHANGED <<connected, execution, interrupting, processing, plan, emu, toEmu, caller>>
        /\ TakesReply
    BY <1>50 DEF ReadReply, Incoming, TakesReply, IsReply, Quiet, hvars, cvars
  <2>2. StopIsUnderWay => StopIsUnderWay' BY <1>b, <2>1, ReadKeepsStops
  <2>3. QuietSends BY <2>1 DEF QuietSends
  <2> QED BY <1>b, <2>1, <2>2, <2>3, SamePausing, PauseKept
<1>51. ASSUME ReadClosed PROVE PauseInv'
  <2>1. caller' = Parted(Woken) BY <1>51 DEF ReadClosed
  <2> QED BY <1>b, <2>1, WokenPausing, PauseNone
<1>52. ASSUME Emulator PROVE PauseInv'
  BY <1>52
<1>53. ASSUME UNCHANGED vars PROVE PauseInv'
  <2>1. /\ UNCHANGED <<connected, execution, interrupting, processing, emu, toHost, plan, caller>>
        /\ QuietSends
    BY <1>53 DEF vars, hvars, lvars, cvars, evars, QuietSends
  <2> QED BY <1>b, <2>1, SamePausing, UnderWayKept, PauseKept
<1> QED
    BY <1>1, <1>2, <1>3, <1>4, <1>5, <1>6, <1>7, <1>8, <1>9, <1>10, <1>11, <1>12,
       <1>13, <1>14, <1>15, <1>16, <1>17, <1>18, <1>19, <1>20, <1>21, <1>22, <1>23,
       <1>24, <1>25, <1>26, <1>27, <1>28, <1>29, <1>30, <1>31, <1>32, <1>33, <1>34,
       <1>35, <1>36, <1>37, <1>38, <1>39, <1>40, <1>41, <1>42, <1>43, <1>44, <1>45,
       <1>46, <1>47, <1>48, <1>49, <1>50, <1>51, <1>52, <1>53, Zenon DEF Emulator,
       Next, Operations, ResetStep, HolderStep, ReaderStep, amiga_winuae_control,
       amiga_winuae_range_step, PointTools, amiga_winuae_checkpoint

\* WinUAE.
LEMMA IntStays ==
    ASSUME ReplyInv, toEmu # <<>>, toEmu' = Tail(toEmu), IntIsLast,
           Head(toEmu).cmd # "int" \/ RunIsOrdered
    PROVE  IntIsLast'
<1>1. toEmu \in Seq([cmd : Commands, p : Points \cup {NoPoint}]) BY DEF ReplyInv, TypeOK
<1>2. PICK n \in Nat : n = Len(toEmu) BY <1>1
<1>3. /\ n >= 1 /\ Len(toEmu') = n - 1 /\ toEmu[1] = Head(toEmu)
      /\ \A i \in 1..(n - 1) : toEmu'[i] = toEmu[i + 1]
  BY <1>1, <1>2, HeadFact
<1>4. PICK i \in 1..n :
         /\ toEmu[i].cmd = "int"
         /\ \A j \in 1..n : toEmu[j].cmd \in {"c", "s"} => j < i
  BY <1>2 DEF IntIsLast
<1>5. i # 1
  <2>1. CASE Head(toEmu).cmd # "int" BY <1>3, <1>4, <2>1
  <2>2. CASE RunIsOrdered
    <3>1. PICK j \in 1..n : toEmu[j].cmd \in {"c", "s"} BY <1>2, <2>2 DEF RunIsOrdered
    <3> QED BY <1>4, <3>1
  <2> QED BY <2>1, <2>2
<1>6. i - 1 \in 1..(n - 1) /\ (i - 1) + 1 = i BY <1>5
<1>7. toEmu'[i - 1].cmd = "int" BY <1>3, <1>4, <1>6
<1>8. ASSUME NEW j \in 1..(n - 1), toEmu'[j].cmd \in {"c", "s"} PROVE j < i - 1
  <2>1. j + 1 \in 1..n /\ toEmu[j + 1].cmd \in {"c", "s"} BY <1>3, <1>8
  <2>2. j + 1 < i BY <1>4, <2>1
  <2> QED BY <2>2
<1> QED BY <1>3, <1>6, <1>7, <1>8 DEF IntIsLast

\* WinUAE takes a packet: the CPU runs after it, or is as it was; an interrupt that
\* is taken without a stop finds the CPU stopped.
LEMMA PauseTakes ==
    ASSUME ReplyInv, PauseInv, UNCHANGED <<caller, connected, execution, interrupting, plan>>,
           UNCHANGED processing, emu.session, toEmu # <<>>, toEmu' = Tail(toEmu),
           toHost' = toHost \/ \E m : toHost' = Append(toHost, m),
           \/ emu'.cpu = "running"
           \/ emu'.cpu = emu.cpu /\ Head(toEmu).cmd \notin {"c", "s"},
           Head(toEmu).cmd = "int" => emu.cpu = "stopped"
    PROVE  PauseInv'
<1>1. StopIsUnderWay => StopIsUnderWay' BY StopsStay, UnderWayKept
<1>2. CASE StopIsUnderWay BY <1>1, <1>2, PauseStops
<1>3. CASE ~StopIsUnderWay
  <2> SUFFICES ASSUME Pausing PROVE PauseInv' BY SamePausing, PauseNone
  <2>1. /\ connected /\ execution # "stopped" /\ interrupting /\ plan.phase # "over"
        /\ IntIsLast /\ (emu.cpu = "stopped" => RunIsOrdered)
    BY <1>3 DEF Pausing, PauseInv
  <2>2. IntIsLast' BY <2>1, IntStays
  <2>3. emu'.cpu = "stopped" => RunIsOrdered' BY <2>1, RunStays
  <2> QED BY <2>1, <2>2, <2>3 DEF PauseInv
<1> QED BY <1>2, <1>3

LEMMA PauseEmuStep ==
    ASSUME PauseBase, [Next]_vars, Emulator
    PROVE  PauseInv'
<1>0. ReplyInv /\ SessionInv /\ PauseInv /\ TypeOK BY DEF PauseBase, ReplyInv
<1>1. UNCHANGED <<caller, connected, execution, interrupting, plan, processing, reply>>
  BY EmulatorFact DEF hvars, lvars, cvars
<1>2. ASSUME StopIsUnderWay' PROVE PauseInv' BY <1>0, <1>1, <1>2, PauseStops
<1>3. PICK yes \in BOOLEAN, no \in BOOLEAN : yes = TRUE /\ no = FALSE OBVIOUS
<1>4. CASE EmuStop BY <1>0, <1>2, <1>4, EmuStopFact
<1>5. ASSUME EmuReset \/ EmuDrop PROVE PauseInv'
  <2>1. ~emu'.session BY <1>5 DEF EmuReset, EmuDrop, Gone, Detached
  <2> QED BY <1>0, <1>1, <2>1 DEF PauseInv
<1>6. CASE GuiResume
  <2>1. emu.session /\ emu'.cpu = "running" /\ UNCHANGED <<toEmu, toHost>>
    BY <1>0, <1>6 DEF GuiResume, TypeOK
  <2>2. StopIsUnderWay' <=> StopIsUnderWay BY <1>1, <2>1, UnderWayKept
  <2>3. IntIsLast' <=> IntIsLast BY <2>1 DEF IntIsLast
  <2> QED BY <1>0, <1>1, <2>1, <2>2, <2>3 DEF PauseInv
<1>7. CASE EmuInterrupt
  <2>1. CASE emu.cpu = "running"
    <3>1. toHost' = Append(toHost, Stop(no)) BY <1>3, <1>7, <2>1, Zenon DEF EmuInterrupt, Put
    <3>2. Stop(no).kind = "stop" BY DEF Stop
    <3> QED BY <1>0, <1>1, <1>2, <3>1, <3>2, StopsStay
  <2>2. CASE emu.cpu # "running"
    <3>1. /\ UNCHANGED <<emu, toHost>> /\ emu.session
          /\ toEmu # <<>> /\ toEmu' = Tail(toEmu) /\ Head(toEmu).cmd = "int"
      BY <1>7, <2>2 DEF EmuInterrupt, Taken
    <3>2. emu.cpu = "stopped" BY <1>0, <2>2 DEF TypeOK
    <3> QED BY <1>0, <1>1, <3>1, <3>2, PauseTakes
  <2> QED BY <2>1, <2>2
<1>8. CASE EmuRun
  <2>1. /\ UNCHANGED toHost /\ emu.session /\ emu'.cpu = "running"
        /\ toEmu # <<>> /\ toEmu' = Tail(toEmu) /\ Head(toEmu).cmd # "int"
    BY <1>0, <1>8 DEF EmuRun, Taken, TypeOK
  <2> QED BY <1>0, <1>1, <2>1, PauseTakes
<1>9. ASSUME RequestTaken, NEW m, toHost' = Append(toHost, m),
             emu'.cpu = "running" \/ emu'.cpu = emu.cpu
      PROVE  PauseInv'
  <2>1. TakesRequest BY <1>0, <1>9, RequestTakenFact
  <2>2. /\ emu.session /\ toEmu # <<>> /\ toEmu' = Tail(toEmu)
        /\ Head(toEmu).cmd \notin {"c", "s", "int"}
    BY <2>1 DEF TakesRequest, IsRequest, Orders
  <2> QED BY <1>0, <1>1, <1>9, <2>2, PauseTakes
<1>10. ASSUME EmuHello \/ EmuAnswer \/ EmuStatus \/ EmuPc \/ EmuInsert \/ EmuRemove \/ EmuKeys
       PROVE  PauseInv'
  <2>1. \E m : toHost' = Append(toHost, m)
    <3>1. CASE EmuKeys BY <3>1, Zenon DEF EmuKeys, Put
    <3>2. CASE EmuHello \/ EmuAnswer BY <3>2, Zenon DEF EmuHello, EmuAnswer, Put
    <3>3. CASE EmuStatus \/ EmuPc \/ EmuInsert \/ EmuRemove
      BY <3>3, Zenon DEF EmuStatus, EmuPc, EmuInsert, EmuRemove, Put
    <3> QED BY <1>10, <3>1, <3>2, <3>3
  <2>2. emu'.cpu = emu.cpu
    BY <1>0, <1>10 DEF EmuHello, EmuAnswer, EmuStatus, EmuPc, EmuInsert, EmuRemove, EmuKeys, TypeOK
  <2> QED BY <1>9, <1>10, <2>1, <2>2 DEF RequestTaken
<1>11. CASE EmuDetach
  <2>1. \E m : toHost' = Append(toHost, m) BY <1>11, Zenon DEF EmuDetach, Put
  <2>2. emu'.cpu = "running" BY <1>0, <1>11 DEF EmuDetach, TypeOK
  <2> QED BY <1>9, <1>11, <2>1, <2>2 DEF RequestTaken
<1>12. ASSUME EmuSave \/ EmuRestore \/ EmuStepOver PROVE PauseInv'
  <2>1. TakesRequest BY <1>0, <1>12, RequestTakenFact DEF RequestTaken
  <2>2. Head(toEmu).cmd \in {"save", "restore", "over"}
    BY <1>12 DEF EmuSave, EmuRestore, EmuStepOver, Taken
  <2>3. plan.phase \in {"save", "restore", "over"}
    BY <1>0, <2>1, <2>2, TakenPends DEF Outstanding, Wire, TypeOK, Phases
  <2>4. ~connected \/ execution = "stopped" \/ plan.phase = "over"
    BY <1>0, <2>3 DEF SessionInv, PausedPhases
  <2> QED BY <1>0, <1>1, <2>4, SamePausing, PauseEnds
<1> QED
  BY <1>4, <1>5, <1>6, <1>7, <1>8, <1>10, <1>11, <1>12, Zenon DEF Emulator, EmuCommand

LEMMA PauseAlways == Spec => []PauseInv
<1>1. Init => PauseInv BY DEF Init, PauseInv
<1>2. ReplyInv /\ SessionInv /\ CpuInv /\ PauseInv /\ [Next]_vars => PauseInv'
  BY PauseHostStep, PauseEmuStep DEF PauseBase
<1> QED BY <1>1, <1>2, ReplyAlways, CpuAlways, PTL DEF Spec

\* A coroutine that waits for the stop of its pause has its interrupt, or that stop,
\* on its way for as long as it waits: no skip count, status reply or order to run
\* that comes in between takes it away.
THEOREM PausesAreNotLost == Spec => []PauseIsNotLost
<1>1. ReplyInv /\ PauseInv => PauseIsNotLost
  <2> SUFFICES ASSUME ReplyInv, PauseInv, connected, emu.session, Pausing, ~StopIsUnderWay
               PROVE  \E i \in DOMAIN toEmu : toEmu[i].cmd = "int"
    BY DEF PauseIsNotLost, Pausing
  <2>1. IntIsLast BY DEF PauseInv, Pausing
  <2>2. toEmu \in Seq([cmd : Commands, p : Points \cup {NoPoint}]) BY DEF ReplyInv, TypeOK
  <2>3. DOMAIN toEmu = 1..Len(toEmu) BY <2>2
  <2> QED BY <2>1, <2>3 DEF IntIsLast
<1> QED BY <1>1, ReplyAlways, PauseAlways, PTL
=============================================================================
