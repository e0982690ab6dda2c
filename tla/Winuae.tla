------------------------------- MODULE Winuae -------------------------------
(***************************************************************************)
(* The WinUAE debugger (amiga_devbench/winuae_debug.py and the feature     *)
(* modules winuae_*.py): asyncio coroutines that share one connection to   *)
(* the emulator's remote debugger.  A lock lets one of them have a request *)
(* outstanding; the reader task hands it the reply, and turns the stops    *)
(* that WinUAE reports of itself into the session's execution state.  A    *)
(* plain stop may be a breakpoint: a task of its own then takes the lock,  *)
(* asks for the PC and applies skip counts and one-shots first.            *)
(*                                                                         *)
(* A step is what runs between two awaits.  WinUAE is external: it answers *)
(* in order, stops by itself, may be resumed from its own window and may   *)
(* go away; it forgets the session's points when the session ends.         *)
(***************************************************************************)
EXTENDS Naturals, Sequences

CONSTANTS
    Callers,      \* coroutines that call operations: web routes, MCP tools, ...
    Process,      \* the tasks that run _process_stop
    NoOne,
    Points,       \* breakpoints and watches an operation can name
    Watches,      \* watches of the monitor: one of the dictionaries of `state'
    GdbWatches,   \* watchpoints of the GDB protocol, which are in _points
    Refused,      \* those that WinUAE does not accept
    NoPoint,
    MaxSkip, MaxCalls, MaxDrops, MaxGui

ASSUME WinuaeAssumption ==
    /\ {NoOne, Process} \cap Callers = {} /\ NoOne # Process
    /\ NoPoint \notin Points
    /\ Watches \subseteq Points /\ Refused \subseteq Points
    /\ GdbWatches \subseteq Points \ Watches
    /\ {MaxSkip, MaxCalls, MaxDrops, MaxGui} \subseteq Nat

VARIABLES
    connected, execution,
    stop,           \* _stop: the Event that observers wait for
    interrupting, run_mode, processing,
    newer,          \* _stop_generation moved since the status was asked for
    points,         \* _points and the watches of `state': point -> attributes
    forgotten,      \* watches that WinUAE holds under an id the session has lost
    lock,           \* who holds _lock
    plan,           \* what its holder is doing: the request it awaits and what
                    \* is left to do after it
    reply,          \* what the future of that request was resolved with
    caller,         \* caller -> [pc, saved]: waiting for a stop, or resetting
    calls,
    emu, toEmu, toHost,  \* WinUAE and the two directions of the connection
    faults          \* [drops, gui] so far

hvars == <<connected, execution, stop, interrupting, run_mode, processing>>
lvars == <<lock, plan, reply>>
cvars == <<caller, calls>>
evars == <<emu, toEmu, toHost>>
vars == <<hvars, newer, points, forgotten, lvars, cvars, evars, faults>>

Execs == Points \ (Watches \cup GdbWatches)
Attr == [skip : 0..MaxSkip, oneshot : BOOLEAN]
Tables == UNION {[S -> Attr] : S \in SUBSET Points}
NoPoints == [q \in {} |-> [skip |-> 0, oneshot |-> FALSE]]
With(t, q, a) == [x \in DOMAIN t \cup {q} |-> IF x = q THEN a ELSE t[x]]
Without(t, q) == [x \in DOMAIN t \ {q} |-> t[x]]
Updated(t, u) == [x \in DOMAIN t \cup DOMAIN u |-> IF x \in DOMAIN u THEN u[x] ELSE t[x]]

Idle == [phase |-> "none", p |-> NoPoint, left |-> {}, lifted |-> {}, kept |-> NoPoints,
         ok |-> TRUE]
NoReply == [kind |-> "none"]
Closed == [kind |-> "closed"]
Answer(cmd, q, ok, val) == [kind |-> "reply", cmd |-> cmd, p |-> q, ok |-> ok, val |-> val]
Stop(plain) == [kind |-> "stop", plain |-> plain]
Eof == [kind |-> "eof"]

\* The packet that a phase of a plan waits to be answered.
Wire(phase) ==
    CASE phase \in {"set", "arm", "back"} -> "Z"
      [] phase \in {"del", "lift", "shot"} -> "z"
      [] OTHER -> phase
Packet(cmd, q) == [cmd |-> cmd, p |-> q]

Detached == [session |-> FALSE, cpu |-> "running", mode |-> "go", points |-> {},
             at |-> NoPoint, reset |-> FALSE]

Init ==
    /\ connected = FALSE /\ execution = "disconnected" /\ stop = FALSE
    /\ interrupting = FALSE /\ run_mode = "none" /\ processing = 0
    /\ newer = FALSE /\ points = NoPoints /\ forgotten = {}
    /\ lock = NoOne /\ plan = Idle /\ reply = NoReply
    /\ caller = [c \in Callers |-> [pc |-> "idle", saved |-> NoPoints]]
    /\ calls = 0
    /\ emu = Detached /\ toEmu = <<>> /\ toHost = <<>>
    /\ faults = [drops |-> 0, gui |-> 0]

-----------------------------------------------------------------------------
(* Pieces of the handlers.                                                 *)

\* _stop.set(): wait_stopped returns in every coroutine that waits.
Woken == [c \in Callers |->
              IF caller[c].pc \in {"waiting", "pausing"}
              THEN [caller[c] EXCEPT !.pc = "idle"] ELSE caller[c]]

\* The session's dictionaries of watches are no longer those that a reset saved:
\* they were dropped with the connection, or made anew by rearm.
Parted(w) == [c \in Callers |->
                  IF w[c].pc = "reset" THEN [w[c] EXCEPT !.pc = "parted"] ELSE w[c]]

\* _closed; WinUAE ends the session on its side and drops its points.
Lost ==
    /\ connected' = FALSE /\ execution' = "disconnected" /\ stop' = TRUE
    /\ points' = NoPoints /\ forgotten' = {}
    /\ emu' = Detached /\ toEmu' = <<>> /\ toHost' = <<>>
    /\ UNCHANGED <<interrupting, run_mode>>

_signal_stop ==
    /\ execution' = "stopped" /\ stop' = TRUE
    /\ interrupting' = FALSE /\ run_mode' = "none"
    /\ newer' = TRUE
    /\ caller' = Woken
    /\ UNCHANGED connected

Release == lock' = NoOne /\ plan' = Idle /\ reply' = NoReply

\* _send: the holder of the lock goes on to the request of phase ph; without a
\* connection it raises instead, and leaves.
Request(pl, ph, q) ==
    IF connected
    THEN /\ plan' = [pl EXCEPT !.phase = ph, !.p = q] /\ reply' = NoReply
         /\ toEmu' = Append(toEmu, Packet(Wire(ph), q))
         /\ UNCHANGED lock
    ELSE Release /\ UNCHANGED toEmu

_run(cmd, mode) ==
    /\ execution' = "running" /\ stop' = FALSE /\ run_mode' = mode
    /\ toEmu' = IF connected THEN Append(toEmu, Packet(cmd, NoPoint)) ELSE toEmu
    /\ UNCHANGED <<connected, interrupting, processing>>

_paused == connected /\ execution = "stopped"

\* call: the lock is free and c takes it.
Call(c) ==
    /\ lock = NoOne /\ caller[c].pc = "idle" /\ calls < MaxCalls
    /\ calls' = calls + 1

Start(who, pl, ph, q) ==
    /\ lock' = who /\ reply' = NoReply
    /\ plan' = [pl EXCEPT !.phase = ph, !.p = q]
    /\ toEmu' = Append(toEmu, Packet(Wire(ph), q))

Answered(ph) == plan.phase = ph /\ reply # NoReply
Ok(ph) == Answered(ph) /\ reply.kind = "reply" /\ reply.ok
Denied(ph) == Answered(ph) /\ ~(reply.kind = "reply" /\ reply.ok)

\* Reinstalling goes through _points first, then through the hooks of REARM; clearing
\* the watches through the dictionary first, then through _points.
Next1(left) == {q \in left : q \notin Watches \/ left \subseteq Watches}
Cleared1(left) == {q \in left : q \in Watches \/ left \cap Watches = {}}

-----------------------------------------------------------------------------
(* Connecting.                                                             *)

\* _connect up to the first request, which stands for the negotiation of the
\* packet size, of no-ack mode and for the capabilities.
Open(who) ==
    /\ ~connected
    /\ connected' = TRUE /\ execution' = "disconnected" /\ stop' = FALSE
    /\ points' = NoPoints /\ forgotten' = {}
    /\ \E cpu \in {"running", "stopped"} :
           emu' = [Detached EXCEPT !.session = TRUE, !.cpu = cpu]
    /\ lock' = who /\ reply' = NoReply
    /\ plan' = [Idle EXCEPT !.phase = "hello"]
    /\ toEmu' = <<Packet("hello", NoPoint)>> /\ toHost' = <<>>
    /\ UNCHANGED <<interrupting, run_mode, processing, newer, faults>>

Connect(c) == Call(c) /\ Open(c) /\ UNCHANGED caller

\* Nobody listens there: _close, and the error.
ConnectRefused(c) ==
    /\ Call(c) /\ ~connected
    /\ execution' = "disconnected" /\ stop' = TRUE
    /\ points' = NoPoints /\ forgotten' = {}
    /\ UNCHANGED <<connected, interrupting, run_mode, processing, newer, lvars,
                   caller, evars, faults>>

HelloDone ==
    /\ Ok("hello")
    /\ Request(plan, "exec", NoPoint)
    /\ newer' = FALSE
    /\ UNCHANGED <<hvars, points, forgotten, cvars, emu, toHost, faults>>

\* Slip: _execution without the check of the stop generation.
TakeStatusAlways(val) == execution' = val /\ stop' = (val = "stopped")

\* _execution after its reply: a stop that was reported, or is being processed,
\* since the request was sent takes precedence over the status.
TakeStatus(val) ==
    IF newer \/ processing > 0 THEN UNCHANGED <<execution, stop>>
    ELSE execution' = val /\ stop' = (val = "stopped")

\* The last request of _connect, and the one of the status operation.
ExecutionDone ==
    /\ Ok("exec")
    /\ TakeStatus(reply.val)
    /\ LET seen == IF stop' THEN Woken ELSE caller
       IN  caller' = [seen EXCEPT ![lock].pc = IF @ = "reconnect" THEN "rearm" ELSE @]
    /\ Release
    /\ UNCHANGED <<connected, interrupting, run_mode, processing, newer, points, forgotten,
                   calls, evars, faults>>

\* _connect's except clause: not a debugger that it supports.
HelloDenied ==
    /\ Denied("hello")
    /\ IF connected THEN Lost /\ caller' = Parted(Woken)
                    ELSE UNCHANGED <<connected, execution, stop, interrupting, run_mode,
                                     points, forgotten, caller, evars>>
    /\ Release
    /\ UNCHANGED <<processing, newer, calls, faults>>

Status(c) ==
    /\ Call(c) /\ connected
    /\ Start(c, Idle, "exec", NoPoint)
    /\ newer' = FALSE
    /\ UNCHANGED <<hvars, points, forgotten, caller, emu, toHost, faults>>

\* aclose: D, and then the connection is closed whatever came back.
Disconnect(c) ==
    /\ Call(c) /\ connected
    /\ Start(c, Idle, "bye", NoPoint)
    /\ UNCHANGED <<hvars, newer, points, forgotten, caller, emu, toHost, faults>>

ByeDone ==
    /\ Answered("bye")
    /\ Lost /\ caller' = Parted(Woken)
    /\ Release
    /\ UNCHANGED <<processing, newer, calls, faults>>

-----------------------------------------------------------------------------
(* Running and stopping.                                                   *)

Resume(c) ==
    /\ Call(c) /\ _paused
    /\ _run("c", "continue")
    /\ UNCHANGED <<newer, points, forgotten, lvars, caller, emu, toHost, faults>>

\* One instruction; step with a count, and step_out, repeat it and wait.
Step(c) ==
    /\ Call(c) /\ _paused
    /\ _run("s", "step")
    /\ UNCHANGED <<newer, points, forgotten, lvars, caller, emu, toHost, faults>>

step_over(c) ==
    /\ Call(c) /\ _paused
    /\ Start(c, Idle, "over", NoPoint)
    /\ execution' = "running" /\ stop' = FALSE /\ run_mode' = "over"
    /\ UNCHANGED <<connected, interrupting, processing, newer, points, forgotten, caller, emu,
                   toHost, faults>>

StepOverDone ==
    /\ Ok("over")
    /\ Release
    /\ UNCHANGED <<hvars, newer, points, forgotten, cvars, evars, faults>>

StepOverDenied ==
    /\ Denied("over")
    /\ IF connected THEN execution' = "stopped" /\ stop' = TRUE /\ caller' = Woken
                    ELSE UNCHANGED <<execution, stop, caller>>
    /\ Release
    /\ UNCHANGED <<connected, interrupting, run_mode, processing, newer, points, forgotten,
                   calls, evars, faults>>

\* vCont? and then, still in the same step, vCont;r.
range_step(c) ==
    /\ Call(c) /\ _paused
    /\ Start(c, Idle, "vcont", NoPoint)
    /\ UNCHANGED <<hvars, newer, points, forgotten, caller, emu, toHost, faults>>

RangeStepDone ==
    /\ Ok("vcont")
    /\ _run("s", "range")
    /\ Release
    /\ UNCHANGED <<newer, points, forgotten, cvars, emu, toHost, faults>>

\* pause lets the lock go before it waits.
Pause(c) ==
    /\ Call(c) /\ connected /\ execution # "stopped"
    /\ interrupting' = TRUE
    /\ toEmu' = Append(toEmu, Packet("int", NoPoint))
    /\ caller' = [caller EXCEPT ![c].pc = IF stop THEN "idle" ELSE "pausing"]
    /\ UNCHANGED <<connected, execution, stop, run_mode, processing, newer, points, forgotten,
                   lvars, emu, toHost, faults>>

\* wait, which takes no lock; with the Event set it returns at once.
wait_stopped(c) ==
    /\ caller[c].pc = "idle" /\ lock # c /\ calls < MaxCalls
    /\ connected /\ ~stop
    /\ calls' = calls + 1
    /\ caller' = [caller EXCEPT ![c].pc = "waiting"]
    /\ UNCHANGED <<hvars, newer, points, forgotten, lvars, evars, faults>>

\* "Never interrupt on timeout."
WaitTimeout(c) ==
    /\ caller[c].pc \in {"waiting", "pausing"}
    /\ caller' = [caller EXCEPT ![c].pc = "idle"]
    /\ UNCHANGED <<hvars, newer, points, forgotten, lvars, calls, evars, faults>>

-----------------------------------------------------------------------------
(* Breakpoints and watches, and requests that change nothing of interest.  *)

Add(c) ==
    /\ Call(c) /\ _paused
    /\ \E q \in Points, a \in Attr :
        /\ q \notin Execs => a = [skip |-> 0, oneshot |-> FALSE]
        /\ q \in Watches => q \notin DOMAIN points
        /\ \/ /\ q \in DOMAIN points
              /\ points' = With(points, q, a) /\ UNCHANGED <<lvars, toEmu>>
           \/ /\ q \notin DOMAIN points \/ q \in GdbWatches
              /\ Start(c, [Idle EXCEPT !.kept = With(NoPoints, q, a)], "set", q)
              /\ UNCHANGED points
    /\ UNCHANGED <<hvars, newer, forgotten, caller, emu, toHost, faults>>

\* A reset saves `state' by a shallow copy: as long as the session keeps its
\* dictionary of watches, what is done to it is done to the saved one.  Was there a
\* dictionary at all?  One with a watch in it, surely; an empty one, perhaps.
Shares(c) == caller[c].pc = "reset"
SharesSurely(c) == Shares(c) /\ DOMAIN caller[c].saved \cap Watches # {}
Resaved(S, tables) ==
    [c \in Callers |-> IF c \in S THEN [caller[c] EXCEPT !.saved = tables[c]] ELSE caller[c]]

AddDone ==
    /\ Ok("set")
    /\ points' = With(points, plan.p, plan.kept[plan.p])
    /\ IF plan.p \in Watches
       THEN \E S \in SUBSET {c \in Callers : Shares(c)} :
               /\ {c \in Callers : SharesSurely(c)} \subseteq S
               /\ caller' = Resaved(S, [c \in Callers |->
                                With(caller[c].saved, plan.p, plan.kept[plan.p])])
       ELSE UNCHANGED caller
    /\ Release
    /\ UNCHANGED <<hvars, newer, forgotten, calls, evars, faults>>

\* remove names one point; clear goes through _points, or all watches.
Remove(c) ==
    /\ Call(c) /\ _paused
    /\ \E S \in {{q} : q \in DOMAIN points} \cup
                {DOMAIN points \ Watches, DOMAIN points \ Execs} :
           \E q \in Cleared1(S) :
              Start(c, [Idle EXCEPT !.left = S \ {q}], "del", q)
    /\ UNCHANGED <<hvars, newer, points, forgotten, caller, emu, toHost, faults>>

RemoveDone ==
    /\ Ok("del")
    /\ points' = Without(points, plan.p)
    /\ caller' = IF plan.p \in Watches
                 THEN Resaved({c \in Callers : Shares(c)},
                              [c \in Callers |-> Without(caller[c].saved, plan.p)])
                 ELSE caller
    /\ IF plan.left = {} THEN Release /\ UNCHANGED toEmu
       ELSE \E q \in Cleared1(plan.left) :
                Request([plan EXCEPT !.left = @ \ {q}], "del", q)
    /\ UNCHANGED <<hvars, newer, forgotten, calls, emu, toHost, faults>>

Ask(c, phase) ==
    /\ Call(c)
    /\ Start(c, Idle, phase, NoPoint)
    /\ UNCHANGED <<hvars, newer, points, forgotten, caller, emu, toHost, faults>>

\* Registers, memory, disassembly, chips, captures, loading files, ...
registers_and_memory(c) == _paused /\ Ask(c, "ask")
chipset(c) == _paused /\ Ask(c, "ask")
diagnostics(c) == _paused /\ Ask(c, "ask")
hunk_load(c) == _paused /\ Ask(c, "ask")
symbol_read(c) == _paused /\ Ask(c, "ask")

\* Input goes to a running guest, too; a sequence may let a stopped one run.
input(c) == connected /\ (Ask(c, "ask") \/ Ask(c, "seq"))

SequenceDone ==
    /\ Ok("seq")
    /\ \/ execution = "stopped" /\ _run("c", "continue")
       \/ UNCHANGED <<hvars, toEmu>>
    /\ Release
    /\ UNCHANGED <<newer, points, forgotten, cvars, emu, toHost, faults>>

\* Most operations are several requests in a row; some go on after an error: to put
\* memory back, or with the next part of a report.
AskMore ==
    /\ Answered("ask")
    /\ Request(plan, "ask", NoPoint)
    /\ UNCHANGED <<hvars, newer, points, forgotten, cvars, emu, toHost, faults>>

\* A request of this kind was answered, or one of these was not to be had.
AskDone ==
    /\ Answered("ask") \/ Denied("seq") \/ Denied("set") \/ Denied("del") \/ Denied("vcont")
       \/ Denied("exec") \/ Denied("restore")
    /\ Release
    /\ UNCHANGED <<hvars, newer, points, forgotten, cvars, evars, faults>>

-----------------------------------------------------------------------------
(* Checkpoints.                                                            *)

\* What is in _points is lifted one by one, the state is saved, and what was lifted is
\* put back, also when the save failed; the watches of the monitor stay.
Lift(pl, left) ==
    IF left = {} THEN Request([pl EXCEPT !.left = {}], "save", NoPoint)
    ELSE \E q \in left : Request([pl EXCEPT !.left = left \ {q}], "lift", q)

CheckpointSave(c) ==
    /\ Call(c) /\ _paused
    /\ LET own == DOMAIN points \ Watches
       IN  \/ own = {} /\ Start(c, Idle, "save", NoPoint)
           \/ \E q \in own : Start(c, [Idle EXCEPT !.left = own \ {q}], "lift", q)
    /\ UNCHANGED <<hvars, newer, points, forgotten, caller, emu, toHost, faults>>

LiftDone ==
    /\ Ok("lift")
    /\ Lift([plan EXCEPT !.lifted = @ \cup {plan.p}], plan.left)
    /\ UNCHANGED <<hvars, newer, points, forgotten, cvars, emu, toHost, faults>>

\* The end of a checkpoint: the CPU is stopped; registers().
Checkpointed(seen) ==
    /\ execution' = "stopped" /\ stop' = TRUE /\ caller' = seen
    /\ Request(Idle, "ask", NoPoint)
    /\ UNCHANGED <<connected, interrupting, run_mode, processing>>

PutBack(ok) ==
    \E q \in plan.lifted :
        Request([plan EXCEPT !.left = plan.lifted \ {q}, !.ok = ok], "back", q)

\* Slip: points are put back only after a save that went well.
SaveDoneBare ==
    /\ Answered("save") \/ Denied("lift")
    /\ IF plan.lifted # {} /\ Ok("save") THEN PutBack(TRUE) /\ UNCHANGED <<hvars, caller>>
       ELSE IF Ok("save") THEN Checkpointed(Woken)
       ELSE Release /\ UNCHANGED <<hvars, caller, toEmu>>
    /\ UNCHANGED <<newer, points, forgotten, calls, emu, toHost, faults>>

SaveDone ==
    /\ Answered("save") \/ Denied("lift")
    /\ IF plan.lifted # {} THEN PutBack(Ok("save")) /\ UNCHANGED <<hvars, caller>>
       ELSE IF Ok("save") THEN Checkpointed(Woken)
       ELSE Release /\ UNCHANGED <<hvars, caller, toEmu>>
    /\ UNCHANGED <<newer, points, forgotten, calls, emu, toHost, faults>>

PutBackDone ==
    /\ Answered("back")
    /\ IF Ok("back") /\ plan.left # {}
       THEN /\ \E q \in plan.left : Request([plan EXCEPT !.left = @ \ {q}], "back", q)
            /\ UNCHANGED <<hvars, caller>>
       ELSE IF Ok("back") /\ plan.ok THEN Checkpointed(Woken)
       ELSE Release /\ UNCHANGED <<hvars, caller, toEmu>>
    /\ UNCHANGED <<newer, points, forgotten, calls, emu, toHost, faults>>

CheckpointRestore(c) ==
    /\ Call(c) /\ _paused
    /\ Start(c, Idle, "restore", NoPoint)
    /\ UNCHANGED <<hvars, newer, points, forgotten, caller, emu, toHost, faults>>

\* rearm: the session's table is emptied and filled again as WinUAE takes the
\* points back, _points before the watches.
Rearm(table) ==
    /\ points' = NoPoints
    /\ \E q \in Next1(DOMAIN table) :
           Request([Idle EXCEPT !.kept = table, !.left = DOMAIN table \ {q}], "arm", q)

RestoreDone ==
    /\ Ok("restore")
    /\ forgotten' = {}
    /\ IF DOMAIN points = {} THEN Checkpointed(Parted(Woken)) /\ UNCHANGED points
       ELSE Rearm(points) /\ caller' = Parted(caller) /\ UNCHANGED hvars
    /\ UNCHANGED <<newer, calls, emu, toHost, faults>>

ArmDone ==
    /\ Ok("arm")
    /\ points' = With(points, plan.p, plan.kept[plan.p])
    /\ IF plan.left # {}
       THEN /\ \E q \in Next1(plan.left) :
                   Request([plan EXCEPT !.left = @ \ {q}], "arm", q)
            /\ UNCHANGED <<hvars, caller>>
       ELSE IF caller[lock].pc = "rearm"
       THEN /\ Release
            /\ caller' = [caller EXCEPT ![lock] = [pc |-> "resume", saved |-> NoPoints]]
            /\ UNCHANGED <<hvars, toEmu>>
       ELSE Checkpointed(Woken)
    /\ UNCHANGED <<newer, forgotten, calls, emu, toHost, faults>>

ArmDenied ==
    /\ Denied("arm")
    /\ Release
    /\ caller' = [caller EXCEPT ![lock] = [pc |-> "idle", saved |-> NoPoints]]
    /\ UNCHANGED <<hvars, newer, points, forgotten, calls, evars, faults>>

-----------------------------------------------------------------------------
(* reset.                                                                  *)

\* The keys of a reset, with the session's state saved; a stopped guest is let
\* run to see them.
Reset(c) ==
    /\ Call(c) /\ connected
    /\ Start(c, [Idle EXCEPT !.kept = points], "keys", NoPoint)
    /\ UNCHANGED <<hvars, newer, points, forgotten, caller, emu, toHost, faults>>

Resetting(w, pc) == [w EXCEPT ![lock] = [pc |-> pc, saved |-> plan.kept]]

KeysDone ==
    /\ Ok("keys")
    /\ IF execution = "stopped" THEN _run("c", "continue") ELSE UNCHANGED <<hvars, toEmu>>
    /\ caller' = Resetting(caller, IF connected THEN "reset" ELSE "parted")
    /\ Release
    /\ UNCHANGED <<newer, points, forgotten, calls, emu, toHost, faults>>

\* A failed request is an error unless it was the reset that closed the
\* connection.
KeysDenied ==
    /\ Denied("keys")
    /\ caller' = IF connected THEN caller ELSE Resetting(caller, "parted")
    /\ Release
    /\ UNCHANGED <<hvars, newer, points, forgotten, calls, evars, faults>>

ResetSeen(c) ==
    /\ caller[c].pc \in {"reset", "parted"} /\ ~connected
    /\ caller' = [caller EXCEPT ![c].pc = "reconnect"]
    /\ UNCHANGED <<hvars, newer, points, forgotten, lvars, calls, evars, faults>>

\* Either deadline.
ResetGivesUp(c) ==
    /\ caller[c].pc \in {"reset", "parted", "reconnect"} /\ lock # c
    /\ caller' = [caller EXCEPT ![c] = [pc |-> "idle", saved |-> NoPoints]]
    /\ UNCHANGED <<hvars, newer, points, forgotten, lvars, calls, evars, faults>>

ResetReconnect(c) ==
    /\ lock = NoOne /\ caller[c].pc = "reconnect"
    /\ \/ Open(c) /\ UNCHANGED caller
       \/ /\ connected                          \* by somebody else: connect returns
          /\ caller' = [caller EXCEPT ![c].pc = "rearm"]
          /\ UNCHANGED <<hvars, newer, points, forgotten, lvars, evars, faults>>
    /\ UNCHANGED calls

\* The saved points join those that the new session has got meanwhile, but the saved
\* dictionary of watches, if there was one, takes the place of the session's.  Watches
\* of the new session stay in WinUAE either way: dropped from the dictionary, or there
\* twice once the hook has added them again under another id.
Merged(own, saved, replaced) ==
    Updated([q \in DOMAIN own \ (IF replaced THEN Watches ELSE {}) |-> own[q]], saved)

ResetRearm(c) ==
    /\ lock = NoOne /\ caller[c].pc = "rearm"
    /\ \E replaced \in BOOLEAN :
        /\ DOMAIN caller[c].saved \cap Watches # {} => replaced
        /\ LET all == Merged(points, caller[c].saved, replaced) IN
           IF DOMAIN all = {}
           THEN /\ caller' = [Parted(caller) EXCEPT ![c].pc = "resume"]
                /\ UNCHANGED <<lvars, toEmu>>
           ELSE IF ~connected
           THEN /\ caller' = [Parted(caller) EXCEPT ![c] = [pc |-> "idle", saved |-> NoPoints]]
                /\ UNCHANGED <<lvars, toEmu>>
           ELSE /\ \E q \in Next1(DOMAIN all) :
                       Start(c, [Idle EXCEPT !.kept = all, !.left = DOMAIN all \ {q}], "arm", q)
                /\ caller' = Parted(caller)
    /\ points' = NoPoints
    /\ forgotten' = forgotten \cup (DOMAIN points \cap Watches)
    /\ UNCHANGED <<hvars, newer, calls, emu, toHost, faults>>

ResetResume(c) ==
    /\ lock = NoOne /\ caller[c].pc = "resume"
    /\ IF _paused THEN _run("c", "continue") ELSE UNCHANGED <<hvars, toEmu>>
    /\ caller' = [caller EXCEPT ![c].pc = "idle"]
    /\ UNCHANGED <<newer, points, forgotten, lvars, calls, emu, toHost, faults>>

-----------------------------------------------------------------------------
(* _process_stop.                                                          *)

\* Its finally clause: the stop is reported unless the run goes on.
Report ==
    /\ processing' = processing - 1
    /\ _signal_stop
    /\ Release

ProcessStart ==
    /\ lock = NoOne /\ processing > 0
    /\ IF connected
       THEN /\ Start(Process, Idle, "pc", NoPoint)
            /\ UNCHANGED <<hvars, newer, caller>>
       ELSE Report /\ UNCHANGED toEmu
    /\ UNCHANGED <<points, forgotten, calls, emu, toHost, faults>>

\* Slip: a skip count also swallows the stop that a pause waits for.
SkipAppliesAlways(q) == points[q].skip > 0 /\ run_mode = "continue"

SkipApplies(q) ==
    points[q].skip > 0 /\ run_mode = "continue" /\ ~interrupting

\* The PC is at a breakpoint whose skip count has not run out: go on.
ProcessSkips ==
    /\ Ok("pc") /\ reply.val \in DOMAIN points /\ SkipApplies(reply.val)
    /\ points' = [points EXCEPT ![reply.val].skip = @ - 1]
    /\ toEmu' = Append(toEmu, Packet("c", NoPoint))
    /\ processing' = processing - 1
    /\ Release
    /\ UNCHANGED <<connected, execution, stop, interrupting, run_mode, newer, forgotten,
                   cvars, emu, toHost, faults>>

ProcessOneshot ==
    /\ Ok("pc") /\ reply.val \in DOMAIN points /\ ~SkipApplies(reply.val)
    /\ points[reply.val].oneshot
    /\ Request(plan, "shot", reply.val)
    /\ UNCHANGED <<hvars, newer, points, forgotten, cvars, emu, toHost, faults>>

ProcessReports ==
    /\ \/ Ok("pc") /\ reply.val \in DOMAIN points
          /\ ~SkipApplies(reply.val) /\ ~points[reply.val].oneshot
       \/ Ok("pc") /\ reply.val \notin DOMAIN points
       \/ Denied("pc") \/ Answered("shot")
    /\ points' = IF Ok("shot") THEN Without(points, plan.p) ELSE points
    /\ Report
    /\ UNCHANGED <<forgotten, calls, evars, faults>>

-----------------------------------------------------------------------------
(* No answer in time, or the coroutine cancelled: "never leave an ambiguous *)
(* reply".                                                                 *)

\* Slip: the connection is kept for the next request.
RequestTimeoutKeeps ==
    /\ lock \in Callers /\ reply = NoReply
    /\ Release
    /\ UNCHANGED <<hvars, newer, points, forgotten, cvars, evars, faults>>

RequestTimeout ==
    /\ lock \in Callers /\ reply = NoReply
    /\ Lost
    /\ caller' = IF plan.phase = "keys" THEN Resetting(Parted(Woken), "parted")
                 ELSE IF caller[lock].pc = "rearm"
                 THEN [Parted(Woken) EXCEPT ![lock] = [pc |-> "idle", saved |-> NoPoints]]
                 ELSE Parted(Woken)
    /\ Release
    /\ UNCHANGED <<processing, newer, calls, faults>>

\* In _process_stop the finally clause follows, and reports a stop.
ProcessTimeout ==
    /\ lock = Process /\ reply = NoReply
    /\ connected' = FALSE /\ execution' = "stopped" /\ stop' = TRUE
    /\ interrupting' = FALSE /\ run_mode' = "none" /\ newer' = TRUE
    /\ processing' = processing - 1
    /\ points' = NoPoints /\ forgotten' = {} /\ caller' = Parted(Woken)
    /\ emu' = Detached /\ toEmu' = <<>> /\ toHost' = <<>>
    /\ Release
    /\ UNCHANGED <<calls, faults>>

-----------------------------------------------------------------------------
(* The reader task.                                                        *)

Incoming(kind) == connected /\ toHost # <<>> /\ Head(toHost).kind = kind

\* _stopped: a plain stop of a run may be a breakpoint.
MayBeBreakpoint(plain) ==
    plain /\ run_mode # "step" /\ DOMAIN points \cap Execs # {}

ReadStop ==
    /\ Incoming("stop")
    /\ toHost' = Tail(toHost)
    /\ IF MayBeBreakpoint(Head(toHost).plain)
       THEN /\ processing' = processing + 1
            /\ UNCHANGED <<connected, execution, stop, interrupting, run_mode, newer,
                           caller>>
       ELSE _signal_stop /\ UNCHANGED processing
    /\ UNCHANGED <<points, forgotten, lvars, calls, emu, toEmu, faults>>

ReadReply ==
    /\ Incoming("reply") /\ lock # NoOne /\ reply = NoReply
    /\ toHost' = Tail(toHost)
    /\ reply' = Head(toHost)
    /\ UNCHANGED <<hvars, newer, points, forgotten, lock, plan, cvars, emu, toEmu, faults>>

\* EOF, or a reply that nobody waits for.
ReadClosed ==
    /\ \/ Incoming("eof")
       \/ Incoming("reply") /\ (lock = NoOne \/ reply # NoReply)
    /\ Lost
    /\ caller' = Parted(Woken)
    /\ reply' = IF lock # NoOne /\ reply = NoReply THEN Closed ELSE reply
    /\ UNCHANGED <<processing, newer, lock, plan, calls, faults>>

-----------------------------------------------------------------------------
(* WinUAE.                                                                 *)

Taken(cmd) ==
    /\ emu.session /\ toEmu # <<>> /\ Head(toEmu).cmd = cmd
    /\ toEmu' = Tail(toEmu)
    /\ UNCHANGED <<hvars, newer, points, forgotten, lvars, cvars, faults>>

Put(m) == toHost' = Append(toHost, m)
Reply(ok, val) == Answer(Head(toEmu).cmd, Head(toEmu).p, ok, val)

EmuHello == Taken("hello") /\ (\E ok \in BOOLEAN : Put(Reply(ok, NoPoint))) /\ UNCHANGED emu
EmuStatus == Taken("exec") /\ Put(Reply(TRUE, emu.cpu)) /\ UNCHANGED emu
EmuPc == Taken("pc") /\ Put(Reply(TRUE, emu.at)) /\ UNCHANGED emu
EmuAnswer ==
    /\ Taken("ask") \/ Taken("seq") \/ Taken("vcont")
    /\ (\E ok \in BOOLEAN : Put(Reply(ok, NoPoint))) /\ UNCHANGED emu

EmuInsert ==
    /\ Taken("Z")
    /\ LET q == Head(toEmu).p IN
       /\ Put(Reply(q \notin Refused, NoPoint))
       /\ emu' = [emu EXCEPT !.points = IF q \in Refused THEN @ ELSE @ \cup {q}]

\* A watch that is there twice is removed once.
EmuRemove ==
    /\ Taken("z")
    /\ Put(Reply(TRUE, NoPoint))
    /\ emu' = [emu EXCEPT !.points = @ \ ({Head(toEmu).p} \ forgotten)]

\* c, and s or a range; a CPU that runs ignores them.
EmuRun ==
    /\ \/ Taken("c") /\ emu' = IF emu.cpu = "running" THEN emu
                               ELSE [emu EXCEPT !.cpu = "running", !.mode = "go"]
       \/ Taken("s") /\ emu' = IF emu.cpu = "running" THEN emu
                               ELSE [emu EXCEPT !.cpu = "running", !.mode = "step"]
    /\ UNCHANGED toHost

\* An interrupt; a stopped CPU ignores it.
EmuInterrupt ==
    /\ Taken("int")
    /\ IF emu.cpu = "running"
       THEN /\ emu' = [emu EXCEPT !.cpu = "stopped", !.at = NoPoint]
            /\ Put(Stop(FALSE))
       ELSE UNCHANGED <<emu, toHost>>

EmuStepOver ==
    /\ Taken("over")
    /\ \/ /\ emu' = [emu EXCEPT !.cpu = "running", !.mode = "step"]
          /\ Put(Reply(TRUE, NoPoint))
       \/ /\ emu' = [emu EXCEPT !.cpu = "stopped", !.at = NoPoint]   \* stopped first
          /\ toHost' = toHost \o <<Stop(TRUE), Reply(TRUE, NoPoint)>>
       \/ /\ emu.cpu = "stopped" /\ Put(Reply(FALSE, NoPoint)) /\ UNCHANGED emu

\* The save runs to the start of a frame; a stop on the way cancels it.
EmuSave ==
    /\ Taken("save")
    /\ emu' = [emu EXCEPT !.cpu = "stopped", !.at = NoPoint]
    /\ \/ Put(Reply(TRUE, NoPoint))
       \/ toHost' = toHost \o <<Stop(FALSE), Reply(FALSE, NoPoint)>>

EmuRestore ==
    /\ Taken("restore")
    /\ \/ /\ emu' = [emu EXCEPT !.cpu = "stopped", !.at = NoPoint, !.points = {}]
          /\ Put(Reply(TRUE, NoPoint))
       \/ Put(Reply(FALSE, NoPoint)) /\ UNCHANGED emu

EmuKeys ==
    /\ Taken("keys")
    /\ \/ emu' = [emu EXCEPT !.reset = TRUE] /\ Put(Reply(TRUE, NoPoint))
       \/ Put(Reply(FALSE, NoPoint)) /\ UNCHANGED emu

EmuDetach ==
    /\ Taken("bye")
    /\ emu' = [emu EXCEPT !.points = {}, !.cpu = "running"]
    /\ Put(Reply(TRUE, NoPoint))

\* The CPU stops by itself: at a breakpoint, at the end of a step, for a watch.
EmuStop ==
    /\ emu.session /\ emu.cpu = "running"
    /\ \/ \E q \in emu.points \cap Execs :
             emu' = [emu EXCEPT !.cpu = "stopped", !.at = q] /\ Put(Stop(TRUE))
       \/ /\ emu.mode = "step"
          /\ emu' = [emu EXCEPT !.cpu = "stopped", !.at = NoPoint]
          /\ Put(Stop(TRUE))
       \/ /\ emu.points \ Execs # {}
          /\ emu' = [emu EXCEPT !.cpu = "stopped", !.at = NoPoint]
          /\ Put(Stop(FALSE))
    /\ UNCHANGED <<hvars, newer, points, forgotten, lvars, cvars, toEmu, faults>>

Gone == emu' = Detached /\ toEmu' = <<>> /\ Put(Eof)

\* The guest sees the keys of the reset; WinUAE detaches its clients.
EmuReset ==
    /\ emu.session /\ emu.reset /\ emu.cpu = "running"
    /\ Gone
    /\ UNCHANGED <<hvars, newer, points, forgotten, lvars, cvars, faults>>

EmuDrop ==
    /\ emu.session /\ faults.drops < MaxDrops
    /\ faults' = [faults EXCEPT !.drops = @ + 1]
    /\ Gone
    /\ UNCHANGED <<hvars, newer, points, forgotten, lvars, cvars>>

\* Resumed in WinUAE's own window.
GuiResume ==
    /\ emu.session /\ emu.cpu = "stopped" /\ faults.gui < MaxGui
    /\ faults' = [faults EXCEPT !.gui = @ + 1]
    /\ emu' = [emu EXCEPT !.cpu = "running", !.mode = "go"]
    /\ UNCHANGED <<hvars, newer, points, forgotten, lvars, cvars, toEmu, toHost>>

-----------------------------------------------------------------------------
\* The tools and the web route: each calls one operation, or a few in turn.
amiga_winuae_control(c) ==
    \/ Connect(c) \/ ConnectRefused(c) \/ Disconnect(c) \/ Status(c)
    \/ Resume(c) \/ Step(c) \/ step_over(c)
    \/ Pause(c) \/ wait_stopped(c) \/ WaitTimeout(c)
    \/ Reset(c) \/ ResetGivesUp(c)

amiga_winuae_range_step(c) == range_step(c)
PointTools(c) == Add(c) \/ Remove(c)
InspectionTools(c) ==
    \/ registers_and_memory(c) \/ chipset(c) \/ diagnostics(c)
    \/ hunk_load(c) \/ symbol_read(c) \/ input(c)
amiga_winuae_checkpoint(c) == CheckpointSave(c) \/ CheckpointRestore(c)

Operations(c) ==
    \/ amiga_winuae_control(c) \/ amiga_winuae_range_step(c)
    \/ PointTools(c) \/ InspectionTools(c) \/ amiga_winuae_checkpoint(c)

ResetStep(c) ==
    \/ ResetSeen(c) \/ ResetReconnect(c) \/ ResetRearm(c) \/ ResetResume(c)

HolderStep ==
    \/ HelloDone \/ HelloDenied \/ ExecutionDone \/ ByeDone
    \/ StepOverDone \/ StepOverDenied \/ RangeStepDone
    \/ AddDone \/ RemoveDone \/ SequenceDone \/ AskMore \/ AskDone
    \/ LiftDone \/ SaveDone \/ PutBackDone \/ RestoreDone \/ ArmDone \/ ArmDenied
    \/ KeysDone \/ KeysDenied
    \/ ProcessSkips \/ ProcessOneshot \/ ProcessReports
    \/ RequestTimeout \/ ProcessTimeout

ReaderStep == ReadStop \/ ReadReply \/ ReadClosed

EmuCommand ==
    \/ EmuHello \/ EmuStatus \/ EmuPc \/ EmuAnswer \/ EmuInsert \/ EmuRemove
    \/ EmuRun \/ EmuInterrupt \/ EmuStepOver \/ EmuSave \/ EmuRestore \/ EmuKeys
    \/ EmuDetach

Next ==
    \/ \E c \in Callers : Operations(c) \/ ResetStep(c)
    \/ HolderStep \/ ProcessStart \/ ReaderStep
    \/ EmuCommand \/ EmuStop \/ EmuReset \/ EmuDrop \/ GuiResume

Spec == Init /\ [][Next]_vars

-----------------------------------------------------------------------------
Phases == {"none", "hello", "exec", "bye", "over", "vcont", "set", "del", "ask", "seq", "lift",
           "save", "back", "restore", "arm", "keys", "pc", "shot"}
Commands == {"hello", "exec", "bye", "over", "vcont", "Z", "z", "ask", "seq", "save", "restore",
             "keys", "pc", "c", "s", "int"}
Replies == [kind : {"reply"}, cmd : Commands, p : Points \cup {NoPoint}, ok : BOOLEAN,
            val : Points \cup {NoPoint, "running", "stopped"}]

TypeOK ==
    /\ connected \in BOOLEAN
    /\ execution \in {"disconnected", "running", "stopped"}
    /\ stop \in BOOLEAN /\ interrupting \in BOOLEAN /\ newer \in BOOLEAN
    /\ run_mode \in {"none", "continue", "step", "over", "range"}
    /\ processing \in Nat
    /\ points \in Tables /\ forgotten \subseteq Watches
    /\ lock \in Callers \cup {Process, NoOne}
    /\ plan \in [phase : Phases, p : Points \cup {NoPoint}, left : SUBSET Points,
                 lifted : SUBSET Points, kept : Tables, ok : BOOLEAN]
    /\ reply \in Replies \cup {NoReply, Closed}
    /\ caller \in [Callers -> [pc : {"idle", "waiting", "pausing", "reset", "parted",
                                     "reconnect", "rearm", "resume"}, saved : Tables]]
    /\ calls \in 0..MaxCalls
    /\ emu \in [session : BOOLEAN, cpu : {"running", "stopped"}, mode : {"go", "step"},
                points : SUBSET Points, at : Execs \cup {NoPoint}, reset : BOOLEAN]
    /\ toEmu \in Seq([cmd : Commands, p : Points \cup {NoPoint}])
    /\ toHost \in Seq(Replies \cup {Stop(TRUE), Stop(FALSE), Eof})
    /\ faults \in [drops : 0..MaxDrops, gui : 0..MaxGui]

\* Whatever went wrong in between (a refused point, a cancelled save, a restore, a
\* reset, a one-shot): between two operations the points that the session lists
\* are those that WinUAE stops at ("DevBench reinstalls them"), but for watches that
\* were added between the connection after a reset and its rearm.
PointsAgree ==
    connected /\ emu.session /\ lock = NoOne => emu.points = DOMAIN points \cup forgotten

\* "An async stop must never consume a monitor reply", and a late reply is never
\* reused: what resolves a request's future is the answer to that request.
RepliesAreOwn ==
    reply.kind = "reply" => reply.cmd = Wire(plan.phase) /\ reply.p = plan.p

StopIsUnderWay ==
    \/ processing > 0
    \/ \E i \in DOMAIN toHost : toHost[i].kind = "stop"

\* While WinUAE is stopped the session says so, or a stop or a run command that is
\* on its way will change one of the two: no status reply overtakes a stop.
StopIsKnown ==
    connected /\ emu.session /\ emu.cpu = "stopped" =>
        \/ execution = "stopped"
        \/ StopIsUnderWay
        \/ \E i \in DOMAIN toEmu : toEmu[i].cmd \in {"c", "s"}
        \/ plan.phase = "over"
        \/ lock # NoOne /\ execution = "disconnected"       \* still connecting

\* A skip count does not swallow the stop that a pause waits for, and no other stop
\* takes its place unnoticed.
PauseIsNotLost ==
    connected /\ emu.session /\ (\E c \in Callers : caller[c].pc = "pausing") =>
        StopIsUnderWay \/ \E i \in DOMAIN toEmu : toEmu[i].cmd = "int"
============================================================================
