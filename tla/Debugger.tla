------------------------------ MODULE Debugger ------------------------------
(***************************************************************************)
(* The daemon's debugger (amiga-bridge/src/debugger.c): software           *)
(* breakpoints in a program that runs as another task of the same machine, *)
(* which the daemon stops with TRAP #15, a trace exception and a Wait for  *)
(* CTRL_F, and the pause check in the client library's ab_poll.            *)
(*                                                                         *)
(* The program is a loop of instructions 1, 2, .. Size, 1, ..  Daemon and  *)
(* program preempt each other between any two steps; an exception handler  *)
(* is one step, since no task is switched in supervisor mode.  A handler   *)
(* of a command is cut where the program, or an exception it raises, can   *)
(* see the difference: before the table entry of a breakpoint that was     *)
(* taken out of the code is given up, at detach's delay, and at each       *)
(* assignment of dbg_handle_step.                                          *)
(***************************************************************************)
EXTENDS Naturals, FiniteSets

CONSTANTS
    Size,             \* instructions of the program
    Polls,            \* those that call ab_poll
    MAX_BREAKPOINTS,
    Decimal,          \* [Addr -> Nat]: what strtol(.., 10) makes of the text of
                      \* an address in hex
    MaxCommands       \* bound: commands of the host in one behaviour

Addr == 1..Size
Slots == 0..(MAX_BREAKPOINTS - 1)

ASSUME DebuggerAssumption ==
    /\ Size \in Nat \ {0}
    /\ Polls \subseteq Addr
    /\ MAX_BREAKPOINTS \in Nat \ {0}
    /\ Decimal \in [Addr -> Nat]
    /\ MaxCommands \in Nat

VARIABLES
    attached, stopped,  \* dbg_attached, dbg_stopped
    bp_table,
    installed,          \* trap_installed: the three vectors are ours
    trap_hit, trap_pc,  \* the handlers' report to the main loop
    resume_pc, step_mode, step_request,
    daemon,             \* the command under way, cut as said above, or "idle"
    clearing,           \* the slots that the command takes out of the code
    commands,           \* commands handled so far
    code,               \* the word at each instruction: its own or TRAP #15
    target,             \* the program: next instruction, what it does, its T1 bit
    signals,            \* of CTRL_E ("E") and CTRL_F ("F"), those set for it
    due,                \* the instruction that the undisturbed program runs next
    again,              \* a step was asked for at another instruction than that
    raced,              \* an exception, or the need for one, fell into a command
    unseen              \* the daemon detached before it had seen a hit

dvars == <<attached, stopped, bp_table, installed, trap_hit, trap_pc, resume_pc,
           step_mode, step_request>>
gvars == <<again, raced, unseen>>
vars == <<dvars, daemon, clearing, commands, code, target, signals, due, gvars>>

\* What dbg_install_trap and the handlers leave alone, for most commands.
handlers == <<installed, trap_hit, trap_pc, resume_pc, step_mode, step_request>>

Free == [used |-> FALSE, enabled |-> FALSE, address |-> 0, original |-> "op"]
NoBreakpoints == [s \in Slots |-> Free]
Used == {s \in Slots : bp_table[s].used}
SlotsAt(a) == {s \in Used : bp_table[s].address = a}
NextOf(a) == IF a = Size THEN 1 ELSE a + 1

\* How far dbg_handle_step has come.
StepPhases == {"found", "restored", "unmarked", "resumed", "requested"}

Modes == {"run", "init", "stub", "polled", "crashed"}
Waiting == target.mode \in {"init", "stub", "polled"} /\ "F" \notin signals

\* The shape of the state; an address has one breakpoint (dbg_find_bp_by_addr).
TypeOK ==
    /\ attached \in BOOLEAN /\ stopped \in BOOLEAN /\ installed \in BOOLEAN
    /\ trap_hit \in BOOLEAN /\ step_request \in BOOLEAN
    /\ again \in BOOLEAN /\ raced \in BOOLEAN /\ unseen \in BOOLEAN
    /\ bp_table \in [Slots -> [used : BOOLEAN, enabled : BOOLEAN, address : 0..Size,
                               original : {"op", "trap"}]]
    /\ \A s \in Used : bp_table[s].address \in Addr
    /\ \A r, s \in Used : bp_table[r].address = bp_table[s].address => r = s
    /\ trap_pc \in 0..Size /\ resume_pc \in 0..Size
    /\ step_mode \in 0..2
    /\ daemon \in {"idle", "clear", "detach", "detached", "cleanup", "gone"} \cup StepPhases
    /\ clearing \subseteq Slots
    /\ daemon \notin {"clear", "found", "restored"} => clearing = {}
    /\ commands \in 0..MaxCommands
    /\ code \in [Addr -> {"op", "trap"}]
    /\ target \in [pc : 0..Size, mode : Modes, traced : BOOLEAN]
    /\ signals \subseteq {"E", "F"}
    /\ due \in Addr

\* The program has not been attached to.  It runs, or, started by DBGLAUNCH, it
\* waits for CTRL_F at the end of ab_init.
Init ==
    /\ attached = FALSE /\ stopped = FALSE
    /\ bp_table = NoBreakpoints
    /\ installed = FALSE /\ trap_hit = FALSE /\ trap_pc = 0
    /\ resume_pc = 0 /\ step_mode = 0 /\ step_request = FALSE
    /\ daemon = "idle" /\ clearing = {} /\ commands = 0
    /\ code = [a \in Addr |-> "op"]
    /\ target \in [pc : {1}, mode : {"run", "init"}, traced : {FALSE}]
    /\ signals = {}
    /\ due = 1
    /\ again = FALSE /\ raced = FALSE /\ unseen = FALSE

-----------------------------------------------------------------------------
(* The code in memory and the breakpoint table.                            *)

\* dbg_unpatch_bp and dbg_unpatch_all: take the enabled ones of S out of the code.
UnpatchedCode(S) ==
    [a \in Addr |-> IF \E s \in SlotsAt(a) \cap S : bp_table[s].enabled
                    THEN bp_table[CHOOSE s \in SlotsAt(a) \cap S : bp_table[s].enabled].original
                    ELSE code[a]]
Unpatched(S) ==
    [s \in Slots |-> IF s \in S THEN [bp_table[s] EXCEPT !.enabled = FALSE] ELSE bp_table[s]]

\* dbg_repatch_all_from_trace: put all used ones back.
Repatch ==
    /\ code' = [a \in Addr |-> IF SlotsAt(a) # {} THEN "trap" ELSE code[a]]
    /\ bp_table' = [s \in Slots |-> IF s \in Used THEN [bp_table[s] EXCEPT !.enabled = TRUE]
                                    ELSE bp_table[s]]

\* A command is taking breakpoints away, or everything.
Clearing == daemon \in {"clear", "restored", "detach", "detached", "cleanup"}

-----------------------------------------------------------------------------
(* The program and the exceptions it raises.                               *)

Runs(a, t) == [pc |-> a, mode |-> "run", traced |-> t]

\* trap15_handler: the first hit is reported; the instruction is restored and will
\* run with the trace bit set.  (A breakpoint set in the way of a step raises both
\* exceptions at once; what comes of it is not followed further.)
TrapHit ==
    /\ target.mode = "run" /\ code[target.pc] = "trap" /\ installed
    /\ LET a == target.pc
           hit == SlotsAt(a)
       IN  /\ code' = IF hit = {} THEN code
                      ELSE [code EXCEPT ![a] = bp_table[CHOOSE s \in hit : TRUE].original]
           /\ bp_table' = Unpatched(hit)
           /\ trap_pc' = IF trap_hit THEN trap_pc ELSE a
           /\ trap_hit' = TRUE
           /\ step_mode' = 1
           /\ target' = [target EXCEPT !.traced = TRUE]
    /\ raced' = (raced \/ target.traced)
    /\ UNCHANGED <<attached, stopped, installed, resume_pc, step_request, daemon, clearing,
                   commands, signals, due, again, unseen>>

\* The TRAP reaches whatever handler the program had of its own.
TrapUnhandled ==
    /\ target.mode = "run" /\ code[target.pc] = "trap" /\ ~installed
    /\ target' = [target EXCEPT !.mode = "crashed"]
    /\ UNCHANGED <<dvars, daemon, clearing, commands, code, signals, due, gvars>>

\* Mutant of Trace: the program is to go on at the breakpoint, not after it.
TraceBack(next) ==
    /\ installed
    /\ step_mode' = 0
    /\ resume_pc' = IF step_mode = 2 THEN next ELSE trap_pc
    /\ trap_pc' = IF step_mode = 2 THEN next ELSE trap_pc
    /\ trap_hit' = (trap_hit \/ step_mode = 2)
    /\ Repatch
    /\ target' = [pc |-> next, mode |-> "stub", traced |-> FALSE]
    /\ raced' = (raced \/ Clearing)
    /\ UNCHANGED <<attached, stopped, installed, step_request>>

\* trace_handler: after the instruction at a breakpoint, or after a single step,
\* the breakpoints go back and the program is sent to the pause stub.
Trace(next) ==
    /\ installed
    /\ step_mode' = 0
    /\ resume_pc' = next
    /\ trap_pc' = IF step_mode = 2 THEN next ELSE trap_pc
    /\ trap_hit' = (trap_hit \/ step_mode = 2)
    /\ Repatch
    /\ target' = [pc |-> next, mode |-> "stub", traced |-> FALSE]
    /\ raced' = (raced \/ Clearing)
    /\ UNCHANGED <<attached, stopped, installed, step_request>>

\* An instruction has been run.  With the trace bit set the exception follows.
Completed(next) ==
    \/ /\ ~target.traced
       /\ target' = Runs(next, FALSE)
       /\ UNCHANGED <<dvars, code, raced>>
    \/ /\ target.traced /\ Trace(next)
    \/ /\ target.traced /\ ~installed
       /\ target' = [pc |-> next, mode |-> "crashed", traced |-> FALSE]
       /\ UNCHANGED <<dvars, code, raced>>

\* An ordinary instruction, or ab_poll that finds no CTRL_E, or CTRL_F with it.
Execute ==
    /\ target.mode = "run" /\ code[target.pc] = "op"
    /\ LET pauses == target.pc \in Polls /\ "E" \in signals
       IN  /\ pauses => "F" \in signals
           /\ signals' = IF pauses THEN {} ELSE signals
    /\ due' = NextOf(target.pc)
    /\ Completed(NextOf(target.pc))
    /\ UNCHANGED <<daemon, clearing, commands, again, unseen>>

\* ab_poll finds CTRL_E alone and waits for CTRL_F.
Pause ==
    /\ target.mode = "run" /\ code[target.pc] = "op"
    /\ target.pc \in Polls /\ signals = {"E"}
    /\ signals' = {}
    /\ target' = [target EXCEPT !.mode = "polled"]
    /\ UNCHANGED <<dvars, daemon, clearing, commands, code, due, gvars>>

\* CTRL_F ends the wait in ab_poll.
PauseEnds ==
    /\ target.mode = "polled" /\ "F" \in signals
    /\ signals' = signals \ {"F"}
    /\ due' = NextOf(target.pc)
    /\ Completed(NextOf(target.pc))
    /\ UNCHANGED <<daemon, clearing, commands, again, unseen>>

\* CTRL_F ends the wait in ab_init.
InitEnds ==
    /\ target.mode = "init" /\ "F" \in signals
    /\ signals' = signals \ {"F"}
    /\ target' = Runs(target.pc, FALSE)
    /\ UNCHANGED <<dvars, daemon, clearing, commands, code, due, gvars>>

\* dbg_pause_stub and, for a step, trap14_handler.
StubEnds ==
    /\ target.mode = "stub" /\ "F" \in signals
    /\ signals' = signals \ {"F"}
    /\ step_request' = FALSE
    /\ \/ /\ ~step_request
          /\ target' = Runs(resume_pc, FALSE)
          /\ UNCHANGED step_mode
       \/ /\ step_request /\ installed
          /\ target' = Runs(resume_pc, TRUE)
          /\ step_mode' = 2
       \/ /\ step_request /\ ~installed
          /\ target' = [target EXCEPT !.mode = "crashed"]
          /\ UNCHANGED step_mode
    /\ UNCHANGED <<attached, stopped, bp_table, installed, trap_hit, trap_pc, resume_pc,
                   daemon, clearing, commands, code, due, gvars>>

Program == TrapHit \/ TrapUnhandled \/ Execute \/ Pause \/ PauseEnds \/ InitEnds \/ StubEnds

-----------------------------------------------------------------------------
(* The daemon: the main loop's poll and the commands.                      *)

\* dbg_poll: a hit is told to the host.
Poll ==
    /\ daemon = "idle" /\ attached /\ trap_hit
    /\ trap_hit' = FALSE
    /\ stopped' = TRUE
    /\ UNCHANGED <<attached, bp_table, installed, trap_pc, resume_pc, step_mode,
                   step_request, daemon, clearing, commands, code, target, signals, due, gvars>>

Command ==
    /\ daemon = "idle" /\ commands < MaxCommands
    /\ commands' = commands + 1

\* Mutant of Attach: without the look at the task's state.
AttachRunning ==
    /\ Command /\ ~attached
    /\ attached' = TRUE
    /\ trap_hit' = FALSE /\ stopped' = FALSE
    /\ bp_table' = NoBreakpoints
    /\ UNCHANGED <<installed, trap_pc, resume_pc, step_mode, step_request, daemon, clearing, code,
                   target, signals, due, gvars>>

\* dbg_handle_attach.  A task that waits, for whatever reason, is taken to be stopped.
Attach ==
    /\ Command /\ ~attached
    /\ attached' = TRUE
    /\ trap_hit' = FALSE
    /\ bp_table' = NoBreakpoints
    /\ stopped' \in IF Waiting THEN {TRUE}
                    ELSE IF target.mode = "run" THEN BOOLEAN ELSE {FALSE}
    /\ UNCHANGED <<installed, trap_pc, resume_pc, step_mode, step_request, daemon, clearing, code,
                   target, signals, due, gvars>>

\* dbg_handle_break: both signals, and the target counts as stopped.
Break ==
    /\ Command /\ attached /\ ~stopped
    /\ signals' = {"E", "F"}
    /\ stopped' = TRUE
    /\ UNCHANGED <<attached, bp_table, handlers, daemon, clearing, code, target, due, gvars>>

\* dbg_handle_bpset, for an address that has no breakpoint, in the first free slot.
\* One step: a trace exception meanwhile writes the same, and a hit just before the
\* entry is marked leaves a mark too many, for which the instruction is restored twice.
BpSet(a) ==
    /\ Command /\ attached /\ SlotsAt(a) = {}
    /\ \E s \in Slots \ Used :
         /\ \A r \in Slots \ Used : s <= r
         /\ bp_table' = [bp_table EXCEPT ![s] = [used |-> TRUE, enabled |-> TRUE,
                                                 address |-> a, original |-> code[a]]]
    /\ code' = [code EXCEPT ![a] = "trap"]
    /\ installed' = TRUE
    /\ UNCHANGED <<attached, stopped, trap_hit, trap_pc, resume_pc, step_mode,
                   step_request, daemon, clearing, target, signals, due, gvars>>

\* Mutant of TakeOut: the entry is given up before the code is restored.
TakeOutFreed(S) ==
    /\ bp_table' = [s \in Slots |-> IF s \in S THEN Free ELSE bp_table[s]]
    /\ daemon' = "clear" /\ clearing' = S
    /\ UNCHANGED <<attached, stopped, handlers, code, target, signals, due, gvars>>

\* The first half of BPCLEAR and of DBGCLEARALLBP: out of the code.
TakeOut(S) ==
    /\ code' = UnpatchedCode(S)
    /\ bp_table' = Unpatched(S)
    /\ daemon' = "clear" /\ clearing' = S
    /\ UNCHANGED <<attached, stopped, handlers, target, signals, due, gvars>>

\* dbg_handle_bpclear with a number, and with an address: its text is first read as a
\* number in decimal, and names the slot of that number if that is in use.
BpClearId(s) == Command /\ attached /\ s \in Used /\ TakeOut({s})

BpClearAddress(a) ==
    /\ Command /\ attached
    /\ IF Decimal[a] \in Used THEN TakeOut({Decimal[a]})
                              ELSE SlotsAt(a) # {} /\ TakeOut(SlotsAt(a))

\* dbg_handle_clearall.
ClearAll == Command /\ attached /\ TakeOut(Used)

\* The second half: the table entry is given up.
GiveUp ==
    /\ daemon = "clear"
    /\ bp_table' = [s \in Slots |-> IF s \in clearing THEN Free ELSE bp_table[s]]
    /\ daemon' = "idle" /\ clearing' = {}
    /\ UNCHANGED <<attached, stopped, handlers, commands, code, target, signals, due, gvars>>

\* dbg_handle_continue.
Continue ==
    /\ Command /\ attached /\ stopped
    /\ stopped' = FALSE
    /\ signals' = signals \cup {"F"}
    /\ UNCHANGED <<attached, bp_table, handlers, daemon, clearing, code, target, due, gvars>>

\* dbg_handle_step: the breakpoint at the reported instruction is looked up.
StepCommand ==
    /\ Command /\ attached /\ stopped
    /\ clearing' = SlotsAt(trap_pc)
    /\ daemon' = "found"
    /\ UNCHANGED <<dvars, code, target, signals, due, gvars>>

\* dbg_unpatch_bp: one that is in the code is taken out ..
StepRestores ==
    /\ daemon = "found"
    /\ code' = UnpatchedCode(clearing)
    /\ clearing' = {s \in clearing : bp_table[s].enabled}
    /\ daemon' = "restored"
    /\ UNCHANGED <<dvars, commands, target, signals, due, gvars>>

\* .. and only then marked so.
StepUnmarks ==
    /\ daemon = "restored"
    /\ bp_table' = Unpatched(clearing)
    /\ clearing' = {}
    /\ daemon' = "unmarked"
    /\ UNCHANGED <<attached, stopped, handlers, commands, code, target, signals, due, gvars>>

\* The program is to go back to the reported instruction, and the stub to step there.
StepResumes ==
    /\ daemon = "unmarked"
    /\ resume_pc' = trap_pc
    /\ again' = (again \/ trap_pc # due)
    /\ daemon' = "resumed"
    /\ UNCHANGED <<attached, stopped, bp_table, installed, trap_hit, trap_pc, step_mode,
                   step_request, clearing, commands, code, target, signals, due, raced, unseen>>

StepRequests ==
    /\ daemon = "resumed"
    /\ step_request' = TRUE
    /\ daemon' = "requested"
    /\ UNCHANGED <<attached, stopped, bp_table, installed, trap_hit, trap_pc, resume_pc,
                   step_mode, clearing, commands, code, target, signals, due, gvars>>

StepSignals ==
    /\ daemon = "requested"
    /\ stopped' = FALSE
    /\ signals' = signals \cup {"F"}
    /\ daemon' = "idle"
    /\ UNCHANGED <<attached, bp_table, handlers, clearing, commands, code, target, due, gvars>>

\* dbg_handle_next: on to a later breakpoint if there is one, else a step.
NextCommand ==
    IF \E s \in Used : bp_table[s].address > trap_pc THEN Continue ELSE StepCommand

\* Mutant of Detach: the breakpoints of a running program stay in its code.
DetachStopped ==
    /\ Command /\ attached
    /\ code' = IF stopped THEN UnpatchedCode(Used) ELSE code
    /\ bp_table' = Unpatched(Used)
    /\ \/ /\ stopped
          /\ trap_hit' = FALSE /\ step_request' = FALSE
          /\ signals' = signals \cup {"F"}
          /\ daemon' = "detach"
          /\ UNCHANGED unseen
       \/ /\ ~stopped
          /\ daemon' = "detached"
          /\ unseen' = (unseen \/ trap_hit)
          /\ UNCHANGED <<trap_hit, step_request, signals>>
    /\ UNCHANGED <<clearing, attached, stopped, installed, trap_pc, resume_pc, step_mode, target,
                   due, again, raced>>

\* dbg_handle_detach, up to its delay if the target counts as stopped.
Detach ==
    /\ Command /\ attached
    /\ code' = UnpatchedCode(Used)
    /\ bp_table' = Unpatched(Used)
    /\ \/ /\ stopped
          /\ trap_hit' = FALSE /\ step_request' = FALSE
          /\ signals' = signals \cup {"F"}
          /\ daemon' = "detach"
          /\ UNCHANGED unseen
       \/ /\ ~stopped
          /\ daemon' = "detached"
          /\ unseen' = (unseen \/ trap_hit)
          /\ UNCHANGED <<trap_hit, step_request, signals>>
    /\ UNCHANGED <<clearing, attached, stopped, installed, trap_pc, resume_pc, step_mode, target,
                   due, again, raced>>

\* After the delay: once more, in case the first signal was consumed by another wait.
DetachSignal ==
    /\ daemon = "detach"
    /\ signals' = signals \cup {"F"}
    /\ daemon' = "detached"
    /\ UNCHANGED <<dvars, clearing, commands, code, target, due, gvars>>

\* The vectors are restored, the table and the target are forgotten.
NeedsHandlers == target.traced \/ (target.mode = "stub" /\ step_request)

Forget ==
    /\ daemon = "detached"
    /\ attached' = FALSE /\ stopped' = FALSE
    /\ installed' = FALSE /\ trap_hit' = FALSE
    /\ bp_table' = NoBreakpoints
    /\ daemon' = "idle"
    /\ raced' = (raced \/ NeedsHandlers)
    /\ UNCHANGED <<clearing, trap_pc, resume_pc, step_mode, step_request, commands, code, target,
                   signals, due, again, unseen>>

\* dbg_cleanup, at the end of the daemon: as detach, but without the delay.
Cleanup ==
    /\ Command /\ attached
    /\ code' = UnpatchedCode(Used)
    /\ bp_table' = Unpatched(Used)
    /\ daemon' = "cleanup"
    /\ unseen' = (unseen \/ (trap_hit /\ ~stopped))
    /\ UNCHANGED <<clearing, attached, stopped, handlers, target, signals, due, again, raced>>

CleanupEnds ==
    /\ daemon = "cleanup"
    /\ signals' = IF stopped THEN signals \cup {"F"} ELSE signals
    /\ attached' = FALSE /\ stopped' = FALSE /\ installed' = FALSE
    /\ daemon' = "gone"
    /\ raced' = (raced \/ NeedsHandlers)
    /\ UNCHANGED <<clearing, bp_table, trap_hit, trap_pc, resume_pc, step_mode, step_request,
                   commands, code, target, due, again, unseen>>

Daemon ==
    \/ Poll \/ GiveUp \/ DetachSignal \/ Forget \/ CleanupEnds
    \/ StepRestores \/ StepUnmarks \/ StepResumes \/ StepRequests \/ StepSignals
Host ==
    \/ Attach \/ Break \/ Continue \/ StepCommand \/ NextCommand \/ ClearAll \/ Detach
    \/ Cleanup
    \/ \E a \in Addr \ Polls : BpSet(a) \/ BpClearAddress(a)
    \/ \E s \in Slots : BpClearId(s)

Next == Program \/ Daemon \/ Host

Spec == Init /\ [][Next]_vars

\* The operating system runs every task that is ready.
FairSpec == Spec /\ WF_vars(Program) /\ WF_vars(Daemon)

-----------------------------------------------------------------------------
(* Properties.  Ghosts say when a command met the program at an exception. *)

Quiet == daemon \in {"idle", "gone"} /\ ~raced

\* A TRAP in the program's code is a breakpoint that the table lists, so that the
\* handler can restore the instruction under it: else the program would execute
\* TRAP #15 over and over, and no BPCLEAR could take it out (the repatching of the
\* trace handler against dbg_handle_bpclear, dbg_handle_clearall and detach).
TrapsAreListed ==
    Quiet => \A a \in Addr : code[a] = "trap" => SlotsAt(a) # {}

\* A program that waits in the pause stub is one the host can let go on: it counts
\* as stopped, or the main loop is yet to see the hit, or the signal to go on is on
\* its way (DBGCONT is refused unless dbg_stopped).
PausedTargetIsKnown ==
    attached /\ Quiet /\ target.mode = "stub"
      => stopped \/ trap_hit \/ "F" \in signals

\* Whatever breakpoints it meets, the program executes every instruction once, in
\* its order (trap15_handler, trace_handler and the stub pass its PC between them),
\* unless a step was asked for where another instruction was due.
CounterIsRight ==
    ~again /\ ~raced
      => /\ target.mode \in {"run", "init", "polled"} => target.pc = due
         /\ target.mode = "stub" => resume_pc = due

\* After DBGDETACH, or the daemon's end, the program is as it was: no TRAP in its
\* code, no trace bit, and if it still waits in the stub it has been signalled and
\* will not ask for the trap #14 handler that is gone.
DetachedIsFree ==
    ~attached /\ Quiet /\ ~unseen
      => /\ \A a \in Addr : code[a] = "op"
         /\ ~target.traced
         /\ target.mode = "stub" => "F" \in signals /\ ~step_request

\* DBGBREAK makes the program pause: once signalled it comes to wait, unless the
\* host has let it go on meanwhile ("Signal the target to pause at next ab_poll()").
BreakPauses ==
    ("E" \in signals /\ stopped) ~> (target.mode \in {"stub", "polled"} \/ ~stopped)

=============================================================================
