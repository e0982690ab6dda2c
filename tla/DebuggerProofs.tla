---------------------------- MODULE DebuggerProofs ----------------------------
(***************************************************************************)
(* Proofs about the debugger's safety, for a program of any size, any set  *)
(* of its instructions that poll, any number of breakpoints and commands.  *)
(***************************************************************************)
EXTENDS Debugger, TLAPS

\* The daemon serves an attached program, or none: it is not at its end.
Active == {"idle", "clear"} \cup StepPhases

\* The breakpoints that a command has taken out of the code and not yet marked so.
Leaving == IF daemon \in {"clear", "restored"} THEN clearing ELSE {}

\* Who is attached when, and whose vectors are in place.
Attachment ==
    /\ daemon \in {"clear", "detach", "detached", "cleanup"} \cup StepPhases => attached
    /\ daemon = "gone" => ~attached
    /\ ~attached => ~installed

\* The handlers send the program nowhere but to its instructions.
Counters ==
    /\ target.pc \in Addr
    /\ trap_hit \/ target.traced \/ target.mode = "stub" => trap_pc \in Addr
    /\ target.mode = "stub" => resume_pc \in Addr

\* What the table knows of the code: a word that is TRAP #15 belongs to a breakpoint
\* that is not being given up, and under it lies an instruction.
Listed ==
    /\ \A s \in Used : bp_table[s].address \notin Polls
    /\ ~attached /\ daemon = "idle" => Used = {}
    /\ ~raced =>
         /\ \A s \in Used : bp_table[s].original = "op"
         /\ daemon \in Active =>
              \A a \in Addr : code[a] = "trap"
                 => \E s \in SlotsAt(a) \ Leaving : bp_table[s].enabled
         /\ daemon \notin Active => \A a \in Addr : code[a] = "op"

\* Where the trace bit is set, and that no handler is missing when it is needed.
Traced ==
    ~raced =>
        /\ ~attached => ~target.traced /\ ~(target.mode = "stub" /\ step_request)
        /\ target.traced /\ target.mode # "crashed" =>
             /\ target.mode \in {"run", "polled"}
             /\ step_mode # 2 => target.mode = "run" /\ target.pc \notin Polls

\* A program that is in the stub, or will be after this instruction, is known to be.
Known ==
    ~raced =>
        /\ attached /\ daemon \in Active
             /\ (target.mode = "stub" \/ (target.traced /\ step_mode # 2))
             => stopped \/ trap_hit \/ "F" \in signals
        /\ target.mode = "stub" /\ ~unseen =>
             /\ daemon = "detached" \/ ~attached => "F" \in signals
             /\ daemon = "cleanup" => stopped \/ "F" \in signals

IInv == TypeOK /\ Attachment /\ Counters /\ Listed /\ Traced /\ Known /\ CounterIsRight

-------------------------------------------------------------------------------
(* The actions, with the three commands that clear breakpoints as one.     *)

Clear(S) == Command /\ attached /\ TakeOut(S)

ProgramStep == TrapHit \/ TrapUnhandled \/ Execute \/ Pause \/ PauseEnds \/ InitEnds \/ StubEnds
StepStep == StepRestores \/ StepUnmarks \/ StepResumes \/ StepRequests \/ StepSignals
DaemonStep == Poll \/ GiveUp \/ DetachSignal \/ Forget \/ CleanupEnds \/ StepStep
HostStep ==
    \/ Attach \/ Break \/ Continue \/ StepCommand \/ Detach \/ Cleanup
    \/ \E a \in Addr \ Polls : BpSet(a)
    \/ \E S \in SUBSET Used : Clear(S)

LEMMA StepCases == Next => ProgramStep \/ DaemonStep \/ HostStep
<1>1. ASSUME NEW s \in Slots, BpClearId(s) PROVE HostStep
  <2>1. {s} \in SUBSET Used /\ Clear({s})
    BY <1>1 DEF BpClearId, Clear
  <2> QED BY <2>1 DEF HostStep
<1>2. ASSUME NEW a \in Addr, BpClearAddress(a) PROVE HostStep
  <2>1. CASE Decimal[a] \in Used
    <3>1. {Decimal[a]} \in SUBSET Used /\ Clear({Decimal[a]})
      BY <1>2, <2>1 DEF BpClearAddress, Clear
    <3> QED BY <3>1 DEF HostStep
  <2>2. CASE Decimal[a] \notin Used
    <3>1. SlotsAt(a) \in SUBSET Used /\ Clear(SlotsAt(a))
      BY <1>2, <2>2 DEF BpClearAddress, Clear, SlotsAt
    <3> QED BY <3>1 DEF HostStep
  <2> QED BY <2>1, <2>2
<1>3. ClearAll => HostStep
  <2>1. ClearAll => Clear(Used)
    BY DEF ClearAll, Clear
  <2>2. Used \in SUBSET Used
    OBVIOUS
  <2> QED BY <2>1, <2>2 DEF HostStep
<1>4. NextCommand => HostStep
  BY DEF NextCommand, HostStep
<1> QED BY <1>1, <1>2, <1>3, <1>4
          DEF Next, Program, Daemon, Host, ProgramStep, DaemonStep, StepStep, HostStep

-------------------------------------------------------------------------------
(* The shape of the state.                                                 *)

Table == [Slots -> [used : BOOLEAN, enabled : BOOLEAN, address : 0..Size,
                    original : {"op", "trap"}]]
Words == [Addr -> {"op", "trap"}]
Unique ==
    /\ \A s \in Used : bp_table[s].address \in Addr
    /\ \A r, s \in Used : bp_table[r].address = bp_table[s].address => r = s

\* Taking breakpoints out of the code changes nothing else in the table.
LEMMA UnpatchedFacts ==
    ASSUME bp_table \in Table, code \in Words, NEW S \in SUBSET Used
    PROVE  /\ Unpatched(S) \in Table
           /\ \A s \in Slots : /\ Unpatched(S)[s].used = bp_table[s].used
                               /\ Unpatched(S)[s].address = bp_table[s].address
                               /\ Unpatched(S)[s].original = bp_table[s].original
                               /\ s \notin S => Unpatched(S)[s] = bp_table[s]
                               /\ s \in S => ~Unpatched(S)[s].enabled
           /\ UnpatchedCode(S) \in Words
           /\ \A a \in Addr :
                \/ UnpatchedCode(S)[a] = code[a] /\ \A s \in SlotsAt(a) \cap S : ~bp_table[s].enabled
                \/ \E s \in SlotsAt(a) \cap S : /\ bp_table[s].enabled
                                              /\ UnpatchedCode(S)[a] = bp_table[s].original
<1>1. S \subseteq Slots
  BY DEF Used
<1>2. /\ Unpatched(S) \in Table
      /\ \A s \in Slots : /\ Unpatched(S)[s].used = bp_table[s].used
                          /\ Unpatched(S)[s].address = bp_table[s].address
                          /\ Unpatched(S)[s].original = bp_table[s].original
                          /\ s \notin S => Unpatched(S)[s] = bp_table[s]
                          /\ s \in S => ~Unpatched(S)[s].enabled
  BY <1>1 DEF Unpatched, Table
<1>3. ASSUME NEW a \in Addr
      PROVE  \/ UnpatchedCode(S)[a] = code[a] /\ \A s \in SlotsAt(a) \cap S : ~bp_table[s].enabled
             \/ \E s \in SlotsAt(a) \cap S : /\ bp_table[s].enabled
                                           /\ UnpatchedCode(S)[a] = bp_table[s].original
  <2>1. CASE \E s \in SlotsAt(a) \cap S : bp_table[s].enabled
    <3> DEFINE t == CHOOSE s \in SlotsAt(a) \cap S : bp_table[s].enabled
    <3>1. t \in SlotsAt(a) \cap S /\ bp_table[t].enabled
      BY <2>1
    <3>2. UnpatchedCode(S)[a] = bp_table[t].original
      BY <2>1 DEF UnpatchedCode
    <3> QED BY <3>1, <3>2
  <2>2. CASE ~\E s \in SlotsAt(a) \cap S : bp_table[s].enabled
    BY <2>2 DEF UnpatchedCode
  <2> QED BY <2>1, <2>2
<1>4. UnpatchedCode(S) \in Words
  <2>1. \A a \in Addr : UnpatchedCode(S)[a] \in {"op", "trap"}
    BY <1>1, <1>3 DEF Table, Words
  <2>2. UnpatchedCode(S) = [a \in Addr |-> UnpatchedCode(S)[a]]
    BY DEF UnpatchedCode
  <2> HIDE DEF UnpatchedCode
  <2> QED BY <2>1, <2>2 DEF Words
<1> QED BY <1>2, <1>3, <1>4

\* Either half of it, for any slots.
LEMMA RestoredFacts ==
    ASSUME bp_table \in Table, code \in Words, NEW S
    PROVE  /\ UnpatchedCode(S) \in Words
           /\ \A a \in Addr :
                \/ UnpatchedCode(S)[a] = code[a] /\ \A s \in SlotsAt(a) \cap S : ~bp_table[s].enabled
                \/ \E s \in SlotsAt(a) \cap S : /\ bp_table[s].enabled
                                              /\ UnpatchedCode(S)[a] = bp_table[s].original
<1>1. S \cap Used \in SUBSET Used /\ \A a : SlotsAt(a) \cap S = SlotsAt(a) \cap (S \cap Used)
  BY DEF SlotsAt
<1>2. UnpatchedCode(S) = UnpatchedCode(S \cap Used)
  BY <1>1 DEF UnpatchedCode
<1> QED BY <1>1, <1>2, UnpatchedFacts

LEMMA UnmarkedFacts ==
    ASSUME bp_table \in Table, NEW S
    PROVE  /\ Unpatched(S) \in Table
           /\ \A s \in Slots : /\ Unpatched(S)[s].used = bp_table[s].used
                               /\ Unpatched(S)[s].address = bp_table[s].address
                               /\ Unpatched(S)[s].original = bp_table[s].original
                               /\ s \notin S => Unpatched(S)[s] = bp_table[s]
BY DEF Unpatched, Table

\* What every table with the same breakpoints has.
LEMMA SameBreakpoints ==
    ASSUME Unique, bp_table' \in Table,
           \A s \in Slots : /\ bp_table'[s].used = bp_table[s].used
                           /\ bp_table'[s].address = bp_table[s].address
    PROVE  /\ Used' = Used /\ Unique'
           /\ \A a \in Addr : SlotsAt(a)' = SlotsAt(a)
<1>1. Used' = Used
  BY DEF Used
<1>2. \A s \in Used : bp_table'[s].address = bp_table[s].address
  BY DEF Used
<1> QED BY <1>1, <1>2 DEF Unique, SlotsAt

LEMMA RepatchFacts ==
    ASSUME bp_table \in Table, code \in Words, Unique, Repatch
    PROVE  /\ bp_table' \in Table /\ code' \in Words /\ Unique' /\ Used' = Used
           /\ \A a \in Addr : SlotsAt(a)' = SlotsAt(a)
           /\ \A s \in Used : bp_table'[s].enabled /\ bp_table'[s].original = bp_table[s].original
                              /\ bp_table'[s].address = bp_table[s].address
           /\ \A a \in Addr : code'[a] = "trap" => SlotsAt(a) # {} \/ code[a] = "trap"
<1>1. bp_table' \in Table /\ code' \in Words
  BY DEF Repatch, Table, Words, Used
<1>2. \A s \in Slots : /\ bp_table'[s].used = bp_table[s].used
                      /\ bp_table'[s].address = bp_table[s].address
                      /\ bp_table'[s].original = bp_table[s].original
                      /\ s \in Used => bp_table'[s].enabled
  BY DEF Repatch, Table
<1> QED BY <1>1, <1>2, SameBreakpoints DEF Repatch, Used

LEMMA TypeParts ==
    TypeOK => bp_table \in Table /\ code \in Words /\ Unique /\ target.pc \in 0..Size
BY DEF TypeOK, Table, Words, Unique

\* The part of the type that concerns neither table nor code.
Rest ==
    /\ attached \in BOOLEAN /\ stopped \in BOOLEAN /\ installed \in BOOLEAN
    /\ trap_hit \in BOOLEAN /\ step_request \in BOOLEAN
    /\ again \in BOOLEAN /\ raced \in BOOLEAN /\ unseen \in BOOLEAN
    /\ trap_pc \in 0..Size /\ resume_pc \in 0..Size
    /\ step_mode \in 0..2
    /\ daemon \in {"idle", "clear", "detach", "detached", "cleanup", "gone"} \cup StepPhases
    /\ clearing \subseteq Slots
    /\ daemon \notin {"clear", "found", "restored"} => clearing = {}
    /\ commands \in 0..MaxCommands
    /\ target \in [pc : 0..Size, mode : Modes, traced : BOOLEAN]
    /\ signals \subseteq {"E", "F"}
    /\ due \in Addr

LEMMA TypeSplit == TypeOK <=> Rest /\ bp_table \in Table /\ code \in Words /\ Unique
BY DEF TypeOK, Rest, Table, Words, Unique

LEMMA NextOfType == \A a \in 0..Size : NextOf(a) \in Addr
BY DebuggerAssumption DEF NextOf, Addr

LEMMA AddrPositive == Addr \subseteq 0..Size /\ 1 \in Addr /\ 0 \in 0..Size
BY DebuggerAssumption DEF Addr

LEMMA CompletedType ==
    ASSUME Rest, bp_table \in Table, code \in Words, Unique, NEW a \in Addr, Completed(a)
    PROVE  /\ bp_table' \in Table /\ code' \in Words /\ Unique'
           /\ attached' \in BOOLEAN /\ stopped' \in BOOLEAN /\ installed' \in BOOLEAN
           /\ trap_hit' \in BOOLEAN /\ step_request' \in BOOLEAN /\ raced' \in BOOLEAN
           /\ trap_pc' \in 0..Size /\ resume_pc' \in 0..Size
           /\ step_mode' \in 0..2
           /\ target' \in [pc : 0..Size, mode : Modes, traced : BOOLEAN]
<1>1. a \in 0..Size
  BY AddrPositive
<1>2. CASE UNCHANGED <<dvars, code, raced>>
  <2>1. target' \in [pc : 0..Size, mode : Modes, traced : BOOLEAN]
    <3>1. CASE target' = Runs(a, FALSE)
      BY <1>1, <3>1 DEF Runs, Modes
    <3>2. CASE target' = [pc |-> a, mode |-> "crashed", traced |-> FALSE]
      BY <1>1, <3>2 DEF Modes
    <3>3. CASE Trace(a)
      BY <1>1, <3>3 DEF Trace, Modes
    <3> QED BY <3>1, <3>2, <3>3 DEF Completed
  <2> QED BY <1>2, <2>1 DEF dvars, Rest, Unique, Used
<1>3. CASE Trace(a)
  <2>1. bp_table' \in Table /\ code' \in Words /\ Unique'
    BY <1>3, RepatchFacts DEF Trace
  <2>2. target' \in [pc : 0..Size, mode : Modes, traced : BOOLEAN]
    BY <1>1, <1>3 DEF Trace, Modes
  <2>3. /\ trap_hit' \in BOOLEAN /\ raced' \in BOOLEAN /\ trap_pc' \in 0..Size
        /\ resume_pc' \in 0..Size /\ step_mode' \in 0..2
    BY <1>1, <1>3 DEF Trace, Rest
  <2>4. attached' \in BOOLEAN /\ stopped' \in BOOLEAN /\ installed' \in BOOLEAN
        /\ step_request' \in BOOLEAN
    BY <1>3 DEF Trace, Rest
  <2> QED BY <2>1, <2>2, <2>3, <2>4
<1> QED BY <1>2, <1>3 DEF Completed

LEMMA ProgramType == ASSUME TypeOK, ProgramStep PROVE TypeOK'
<1> SUFFICES Rest' /\ bp_table' \in Table /\ code' \in Words /\ Unique'
  BY DEF TypeOK, Rest, Table, Words, Unique
<1>0. Rest /\ bp_table \in Table /\ code \in Words /\ Unique /\ target.pc \in 0..Size
  BY TypeSplit, TypeParts
<1>1. CASE TrapHit
  <2>1. SlotsAt(target.pc) \in SUBSET Used
    BY DEF SlotsAt
  <2>2. bp_table' = Unpatched(SlotsAt(target.pc))
    BY <1>1 DEF TrapHit
  <2>3. bp_table' \in Table /\ Unique'
    BY <1>0, <2>1, <2>2, UnpatchedFacts, SameBreakpoints
  <2>4. code' \in Words
    <3>1. CASE SlotsAt(target.pc) = {}
      BY <1>0, <1>1, <3>1 DEF TrapHit
    <3>2. CASE SlotsAt(target.pc) # {}
      <4>1. PICK s \in SlotsAt(target.pc) : code' = [code EXCEPT ![target.pc] = bp_table[s].original]
        BY <1>1, <3>2 DEF TrapHit
      <4>2. bp_table[s].original \in {"op", "trap"}
        BY <1>0 DEF SlotsAt, Used, Table
      <4> QED BY <1>0, <4>1, <4>2 DEF Words
    <3> QED BY <3>1, <3>2
  <2>5. target' \in [pc : 0..Size, mode : Modes, traced : BOOLEAN]
    BY <1>0, <1>1 DEF TrapHit, Rest
  <2>6. trap_pc' \in 0..Size /\ trap_hit' \in BOOLEAN /\ raced' \in BOOLEAN /\ step_mode' \in 0..2
    BY <1>0, <1>1 DEF TrapHit, Rest
  <2> QED BY <1>0, <1>1, <2>3, <2>4, <2>5, <2>6 DEF TrapHit, Rest
<1>2. CASE TrapUnhandled
  <2>1. target' \in [pc : 0..Size, mode : Modes, traced : BOOLEAN]
    BY <1>0, <1>2 DEF TrapUnhandled, Rest, Modes
  <2> QED BY <1>0, <1>2, <2>1 DEF TrapUnhandled, Rest, dvars, gvars, Unique, Used
<1>3. CASE Execute
  <2>1. NextOf(target.pc) \in Addr /\ Completed(NextOf(target.pc)) /\ due' = NextOf(target.pc)
    BY <1>0, <1>3, NextOfType DEF Execute
  <2>2. signals' \subseteq {"E", "F"} /\ UNCHANGED <<daemon, clearing, commands, again, unseen>>
    BY <1>0, <1>3 DEF Execute, Rest
  <2> HIDE DEF Completed
  <2> QED BY <1>0, <2>1, <2>2, CompletedType DEF Rest
<1>4. CASE Pause
  <2>1. target' \in [pc : 0..Size, mode : Modes, traced : BOOLEAN]
    BY <1>0, <1>4 DEF Pause, Rest, Modes
  <2> QED BY <1>0, <1>4, <2>1 DEF Pause, Rest, dvars, gvars, Unique, Used
<1>5. CASE PauseEnds
  <2>1. NextOf(target.pc) \in Addr /\ Completed(NextOf(target.pc)) /\ due' = NextOf(target.pc)
    BY <1>0, <1>5, NextOfType DEF PauseEnds
  <2>2. signals' \subseteq {"E", "F"} /\ UNCHANGED <<daemon, clearing, commands, again, unseen>>
    BY <1>0, <1>5 DEF PauseEnds, Rest
  <2> QED BY <1>0, <2>1, <2>2, CompletedType DEF Rest
<1>6. CASE InitEnds
  <2>1. target' \in [pc : 0..Size, mode : Modes, traced : BOOLEAN]
    BY <1>0, <1>6 DEF InitEnds, Runs, Modes
  <2>2. signals' \subseteq {"E", "F"}
    BY <1>0, <1>6 DEF InitEnds, Rest
  <2>3. UNCHANGED <<dvars, daemon, clearing, commands, code, due, gvars>>
    BY <1>6 DEF InitEnds
  <2> QED BY <1>0, <2>1, <2>2, <2>3 DEF Rest, dvars, gvars, Unique, Used
<1>7. CASE StubEnds
  <2>1. resume_pc \in 0..Size /\ step_mode \in 0..2 /\ signals \subseteq {"E", "F"}
        /\ target \in [pc : 0..Size, mode : Modes, traced : BOOLEAN]
    BY <1>0 DEF Rest
  <2>2. target' \in [pc : 0..Size, mode : Modes, traced : BOOLEAN]
    <3>1. CASE target' = Runs(resume_pc, FALSE)
      BY <2>1, <3>1 DEF Runs, Modes
    <3>2. CASE target' = Runs(resume_pc, TRUE)
      BY <2>1, <3>2 DEF Runs, Modes
    <3>3. CASE target' = [target EXCEPT !.mode = "crashed"]
      BY <2>1, <3>3 DEF Modes
    <3> QED BY <1>7, <3>1, <3>2, <3>3 DEF StubEnds
  <2>3. step_mode' \in 0..2 /\ step_request' \in BOOLEAN /\ signals' \subseteq {"E", "F"}
    <3>1. step_mode' \in {2, step_mode}
      BY <1>7 DEF StubEnds
    <3>2. step_request' = FALSE /\ signals' = signals \ {"F"}
      BY <1>7 DEF StubEnds
    <3>3. step_mode' \in 0..2
      BY <2>1, <3>1
    <3>4. step_request' \in BOOLEAN
      BY <3>2
    <3>5. signals' \subseteq {"E", "F"}
      BY <2>1, <3>2
    <3> QED BY <3>3, <3>4, <3>5
  <2> QED BY <1>0, <1>7, <2>2, <2>3 DEF StubEnds, Rest, dvars, gvars, Unique, Used
<1> QED BY <1>1, <1>2, <1>3, <1>4, <1>5, <1>6, <1>7 DEF ProgramStep

LEMMA FreeTables == NoBreakpoints \in Table
BY AddrPositive DEF NoBreakpoints, Free, Table

LEMMA DaemonType == ASSUME TypeOK, DaemonStep PROVE TypeOK'
<1> SUFFICES Rest' /\ bp_table' \in Table /\ code' \in Words /\ Unique'
  BY DEF TypeOK, Rest, Table, Words, Unique
<1>0. Rest /\ bp_table \in Table /\ code \in Words /\ Unique
  BY TypeSplit
<1>1. CASE Poll
  BY <1>0, <1>1 DEF Poll, Rest, gvars, Unique, Used
<1>2. CASE GiveUp
  <2>1. bp_table' \in Table
    BY <1>0, <1>2, AddrPositive DEF GiveUp, Table, Free
  <2>2. \A s \in Used' : s \in Used /\ bp_table'[s] = bp_table[s]
    BY <1>2 DEF GiveUp, Used, Free
  <2>3. Unique'
    BY <1>0, <2>2 DEF Unique
  <2> QED BY <1>0, <1>2, <2>1, <2>3 DEF GiveUp, Rest, handlers, gvars
<1>3. CASE DetachSignal
  <2>1. signals' \subseteq {"E", "F"}
    BY <1>0, <1>3 DEF DetachSignal, Rest
  <2> QED BY <1>0, <1>3, <2>1 DEF DetachSignal, Rest, dvars, gvars, Unique, Used
<1>4. CASE Forget
  <2>1. bp_table' \in Table /\ Used' = {}
    BY <1>4, FreeTables DEF Forget, NoBreakpoints, Free, Used
  <2>2. raced' \in BOOLEAN
    BY <1>0, <1>4 DEF Forget, Rest
  <2> QED BY <1>0, <1>4, <2>1, <2>2 DEF Forget, Rest, Unique
<1>5. CASE CleanupEnds
  <2>1. signals' \subseteq {"E", "F"}
    BY <1>0, <1>5 DEF CleanupEnds, Rest
  <2>2. raced' \in BOOLEAN
    BY <1>0, <1>5 DEF CleanupEnds, Rest
  <2> QED BY <1>0, <1>5, <2>1, <2>2 DEF CleanupEnds, Rest, Unique, Used
<1>6. CASE StepRestores
  <2>1. code' \in Words
    BY <1>0, <1>6, RestoredFacts DEF StepRestores
  <2>2. clearing' \subseteq Slots /\ daemon' = "restored"
    BY <1>0, <1>6 DEF StepRestores, Rest
  <2> QED BY <1>0, <1>6, <2>1, <2>2 DEF StepRestores, Rest, StepPhases, dvars, gvars, Unique, Used
<1>7. CASE StepUnmarks
  <2>1. bp_table' \in Table /\ Unique'
    BY <1>0, <1>7, UnmarkedFacts, SameBreakpoints DEF StepUnmarks
  <2> QED BY <1>0, <1>7, <2>1 DEF StepUnmarks, Rest, StepPhases, handlers, gvars
<1>8. CASE StepResumes
  <2>1. again' \in BOOLEAN
    BY <1>0, <1>8 DEF StepResumes, Rest
  <2> QED BY <1>0, <1>8, <2>1 DEF StepResumes, Rest, StepPhases, Unique, Used
<1>9. CASE StepRequests
  BY <1>0, <1>9 DEF StepRequests, Rest, StepPhases, gvars, Unique, Used
<1>10. CASE StepSignals
  <2>1. signals' \subseteq {"E", "F"}
    BY <1>0, <1>10 DEF StepSignals, Rest
  <2> QED BY <1>0, <1>10, <2>1 DEF StepSignals, Rest, StepPhases, handlers, gvars, Unique, Used
<1> QED BY <1>1, <1>2, <1>3, <1>4, <1>5, <1>6, <1>7, <1>8, <1>9, <1>10 DEF DaemonStep, StepStep

LEMMA HostType == ASSUME TypeOK, HostStep PROVE TypeOK'
<1> SUFFICES Rest' /\ bp_table' \in Table /\ code' \in Words /\ Unique'
  BY DEF TypeOK, Rest, Table, Words, Unique
<1>0. Rest /\ bp_table \in Table /\ code \in Words /\ Unique
  BY TypeSplit
<1>c. Command => daemon = "idle" /\ clearing = {} /\ commands' \in 0..MaxCommands
  BY <1>0, DebuggerAssumption DEF Command, Rest
<1>1. CASE Attach
  <2>1. bp_table' \in Table /\ Used' = {}
    BY <1>1, FreeTables DEF Attach, NoBreakpoints, Free, Used
  <2>2. stopped' \in BOOLEAN
    BY <1>1 DEF Attach
  <2> QED BY <1>0, <1>1, <1>c, <2>1, <2>2 DEF Attach, Rest, Unique, gvars
<1>2. CASE Break
  BY <1>0, <1>2, <1>c DEF Break, Rest, handlers, gvars, Unique, Used
<1>3. CASE Continue
  <2>1. signals' \subseteq {"E", "F"}
    BY <1>0, <1>3 DEF Continue, Rest
  <2> QED BY <1>0, <1>3, <1>c, <2>1 DEF Continue, Rest, handlers, gvars, Unique, Used
<1>4. CASE StepCommand
  <2>1. clearing' \subseteq Slots
    BY <1>4 DEF StepCommand, SlotsAt, Used
  <2> QED BY <1>0, <1>4, <1>c, <2>1 DEF StepCommand, Rest, StepPhases, dvars, gvars, Unique, Used
<1>5. CASE Detach
  <2>1. Used \in SUBSET Used /\ bp_table' = Unpatched(Used) /\ code' = UnpatchedCode(Used)
    BY <1>5 DEF Detach
  <2>2. bp_table' \in Table /\ code' \in Words /\ Unique'
    BY <1>0, <2>1, UnpatchedFacts, SameBreakpoints
  <2>3. CASE stopped
    <3>1. signals' \subseteq {"E", "F"}
      BY <1>0, <1>5, <2>3 DEF Detach, Rest
    <3> QED BY <1>0, <1>5, <1>c, <2>2, <2>3, <3>1 DEF Detach, Rest
  <2>4. CASE ~stopped
    <3>1. unseen' \in BOOLEAN
      BY <1>0, <1>5, <2>4 DEF Detach, Rest
    <3> QED BY <1>0, <1>5, <1>c, <2>2, <2>4, <3>1 DEF Detach, Rest
  <2> QED BY <2>3, <2>4
<1>6. CASE Cleanup
  <2>1. Used \in SUBSET Used /\ bp_table' = Unpatched(Used) /\ code' = UnpatchedCode(Used)
    BY <1>6 DEF Cleanup
  <2>2. bp_table' \in Table /\ code' \in Words /\ Unique'
    BY <1>0, <2>1, UnpatchedFacts, SameBreakpoints
  <2>3. unseen' \in BOOLEAN
    BY <1>0, <1>6 DEF Cleanup, Rest
  <2> QED BY <1>0, <1>6, <1>c, <2>2, <2>3 DEF Cleanup, Rest, handlers
<1>7. ASSUME NEW a \in Addr \ Polls, BpSet(a)
      PROVE  Rest' /\ bp_table' \in Table /\ code' \in Words /\ Unique'
  <2>1. PICK s \in Slots \ Used :
          bp_table' = [bp_table EXCEPT ![s] = [used |-> TRUE, enabled |-> TRUE,
                                               address |-> a, original |-> code[a]]]
    BY <1>7 DEF BpSet
  <2>2. bp_table' \in Table
    BY <1>0, <2>1, AddrPositive DEF Table, Words
  <2>3. /\ Used' = Used \cup {s} /\ bp_table'[s].address = a
        /\ \A r \in Used : bp_table'[r] = bp_table[r] /\ bp_table[r].address # a
    <3>1. SlotsAt(a) = {}
      BY <1>7 DEF BpSet
    <3> QED BY <1>0, <2>1, <3>1 DEF Used, SlotsAt, Table
  <2>4. Unique'
    BY <1>0, <2>3 DEF Unique
  <2>5. code' \in Words
    BY <1>0, <1>7 DEF BpSet, Words
  <2> QED BY <1>0, <1>7, <1>c, <2>2, <2>4, <2>5 DEF BpSet, Rest, gvars
<1>8. ASSUME NEW S \in SUBSET Used, Clear(S)
      PROVE  Rest' /\ bp_table' \in Table /\ code' \in Words /\ Unique'
  <2>1. bp_table' = Unpatched(S) /\ code' = UnpatchedCode(S) /\ S \subseteq Slots
    BY <1>8 DEF Clear, TakeOut, Used
  <2>2. bp_table' \in Table /\ code' \in Words /\ Unique'
    BY <1>0, <2>1, UnpatchedFacts, SameBreakpoints
  <2> QED BY <1>0, <1>8, <1>c, <2>1, <2>2 DEF Clear, TakeOut, Rest, handlers, gvars
<1> QED BY <1>1, <1>2, <1>3, <1>4, <1>5, <1>6, <1>7, <1>8 DEF HostStep

LEMMA TypeInit == Init => TypeOK
<1> SUFFICES ASSUME Init PROVE TypeOK
  OBVIOUS
<1>1. bp_table \in Table /\ Used = {} /\ code \in Words
  BY FreeTables DEF Init, NoBreakpoints, Free, Used, Words
<1>2. target \in [pc : 0..Size, mode : Modes, traced : BOOLEAN]
  <2>1. 1 \in 0..Size
    BY AddrPositive
  <2> QED BY <2>1 DEF Init, Modes
<1>3. commands \in 0..MaxCommands
  BY DebuggerAssumption DEF Init
<1>4. Rest
  <2>1. /\ attached \in BOOLEAN /\ stopped \in BOOLEAN /\ installed \in BOOLEAN
        /\ trap_hit \in BOOLEAN /\ step_request \in BOOLEAN
        /\ again \in BOOLEAN /\ raced \in BOOLEAN /\ unseen \in BOOLEAN
    BY DEF Init
  <2>2. trap_pc \in 0..Size /\ resume_pc \in 0..Size /\ due \in Addr
    BY AddrPositive DEF Init
  <2>3. step_mode \in 0..2
    BY DEF Init
  <2>4. /\ daemon \in {"idle", "clear", "detach", "detached", "cleanup", "gone"} \cup StepPhases
        /\ clearing \subseteq Slots /\ (daemon \notin {"clear", "found", "restored"} => clearing = {})
        /\ signals \subseteq {"E", "F"}
    BY DEF Init
  <2> QED BY <1>2, <1>3, <2>1, <2>2, <2>3, <2>4 DEF Rest
<1> QED BY <1>1, <1>4, TypeSplit DEF Unique

LEMMA TypeStep == TypeOK /\ [Next]_vars => TypeOK'
<1>1. ASSUME TypeOK, UNCHANGED vars PROVE TypeOK'
  <2>1. bp_table' \in Table /\ code' \in Words /\ Unique'
    BY <1>1, TypeSplit DEF vars, dvars, Unique, Used
  <2>2. Rest'
    BY <1>1, TypeSplit DEF vars, dvars, gvars, Rest
  <2> QED BY <2>1, <2>2 DEF TypeOK, Rest, Table, Words, Unique
<1> QED BY <1>1, StepCases, ProgramType, DaemonType, HostType

-------------------------------------------------------------------------------
(* Who is attached.                                                        *)

\* What the program and its exceptions leave to the daemon.
LEMMA ProgramFrame ==
    ProgramStep => UNCHANGED <<attached, stopped, installed, daemon, clearing, commands, again, unseen>>
<1>1. ASSUME NEW a, Completed(a) PROVE UNCHANGED <<attached, stopped, installed>>
  BY <1>1 DEF Completed, Trace, dvars
<1>2. Execute \/ PauseEnds => UNCHANGED <<attached, stopped, installed, daemon, clearing, commands, again, unseen>>
  BY <1>1 DEF Execute, PauseEnds
<1>3. TrapHit \/ StubEnds => UNCHANGED <<attached, stopped, installed, daemon, clearing, commands, again, unseen>>
  BY DEF TrapHit, StubEnds, gvars
<1>4. TrapUnhandled \/ Pause \/ InitEnds
        => UNCHANGED <<attached, stopped, installed, daemon, clearing, commands, again, unseen>>
  BY DEF TrapUnhandled, Pause, InitEnds, dvars, gvars
<1> QED BY <1>2, <1>3, <1>4 DEF ProgramStep

LEMMA AttachmentStep == ASSUME TypeOK, Attachment, [Next]_vars PROVE Attachment'
<1>1. CASE ProgramStep
  BY <1>1, ProgramFrame DEF Attachment
<1>2. CASE DaemonStep
  <2>1. CASE Poll \/ GiveUp \/ DetachSignal \/ Forget \/ CleanupEnds
    BY <2>1 DEF Attachment, StepPhases, Poll, GiveUp, DetachSignal, Forget, CleanupEnds, handlers, dvars
  <2>2. CASE StepStep
    BY <2>2 DEF Attachment, StepPhases, StepStep, StepRestores, StepUnmarks, StepResumes,
                StepRequests, StepSignals, handlers, dvars
  <2> QED BY <1>2, <2>1, <2>2 DEF DaemonStep
<1>3. ASSUME NEW S, Clear(S) PROVE Attachment'
  BY <1>3 DEF Attachment, StepPhases, Clear, Command, TakeOut, handlers
<1>4. ASSUME NEW a, BpSet(a) PROVE Attachment'
  BY <1>4 DEF Attachment, BpSet, Command
<1>5. CASE Attach \/ Break \/ Continue \/ StepCommand
  BY <1>5 DEF Attachment, StepPhases, Attach, Break, Continue, StepCommand, Command, handlers, dvars
<1>6. CASE Detach \/ Cleanup
  BY <1>6 DEF Attachment, StepPhases, Detach, Cleanup, Command, handlers
<1>7. CASE UNCHANGED vars
  BY <1>7 DEF Attachment, vars, dvars
<1> QED BY <1>1, <1>2, <1>3, <1>4, <1>5, <1>6, <1>7, StepCases DEF HostStep

-------------------------------------------------------------------------------
(* The words in the code and the table of breakpoints.                     *)

ListedWords(C) ==
    \A a \in Addr : code[a] = "trap" => \E s \in SlotsAt(a) \ C : bp_table[s].enabled
Originals == \A s \in Used : bp_table[s].original = "op"

LEMMA ListedParts ==
    Listed <=> /\ \A s \in Used : bp_table[s].address \notin Polls
               /\ ~attached /\ daemon = "idle" => Used = {}
               /\ ~raced =>
                    /\ Originals
                    /\ daemon \in Active => ListedWords(Leaving)
                    /\ daemon \notin Active => \A a \in Addr : code[a] = "op"
BY DEF Listed, ListedWords, Originals

LEMMA ListedFrame ==
    ASSUME Listed, UNCHANGED <<bp_table, code, attached, daemon, clearing, raced>> PROVE Listed'
BY DEF Listed, Leaving, Used, SlotsAt

\* Breakpoints that are taken out of the code are no longer needed to explain it.
LEMMA ListedUnpatch ==
    ASSUME TypeOK, Listed, daemon = "idle", NEW S \in SUBSET Used,
           bp_table' = Unpatched(S), code' = UnpatchedCode(S)
    PROVE  /\ \A s \in Used' : bp_table'[s].address \notin Polls
           /\ Used' = Used
           /\ ~raced => /\ Originals'
                        /\ \A a \in Addr : code'[a] = "trap"
                              => \E s \in SlotsAt(a)' \ S : bp_table'[s].enabled
<1>1. bp_table \in Table /\ code \in Words /\ Unique
  BY TypeSplit
<1>2. /\ Used' = Used /\ bp_table' \in Table
      /\ \A a \in Addr : SlotsAt(a)' = SlotsAt(a)
      /\ \A s \in Slots : /\ bp_table'[s].address = bp_table[s].address
                          /\ bp_table'[s].original = bp_table[s].original
                          /\ s \notin S => bp_table'[s] = bp_table[s]
  BY <1>1, UnpatchedFacts, SameBreakpoints
<1>3. Used \subseteq Slots
  BY DEF Used
<1>4. ASSUME ~raced, NEW a \in Addr, code'[a] = "trap"
      PROVE  \E s \in SlotsAt(a)' \ S : bp_table'[s].enabled
  <2>1. \A s \in SlotsAt(a) : s \in Used /\ bp_table[s].original = "op"
    BY <1>4 DEF Listed, SlotsAt
  <2>2. code[a] = "trap" /\ \A s \in SlotsAt(a) \cap S : ~bp_table[s].enabled
    <3>1. \/ UnpatchedCode(S)[a] = code[a] /\ \A s \in SlotsAt(a) \cap S : ~bp_table[s].enabled
          \/ \E s \in SlotsAt(a) \cap S : /\ bp_table[s].enabled
                                        /\ UnpatchedCode(S)[a] = bp_table[s].original
      BY <1>1, UnpatchedFacts
    <3> QED BY <1>4, <2>1, <3>1
  <2>3. PICK s \in SlotsAt(a) \ Leaving : bp_table[s].enabled
    BY <1>4, <2>2 DEF Listed, Active
  <2>4. s \notin S
    BY <2>2, <2>3
  <2> QED BY <1>2, <1>3, <2>1, <2>3, <2>4
<1>5. ~raced => Originals'
  BY <1>2, <1>3 DEF Originals, Listed
<1>6. \A s \in Used' : bp_table'[s].address \notin Polls
  BY <1>2, <1>3 DEF Listed
<1> QED BY <1>2, <1>4, <1>5, <1>6

LEMMA ListedRepatch ==
    ASSUME TypeOK, Attachment, Listed, NEW a, Trace(a), UNCHANGED <<daemon, clearing>>
    PROVE  Listed'
<1>1. bp_table \in Table /\ code \in Words /\ Unique /\ Used \subseteq Slots
  BY TypeSplit DEF Used
<1>2. Repatch /\ attached /\ attached' = attached /\ raced' = (raced \/ Clearing)
  BY DEF Trace, Attachment
<1>3. /\ Used' = Used
      /\ \A b \in Addr : SlotsAt(b)' = SlotsAt(b)
      /\ \A s \in Used : bp_table'[s].enabled /\ bp_table'[s].original = bp_table[s].original
                         /\ bp_table'[s].address = bp_table[s].address
      /\ \A b \in Addr : code'[b] = "trap" => SlotsAt(b) # {} \/ code[b] = "trap"
  BY <1>1, <1>2, RepatchFacts
<1>4. ~raced' => daemon \in Active /\ Leaving = {} /\ Leaving' = {} /\ ~raced
  BY <1>2 DEF Clearing, Attachment, TypeOK, Active, Leaving
<1>5. ASSUME ~raced', NEW b \in Addr, code'[b] = "trap"
      PROVE  \E s \in SlotsAt(b)' \ Leaving' : bp_table'[s].enabled
  <2>1. SlotsAt(b) # {}
    BY <1>3, <1>4, <1>5 DEF Listed
  <2> QED BY <1>3, <1>4, <1>5, <2>1 DEF SlotsAt
<1>6. ~raced' => Originals'
  BY <1>3, <1>4 DEF Originals, Listed
<1>7. ~raced' => ListedWords(Leaving)' /\ daemon' \in Active
  BY <1>4, <1>5 DEF ListedWords
<1>8. \A s \in Used' : bp_table'[s].address \notin Polls
  BY <1>3 DEF Listed
<1> QED BY <1>2, <1>6, <1>7, <1>8 DEF Listed, ListedWords, Originals

LEMMA ListedTrapHit == ASSUME TypeOK, Counters, Listed, TrapHit PROVE Listed'
<1> DEFINE a == target.pc
           hit == SlotsAt(a)
<1>1. /\ bp_table \in Table /\ code \in Words /\ Unique /\ Used \subseteq Slots
      /\ hit \in SUBSET Used /\ a \in 0..Size
  BY TypeSplit, TypeParts DEF Used, SlotsAt
<1>2. /\ bp_table' = Unpatched(hit)
      /\ UNCHANGED <<attached, daemon>> /\ Leaving' = Leaving
      /\ ~raced' => ~raced
      /\ code[a] = "trap"
      /\ hit # {} => \E s \in hit : code' = [code EXCEPT ![a] = bp_table[s].original]
  BY DEF TrapHit, Leaving
<1>3. /\ Used' = Used
      /\ \A b \in Addr : SlotsAt(b)' = SlotsAt(b)
      /\ \A s \in Slots : /\ bp_table'[s].address = bp_table[s].address
                          /\ bp_table'[s].original = bp_table[s].original
                          /\ s \notin hit => bp_table'[s] = bp_table[s]
  BY <1>1, <1>2, UnpatchedFacts, SameBreakpoints
<1>4. ASSUME ~raced'
      PROVE  daemon \in Active /\ Originals' /\ ListedWords(Leaving)'
  <2>1. Originals /\ Originals'
    BY <1>1, <1>2, <1>3, <1>4 DEF Originals, Listed
  <2>2. daemon \in Active /\ a \in Addr
    <3>1. a \in Addr
      BY DEF Counters
    <3> QED BY <1>2, <1>4, <3>1 DEF Listed
  <2>3. hit # {}
    BY <1>2, <1>4, <2>2 DEF Listed
  <2>4. code' = [code EXCEPT ![a] = "op"]
    BY <1>1, <1>2, <2>1, <2>3 DEF Originals
  <2>5. ASSUME NEW b \in Addr, code'[b] = "trap"
        PROVE  \E s \in SlotsAt(b)' \ Leaving' : bp_table'[s].enabled
    <3>1. b # a /\ code[b] = "trap"
      BY <1>1, <2>2, <2>4, <2>5 DEF Words
    <3>2. PICK s \in SlotsAt(b) \ Leaving : bp_table[s].enabled
      BY <1>2, <1>4, <2>2, <3>1 DEF Listed
    <3>3. s \notin hit /\ s \in Slots
      BY <3>1, <3>2 DEF SlotsAt, Used
    <3> QED BY <1>2, <1>3, <3>2, <3>3
  <2> QED BY <2>1, <2>2, <2>5 DEF ListedWords
<1>5. \A s \in Used' : bp_table'[s].address \notin Polls
  BY <1>1, <1>3 DEF Listed
<1> QED BY <1>2, <1>3, <1>4, <1>5 DEF Listed, ListedWords, Originals

LEMMA ListedGiveUp == ASSUME TypeOK, Attachment, Listed, GiveUp PROVE Listed'
<1>1. /\ daemon = "clear" /\ daemon' = "idle" /\ clearing' = {} /\ attached /\ attached'
      /\ bp_table' = [s \in Slots |-> IF s \in clearing THEN Free ELSE bp_table[s]]
      /\ UNCHANGED <<code, raced>>
  BY DEF GiveUp, Attachment, gvars
<1>2. \A s \in Used' : s \in Used /\ bp_table'[s] = bp_table[s]
  BY <1>1 DEF Used, Free
<1>3. \A a \in Addr : \A s \in SlotsAt(a) \ clearing : s \in SlotsAt(a)' /\ bp_table'[s] = bp_table[s]
  BY <1>1 DEF SlotsAt, Used
<1>4. ~raced => Originals' /\ ListedWords(Leaving)'
  BY <1>1, <1>2, <1>3 DEF Listed, Active, Leaving, Originals, ListedWords
<1> QED BY <1>1, <1>2, <1>4 DEF Listed, Active, ListedWords, Originals

LEMMA ListedBpSet ==
    ASSUME TypeOK, Listed, NEW a \in Addr \ Polls, BpSet(a)
    PROVE  Listed'
<1>1. bp_table \in Table /\ code \in Words
  BY TypeSplit
<1>2. /\ daemon = "idle" /\ attached /\ SlotsAt(a) = {}
      /\ code' = [code EXCEPT ![a] = "trap"]
      /\ UNCHANGED <<daemon, attached, clearing, raced>>
  BY DEF BpSet, Command, gvars
<1>3. PICK s \in Slots \ Used :
         bp_table' = [bp_table EXCEPT ![s] = [used |-> TRUE, enabled |-> TRUE,
                                              address |-> a, original |-> code[a]]]
  BY DEF BpSet
<1>4. /\ bp_table'[s].used /\ bp_table'[s].enabled /\ bp_table'[s].address = a
      /\ bp_table'[s].original = code[a]
      /\ \A r \in Slots : r # s => bp_table'[r] = bp_table[r]
      /\ Used' = Used \cup {s}
  BY <1>1, <1>3 DEF Table, Used
<1>5. s \in SlotsAt(a)' /\ \A b \in Addr : SlotsAt(b) \subseteq SlotsAt(b)'
  BY <1>4 DEF SlotsAt, Used
<1>6. ASSUME ~raced PROVE Originals' /\ ListedWords(Leaving)'
  <2>1. code[a] # "trap"
    BY <1>2, <1>6 DEF Listed, Active
  <2>2. code[a] = "op"
    BY <1>1, <2>1 DEF Words
  <2>3. Originals'
    BY <1>4, <1>6, <2>2 DEF Originals, Listed, Used
  <2>4. Leaving = {} /\ Leaving' = {}
    BY <1>2 DEF Leaving
  <2>5. ASSUME NEW b \in Addr, code'[b] = "trap"
        PROVE  \E r \in SlotsAt(b)' \ Leaving' : bp_table'[r].enabled
    <3>1. CASE b = a
      BY <1>2, <1>4, <1>5, <2>4, <3>1
    <3>2. CASE b # a
      <4>1. code[b] = "trap"
        BY <1>1, <1>2, <2>5, <3>2 DEF Words
      <4>2. PICK r \in SlotsAt(b) \ Leaving : bp_table[r].enabled
        BY <1>2, <1>6, <4>1 DEF Listed, Active
      <4>3. r # s /\ r \in Slots
        BY <4>2 DEF SlotsAt, Used
      <4> QED BY <1>2, <1>4, <1>5, <2>4, <4>2, <4>3
    <3> QED BY <3>1, <3>2
  <2> QED BY <2>3, <2>5 DEF ListedWords
<1>7. \A r \in Used' : bp_table'[r].address \notin Polls
  BY <1>4 DEF Listed, Used
<1> QED BY <1>2, <1>6, <1>7 DEF Listed, Active, ListedWords, Originals

\* The step command lets go of its breakpoint word first, mark second.
LEMMA ListedSteps == ASSUME TypeOK, Attachment, Listed, StepStep PROVE Listed'
<1>1. bp_table \in Table /\ code \in Words /\ Unique /\ Used \subseteq Slots /\ attached
  BY TypeSplit DEF Used, Attachment, StepStep, StepPhases, StepRestores, StepUnmarks,
                   StepResumes, StepRequests, StepSignals
<1>2. CASE StepRestores
  <2>1. /\ daemon = "found" /\ daemon' = "restored" /\ code' = UnpatchedCode(clearing)
        /\ clearing' = {s \in clearing : bp_table[s].enabled}
        /\ UNCHANGED <<bp_table, attached, raced>>
    BY <1>2 DEF StepRestores, dvars, gvars
  <2>2. Used' = Used /\ \A a \in Addr : SlotsAt(a)' = SlotsAt(a)
    BY <2>1 DEF Used, SlotsAt
  <2>3. Leaving = {} /\ Leaving' = clearing' /\ daemon \in Active /\ daemon' \in Active
    BY <2>1 DEF Leaving, Active, StepPhases
  <2>4. ASSUME ~raced, NEW a \in Addr, code'[a] = "trap"
        PROVE  \E s \in SlotsAt(a)' \ Leaving' : bp_table'[s].enabled
    <3>1. \/ code'[a] = code[a] /\ \A s \in SlotsAt(a) \cap clearing : ~bp_table[s].enabled
          \/ \E s \in SlotsAt(a) \cap clearing : code'[a] = bp_table[s].original
      BY <1>1, <2>1, RestoredFacts
    <3>2. \A s \in SlotsAt(a) : bp_table[s].original = "op"
      BY <2>4 DEF Listed, SlotsAt
    <3>3. code[a] = "trap" /\ \A s \in SlotsAt(a) \cap clearing : ~bp_table[s].enabled
      BY <2>4, <3>1, <3>2
    <3>4. PICK s \in SlotsAt(a) \ Leaving : bp_table[s].enabled
      BY <2>3, <2>4, <3>3 DEF Listed
    <3> QED BY <2>1, <2>2, <2>3, <3>4, <3>3
  <2> QED BY <1>1, <2>1, <2>2, <2>3, <2>4 DEF Listed
<1>3. CASE StepUnmarks
  <2>1. /\ daemon = "restored" /\ daemon' = "unmarked" /\ bp_table' = Unpatched(clearing)
        /\ UNCHANGED <<code, attached, raced>>
    BY <1>3 DEF StepUnmarks, gvars
  <2>2. /\ Used' = Used /\ \A a \in Addr : SlotsAt(a)' = SlotsAt(a)
        /\ \A s \in Slots : /\ bp_table'[s].address = bp_table[s].address
                            /\ bp_table'[s].original = bp_table[s].original
                            /\ s \notin clearing => bp_table'[s] = bp_table[s]
    BY <1>1, <2>1, UnmarkedFacts, SameBreakpoints
  <2>3. Leaving = clearing /\ Leaving' = {} /\ daemon \in Active /\ daemon' \in Active
    BY <2>1 DEF Leaving, Active, StepPhases
  <2>4. ASSUME ~raced, NEW a \in Addr, code'[a] = "trap"
        PROVE  \E s \in SlotsAt(a)' \ Leaving' : bp_table'[s].enabled
    <3>1. PICK s \in SlotsAt(a) \ Leaving : bp_table[s].enabled
      BY <2>1, <2>3, <2>4 DEF Listed
    <3> QED BY <1>1, <2>2, <2>3, <3>1 DEF SlotsAt
  <2>5. (~raced => Originals') /\ \A s \in Used' : bp_table'[s].address \notin Polls
    BY <1>1, <2>2 DEF Originals, Listed
  <2> QED BY <1>1, <2>1, <2>3, <2>4, <2>5 DEF Listed, Originals
<1>4. CASE StepResumes \/ StepRequests \/ StepSignals
  <2>1. /\ UNCHANGED <<bp_table, code, attached, raced>>
        /\ daemon \in Active /\ daemon' \in Active /\ Leaving = {} /\ Leaving' = {}
    BY <1>4 DEF StepResumes, StepRequests, StepSignals, gvars, Active, StepPhases, Leaving
  <2> QED BY <1>1, <2>1 DEF Listed, Used, SlotsAt
<1> QED BY <1>2, <1>3, <1>4 DEF StepStep

LEMMA ListedStep ==
    ASSUME TypeOK, Attachment, Counters, Listed, [Next]_vars PROVE Listed'
<1>1. CASE ProgramStep
  <2>1. ASSUME NEW a, Completed(a), UNCHANGED <<daemon, clearing>> PROVE Listed'
    <3>1. CASE UNCHANGED <<dvars, code, raced>>
      BY <2>1, <3>1, ListedFrame DEF dvars
    <3>2. CASE Trace(a)
      BY <2>1, <3>2, ListedRepatch
    <3> QED BY <2>1, <3>1, <3>2 DEF Completed
  <2>2. CASE TrapHit
    BY <2>2, ListedTrapHit
  <2>3. CASE Execute \/ PauseEnds
    BY <2>1, <2>3 DEF Execute, PauseEnds
  <2>4. CASE TrapUnhandled \/ Pause \/ InitEnds
    BY <2>4, ListedFrame DEF TrapUnhandled, Pause, InitEnds, dvars, gvars
  <2>5. CASE StubEnds
    BY <2>5, ListedFrame DEF StubEnds, gvars
  <2> QED BY <1>1, <2>2, <2>3, <2>4, <2>5 DEF ProgramStep
<1>2. CASE DaemonStep
  <2>1. CASE Poll
    BY <2>1, ListedFrame DEF Poll, gvars
  <2>2. CASE GiveUp
    BY <2>2, ListedGiveUp
  <2>3. CASE DetachSignal
    <3>1. /\ UNCHANGED <<bp_table, code, raced, attached, clearing>>
          /\ daemon = "detach" /\ daemon' = "detached"
      BY <2>3 DEF DetachSignal, dvars, gvars
    <3> QED BY <3>1 DEF Listed, Active, StepPhases, Used, SlotsAt
  <2>4. CASE Forget
    <3>1. /\ Used' = {} /\ daemon = "detached" /\ daemon' = "idle" /\ code' = code
          /\ ~raced' => ~raced
      BY <2>4 DEF Forget, NoBreakpoints, Free, Used
    <3>2. ~raced' => \A a \in Addr : code'[a] = "op"
      BY <3>1 DEF Listed, Active, StepPhases
    <3> QED BY <3>1, <3>2 DEF Listed, Active
  <2>5. CASE CleanupEnds
    <3>1. /\ daemon = "cleanup" /\ daemon' = "gone" /\ UNCHANGED <<code, bp_table>>
          /\ ~raced' => ~raced
      BY <2>5 DEF CleanupEnds
    <3> QED BY <3>1 DEF Listed, Active, StepPhases, Used, SlotsAt
  <2> QED BY <1>2, <2>1, <2>2, <2>3, <2>4, <2>5, ListedSteps DEF DaemonStep
<1>3. CASE Attach
  <2>1. /\ daemon = "idle" /\ ~attached /\ daemon' = "idle" /\ attached' /\ Used' = {}
        /\ UNCHANGED <<code, raced>>
    BY <1>3 DEF Attach, Command, NoBreakpoints, Free, Used, gvars
  <2>2. ASSUME ~raced, NEW a \in Addr PROVE code[a] # "trap"
    BY <2>1, <2>2 DEF Listed, Active, SlotsAt
  <2> QED BY <2>1, <2>2 DEF Listed, Active
<1>4. CASE Break \/ Continue
  BY <1>4, ListedFrame DEF Break, Continue, Command, handlers, gvars
<1>5. CASE StepCommand
  <2>1. /\ UNCHANGED <<bp_table, code, attached, raced>> /\ attached
        /\ daemon \in Active /\ daemon' \in Active /\ Leaving = {} /\ Leaving' = {}
    BY <1>5 DEF StepCommand, Command, dvars, gvars, Active, StepPhases, Leaving
  <2> QED BY <2>1 DEF Listed, Used, SlotsAt
<1>6. CASE Detach \/ Cleanup
  <2>1. /\ Used \in SUBSET Used /\ bp_table' = Unpatched(Used) /\ code' = UnpatchedCode(Used)
        /\ daemon = "idle" /\ attached /\ UNCHANGED <<attached, clearing, raced>>
        /\ daemon' \in {"detach", "detached", "cleanup"}
    BY <1>6 DEF Detach, Cleanup, Command
  <2>2. /\ \A s \in Used' : bp_table'[s].address \notin Polls
        /\ Used' = Used
        /\ ~raced => /\ Originals'
                     /\ \A a \in Addr : code'[a] = "trap"
                           => \E s \in SlotsAt(a)' \ Used : bp_table'[s].enabled
    BY <2>1, ListedUnpatch
  <2>3. code' \in Words
    BY <2>1, UnpatchedFacts, TypeSplit
  <2>4. ~raced => \A a \in Addr : code'[a] = "op"
    BY <2>2, <2>3 DEF Words, SlotsAt
  <2> QED BY <2>1, <2>2, <2>4 DEF Listed, Active, StepPhases, Originals
<1>7. ASSUME NEW S \in SUBSET Used, Clear(S) PROVE Listed'
  <2>1. /\ bp_table' = Unpatched(S) /\ code' = UnpatchedCode(S)
        /\ daemon = "idle" /\ attached /\ UNCHANGED <<attached, raced>>
        /\ daemon' = "clear" /\ clearing' = S
    BY <1>7 DEF Clear, TakeOut, Command, gvars
  <2>2. /\ \A s \in Used' : bp_table'[s].address \notin Polls
        /\ ~raced => /\ Originals'
                     /\ \A a \in Addr : code'[a] = "trap"
                           => \E s \in SlotsAt(a)' \ S : bp_table'[s].enabled
    BY <2>1, ListedUnpatch
  <2> QED BY <2>1, <2>2 DEF Listed, Active, Leaving, Originals
<1>8. CASE UNCHANGED vars
  BY <1>8, ListedFrame DEF vars, dvars, gvars
<1> QED BY <1>1, <1>2, <1>3, <1>4, <1>5, <1>6, <1>7, <1>8, StepCases, ListedBpSet DEF HostStep

-------------------------------------------------------------------------------
(* The program counter.                                                    *)

\* What a completed instruction leads to, in the words of the handlers.
LEMMA CompletedCases ==
    ASSUME TypeOK, NEW a \in Addr, Completed(a)
    PROVE  \/ /\ ~target.traced /\ target' = [pc |-> a, mode |-> "run", traced |-> FALSE]
              /\ UNCHANGED <<dvars, code, raced>>
           \/ /\ target.traced /\ target' = [pc |-> a, mode |-> "crashed", traced |-> FALSE]
              /\ UNCHANGED <<dvars, code, raced>>
           \/ /\ target.traced /\ installed
              /\ target' = [pc |-> a, mode |-> "stub", traced |-> FALSE]
              /\ resume_pc' = a
              /\ step_mode = 2 => trap_pc' = a /\ trap_hit'
              /\ step_mode # 2 => trap_pc' = trap_pc /\ trap_hit' = trap_hit
              /\ raced' = (raced \/ Clearing)
              /\ UNCHANGED <<attached, stopped, step_request>>
BY DEF Completed, Trace, Runs, TypeOK

\* The daemon's steps leave the program where it is.
Undisturbed ==
    /\ UNCHANGED <<target, due, step_mode, trap_pc>>
    /\ trap_hit' => trap_hit
    /\ raced => raced'
    /\ again => again'

LEMMA HostFrame == ASSUME TypeOK PROVE DaemonStep \/ HostStep => Undisturbed
<1>0. raced \in BOOLEAN /\ again \in BOOLEAN
  BY DEF TypeOK
<1>1. Poll \/ GiveUp \/ DetachSignal => Undisturbed
  <2>1. Poll => Undisturbed
    BY DEF Poll, gvars, Undisturbed
  <2>2. GiveUp => Undisturbed
    BY DEF GiveUp, handlers, gvars, Undisturbed
  <2>3. DetachSignal => Undisturbed
    BY DEF DetachSignal, dvars, gvars, Undisturbed
  <2> QED BY <2>1, <2>2, <2>3
<1>2. Forget \/ CleanupEnds => Undisturbed
  <2>1. Forget => Undisturbed
    BY <1>0 DEF Forget, Undisturbed
  <2>2. CleanupEnds => Undisturbed
    BY <1>0 DEF CleanupEnds, Undisturbed
  <2> QED BY <2>1, <2>2
<1>3. Attach \/ Break \/ Continue \/ StepCommand => Undisturbed
  <2>1. Attach => Undisturbed
    BY DEF Attach, gvars, Undisturbed
  <2>2. Break \/ Continue => Undisturbed
    BY DEF Break, Continue, handlers, gvars, Undisturbed
  <2>3. StepCommand => Undisturbed
    BY DEF StepCommand, dvars, gvars, Undisturbed
  <2> QED BY <2>1, <2>2, <2>3
<1>4. Detach \/ Cleanup => Undisturbed
  <2>1. Cleanup => Undisturbed
    BY DEF Cleanup, handlers, Undisturbed
  <2>2. Detach => Undisturbed
    BY DEF Detach, Undisturbed
  <2> QED BY <2>1, <2>2
<1>5. ASSUME NEW S, Clear(S) PROVE Undisturbed
  BY <1>5 DEF Clear, TakeOut, handlers, gvars, Undisturbed
<1>6. ASSUME NEW a, BpSet(a) PROVE Undisturbed
  BY <1>6 DEF BpSet, gvars, Undisturbed
<1>7. StepStep => Undisturbed
  <2>1. StepRestores \/ StepUnmarks => Undisturbed
    BY DEF StepRestores, StepUnmarks, dvars, handlers, gvars, Undisturbed
  <2>2. StepResumes => Undisturbed
    BY <1>0 DEF StepResumes, Undisturbed
  <2>3. StepRequests \/ StepSignals => Undisturbed
    BY DEF StepRequests, StepSignals, handlers, gvars, Undisturbed
  <2> QED BY <2>1, <2>2, <2>3 DEF StepStep
<1> QED BY <1>1, <1>2, <1>3, <1>4, <1>5, <1>6, <1>7 DEF HostStep, DaemonStep

\* A step command goes back to the reported instruction; no other sets resume_pc.
LEMMA ResumeFrame ==
    DaemonStep \/ HostStep => resume_pc' = resume_pc \/ (StepResumes /\ resume_pc' = trap_pc)
<1>1. Poll \/ GiveUp \/ DetachSignal \/ Forget \/ CleanupEnds => resume_pc' = resume_pc
  BY DEF Poll, GiveUp, DetachSignal, Forget, CleanupEnds, handlers, dvars
<1>2. Attach \/ Break \/ Continue \/ StepCommand \/ Detach \/ Cleanup => resume_pc' = resume_pc
  BY DEF Attach, Break, Continue, StepCommand, Detach, Cleanup, handlers, dvars
<1>3. ASSUME NEW S, Clear(S) PROVE resume_pc' = resume_pc
  BY <1>3 DEF Clear, TakeOut, handlers
<1>4. ASSUME NEW a, BpSet(a) PROVE resume_pc' = resume_pc
  BY <1>4 DEF BpSet
<1>5. StepStep => resume_pc' = resume_pc \/ (StepResumes /\ resume_pc' = trap_pc)
  BY DEF StepStep, StepRestores, StepUnmarks, StepResumes, StepRequests, StepSignals, handlers, dvars
<1> QED BY <1>1, <1>2, <1>3, <1>4, <1>5 DEF HostStep, DaemonStep

LEMMA CountersStep == ASSUME TypeOK, Counters, [Next]_vars PROVE Counters'
<1>1. CASE ProgramStep
  <2>1. ASSUME NEW a \in Addr, Completed(a) PROVE Counters'
    <3>1. CASE UNCHANGED <<dvars, code, raced>> /\ target'.mode # "stub" /\ ~target'.traced
               /\ target'.pc = a
      BY <2>1, <3>1 DEF Counters, dvars
    <3>2. CASE /\ target.traced /\ target' = [pc |-> a, mode |-> "stub", traced |-> FALSE]
               /\ resume_pc' = a
               /\ step_mode = 2 => trap_pc' = a /\ trap_hit'
               /\ step_mode # 2 => trap_pc' = trap_pc /\ trap_hit' = trap_hit
      BY <2>1, <3>2 DEF Counters
    <3> QED BY <2>1, <3>1, <3>2, CompletedCases
  <2>2. NextOf(target.pc) \in Addr
    BY TypeParts, NextOfType
  <2>3. CASE Execute \/ PauseEnds
    BY <2>1, <2>2, <2>3 DEF Execute, PauseEnds
  <2>4. CASE TrapHit
    <3>1. /\ trap_pc' = (IF trap_hit THEN trap_pc ELSE target.pc)
          /\ target'.pc = target.pc /\ target'.mode = "run"
      BY <2>4 DEF TrapHit, TypeOK
    <3> QED BY <3>1 DEF Counters
  <2>5. CASE TrapUnhandled \/ Pause
    <3>1. /\ UNCHANGED <<trap_hit, trap_pc, resume_pc>> /\ target'.pc = target.pc
          /\ target'.traced = target.traced /\ target'.mode # "stub"
      BY <2>5 DEF TrapUnhandled, Pause, dvars, TypeOK
    <3> QED BY <3>1 DEF Counters
  <2>6. CASE InitEnds
    BY <2>6 DEF InitEnds, Runs, dvars, Counters
  <2>7. CASE StubEnds
    <3>1. trap_pc' = trap_pc /\ trap_pc \in Addr /\ target.pc \in Addr /\ resume_pc \in Addr
      BY <2>7 DEF StubEnds, Counters
    <3>2. CASE target' = Runs(resume_pc, FALSE)
      BY <3>1, <3>2 DEF Runs, Counters
    <3>3. CASE target' = Runs(resume_pc, TRUE)
      BY <3>1, <3>3 DEF Runs, Counters
    <3>4. CASE target' = [target EXCEPT !.mode = "crashed"]
      BY <3>1, <3>4 DEF Counters, TypeOK
    <3> QED BY <2>7, <3>2, <3>3, <3>4 DEF StubEnds
  <2> QED BY <1>1, <2>3, <2>4, <2>5, <2>6, <2>7 DEF ProgramStep
<1>2. CASE DaemonStep \/ HostStep
  BY <1>2, HostFrame, ResumeFrame DEF Counters, Undisturbed
<1>3. CASE UNCHANGED vars
  BY <1>3 DEF vars, dvars, Counters
<1> QED BY <1>1, <1>2, <1>3, StepCases

LEMMA RightStep == ASSUME TypeOK, CounterIsRight, [Next]_vars PROVE CounterIsRight'
<1>1. CASE ProgramStep
  <2>1. ASSUME NEW a \in Addr, Completed(a), due' = a PROVE CounterIsRight'
    BY <2>1, CompletedCases DEF CounterIsRight
  <2>2. NextOf(target.pc) \in Addr
    BY TypeParts, NextOfType
  <2>3. CASE Execute \/ PauseEnds
    BY <2>1, <2>2, <2>3 DEF Execute, PauseEnds
  <2>4. CASE TrapHit \/ TrapUnhandled \/ Pause
    <3>1. /\ target.mode = "run" /\ target'.pc = target.pc /\ target'.mode # "stub"
          /\ UNCHANGED <<due, again>> /\ (raced => raced')
      BY <2>4 DEF TrapHit, TrapUnhandled, Pause, gvars, TypeOK
    <3> QED BY <3>1 DEF CounterIsRight
  <2>5. CASE InitEnds
    BY <2>5 DEF InitEnds, Runs, gvars, CounterIsRight
  <2>6. CASE StubEnds
    <3>1. UNCHANGED <<due, again, raced>> /\ target.mode = "stub"
      BY <2>6 DEF StubEnds, gvars
    <3>2. CASE target' = Runs(resume_pc, FALSE)
      BY <3>1, <3>2 DEF Runs, CounterIsRight
    <3>3. CASE target' = Runs(resume_pc, TRUE)
      BY <3>1, <3>3 DEF Runs, CounterIsRight
    <3>4. CASE target' = [target EXCEPT !.mode = "crashed"]
      <4>1. target'.mode = "crashed"
        BY <3>4 DEF TypeOK
      <4> QED BY <4>1 DEF CounterIsRight
    <3> QED BY <2>6, <3>2, <3>3, <3>4 DEF StubEnds
  <2> QED BY <1>1, <2>3, <2>4, <2>5, <2>6 DEF ProgramStep
<1>2. CASE DaemonStep \/ HostStep
  <2>1. StepResumes => again' = (again \/ trap_pc # due)
    BY DEF StepResumes
  <2> QED BY <1>2, <2>1, HostFrame, ResumeFrame DEF CounterIsRight, Undisturbed
<1>3. CASE UNCHANGED vars
  BY <1>3 DEF vars, dvars, gvars, CounterIsRight
<1> QED BY <1>1, <1>2, <1>3, StepCases

-------------------------------------------------------------------------------
(* The trace bit, and whether a stop is known.                             *)

\* Breakpoints are not set on calls of ab_poll.
LEMMA TrapIsNoPoll ==
    ASSUME Counters, Listed, TrapHit, ~raced
    PROVE  target.pc \notin Polls
<1>1. target.pc \in Addr /\ code[target.pc] = "trap"
  BY DEF Counters, TrapHit
<1>2. daemon \in Active
  BY <1>1 DEF Listed
<1>3. PICK s \in SlotsAt(target.pc) : TRUE
  BY <1>1, <1>2 DEF Listed
<1> QED BY <1>3 DEF SlotsAt, Listed

LEMMA TracedStep ==
    ASSUME TypeOK, Attachment, Counters, Listed, Traced, [Next]_vars
    PROVE  Traced'
<1>0. NextOf(target.pc) \in Addr
  BY TypeParts, NextOfType
<1>1. CASE ProgramStep
  <2>0. UNCHANGED <<attached, installed>>
    BY <1>1, ProgramFrame
  <2>1. ASSUME NEW a \in Addr, Completed(a) PROVE Traced'
    <3>1. ~target'.traced
      BY <2>1, CompletedCases
    <3>2. target'.mode = "stub" => installed
      BY <2>1, CompletedCases
    <3> QED BY <2>0, <3>1, <3>2 DEF Traced, Attachment
  <2>2. CASE Execute \/ PauseEnds
    BY <1>0, <2>1, <2>2 DEF Execute, PauseEnds
  <2>3. CASE TrapHit
    <3>1. /\ target'.mode = "run" /\ target'.pc = target.pc /\ installed
          /\ ~raced' => ~raced
      BY <2>3 DEF TrapHit, TypeOK
    <3>2. ~raced' => target.pc \notin Polls
      BY <2>3, <3>1, TrapIsNoPoll
    <3> QED BY <2>0, <3>1, <3>2 DEF Traced, Attachment
  <2>4. CASE TrapUnhandled
    <3>1. target'.mode = "crashed" /\ target'.traced = target.traced /\ raced' = raced
      BY <2>4 DEF TrapUnhandled, TypeOK, gvars
    <3> QED BY <2>0, <3>1 DEF Traced
  <2>5. CASE Pause
    <3>1. /\ target.mode = "run" /\ target.pc \in Polls /\ target'.mode = "polled"
          /\ target'.traced = target.traced /\ UNCHANGED <<raced, step_mode>>
      BY <2>5 DEF Pause, TypeOK, gvars, dvars
    <3> QED BY <2>0, <3>1 DEF Traced
  <2>6. CASE InitEnds
    <3>1. ~target'.traced /\ target'.mode = "run" /\ raced' = raced
      BY <2>6 DEF InitEnds, Runs, gvars
    <3> QED BY <3>1 DEF Traced
  <2>7. CASE StubEnds
    <3>1. raced' = raced /\ target.mode = "stub"
      BY <2>7 DEF StubEnds, gvars
    <3>2. CASE target' = Runs(resume_pc, FALSE)
      BY <3>2 DEF Runs, Traced
    <3>3. CASE step_request /\ target' = Runs(resume_pc, TRUE) /\ step_mode' = 2
      <4>1. target'.mode = "run" /\ target'.traced
        BY <3>3 DEF Runs
      <4> QED BY <2>0, <3>1, <3>3, <4>1 DEF Traced
    <3>4. CASE target' = [target EXCEPT !.mode = "crashed"]
      <4>1. target'.mode = "crashed" /\ target'.traced = target.traced
        BY <3>4 DEF TypeOK
      <4> QED BY <2>0, <3>1, <4>1 DEF Traced
    <3> QED BY <2>7, <3>2, <3>3, <3>4 DEF StubEnds
  <2> QED BY <1>1, <2>2, <2>3, <2>4, <2>5, <2>6, <2>7 DEF ProgramStep
<1>2. CASE DaemonStep \/ HostStep
  <2>1. /\ target' = target /\ step_mode' = step_mode /\ (raced => raced')
    BY <1>2, HostFrame DEF Undisturbed
  <2>2. ~attached' /\ ~raced' => ~target.traced /\ ~(target.mode = "stub" /\ step_request')
    <3>1. CASE Forget \/ CleanupEnds
      <4>1. raced' = (raced \/ NeedsHandlers) /\ step_request' = step_request
        BY <3>1 DEF Forget, CleanupEnds
      <4>2. ~raced' => ~NeedsHandlers
        BY <4>1
      <4> QED BY <4>1, <4>2 DEF NeedsHandlers
    <3>2. CASE Poll \/ GiveUp \/ DetachSignal
      BY <2>1, <3>2 DEF Poll, GiveUp, DetachSignal, handlers, dvars, Traced
    <3>3. HostStep => attached'
      <4>1. Attach \/ Break \/ Continue \/ StepCommand \/ Detach \/ Cleanup => attached'
        <5>1. Attach => attached'
          BY DEF Attach
        <5>2. Break => attached'
          BY DEF Break
        <5>3. Continue => attached'
          BY DEF Continue
        <5>4. StepCommand => attached'
          BY DEF StepCommand, dvars
        <5>5. Detach => attached'
          BY DEF Detach
        <5>6. Cleanup => attached'
          BY DEF Cleanup
        <5> QED BY <5>1, <5>2, <5>3, <5>4, <5>5, <5>6
      <4>2. ASSUME NEW S, Clear(S) PROVE attached'
        BY <4>2 DEF Clear, TakeOut
      <4>3. ASSUME NEW a, BpSet(a) PROVE attached'
        BY <4>3 DEF BpSet
      <4> QED BY <4>1, <4>2, <4>3 DEF HostStep
    <3>4. StepStep => attached'
      BY AttachmentStep DEF StepStep, StepRestores, StepUnmarks, StepResumes, StepRequests,
                            StepSignals, Attachment, StepPhases, handlers, dvars
    <3> QED BY <1>2, <3>1, <3>2, <3>3, <3>4 DEF DaemonStep
  <2> QED BY <2>1, <2>2 DEF Traced
<1>3. CASE UNCHANGED vars
  BY <1>3 DEF vars, dvars, gvars, Traced
<1> QED BY <1>1, <1>2, <1>3, StepCases

LEMMA KnownProgram ==
    ASSUME TypeOK, Attachment, Counters, Listed, Traced, Known, ProgramStep
    PROVE  Known'
<1>0. /\ NextOf(target.pc) \in Addr
      /\ UNCHANGED <<attached, stopped, installed, daemon, unseen>>
  BY TypeParts, NextOfType, ProgramFrame
<1>1. ASSUME NEW a \in Addr, Completed(a), target.mode \in {"run", "polled"},
             ~raced /\ target.traced /\ step_mode # 2
               => ("F" \in signals => "F" \in signals')
      PROVE  Known'
  <2>1. CASE target'.mode # "stub" /\ ~target'.traced
    BY <2>1 DEF Known
  <2>2. CASE /\ target.traced /\ installed
             /\ target' = [pc |-> a, mode |-> "stub", traced |-> FALSE]
             /\ step_mode = 2 => trap_hit'
             /\ step_mode # 2 => trap_hit' = trap_hit
             /\ raced' = (raced \/ Clearing)
    <3>1. attached
      BY <2>2 DEF Attachment
    <3>2. ~raced' => ~raced /\ daemon \in Active
      BY <2>2, <3>1 DEF Clearing, Attachment, TypeOK, Active
    <3>3. ~raced' => stopped \/ trap_hit' \/ "F" \in signals'
      BY <1>1, <2>2, <3>1, <3>2 DEF Known
    <3> QED BY <1>0, <3>1, <3>2, <3>3 DEF Known, Active, StepPhases
  <2> QED BY <1>1, <2>1, <2>2, CompletedCases
<1>2. CASE Execute
  <2>1. target.pc \notin Polls => signals' = signals
    BY <1>2 DEF Execute
  <2>2. ~raced /\ target.traced /\ step_mode # 2 => target.pc \notin Polls
    BY <1>2 DEF Traced, Execute
  <2> QED BY <1>0, <1>1, <1>2, <2>1, <2>2 DEF Execute
<1>3. CASE PauseEnds
  <2>1. ~(~raced /\ target.traced /\ step_mode # 2)
    BY <1>3 DEF Traced, PauseEnds
  <2> QED BY <1>0, <1>1, <1>3, <2>1 DEF PauseEnds
<1>4. CASE TrapHit
  <2>1. target'.mode = "run" /\ trap_hit'
    BY <1>4 DEF TrapHit, TypeOK
  <2> QED BY <2>1 DEF Known
<1>5. CASE TrapUnhandled
  <2>1. /\ target'.mode = "crashed" /\ target'.traced = target.traced
        /\ UNCHANGED <<raced, step_mode, trap_hit, signals>>
    BY <1>5 DEF TrapUnhandled, TypeOK, gvars, dvars
  <2> QED BY <1>0, <2>1 DEF Known
<1>6. CASE Pause
  <2>1. /\ target.mode = "run" /\ target.pc \in Polls /\ target'.mode = "polled"
        /\ target'.traced = target.traced /\ UNCHANGED <<raced, step_mode>>
    BY <1>6 DEF Pause, TypeOK, gvars, dvars
  <2> QED BY <2>1 DEF Traced, Known
<1>7. CASE InitEnds
  <2>1. ~target'.traced /\ target'.mode = "run"
    BY <1>7 DEF InitEnds, Runs
  <2> QED BY <2>1 DEF Known
<1>8. CASE StubEnds
  <2>1. raced' = raced /\ target.mode = "stub"
    BY <1>8 DEF StubEnds, gvars
  <2>2. CASE target' = Runs(resume_pc, FALSE)
    BY <2>2 DEF Runs, Known
  <2>3. CASE target' = Runs(resume_pc, TRUE) /\ step_mode' = 2
    BY <2>3 DEF Runs, Known
  <2>4. CASE target' = [target EXCEPT !.mode = "crashed"]
    <3>1. target'.mode = "crashed" /\ target'.traced = target.traced
      BY <2>4 DEF TypeOK
    <3> QED BY <2>1, <3>1 DEF Known, Traced
  <2> QED BY <1>8, <2>2, <2>3, <2>4 DEF StubEnds
<1> QED BY <1>2, <1>3, <1>4, <1>5, <1>6, <1>7, <1>8 DEF ProgramStep

LEMMA KnownStep ==
    ASSUME TypeOK, Attachment, Counters, Listed, Traced, Known, [Next]_vars
    PROVE  Known'
<1>0. DaemonStep \/ HostStep => target' = target /\ step_mode' = step_mode /\ (raced => raced')
  BY HostFrame DEF Undisturbed
<1>1. ASSUME DaemonStep PROVE Known'
  <2>0. target' = target /\ step_mode' = step_mode /\ (raced => raced')
    BY <1>0, <1>1
  <2>1. CASE Poll
    BY <2>0, <2>1 DEF Poll, Known, gvars
  <2>2. CASE GiveUp
    BY <2>0, <2>2 DEF GiveUp, Known, handlers, gvars, Attachment, Active
  <2>3. CASE DetachSignal
    BY <2>0, <2>3 DEF DetachSignal, Known, dvars, gvars, Attachment
  <2>4. CASE Forget
    <3>1. /\ daemon = "detached" /\ daemon' = "idle" /\ ~attached'
          /\ UNCHANGED <<unseen, signals>>
      BY <2>4 DEF Forget
    <3> QED BY <2>0, <3>1 DEF Known
  <2>5. CASE CleanupEnds
    <3>1. /\ daemon = "cleanup" /\ daemon' = "gone" /\ ~attached' /\ unseen' = unseen
          /\ "F" \in signals => "F" \in signals'
          /\ stopped => "F" \in signals'
      BY <2>5 DEF CleanupEnds
    <3> QED BY <2>0, <3>1 DEF Known
  <2>6. CASE StepRestores \/ StepUnmarks \/ StepResumes \/ StepRequests
    <3>1. /\ daemon \in Active /\ daemon' \in StepPhases
          /\ UNCHANGED <<attached, stopped, trap_hit, signals, unseen, raced>>
      BY <2>6 DEF StepRestores, StepUnmarks, StepResumes, StepRequests, dvars, handlers,
                  gvars, Active, StepPhases
    <3>2. attached /\ daemon' \in Active /\ daemon' \notin {"detached", "cleanup"}
      BY <2>6, <3>1 DEF Attachment, StepRestores, StepUnmarks, StepResumes, StepRequests,
                        Active, StepPhases
    <3> QED BY <2>0, <3>1, <3>2 DEF Known
  <2>7. CASE StepSignals
    <3>1. attached /\ attached' /\ "F" \in signals'
      BY <2>7 DEF StepSignals, Attachment, StepPhases, handlers
    <3> QED BY <3>1 DEF Known
  <2> QED BY <1>1, <2>1, <2>2, <2>3, <2>4, <2>5, <2>6, <2>7 DEF DaemonStep, StepStep
<1>2. ASSUME HostStep PROVE Known'
  <2>0. target' = target /\ step_mode' = step_mode /\ (raced => raced')
    BY <1>0, <1>2
  <2>1. CASE Attach
    <3>1. /\ daemon' = "idle" /\ attached' /\ ~attached /\ UNCHANGED <<signals, raced>>
          /\ target.mode = "stub" /\ "F" \notin signals => stopped'
      BY <2>1 DEF Attach, Command, Waiting, gvars
    <3> QED BY <2>0, <3>1 DEF Known, Traced
  <2>2. CASE Break
    <3>1. daemon' = "idle" /\ attached' /\ stopped'
      BY <2>2 DEF Break, Command
    <3> QED BY <3>1 DEF Known
  <2>3. CASE Continue \/ StepCommand
    <3>1. daemon' \in {"idle", "found"} /\ attached' /\ (stopped' \/ "F" \in signals')
      BY <2>3 DEF Continue, StepCommand, Command, dvars
    <3> QED BY <3>1 DEF Known
  <2>4. CASE Detach
    <3>1. daemon = "idle" /\ attached /\ attached'
      BY <2>4 DEF Detach, Command
    <3>2. CASE stopped
      BY <2>4, <3>1, <3>2 DEF Detach, Known
    <3>3. CASE ~stopped
      <4>1. /\ daemon' = "detached" /\ unseen' = (unseen \/ trap_hit)
            /\ UNCHANGED <<trap_hit, signals, raced>>
        BY <2>4, <3>3 DEF Detach
      <4>2. ~unseen' => ~unseen /\ ~trap_hit
        BY <4>1
      <4> QED BY <2>0, <3>1, <3>3, <4>1, <4>2 DEF Known, Active, StepPhases
    <3> QED BY <3>2, <3>3
  <2>5. CASE Cleanup
    <3>1. /\ daemon = "idle" /\ attached /\ attached' /\ daemon' = "cleanup"
          /\ unseen' = (unseen \/ (trap_hit /\ ~stopped))
          /\ UNCHANGED <<stopped, trap_hit, signals, raced>>
      BY <2>5 DEF Cleanup, Command, handlers
    <3>2. ~unseen' => ~unseen /\ ~(trap_hit /\ ~stopped)
      BY <3>1
    <3> QED BY <2>0, <3>1, <3>2 DEF Known, Active, StepPhases
  <2>6. ASSUME NEW a, BpSet(a) PROVE Known'
    BY <2>0, <2>6 DEF BpSet, Command, gvars, Known
  <2>7. ASSUME NEW S, Clear(S) PROVE Known'
    BY <2>0, <2>7 DEF Clear, TakeOut, Command, handlers, gvars, Known, Active
  <2> QED BY <1>2, <2>1, <2>2, <2>3, <2>4, <2>5, <2>6, <2>7 DEF HostStep
<1>3. CASE UNCHANGED vars
  BY <1>3 DEF vars, dvars, gvars, Known
<1> QED BY <1>1, <1>2, <1>3, StepCases, KnownProgram

-------------------------------------------------------------------------------
(* The invariant.                                                          *)

LEMMA InvInit == Init => IInv
<1> SUFFICES ASSUME Init PROVE IInv
  OBVIOUS
<1>1. /\ ~attached /\ daemon = "idle" /\ ~installed /\ ~raced /\ ~trap_hit
      /\ target.mode \in {"run", "init"} /\ target.pc = 1 /\ ~target.traced /\ due = 1
      /\ \A a \in Addr : code[a] = "op"
      /\ Used = {}
  BY DEF Init, Used, NoBreakpoints, Free
<1>2. Attachment /\ Traced /\ Known /\ CounterIsRight
  BY <1>1 DEF Attachment, StepPhases, Traced, Known, CounterIsRight
<1>3. Counters
  BY <1>1, AddrPositive DEF Counters
<1>4. Listed
  BY <1>1 DEF Listed
<1> QED BY <1>2, <1>3, <1>4, TypeInit DEF IInv

LEMMA InvStep == IInv /\ [Next]_vars => IInv'
BY TypeStep, AttachmentStep, CountersStep, ListedStep, TracedStep, KnownStep, RightStep DEF IInv

LEMMA Invariance == Spec => []IInv
BY InvInit, InvStep, PTL DEF Spec

\* debugger.c keeps its table, its flags and the program's state well formed, and no
\* address gets two breakpoints, for any sequence of commands and any interleaving.
THEOREM TypeCorrect == Spec => []TypeOK
<1>1. IInv => TypeOK
  BY DEF IInv
<1> QED BY <1>1, Invariance, PTL

\* No TRAP #15 stays in the program's code that the table does not list, unless a
\* trace exception fell into a command that was clearing breakpoints.
THEOREM TrapsListed == Spec => []TrapsAreListed
<1>1. IInv => TrapsAreListed
  <2> SUFFICES ASSUME IInv, Quiet, NEW a \in Addr, code[a] = "trap" PROVE SlotsAt(a) # {}
    BY DEF TrapsAreListed
  <2> QED BY DEF IInv, Listed, Quiet
<1> QED BY <1>1, Invariance, PTL

\* A program in the pause stub can be let go on: the daemon knows that it stopped,
\* or is about to learn it, or has signalled it.
THEOREM PausedKnown == Spec => []PausedTargetIsKnown
<1>1. IInv => PausedTargetIsKnown
  BY DEF IInv, Known, Attachment, PausedTargetIsKnown, Quiet, Active
<1> QED BY <1>1, Invariance, PTL

\* The two exception handlers and the stub hand the program counter on correctly,
\* whatever breakpoints the program meets.
THEOREM CounterRight == Spec => []CounterIsRight
<1>1. IInv => CounterIsRight
  BY DEF IInv
<1> QED BY <1>1, Invariance, PTL

\* DBGDETACH, and the daemon's end, leave the program's code, its trace bit and its
\* wait as they would be without a debugger.
THEOREM DetachedFree == Spec => []DetachedIsFree
<1>1. IInv => DetachedIsFree
  <2> SUFFICES ASSUME IInv, ~attached, Quiet, ~unseen
               PROVE  /\ \A a \in Addr : code[a] = "op"
                      /\ ~target.traced
                      /\ target.mode = "stub" => "F" \in signals /\ ~step_request
    BY DEF DetachedIsFree
  <2>1. ~raced /\ daemon \in {"idle", "gone"} /\ code \in Words
    BY TypeSplit DEF Quiet, IInv
  <2>2. ASSUME NEW a \in Addr PROVE code[a] = "op"
    <3>1. code[a] # "trap"
      BY <2>1 DEF IInv, Listed, Active, StepPhases, SlotsAt
    <3> QED BY <2>1, <3>1 DEF Words
  <2>3. ~target.traced /\ (target.mode = "stub" => "F" \in signals /\ ~step_request)
    BY <2>1 DEF IInv, Traced, Known
  <2> QED BY <2>2, <2>3
<1> QED BY <1>1, Invariance, PTL

===============================================================================
