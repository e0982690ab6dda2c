----------------------------- MODULE Requests -----------------------------
(***************************************************************************)
(* Calls of tools and endpoints over the one link to the daemon, or to the *)
(* simulator that stands in for it.  The lines carry no number of the      *)
(* request they answer: each caller knows its answer by the word, by the   *)
(* context of an OK, or by its own argument, and hears everything that     *)
(* comes while it waits: what other callers asked for, what came too late  *)
(* for an earlier call, and what the daemon says unasked.                  *)
(*                                                                         *)
(* Every caller makes one call, with an argument: its path, its name or    *)
(* its command number.  Nothing keeps two calls from having the same: they *)
(* may be of one file or variable, and a command number is the time in     *)
(* milliseconds, modulo 100000.  Two calls run one after the other or at   *)
(* once.  The link neither loses nor alters lines here: SerialConnection   *)
(* and NetIo are about that, and PushFile and PullFile about transfers on  *)
(* a link that does.                                                       *)
(***************************************************************************)
EXTENDS Naturals, Sequences, FiniteSets, Handlers, Simulator, Protocol, Tools, Endpoints

CONSTANTS
  Callers,     \* the calls
  Argument,    \* Argument[c]: the path, the name or the command number of c's call
  Plans,       \* what they may be calls of
  Peers,       \* what the host is connected to: "daemon", "simulator"
  Together,    \* bound: the ones that run while another call does
  Noise,       \* words of lines the daemon says unasked
  MaxNoise,    \* bound: how many of these
  MaxCalls,    \* bound: how many of the calls are made
  MaxUnderWay  \* bound: a call that repeats itself waits while more lines are under way

ASSUME PeersAssumption == Peers \subseteq {"daemon", "simulator"}
ASSUME PlansAssumption == \A p \in Plans : Len(p) > 0
ASSUME NoiseAssumption == {MaxNoise, MaxCalls, MaxUnderWay} \subseteq Nat

VARIABLES
  peer,     \* what answers: the daemon or the simulator
  phase,    \* phase[c]: "idle", "sending", "waiting" or "over"
  plan,     \* plan[c]: the exchanges still to do, the current one first
  inbox,    \* inbox[c]: the queue of c's subscription while it waits
  rows,     \* rows[c]: how many answers of the current exchange it has
  outcome,  \* outcome[c]: how its last exchange ended
  down,     \* lines on their way to the host
  open,     \* commands a client or a port may answer later
  noise,    \* how many lines came unasked
  result,   \* history: result[c], what the daemon made of c's last command
  heard,    \* history: heard[c], the lines c took for answers, and to what
  settled,  \* history: settled[c], c waited for its lines and ended by one of them
  orderly   \* history: each call began with every other not begun or settled

vars == <<peer, phase, plan, inbox, rows, outcome, down, open, noise, result, heard, settled,
          orderly>>
host == <<peer, phase, plan, inbox, rows, outcome, heard, settled, orderly>>
\* The exchange c is at, and the events it has subscribed to.
Exch(c) == Head(plan[c])
Waits(e) == e.on # {}
Subscribed(e) == e.on \cup (IF e.err = {} THEN {} ELSE {"ERR"})
Arguments == {Argument[c] : c \in Callers}
-----------------------------------------------------------------------------
(* The daemon, or the simulator in its place                               *)

\* A line as it goes out, in answer to a command: "own" and "none" are no
\* argument of a call.
Addressed(line, command) ==
    [word |-> line.word, ctx |-> line.ctx, text |-> line.text, by |-> command.by,
     of |-> command.cmd, key |-> IF line.echo = "arg" THEN Argument[command.by] ELSE line.echo]
AllAddressed(lines, command) == [i \in DOMAIN lines |-> Addressed(lines[i], command)]

Verdict(lines) ==
    IF lines[Len(lines)].word # "ERR" THEN "done"
    ELSE IF lines \in unknown THEN "unknown" ELSE "refused"

\* What a peer may answer to a command, and what a client or a port may later.
AnswersOf(p, cmd, size) ==
    IF p = "daemon" THEN protocol_parse_line(cmd) ELSE sim_handle_command(cmd, size)
LateAnswersOf(cmd) == IF cmd = "EXEC" THEN EchoesText("CMD") ELSE arexx_poll
AnsweredLate == {"EXEC", "AREXXSEND"}

Answer(lines, command) ==
    /\ down' = down \o AllAddressed(lines, command)
    /\ result' = [result EXCEPT ![command.by] =
                     IF lines = <<>> THEN "silence" ELSE Verdict(lines)]

\* Commands are handled in the order they were sent and no answer depends on
\* when that is, so the lines are on their way as soon as the command is.
Handle(command, size) ==
    \E lines \in AnswersOf(peer, command.cmd, size) :
      /\ Answer(lines, command)
      /\ open' = IF lines = <<>> /\ peer = "daemon" /\ command.cmd \in AnsweredLate
                 THEN open \cup {command} ELSE open

\* A client has answered an EXEC, or arexx_poll has a result or gives up.
LateAnswer ==
    \E late \in open :
      /\ open' = open \ {late}
      /\ \E lines \in LateAnswersOf(late.cmd) : Answer(lines, late)
      /\ UNCHANGED <<noise, host>>

\* What clients and the daemon say of their own accord, when someone may hear it.
Unasked ==
    /\ noise < MaxNoise
    /\ noise' = noise + 1
    /\ \E w \in Noise, about \in Arguments \cup {"none"} :
         /\ \E c \in Callers : /\ phase[c] = "waiting"
                               /\ process_message(w) \cap Subscribed(Exch(c)) # {}
         /\ down' = Append(down, [word |-> w, ctx |-> "", text |-> FALSE, by |-> "nobody",
                                  of |-> "nothing", key |-> about])
    /\ UNCHANGED <<open, result, host>>
-----------------------------------------------------------------------------
(* The host's side: send, subscribe, wait.                                 *)

FitsAnyOk(c, e, line) == line.word \in e.on /\ (e.key => line.key = Argument[c])
Fits(c, e, line) ==
    /\ line.word \in e.on
    /\ e.key => line.key = Argument[c]
    /\ e.ok # {} => Heard(e.ok, line.ctx)
Refuses(e, line) == line.word = "ERR" /\ "ERR" \notin e.on /\ Heard(e.err, line.ctx)

Settles(c, really) == settled' = [settled EXCEPT ![c] = @ /\ really]

\* c's exchange, the first of p, has ended; c goes on, does the same again, or
\* is over.
EndsExchange(c, p, end) ==
    LET e == Head(p)
        rest == Tail(p)
        onward == end = "answer" \/ e.then \in {"anyway", "retry"}
    IN  /\ inbox' = [inbox EXCEPT ![c] = <<>>]
        /\ rows' = [rows EXCEPT ![c] = 0]
        /\ outcome' = [outcome EXCEPT ![c] = end]
        /\ \/ /\ onward /\ rest # <<>>
              /\ plan' = [plan EXCEPT ![c] = rest]
              /\ phase' = [phase EXCEPT ![c] = "sending"]
           \/ /\ onward /\ e.then \in {"again", "retry"}
              /\ phase' = [phase EXCEPT ![c] = "sending"]
              /\ plan' = [plan EXCEPT ![c] = p]
           \/ /\ ~onward \/ rest = <<>>
              /\ phase' = [phase EXCEPT ![c] = "over"]
              /\ plan' = [plan EXCEPT ![c] = <<>>]

\* Sending and subscribing are one step for the event loop, in either order.
Sends(c, p) ==
    /\ Head(p).cmd \in format_command
    /\ Handle([cmd |-> Head(p).cmd, by |-> c], Head(p).rows)
    /\ IF Waits(Head(p))
       THEN /\ phase' = [phase EXCEPT ![c] = "waiting"]
            /\ plan' = [plan EXCEPT ![c] = p]
            /\ UNCHANGED <<inbox, rows, outcome>>
       ELSE EndsExchange(c, p, "answer")
    /\ Settles(c, Waits(Head(p)))
    /\ UNCHANGED <<peer, noise, heard>>

Begin(c) ==
    /\ phase[c] = "idle"
    /\ Cardinality({d \in Callers : phase[d] # "idle"}) < MaxCalls
    /\ \E p \in Plans :
         /\ \A d \in Callers :
              phase[d] \in {"sending", "waiting"} => {p, plan[d]} \subseteq Together
         /\ Sends(c, p)
    /\ orderly' = (orderly /\ \A d \in Callers \ {c} :
                                \/ phase[d] = "idle"
                                \/ phase[d] = "over" /\ settled[d])

SendNext(c) ==
    /\ phase[c] = "sending" /\ Len(down) <= MaxUnderWay
    /\ Sends(c, plan[c])
    /\ UNCHANGED orderly

\* c takes a line for the answer to e, or for its failure.
TakesFor(c, e, line) ==
    heard' = [heard EXCEPT ![c] = @ \cup
      {[by |-> line.by, of |-> line.of, to |-> e.cmd, word |-> line.word, text |-> line.text,
        loose |-> AnyContext \in e.ok \cup e.err]}]

\* One event of the queue: an answer, an error that ends the wait, or neither.
TakeAnswerOneMore(c) ==
    LET e == Exch(c)
        line == Head(inbox[c])
    IN  /\ Fits(c, e, line)
        /\ TakesFor(c, e, line)
        /\ Settles(c, line.by = c)
        /\ IF rows[c] = e.rows
           THEN EndsExchange(c, plan[c], "answer")
           ELSE /\ rows' = [rows EXCEPT ![c] = @ + 1]
                /\ inbox' = [inbox EXCEPT ![c] = IF e.how = "anew" THEN <<>> ELSE Tail(@)]
                /\ UNCHANGED <<phase, plan, outcome>>

\* Mutant of TakeAnswer: the header is taken for one of the rows it announces.
TakeAnswerOneLess(c) ==
    LET e == Exch(c)
        line == Head(inbox[c])
    IN  /\ Fits(c, e, line)
        /\ TakesFor(c, e, line)
        /\ Settles(c, line.by = c)
        /\ IF rows[c] + 2 >= e.rows
           THEN EndsExchange(c, plan[c], "answer")
           ELSE /\ rows' = [rows EXCEPT ![c] = @ + 1]
                /\ inbox' = [inbox EXCEPT ![c] = IF e.how = "anew" THEN <<>> ELSE Tail(@)]
                /\ UNCHANGED <<phase, plan, outcome>>

TakeAnswer(c) ==
    LET e == Exch(c)
        line == Head(inbox[c])
    IN  /\ Fits(c, e, line)
        /\ TakesFor(c, e, line)
        /\ Settles(c, line.by = c)
        /\ IF rows[c] + 1 = e.rows
           THEN EndsExchange(c, plan[c], "answer")
           ELSE /\ rows' = [rows EXCEPT ![c] = @ + 1]
                /\ inbox' = [inbox EXCEPT ![c] = IF e.how = "anew" THEN <<>> ELSE Tail(@)]
                /\ UNCHANGED <<phase, plan, outcome>>

TakeError(c) ==
    LET e == Exch(c)
        line == Head(inbox[c])
    IN  /\ Refuses(e, line)
        /\ TakesFor(c, e, line)
        /\ Settles(c, line.by = c)
        /\ EndsExchange(c, plan[c], "error")

TakeOther(c) ==
    LET e == Exch(c)
        line == Head(inbox[c])
    IN  /\ ~Fits(c, e, line) /\ ~Refuses(e, line)
        /\ Settles(c, e.how # "glance")
        /\ IF e.how = "glance"
           THEN EndsExchange(c, plan[c], "error")
           ELSE /\ inbox' = [inbox EXCEPT ![c] = Tail(@)]
                /\ UNCHANGED <<phase, plan, rows, outcome>>
        /\ UNCHANGED heard

Take(c) ==
    /\ phase[c] = "waiting" /\ inbox[c] # <<>>
    /\ TakeAnswer(c) \/ TakeError(c) \/ TakeOther(c)
    /\ UNCHANGED <<peer, down, open, noise, result, orderly>>

Timeout(c) ==
    /\ phase[c] = "waiting" /\ inbox[c] = <<>>
    /\ EndsExchange(c, plan[c], "timeout")
    /\ Settles(c, FALSE)
    /\ UNCHANGED <<peer, down, open, noise, result, heard, orderly>>
-----------------------------------------------------------------------------
DeliverToOne ==
    /\ down # <<>>
    /\ down' = Tail(down)
    /\ LET line == Head(down)
           wants(c) == /\ phase[c] = "waiting" /\ line.word \in DOMAIN parse_message
                       /\ process_message(line.word) \cap Subscribed(Exch(c)) # {}
           word(c) == CHOOSE w \in process_message(line.word) : w \in Subscribed(Exch(c))
       IN  inbox' = [c \in Callers |->
                       IF wants(c) /\ c = (CHOOSE d \in Callers : wants(d))
                       THEN Append(inbox[c], [line EXCEPT !.word = word(c)])
                       ELSE inbox[c]]
    /\ UNCHANGED <<peer, phase, plan, rows, outcome, open, noise, result, heard, settled, orderly>>

\* _process_line: a line that parses goes to every subscription that wants it.
Deliver ==
    /\ down # <<>>
    /\ down' = Tail(down)
    /\ LET line == Head(down)
           wants(c) == /\ phase[c] = "waiting" /\ line.word \in DOMAIN parse_message
                       /\ process_message(line.word) \cap Subscribed(Exch(c)) # {}
           word(c) == CHOOSE w \in process_message(line.word) : w \in Subscribed(Exch(c))
       IN  inbox' = [c \in Callers |->
                       IF wants(c) THEN Append(inbox[c], [line EXCEPT !.word = word(c)])
                       ELSE inbox[c]]
    /\ UNCHANGED <<peer, phase, plan, rows, outcome, open, noise, result, heard, settled, orderly>>

Init ==
    /\ peer \in Peers
    /\ phase = [c \in Callers |-> "idle"]
    /\ plan = [c \in Callers |-> <<>>]
    /\ inbox = [c \in Callers |-> <<>>]
    /\ rows = [c \in Callers |-> 0]
    /\ outcome = [c \in Callers |-> "none"]
    /\ down = <<>> /\ open = {} /\ noise = 0
    /\ result = [c \in Callers |-> "none"]
    /\ heard = [c \in Callers |-> {}]
    /\ settled = [c \in Callers |-> TRUE]
    /\ orderly = TRUE

Next ==
    \/ \E c \in Callers : Begin(c) \/ SendNext(c) \/ Take(c) \/ Timeout(c)
    \/ LateAnswer \/ Unasked \/ Deliver

Spec == Init /\ [][Next]_vars
-----------------------------------------------------------------------------
(* Properties                                                              *)

Exchanges == UNION {{p[i] : i \in DOMAIN p} : p \in Plans}
KnownWords == Noise \cup DOMAIN parse_message
\* The context of an OK or an ERR, or none.
Contexts == STRING \cup {""}
Lines ==
    [word : KnownWords, by : Callers \cup {"nobody"}, key : Arguments \cup {"own", "none"},
     of : format_command \cup {"nothing"}, text : BOOLEAN, ctx : Contexts]

\* What the calls and the link hold is of the kinds the code gives them; a call
\* that waits has an exchange to wait for and fewer answers than it wants.
TypeOK ==
    /\ peer \in Peers
    /\ phase \in [Callers -> {"idle", "sending", "waiting", "over"}]
    /\ outcome \in [Callers -> {"none", "answer", "error", "timeout"}]
    /\ open \subseteq [cmd : AnsweredLate, by : Callers]
    /\ \A i \in DOMAIN down : down[i] \in Lines
    /\ \A c \in Callers :
         /\ phase[c] \in {"sending", "waiting"} <=> plan[c] # <<>>
         /\ inbox[c] # <<>> => phase[c] = "waiting"
         /\ \A i \in DOMAIN inbox[c] : inbox[c][i] \in Lines
         /\ phase[c] = "waiting" => rows[c] < Exch(c).rows
         /\ phase[c] # "waiting" => rows[c] = 0

\* One line for each client, and the tool waits for the first.
LeavesLines == {"LISTHOOKS", "LISTMEMREGS"}

\* As long as no two calls overlap and each waits until lines of its own end
\* it, no call takes a line meant for an earlier one: what answers a command
\* leaves nothing behind that could answer another (mcp_tools.py, server.py).
OwnAnswer ==
    orderly => \A c \in Callers : \A h \in heard[c] :
                 h.by \in {c, "nobody"} \/ h.of \in LeavesLines

\* Commands with an answer or an error in common, or that one test of the
\* context cannot tell apart: "STOP" is a part of "STOPTAIL", every command for
\* a client may fail with "Client not found", and api_file_save takes any "FILE".
Families ==
    {{"INSPECT", "READMEMREG"}, {"LISTVOLUMES", "VOLUMES"}, {"CRASHTEST", "LASTCRASH"},
     {"CHIPLOGSTART", "CHIPLOGSTOP"}, {"PALETTE", "SETPALETTE"}, {"WRITEFILE", "READFILE"},
     {"DBGATTACH", "DBGSTATUS", "DBGBREAK"}, {"DBGCONT", "DBGSTEP", "DBGNEXT", "DBGBREAK"},
     {"BREAK", "STOP", "DBGBREAK"}, {"STOP", "STOPTAIL", "SNOOPSTOP"}}
     \cup {{"STOP", cmd} : cmd \in {"GETVAR", "SETVAR", "LISTHOOKS", "LISTMEMREGS",
                                    "READMEMREG", "CLIENTINFO"}}
Related(a, b) == a = b \/ \E f \in Families : {a, b} \subseteq f

\* Commands that are answered by the same word under the same kind of argument,
\* which alone tells their answers apart: the number of a command, mostly the
\* millisecond it was made in (mcp_tools.py:147), and the name of a variable.
SameArgument ==
    {{"EXEC", "LAUNCH", "DOSCOMMAND", "RUN", "SCRIPT", "CALLHOOK"}, {"GETVAR", "SETVAR"}}
Confusable(a, b) == \E f \in SameArgument : {a, b} \subseteq f

\* However calls overlap, and whatever comes too late for the call it was meant
\* for, a call that asks for more than any OK or any error is only ever ended by
\* a line for its own kind of command, or for one of another kind that is
\* answered by the same word and happens to have the same argument.
NoCrossTalk ==
    \A c \in Callers : \A h \in heard[c] :
      \/ h.by = "nobody" \/ h.loose \/ Related(h.to, h.of)
      \/ Confusable(h.to, h.of) /\ Argument[h.by] = Argument[c]

\* Exchanges that an answer does not end: they wait for more lines than may
\* come (256 bytes of memory, the sprites in use, the copper list's end), for
\* what happens later (a stop, a crash), for the name as the caller wrote it
\* when the client answers with another form, or for a word nobody says.
WaitForMore ==
    {amiga_inspect_memory_large[1], api_tool_bitmap[1], amiga_sprites[1],
     api_tool_sprites[1], amiga_copper_list[1], api_tool_copper[1], amiga_step[1],
     amiga_next[1], api_crashtest[2], amiga_get_var[1], amiga_build_deploy_run[1]}
\* And the ones that do not know the error "Task not found" for theirs.
DeafToError == {amiga_stop_client[1], amiga_run[1], api_break[1]}

\* The simulator answers PING by "HB" and LAUNCH by "PROC".
SimulatorDiffers == {"PING", "LAUNCH"}

\* What came of e's command at p, of which the caller may hear nothing more.
Unheard(p, e, made) ==
    \/ made \in {"silence", "unknown"}
    \/ p = "simulator" /\ e.cmd \in SimulatorDiffers
    \/ made = "done" /\ e \in WaitForMore
    \/ made = "refused" /\ (e.err = {} \/ e \in DeafToError)

\* When the daemon has carried out a command and all it said of it has come, the
\* caller waits no more; nor when it was refused, if the caller listens to errors.
AnsweredCallsReturn ==
    \A c \in Callers :
      /\ phase[c] = "waiting" /\ inbox[c] = <<>>
      /\ \A i \in DOMAIN down : down[i].by # c
      => Unheard(peer, Exch(c), result[c])

\* The parser cuts these texts at the first separator, or takes what follows it
\* for the next of a list (MEMMAP, WINLIST, FONTS) or for a section of its own
\* (CINFO): of the tracked resources and the timings that leaves the counts.
CutTexts ==
    {"CLIENTS", "CINFO", "HOOKS", "MEMREGS", "MEMMAP", "WINLIST", "FONTS", "RESOURCES", "PERF",
     "PROCLIST", "PROCSTAT", "ASSIGNS", "PORTS"}
\* An answer whose text holds the separator reaches the tool whole (parse_message).
TextsArriveWhole ==
    \A c \in Callers : \A h \in heard[c] :
      Survives(h.word, h.text) \/ h.word \in CutTexts
-----------------------------------------------------------------------------
(* What the tools, the handlers and the parser are, taken together, for    *)
(* these properties to hold of any number of calls.  Each exchange is      *)
(* compared with every line that is ever said, and no two calls are run.   *)

\* All that is ever said in answer to e.
AllAnswers(e) ==
    (UNION {AnswersOf(p, e.cmd, e.rows) : p \in Peers})
      \cup IF e.cmd \in AnsweredLate THEN LateAnswersOf(e.cmd) ELSE {}
Reply ==
    [word : DOMAIN parse_message, ctx : Contexts, echo : {"arg", "own", "none"}, text : BOOLEAN]
Said == UNION {UNION {{lines[i] : i \in DOMAIN lines} : lines \in AllAnswers(e)} : e \in Exchanges}

\* The events that end e, or are one of its rows, and the lines that are heard as
\* such an event.
Counts(e, word, ctx) == word \in e.on /\ (e.ok # {} => Heard(e.ok, ctx))
Fails(e, word, ctx) == word = "ERR" /\ "ERR" \notin e.on /\ Heard(e.err, ctx)
MayFit(e, line) ==
    /\ e.key => line.echo = "arg"
    /\ \E word \in process_message(line.word) : Counts(e, word, line.ctx)
MayRefuse(e, line) == \E word \in process_message(line.word) : Fails(e, word, line.ctx)
MayEnd(e, line) == MayFit(e, line) \/ MayRefuse(e, line)
Fitting(e, lines) == {i \in DOMAIN lines : MayFit(e, lines[i])}
Ending(e, lines) == {i \in DOMAIN lines : MayEnd(e, lines[i])}

\* No call ends by it, whoever makes the call.
HarmlessAs(word, ctx) == \A e \in Exchanges : ~Counts(e, word, ctx) /\ ~Fails(e, word, ctx)
Harmless(line) == \A word \in process_message(line.word) : HarmlessAs(word, line.ctx)

ASSUME CallersAssumption == "nobody" \notin Callers /\ {"own", "none"} \cap Arguments = {}

\* A message is published under words of messages, and a subscription holds one
\* of them at most.
ASSUME WordsAssumption ==
    \A word \in KnownWords :
      /\ process_message(word) \subseteq KnownWords
      /\ \A e \in Exchanges : \A v, w \in process_message(word) \cap Subscribed(e) : v = w

\* The parser knows the words of all answers, and each row is one of some.
ASSUME FormAssumption ==
    /\ \A p \in Plans : p \in Seq(Exchanges)
    /\ \A e \in Exchanges : /\ e.rows \in Nat \ {0} /\ e.key \in BOOLEAN
                           /\ AllAnswers(e) \subseteq Seq(Reply)

\* A plan that may be answered late, or by more lines than it waits for, is of
\* one exchange, which waits.
ASSUME AloneAssumption ==
    \A p \in Plans : \A i \in DOMAIN p :
      p[i].cmd \in LeavesLines \cup AnsweredLate =>
        Len(p) = 1 /\ p[i].then = "on" /\ Waits(p[i])

\* What may end an exchange is for its own kind of command, or the argument that
\* the exchange asks for decides.
ASSUME KindsAssumption ==
    \A p, q \in Plans : \A i \in DOMAIN p, j \in DOMAIN q :
    \A lines \in AllAnswers(q[j]) : \A k \in DOMAIN lines :
      LET alike == AnyContext \in p[i].ok \cup p[i].err \/ Related(p[i].cmd, q[j].cmd)
      IN  /\ MayRefuse(p[i], lines[k]) => alike
          /\ MayFit(p[i], lines[k]) => \/ alike
                                       \/ p[i].key /\ Confusable(p[i].cmd, q[j].cmd)

WholeTexts ==
    {"LOG", "VAR", "CMD", "TASKS", "LIBS", "DIR", "PROC", "CLOG", "CVAR", "VOLUMES", "OK", "ERR",
     "DEVICES", "LIBINFO", "DEVINFO", "AREXXRESULT", "ENV"}
ASSUME TextsAssumption ==
    \A line \in Said : line.text =>
      \A word \in process_message(line.word) \ (WholeTexts \cup CutTexts) :
        HarmlessAs(word, line.ctx)

\* What an exchange that is ended by its answer leaves of it ends no other.
ASSUME LeftoversAssumption ==
    \A e \in Exchanges : e.cmd \notin LeavesLines => \A lines \in AllAnswers(e) :
      LET ends == Ending(e, lines)
      IN  \/ ends = {}
          \/ /\ \A i \in DOMAIN lines \ ends : Harmless(lines[i])
             /\ Cardinality(ends) <= e.rows
             /\ (\E i \in ends : MayRefuse(e, lines[i])) => Cardinality(ends) <= 1

\* An answer is enough for the caller who listens.
ASSUME RepliesAssumption ==
    \A e \in Exchanges : Waits(e) =>
      /\ e.how = "anew" /\ e.rows > 1 => e \in WaitForMore /\ e.err = {}
      /\ \A p \in Peers :
         \A lines \in AnswersOf(p, e.cmd, e.rows)
                      \cup IF p = "daemon" /\ e.cmd \in AnsweredLate
                           THEN LateAnswersOf(e.cmd) ELSE {} :
           \/ lines = <<>>
           \/ Unheard(p, e, Verdict(lines))
           \/ /\ Verdict(lines) = "done"
              /\ Cardinality(Fitting(e, lines)) >= e.rows
           \/ /\ Verdict(lines) = "refused"
              /\ \E i \in DOMAIN lines : MayRefuse(e, lines[i])
=============================================================================
