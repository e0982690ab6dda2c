--------------------------- MODULE RequestsProofs ---------------------------
(***************************************************************************)
(* Proofs about Requests, for any number of calls that run one after the   *)
(* other or at once, any plans that the assumptions allow, and any number  *)
(* of lines that come unasked.                                             *)
(***************************************************************************)
EXTENDS Requests, FiniteSetTheorems, TLAPS

\* The lines of a queue, and how many of them are in S.
Among(q) == {q[i] : i \in DOMAIN q}
Count(q, S) == Cardinality({i \in DOMAIN q : q[i] \in S})

-----------------------------------------------------------------------------
(* The invariant                                                           *)

HostType ==
    /\ phase \in [Callers -> {"idle", "sending", "waiting", "over"}]
    /\ plan \in [Callers -> Seq(Exchanges)]
    /\ inbox \in [Callers -> Seq(Lines)]
    /\ rows \in [Callers -> Nat]
    /\ outcome \in [Callers -> {"none", "answer", "error", "timeout"}]
    /\ \A c \in Callers :
         /\ phase[c] \in {"sending", "waiting"} <=> plan[c] # <<>>
         /\ phase[c] # "waiting" => inbox[c] = <<>> /\ rows[c] = 0
         /\ phase[c] = "waiting" => rows[c] < Exch(c).rows
LinkType ==
    /\ peer \in Peers
    /\ down \in Seq(Lines)
    /\ open \subseteq [cmd : AnsweredLate, by : Callers]
    /\ result \in [Callers -> {"none", "silence", "unknown", "done", "refused"}]
    /\ heard = [c \in Callers |-> heard[c]]
    /\ settled \in [Callers -> BOOLEAN]
    /\ orderly \in BOOLEAN
TypeInv == HostType /\ LinkType

\* The lines that a call of plan p by c may bring down the link, as they are sent
\* and as they are heard.
Meant(p, c, line) ==
    \E i \in DOMAIN p : \E lines \in AllAnswers(p[i]) : \E k \in DOMAIN lines :
      line = Addressed(lines[k], [cmd |-> p[i].cmd, by |-> c])
MeantAs(p, c, line) ==
    \E i \in DOMAIN p : \E lines \in AllAnswers(p[i]) : \E k \in DOMAIN lines :
    \E word \in process_message(lines[k].word) :
      line = [Addressed(lines[k], [cmd |-> p[i].cmd, by |-> c]) EXCEPT !.word = word]
Noisy(line) == line.by = "nobody" /\ ~line.text

\* c has not begun, or what there is of it is of the one plan p.
Unheardof(c) ==
    /\ phase[c] = "idle"
    /\ \A line \in Among(down) : line.by # c
    /\ \A d \in Callers : \A line \in Among(inbox[d]) : line.by # c
    /\ \A late \in open : late.by # c
CallOf(c, p) ==
    /\ phase[c] # "idle"
    /\ Len(plan[c]) <= Len(p) /\ Among(plan[c]) \subseteq Among(p)
    /\ Len(p) = 1 /\ Head(p).then = "on" => phase[c] # "sending"
    /\ \A line \in Among(down) : line.by = c => Meant(p, c, line)
    /\ \A d \in Callers : \A line \in Among(inbox[d]) : line.by = c => MeantAs(p, c, line)
    /\ \A late \in open : late.by = c =>
         /\ peer = "daemon" /\ phase[c] \in {"waiting", "over"}
         /\ \E i \in DOMAIN p : p[i].cmd = late.cmd
         /\ \A line \in Among(down) : line.by # c
         /\ \A line \in Among(inbox[c]) : line.by # c
SourceInv ==
    /\ \A line \in Among(down) : line.by \in Callers \/ Noisy(line)
    /\ \A d \in Callers : \A line \in Among(inbox[d]) : line.by \in Callers \/ Noisy(line)
    /\ \A c \in Callers : Unheardof(c) \/ \E p \in Plans : CallOf(c, p)

\* Events that answer c's exchange e or end it, and lines of its own that will be
\* heard as such.
FitIn(c, e) == {line \in Lines : Fits(c, e, line)}
RefuseIn(e) == {line \in Lines : Refuses(e, line)}
Own(c) == {line \in Lines : line.by = c}
FitDown(c, e) ==
    {line \in Lines : line.by = c /\ \E word \in process_message(line.word) :
                                       Fits(c, e, [line EXCEPT !.word = word])}
RefuseDown(c, e) ==
    {line \in Lines : line.by = c /\ \E word \in process_message(line.word) :
                                       Refuses(e, [line EXCEPT !.word = word])}

\* What is still to come of an answer is enough for the call that waits for it.
EnoughOf(c, e, made, n, here, coming) ==
    \/ Unheard(peer, e, made)
    \/ /\ made = "done" /\ (e.how = "anew" => e.rows = 1)
       /\ n + Count(here, FitIn(c, e)) + Count(coming, FitDown(c, e)) >= e.rows
    \/ /\ made = "refused" /\ (e.how = "anew" => e.rows = 1)
       /\ Among(here) \cap RefuseIn(e) # {} \/ Among(coming) \cap RefuseDown(c, e) # {}
Enough(c) ==
    phase[c] = "waiting" => EnoughOf(c, Exch(c), result[c], rows[c], inbox[c], down)
EnoughInv == \A c \in Callers : Enough(c)

\* Lines that end no call, or only one that leaves such lines itself.
Spent(line) == Harmless(line) \/ line.of \in LeavesLines
SpentAs(line) == HarmlessAs(line.word, line.ctx) \/ line.of \in LeavesLines

EndIn(c, e) == Own(c) \cap (FitIn(c, e) \cup RefuseIn(e))
EndDown(c, e) == FitDown(c, e) \cup RefuseDown(c, e)
Ends(c, e, here, coming) == Count(here, EndIn(c, e)) + Count(coming, EndDown(c, e))
Refused(c, e, here, coming) ==
    \/ Among(here) \cap Own(c) \cap RefuseIn(e) # {}
    \/ Among(coming) \cap RefuseDown(c, e) # {}

\* As long as calls follow one another, one that is over has left nothing that
\* counts, and one that waits will leave nothing if it hears lines of its own:
\* of these none will end its exchange e, or those that end it are all of any
\* consequence and no more than it takes.
Behind(c) ==
    /\ \A line \in Among(down) : line.by = c => Spent(line)
    /\ \A d \in Callers : \A line \in Among(inbox[d]) : line.by = c => SpentAs(line)
    /\ \A late \in open : late.by # c
LastOnesEnd(c, e, n, here, coming) ==
    /\ \A line \in Among(coming) : line.by = c => line \in EndDown(c, e) \/ Harmless(line)
    /\ n + Ends(c, e, here, coming) <= e.rows
    /\ Refused(c, e, here, coming) => n + Ends(c, e, here, coming) <= 1
AheadOf(c, e, n, here, coming, later) ==
    IF e.cmd \in LeavesLines
    THEN \A line \in Among(coming) : line.by = c => Spent(line)
    ELSE /\ Ends(c, e, here, coming) = 0 \/ LastOnesEnd(c, e, n, here, coming)
         /\ (\E late \in later : late.by = c) => n = 0
Others(c) == \A d \in Callers \ {c} : phase[d] = "idle" \/ (phase[d] = "over" /\ settled[d])
Order(c) ==
    /\ phase[c] \in {"sending", "waiting"} => Others(c)
    /\ phase[c] = "over" /\ settled[c] => Behind(c)
    /\ phase[c] = "sending" /\ settled[c] =>
         \A line \in Among(down) : line.by = c => Harmless(line)
    /\ phase[c] = "waiting" /\ settled[c] =>
         AheadOf(c, Exch(c), rows[c], inbox[c], down, open)
OrderInv == orderly => \A c \in Callers : Order(c)

Inv ==
    /\ TypeInv
    /\ SourceInv
    /\ EnoughInv
    /\ OrderInv
    /\ OwnAnswer
    /\ NoCrossTalk
    /\ TextsArriveWhole
-----------------------------------------------------------------------------
(* Queues                                                                  *)

\* The positions of a queue that hold lines of S are finitely many.
LEMMA CountType ==
    ASSUME NEW X, NEW q \in Seq(X), NEW S
    PROVE  /\ IsFiniteSet({i \in DOMAIN q : q[i] \in S})
           /\ Count(q, S) \in Nat
  <1>1. IsFiniteSet(1..Len(q)) /\ DOMAIN q = 1..Len(q)
    BY FS_Interval
  <1> QED BY <1>1, FS_Subset, FS_CardinalityType DEF Count

\* None of a queue is in S just when it counts none.
LEMMA CountZero ==
    ASSUME NEW X, NEW q \in Seq(X), NEW S
    PROVE  Count(q, S) = 0 <=> Among(q) \cap S = {}
  <1>1. Count(q, S) = 0 <=> {i \in DOMAIN q : q[i] \in S} = {}
    BY CountType, FS_EmptySet DEF Count
  <1> QED BY <1>1 DEF Among

\* Lines that come behind the others are counted with them.
LEMMA CountConcat ==
    ASSUME NEW X, NEW q \in Seq(X), NEW r \in Seq(X), NEW S
    PROVE  Count(q \o r, S) = Count(q, S) + Count(r, S)
  <1> DEFINE A == {i \in DOMAIN q : q[i] \in S}
             B == {i \in DOMAIN r : r[i] \in S}
             C == {i \in DOMAIN (q \o r) : (q \o r)[i] \in S}
             D == C \ A
             f == [i \in B |-> i + Len(q)]
  <1>1. IsFiniteSet(A) /\ IsFiniteSet(B) /\ IsFiniteSet(C)
    <2>1. q \o r \in Seq(X)
      OBVIOUS
    <2> HIDE DEF A, B, C
    <2>2. IsFiniteSet(A) /\ IsFiniteSet(B)
      BY CountType DEF A, B
    <2>3. IsFiniteSet(C)
      BY <2>1, CountType DEF C
    <2> QED BY <2>2, <2>3
  <1>2. A \subseteq C
    OBVIOUS
  <1>3. f \in Bijection(B, D)
    <2>1. \A i \in B : i + Len(q) \in D
      OBVIOUS
    <2>2. \A j \in D : j - Len(q) \in B /\ (j - Len(q)) + Len(q) = j
      OBVIOUS
    <2>3. \A i, j \in B : f[i] = f[j] => i = j
      OBVIOUS
    <2> QED BY <2>1, <2>2, <2>3 DEF Bijection, Injection, Surjection, IsInjective
  <1> HIDE DEF f, A, B, C, D
  <1>4. Cardinality(D) = Cardinality(B) /\ IsFiniteSet(D)
    <2>1. ExistsBijection(B, D)
      BY <1>3 DEF ExistsBijection
    <2> QED BY <1>1, <2>1, FS_Bijection
  <1>5. Cardinality(C) = Cardinality(A) + Cardinality(D)
    <2>1. C = A \cup D /\ A \cap D = {}
      BY <1>2 DEF D
    <2>2. /\ Cardinality(A \cup D) = Cardinality(A) + Cardinality(D) - Cardinality(A \cap D)
          /\ Cardinality(A) \in Nat /\ Cardinality(D) \in Nat
      BY <1>1, <1>4, FS_Union, FS_CardinalityType
    <2>3. Cardinality(C) = Cardinality(A \cup D) /\ Cardinality(A \cap D) = 0
      BY <2>1, FS_EmptySet
    <2> QED BY <2>2, <2>3
  <1> QED BY <1>4, <1>5 DEF Count, A, B, C

\* A queue of one line counts one or none.
LEMMA CountOne ==
    ASSUME NEW X, NEW x \in X, NEW S
    PROVE  Count(<<x>>, S) = IF x \in S THEN 1 ELSE 0
  <1>1. CASE x \in S
    <2>1. {i \in DOMAIN <<x>> : <<x>>[i] \in S} = {1}
      BY <1>1
    <2> QED BY <1>1, <2>1, FS_Singleton DEF Count
  <1>2. CASE x \notin S
    <2>1. {i \in DOMAIN <<x>> : <<x>>[i] \in S} = {}
      BY <1>2
    <2> QED BY <1>2, <2>1, FS_EmptySet DEF Count
  <1> QED BY <1>1, <1>2

\* A line that joins a queue adds one or none.
LEMMA CountAppend ==
    ASSUME NEW X, NEW q \in Seq(X), NEW x \in X, NEW S
    PROVE  Count(Append(q, x), S) = Count(q, S) + IF x \in S THEN 1 ELSE 0
  <1>1. Append(q, x) = q \o <<x>> /\ <<x>> \in Seq(X)
    OBVIOUS
  <1>2. Count(q \o <<x>>, S) = Count(q, S) + Count(<<x>>, S)
    BY <1>1, CountConcat
  <1>3. Count(<<x>>, S) = IF x \in S THEN 1 ELSE 0
    BY CountOne
  <1> QED BY <1>1, <1>2, <1>3

\* So does the one that leaves it take away.
LEMMA CountTail ==
    ASSUME NEW X, NEW q \in Seq(X), q # <<>>, NEW S
    PROVE  Count(q, S) = Count(Tail(q), S) + IF Head(q) \in S THEN 1 ELSE 0
  <1>1. q = <<Head(q)>> \o Tail(q) /\ Head(q) \in X /\ Tail(q) \in Seq(X) /\ <<Head(q)>> \in Seq(X)
    OBVIOUS
  <1>2. Count(q, S) = Count(<<Head(q)>>, S) + Count(Tail(q), S)
    BY <1>1, CountConcat
  <1>3. Count(<<Head(q)>>, S) = IF Head(q) \in S THEN 1 ELSE 0
    BY <1>1, CountOne
  <1>4. Count(Tail(q), S) \in Nat
    BY <1>1, CountType
  <1>5. <<Head(q)>> \o Tail(q) = q
    BY <1>1, Zenon
  <1> QED BY <1>2, <1>3, <1>4

\* An empty queue counts none.
LEMMA CountEmpty == ASSUME NEW S PROVE Count(<<>>, S) = 0
  <1>1. {i \in DOMAIN <<>> : <<>>[i] \in S} = {}
    OBVIOUS
  <1> QED BY <1>1, FS_EmptySet DEF Count

\* Lines of S counted by two sets that agree on the queue.
LEMMA CountSame ==
    ASSUME NEW q, NEW S, NEW T, Among(q) \cap S = Among(q) \cap T
    PROVE  Count(q, S) = Count(q, T)
  <1>1. {i \in DOMAIN q : q[i] \in S} = {i \in DOMAIN q : q[i] \in T}
    BY DEF Among
  <1> QED BY <1>1 DEF Count

\* What is among a queue that is put together or taken apart.
LEMMA AmongQueue ==
    ASSUME NEW X, NEW q \in Seq(X), NEW r \in Seq(X), NEW x \in X
    PROVE  /\ Among(q) \subseteq X
           /\ Among(<<>>) = {}
           /\ Among(q \o r) = Among(q) \cup Among(r)
           /\ Among(Append(q, x)) = Among(q) \cup {x}
           /\ q # <<>> => /\ Head(q) \in Among(q) /\ Among(Tail(q)) \subseteq Among(q)
                          /\ Among(q) = Among(Tail(q)) \cup {Head(q)}
                          /\ Tail(q) \in Seq(X)
           /\ q \o r \in Seq(X) /\ Append(q, x) \in Seq(X)
  <1>1. Among(q \o r) = Among(q) \cup Among(r)
    <2>1. \A i \in DOMAIN (q \o r) :
             (q \o r)[i] \in Among(q) \cup Among(r)
      BY DEF Among
    <2>2. \A i \in DOMAIN q : i \in DOMAIN (q \o r) /\ (q \o r)[i] = q[i]
      OBVIOUS
    <2>3. \A i \in DOMAIN r : i + Len(q) \in DOMAIN (q \o r) /\ (q \o r)[i + Len(q)] = r[i]
      OBVIOUS
    <2>4. Among(q) \cup Among(r) \subseteq Among(q \o r)
      BY <2>2, <2>3, Zenon DEF Among
    <2>5. Among(q \o r) \subseteq Among(q) \cup Among(r)
      BY <2>1, Zenon DEF Among
    <2> QED BY <2>4, <2>5, Zenon
  <1>2. Among(Append(q, x)) = Among(q) \cup {x}
    <2>1. Len(Append(q, x)) \in DOMAIN Append(q, x) /\ Append(q, x)[Len(Append(q, x))] = x
      OBVIOUS
    <2>2. \A i \in DOMAIN q : i \in DOMAIN Append(q, x) /\ Append(q, x)[i] = q[i]
      OBVIOUS
    <2>3. \A i \in DOMAIN Append(q, x) : i \in DOMAIN q \/ i = Len(Append(q, x))
      OBVIOUS
    <2>4. Among(Append(q, x)) \subseteq Among(q) \cup {x}
      BY <2>1, <2>2, <2>3, Zenon DEF Among
    <2>5. Among(q) \cup {x} \subseteq Among(Append(q, x))
      BY <2>1, <2>2, Zenon DEF Among
    <2> QED BY <2>4, <2>5, Zenon
  <1>3. ASSUME q # <<>>
        PROVE  Among(q) = Among(Tail(q)) \cup {Head(q)}
    <2>1. \A i \in DOMAIN Tail(q) : i + 1 \in DOMAIN q /\ Tail(q)[i] = q[i + 1]
      BY <1>3
    <2>2. \A i \in DOMAIN q : i = 1 \/ (i - 1 \in DOMAIN Tail(q) /\ Tail(q)[i - 1] = q[i])
      BY <1>3
    <2>3. 1 \in DOMAIN q /\ Head(q) = q[1]
      BY <1>3
    <2>4. Among(Tail(q)) \cup {Head(q)} \subseteq Among(q)
      <3>1. Head(q) \in Among(q)
        BY <2>3, Zenon DEF Among
      <3>2. ASSUME NEW i \in DOMAIN Tail(q) PROVE Tail(q)[i] \in Among(q)
        BY <2>1, Zenon DEF Among
      <3> QED BY <3>1, <3>2, Zenon DEF Among
    <2>5. Among(q) \subseteq Among(Tail(q)) \cup {Head(q)}
      BY <2>2, <2>3, Zenon DEF Among
    <2> QED BY <2>4, <2>5, Zenon
  <1>4. Among(q) \subseteq X
    BY DEF Among
  <1>5. Among(<<>>) = {}
    BY DEF Among
  <1>6. q # <<>> => Tail(q) \in Seq(X)
    OBVIOUS
  <1>7. q \o r \in Seq(X) /\ Append(q, x) \in Seq(X)
    OBVIOUS
  <1> QED BY <1>1, <1>2, <1>3, <1>4, <1>5, <1>6, <1>7, Zenon

\* The same of one line more, for queues that are primed.
LEMMA AmongAppend ==
    ASSUME NEW X, NEW q \in Seq(X), NEW x \in X, NEW r, r = Append(q, x)
    PROVE  \A y : y \in Among(r) <=> y \in Among(q) \/ y = x
  <1>1. Among(r) = Among(q) \cup {x}
    BY AmongQueue
  <1> QED BY <1>1
-----------------------------------------------------------------------------
(* Lines and exchanges                                                     *)

\* A plan is a sequence of exchanges, and not empty.
LEMMA PlanForm ==
    ASSUME NEW p \in Plans
    PROVE  /\ p \in Seq(Exchanges) /\ p # <<>> /\ Len(p) > 0
           /\ Head(p) \in Exchanges /\ Head(p) \in Among(p)
           /\ \A i \in DOMAIN p : p[i] \in Exchanges
  <1>1. p \in Seq(Exchanges) /\ Len(p) > 0
    BY FormAssumption, PlansAssumption
  <1> QED BY <1>1 DEF Among

\* An exchange wants rows, and its answers are sequences of replies.
LEMMA ExchangeForm ==
    ASSUME NEW e \in Exchanges
    PROVE  /\ e.rows \in Nat /\ e.rows > 0 /\ e.key \in BOOLEAN
           /\ AllAnswers(e) \subseteq Seq(Reply)
  BY FormAssumption

\* The parser's words are known ones.
LEMMA KnownForm == DOMAIN parse_message \subseteq KnownWords
  BY DEF KnownWords

\* The fields of a line, and the same line as another event.
LEMMA LineForm ==
    ASSUME NEW line \in Lines
    PROVE  /\ line.word \in KnownWords /\ line.by \in Callers \cup {"nobody"}
           /\ line.key \in Arguments \cup {"own", "none"} /\ line.ctx \in Contexts
           /\ line.of \in format_command \cup {"nothing"} /\ line.text \in BOOLEAN
           /\ \A word \in KnownWords :
                /\ [line EXCEPT !.word = word] \in Lines
                /\ [line EXCEPT !.word = word].word = word
                /\ [line EXCEPT !.word = word].by = line.by
                /\ [line EXCEPT !.word = word].key = line.key
                /\ [line EXCEPT !.word = word].ctx = line.ctx
                /\ [line EXCEPT !.word = word].of = line.of
                /\ [line EXCEPT !.word = word].text = line.text
  BY DEF Lines

\* A line that is said to c is one of the link, and c's own.
LEMMA AddressedForm ==
    ASSUME NEW reply \in Reply, NEW c \in Callers, NEW cmd \in format_command,
           NEW line, line = Addressed(reply, [cmd |-> cmd, by |-> c])
    PROVE  /\ line \in Lines /\ line.by = c /\ line.of = cmd /\ line.word = reply.word
           /\ line.ctx = reply.ctx /\ line.text = reply.text
           /\ line.word \in DOMAIN parse_message
           /\ line.key = Argument[c] <=> reply.echo = "arg"
  <1>1. /\ reply.word \in DOMAIN parse_message /\ reply.ctx \in Contexts /\ reply.text \in BOOLEAN
        /\ reply.echo \in {"arg", "own", "none"}
    BY DEF Reply
  <1>2. line = [word |-> reply.word, ctx |-> reply.ctx, text |-> reply.text, by |-> c, of |-> cmd,
                key |-> IF reply.echo = "arg" THEN Argument[c] ELSE reply.echo]
    BY DEF Addressed
  <1>3. Argument[c] \in Arguments /\ "own" \notin Arguments /\ "none" \notin Arguments
    BY CallersAssumption DEF Arguments
  <1> QED BY <1>1, <1>2, <1>3, KnownForm DEF Lines

\* A line answers or fails an exchange by its key, its word and its context.
LEMMA FitsMeans ==
    ASSUME NEW c, NEW e, NEW line
    PROVE  /\ Fits(c, e, line) <=> (e.key => line.key = Argument[c]) /\ Counts(e, line.word, line.ctx)
           /\ Refuses(e, line) <=> Fails(e, line.word, line.ctx)
           /\ ~(Fits(c, e, line) /\ Refuses(e, line))
  BY Zenon DEF Fits, Refuses, Counts, Fails

\* What c hears of a line counts for e, or fails it, as the reply that was sent.
LEMMA AddressedFits ==
    ASSUME NEW reply \in Reply, NEW c \in Callers, NEW cmd \in format_command,
           NEW line, line = Addressed(reply, [cmd |-> cmd, by |-> c]), NEW e \in Exchanges
    PROVE  /\ line \in FitDown(c, e) <=> MayFit(e, reply)
           /\ line \in RefuseDown(c, e) <=> MayRefuse(e, reply)
           /\ Harmless(line) <=> Harmless(reply)
  <1>1. /\ line \in Lines /\ line.by = c /\ line.word = reply.word /\ line.ctx = reply.ctx
        /\ line.key = Argument[c] <=> reply.echo = "arg"
    BY AddressedForm
  <1>2. \A word \in process_message(line.word) : word \in KnownWords
    BY <1>1, LineForm, WordsAssumption
  <1>3. \A word \in process_message(line.word) :
          /\ Fits(c, e, [line EXCEPT !.word = word])
               <=> (e.key => reply.echo = "arg") /\ Counts(e, word, reply.ctx)
          /\ Refuses(e, [line EXCEPT !.word = word]) <=> Fails(e, word, reply.ctx)
    <2> TAKE word \in process_message(line.word)
    <2> DEFINE as == [line EXCEPT !.word = word]
    <2>1. as.word = word /\ as.key = line.key /\ as.ctx = line.ctx
      BY <1>1, <1>2, LineForm
    <2>2. as.word = word /\ (as.key = Argument[c] <=> reply.echo = "arg") /\ as.ctx = reply.ctx
      BY <1>1, <2>1
    <2> HIDE DEF as
    <2>3. /\ Fits(c, e, as) <=> (e.key => as.key = Argument[c]) /\ Counts(e, as.word, as.ctx)
          /\ Refuses(e, as) <=> Fails(e, as.word, as.ctx)
      BY FitsMeans
    <2>4. /\ Fits(c, e, as) <=> (e.key => reply.echo = "arg") /\ Counts(e, word, reply.ctx)
          /\ Refuses(e, as) <=> Fails(e, word, reply.ctx)
      BY <2>2, <2>3, Zenon
    <2> QED BY <2>4 DEF as
  <1>4. line \in FitDown(c, e) <=> MayFit(e, reply)
    BY <1>1, <1>3, Zenon DEF FitDown, MayFit
  <1>5. line \in RefuseDown(c, e) <=> MayRefuse(e, reply)
    BY <1>1, <1>3, Zenon DEF RefuseDown, MayRefuse
  <1>6. Harmless(line) <=> Harmless(reply)
    BY <1>1, Zenon DEF Harmless
  <1> QED BY <1>4, <1>5, <1>6

\* An event that ends a wait is not harmless, nor is the line it is heard of.
LEMMA EndingHarms ==
    ASSUME NEW c, NEW e \in Exchanges, NEW line
    PROVE  /\ Fits(c, e, line) \/ Refuses(e, line) => ~HarmlessAs(line.word, line.ctx)
           /\ line \in EndDown(c, e) => ~Harmless(line)
  <1>1. Fits(c, e, line) \/ Refuses(e, line) => ~HarmlessAs(line.word, line.ctx)
    BY FitsMeans, Zenon DEF HarmlessAs
  <1>2. ASSUME line \in EndDown(c, e) PROVE ~Harmless(line)
    <2>1. line \in Lines
      BY <1>2 DEF EndDown, FitDown, RefuseDown
    <2>2. PICK word \in process_message(line.word) :
             Fits(c, e, [line EXCEPT !.word = word]) \/ Refuses(e, [line EXCEPT !.word = word])
      BY <1>2, Zenon DEF EndDown, FitDown, RefuseDown
    <2>3. word \in KnownWords
      BY <2>1, LineForm, WordsAssumption
    <2>4. [line EXCEPT !.word = word].word = word /\ [line EXCEPT !.word = word].ctx = line.ctx
      BY <2>1, <2>3, LineForm
    <2>5. ~HarmlessAs(word, line.ctx)
      BY <2>2, <2>4, FitsMeans, Zenon DEF HarmlessAs
    <2> QED BY <2>5, Zenon DEF Harmless
  <1> QED BY <1>1, <1>2

HeardAs(line, word) == [line EXCEPT !.word = word]

\* A subscription that hears a line hears it as the one event that may count; a
\* line no event of which is subscribed to does not count.
LEMMA HeardForm ==
    ASSUME NEW e \in Exchanges, NEW line \in Lines, NEW c \in Callers,
           NEW word,
           process_message(line.word) \cap Subscribed(e) # {}
             => word \in process_message(line.word) /\ word \in Subscribed(e),
           NEW as, as = HeardAs(line, word)
    PROVE  /\ process_message(line.word) \cap Subscribed(e) # {}
             => /\ word \in process_message(line.word) /\ as \in Lines
                /\ as.by = line.by /\ as.of = line.of /\ as.text = line.text
                /\ Harmless(line) => HarmlessAs(as.word, as.ctx)
                /\ line.by = c => (as \in FitIn(c, e) <=> line \in FitDown(c, e))
                /\ line.by = c => (as \in RefuseIn(e) <=> line \in RefuseDown(c, e))
           /\ process_message(line.word) \cap Subscribed(e) = {}
             => line \notin FitDown(c, e) /\ line \notin RefuseDown(c, e)
  <1>1. line.word \in KnownWords
    BY LineForm
  <1>2. /\ process_message(line.word) \subseteq KnownWords
        /\ \A v, w \in process_message(line.word) \cap Subscribed(e) : v = w
    BY <1>1, WordsAssumption
  <1>3. \A w : Counts(e, w, line.ctx) \/ Fails(e, w, line.ctx) => w \in Subscribed(e)
    BY DEF Counts, Fails, Subscribed, Heard
  <1>4. \A w \in process_message(line.word) :
          /\ Fits(c, e, [line EXCEPT !.word = w])
               <=> (e.key => line.key = Argument[c]) /\ Counts(e, w, line.ctx)
          /\ Refuses(e, [line EXCEPT !.word = w]) <=> Fails(e, w, line.ctx)
    <2> TAKE w \in process_message(line.word)
    <2>1. /\ [line EXCEPT !.word = w].word = w
          /\ [line EXCEPT !.word = w].key = line.key
          /\ [line EXCEPT !.word = w].ctx = line.ctx
      BY <1>2, LineForm
    <2> QED BY <2>1, FitsMeans, Zenon
  <1>5. ASSUME process_message(line.word) \cap Subscribed(e) # {}
        PROVE  /\ word \in process_message(line.word) /\ as \in Lines
               /\ as.by = line.by /\ as.of = line.of /\ as.text = line.text
               /\ Harmless(line) => HarmlessAs(as.word, as.ctx)
               /\ line.by = c => (as \in FitIn(c, e) <=> line \in FitDown(c, e))
               /\ line.by = c => (as \in RefuseIn(e) <=> line \in RefuseDown(c, e))
    <2>1. word \in process_message(line.word) /\ word \in Subscribed(e)
      BY <1>5, Zenon
    <2>2. /\ as \in Lines /\ as.by = line.by /\ as.of = line.of /\ as.text = line.text
          /\ as.word = word /\ as.ctx = line.ctx
      BY <1>2, <2>1, LineForm DEF HeardAs
    <2>3. Harmless(line) => HarmlessAs(as.word, as.ctx)
      BY <2>1, <2>2, Zenon DEF Harmless
    <2>4. \A w \in process_message(line.word) :
            Counts(e, w, line.ctx) \/ Fails(e, w, line.ctx) => w = word
      BY <1>2, <1>3, <2>1, Zenon
    <2>5. ASSUME line.by = c PROVE as \in FitIn(c, e) <=> line \in FitDown(c, e)
      BY <1>4, <2>1, <2>2, <2>4, <2>5, Zenon DEF FitIn, FitDown, HeardAs
    <2>6. ASSUME line.by = c PROVE as \in RefuseIn(e) <=> line \in RefuseDown(c, e)
      BY <1>4, <2>1, <2>2, <2>4, <2>6, Zenon DEF RefuseIn, RefuseDown, HeardAs
    <2> QED BY <2>1, <2>2, <2>3, <2>5, <2>6
  <1>6. ASSUME process_message(line.word) \cap Subscribed(e) = {}
        PROVE  line \notin FitDown(c, e) /\ line \notin RefuseDown(c, e)
    <2>1. \A w \in process_message(line.word) : w \notin Subscribed(e)
      BY <1>6
    <2> QED BY <1>3, <1>4, <2>1, Zenon DEF FitDown, RefuseDown
  <1> QED BY <1>5, <1>6
-----------------------------------------------------------------------------
(* The effect of the parts that the steps are made of                      *)

News(lines, e, c) == AllAddressed(lines, [cmd |-> e.cmd, by |-> c])
Results == {"silence", "unknown", "done", "refused"}

\* The lines that answer an exchange are the caller's own.
LEMMA NewsForm ==
    ASSUME NEW e \in Exchanges, e.cmd \in format_command, NEW c \in Callers,
           NEW lines \in AllAnswers(e)
    PROVE  /\ lines \in Seq(Reply) /\ News(lines, e, c) \in Seq(Lines)
           /\ DOMAIN News(lines, e, c) = DOMAIN lines
           /\ \A i \in DOMAIN lines :
                /\ lines[i] \in Reply
                /\ News(lines, e, c)[i] = Addressed(lines[i], [cmd |-> e.cmd, by |-> c])
                /\ News(lines, e, c)[i] \in Lines
           /\ \A line \in Among(News(lines, e, c)) :
                /\ line \in Lines /\ line.by = c /\ line.of = e.cmd
                /\ \E i \in DOMAIN lines :
                     line = Addressed(lines[i], [cmd |-> e.cmd, by |-> c])
  <1>1. lines \in Seq(Reply)
    BY ExchangeForm
  <1>2. DOMAIN lines = 1..Len(lines) /\ Len(lines) \in Nat /\ \A i \in DOMAIN lines : lines[i] \in Reply
    BY <1>1
  <1>3. /\ DOMAIN News(lines, e, c) = DOMAIN lines
        /\ \A i \in DOMAIN lines :
             News(lines, e, c)[i] = Addressed(lines[i], [cmd |-> e.cmd, by |-> c])
        /\ News(lines, e, c)
             = [i \in 1..Len(lines) |-> Addressed(lines[i], [cmd |-> e.cmd, by |-> c])]
    BY <1>2 DEF News, AllAddressed
  <1>4. \A i \in DOMAIN lines :
          LET line == News(lines, e, c)[i] IN line \in Lines /\ line.by = c /\ line.of = e.cmd
    BY <1>2, <1>3, AddressedForm
  <1>5. News(lines, e, c) \in Seq(Lines)
    <2>1. News(lines, e, c) \in [1..Len(lines) -> Lines]
      BY <1>2, <1>3, <1>4, Zenon
    <2> QED BY <1>2, <2>1
  <1> QED BY <1>1, <1>2, <1>3, <1>4, <1>5 DEF Among

\* How many of them count for an exchange, as the assumptions count them.
LEMMA NewsCounts ==
    ASSUME NEW f \in Exchanges, f.cmd \in format_command, NEW c \in Callers,
           NEW lines \in AllAnswers(f), NEW e \in Exchanges
    PROVE  /\ Count(News(lines, f, c), FitDown(c, e))
                = Cardinality(Fitting(e, lines))
           /\ Count(News(lines, f, c), EndDown(c, e))
                = Cardinality(Ending(e, lines))
           /\ Among(News(lines, f, c)) \cap RefuseDown(c, e) # {}
                <=> \E i \in DOMAIN lines : MayRefuse(e, lines[i])
           /\ \A i \in DOMAIN lines :
                /\ Harmless(News(lines, f, c)[i]) <=> Harmless(lines[i])
                /\ News(lines, f, c)[i] \in EndDown(c, e) <=> MayEnd(e, lines[i])
  <1> DEFINE new == News(lines, f, c)
  <1>1. DOMAIN new = DOMAIN lines
    BY NewsForm
  <1>2. \A i \in DOMAIN lines :
          /\ new[i] \in FitDown(c, e) <=> MayFit(e, lines[i])
          /\ new[i] \in RefuseDown(c, e) <=> MayRefuse(e, lines[i])
          /\ Harmless(new[i]) <=> Harmless(lines[i])
    <2> TAKE i \in DOMAIN lines
    <2>1. lines[i] \in Reply /\ new[i] = Addressed(lines[i], [cmd |-> f.cmd, by |-> c])
      BY NewsForm
    <2> QED BY <2>1, AddressedFits
  <1> HIDE DEF new
  <1>3. \A i \in DOMAIN lines : new[i] \in EndDown(c, e) <=> MayEnd(e, lines[i])
    BY <1>2, Zenon DEF EndDown, MayEnd
  <1>4. /\ {i \in DOMAIN new : new[i] \in FitDown(c, e)} = Fitting(e, lines)
        /\ {i \in DOMAIN new : new[i] \in EndDown(c, e)} = Ending(e, lines)
    BY <1>1, <1>2, <1>3 DEF Fitting, Ending
  <1>5. Among(new) \cap RefuseDown(c, e) # {} <=> \E i \in DOMAIN lines : MayRefuse(e, lines[i])
    BY <1>1, <1>2 DEF Among
  <1> QED BY <1>2, <1>3, <1>4, <1>5 DEF Count, new

\* What comes for one call changes nothing of what is counted for another.
LEMMA AnswerEffect ==
    ASSUME LinkType, NEW e \in Exchanges, e.cmd \in format_command, NEW c \in Callers,
           NEW lines \in AllAnswers(e), Answer(lines, [cmd |-> e.cmd, by |-> c])
    PROVE  /\ down' \in Seq(Lines) /\ down' = down \o News(lines, e, c)
           /\ Among(down') = Among(down) \cup Among(News(lines, e, c))
           /\ result' \in [Callers -> {"none"} \cup Results]
           /\ result'[c] = IF lines = <<>> THEN "silence" ELSE Verdict(lines)
           /\ \A d \in Callers \ {c} : result'[d] = result[d]
           /\ \A S : Count(down', S) = Count(down, S) + Count(News(lines, e, c), S)
           /\ \A d \in Callers \ {c} : \A S \in SUBSET Own(d) : Count(down', S) = Count(down, S)
           /\ \A d \in Callers \ {c} : \A S \in SUBSET Own(d) :
                Among(down') \cap S = Among(down) \cap S
           /\ \A line \in Among(down') : line.by # c => line \in Among(down)
  <1>1. News(lines, e, c) \in Seq(Lines) /\ \A line \in Among(News(lines, e, c)) : line.by = c
    BY NewsForm
  <1>2. down' = down \o News(lines, e, c) /\ down \in Seq(Lines)
    BY DEF Answer, News, LinkType
  <1>3. down' \in Seq(Lines) /\ Among(down') = Among(down) \cup Among(News(lines, e, c))
    <2>1. down \o News(lines, e, c) \in Seq(Lines)
      BY <1>1, <1>2
    <2>2. CASE Lines = {}
      <3>1. down = <<>> /\ News(lines, e, c) = <<>>
        BY <1>1, <1>2, <2>2
      <3>2. Among(<<>>) = {} /\ <<>> \o <<>> = <<>>
        BY DEF Among
      <3> QED BY <1>2, <2>1, <3>1, <3>2
    <2>3. CASE Lines # {}
      <3>1. PICK x : x \in Lines
        BY <2>3
      <3> QED BY <1>1, <1>2, <2>1, <3>1, AmongQueue
    <2> QED BY <2>2, <2>3
  <1>4. Verdict(lines) \in Results
    BY DEF Verdict, Results
  <1>5. /\ result' \in [Callers -> {"none"} \cup Results]
        /\ result'[c] = IF lines = <<>> THEN "silence" ELSE Verdict(lines)
        /\ \A d \in Callers \ {c} : result'[d] = result[d]
    <2>1. /\ result \in [Callers -> {"none"} \cup Results]
          /\ result' = [result EXCEPT ![c] = IF lines = <<>> THEN "silence" ELSE Verdict(lines)]
      BY DEF Answer, LinkType, Results
    <2>2. (IF lines = <<>> THEN "silence" ELSE Verdict(lines)) \in Results
      BY <1>4 DEF Results
    <2> QED BY <2>1, <2>2
  <1>6. \A S : Count(down', S) = Count(down, S) + Count(News(lines, e, c), S)
    BY <1>1, <1>2, CountConcat
  <1>7. \A d \in Callers \ {c} : \A S \in SUBSET Own(d) :
          Among(News(lines, e, c)) \cap S = {}
    BY <1>1 DEF Own
  <1>8. \A d \in Callers \ {c} : \A S \in SUBSET Own(d) : Count(down', S) = Count(down, S)
    <2> TAKE d \in Callers \ {c}
    <2> TAKE S \in SUBSET Own(d)
    <2>1. Count(News(lines, e, c), S) = 0
      BY <1>1, <1>7, CountZero
    <2>2. Count(down, S) \in Nat
      BY <1>2, CountType
    <2> QED BY <1>6, <2>1, <2>2
  <1>9. \A line \in Among(down') : line.by # c => line \in Among(down)
    BY <1>1, <1>3
  <1> QED BY <1>1, <1>2, <1>3, <1>5, <1>6, <1>7, <1>8, <1>9

\* The end of an exchange touches nothing of the other calls.
LEMMA EndsEffect ==
    ASSUME HostType, NEW c \in Callers, NEW p \in Seq(Exchanges), p # <<>>,
           NEW end \in {"answer", "error", "timeout"}, EndsExchange(c, p, end)
    PROVE  /\ HostType'
           /\ phase'[c] \in {"sending", "over"}
           /\ \A d \in Callers \ {c} : /\ phase'[d] = phase[d] /\ plan'[d] = plan[d]
                                       /\ inbox'[d] = inbox[d] /\ rows'[d] = rows[d]
           /\ inbox'[c] = <<>> /\ rows'[c] = 0
           /\ Len(plan'[c]) <= Len(p) /\ Among(plan'[c]) \subseteq Among(p)
           /\ Len(p) = 1 /\ Head(p).then = "on" => phase'[c] = "over"
  <1>1. /\ phase \in [Callers -> {"idle", "sending", "waiting", "over"}]
        /\ plan \in [Callers -> Seq(Exchanges)]
        /\ inbox \in [Callers -> Seq(Lines)]
        /\ rows \in [Callers -> Nat]
        /\ outcome \in [Callers -> {"none", "answer", "error", "timeout"}]
    BY DEF HostType
  <1>2. /\ inbox' = [inbox EXCEPT ![c] = <<>>]
        /\ rows' = [rows EXCEPT ![c] = 0]
        /\ outcome' = [outcome EXCEPT ![c] = end]
    BY DEF EndsExchange
  <1>3. PICK ph \in {"sending", "over"}, pl \in {p, Tail(p), <<>>} :
          /\ phase' = [phase EXCEPT ![c] = ph] /\ plan' = [plan EXCEPT ![c] = pl]
          /\ ph = "sending" <=> pl # <<>>
          /\ Len(p) = 1 /\ Head(p).then = "on" => ph = "over"
    <2>1. Len(p) = 1 => Tail(p) = <<>>
      <3>1. Tail(p) \in Seq(Exchanges) /\ Len(Tail(p)) = Len(p) - 1
        OBVIOUS
      <3>2. \A q \in Seq(Exchanges) : Len(q) = 0 => q = <<>>
        OBVIOUS
      <3>3. Len(p) = 1 => Len(Tail(p)) = 0
        BY <3>1
      <3> QED BY <3>1, <3>2, <3>3, Zenon
    <2>2. Head(p).then = "on" => Head(p).then \notin {"again", "retry"}
      OBVIOUS
    <2>3. CASE Tail(p) # <<>> /\ plan' = [plan EXCEPT ![c] = Tail(p)]
               /\ phase' = [phase EXCEPT ![c] = "sending"]
      BY <2>1, <2>3
    <2>4. CASE Head(p).then \in {"again", "retry"} /\ plan' = [plan EXCEPT ![c] = p]
               /\ phase' = [phase EXCEPT ![c] = "sending"]
      BY <2>2, <2>4
    <2>5. CASE plan' = [plan EXCEPT ![c] = <<>>] /\ phase' = [phase EXCEPT ![c] = "over"]
      BY <2>5
    <2> QED BY <2>3, <2>4, <2>5, Zenon DEF EndsExchange
  <1>4. /\ pl \in Seq(Exchanges) /\ Len(pl) <= Len(p) /\ Among(pl) \subseteq Among(p)
    <2>1. Head(p) \in Exchanges
      OBVIOUS
    <2>2. /\ Among(Tail(p)) \subseteq Among(p) /\ Tail(p) \in Seq(Exchanges) /\ Among(<<>>) = {}
      BY <2>1, AmongQueue
    <2>3. Len(Tail(p)) <= Len(p) /\ Len(<<>>) <= Len(p) /\ <<>> \in Seq(Exchanges)
      OBVIOUS
    <2>4. CASE pl = p
      BY <2>4
    <2>5. CASE pl = Tail(p)
      BY <2>2, <2>3, <2>5
    <2>6. CASE pl = <<>>
      BY <2>2, <2>3, <2>6
    <2> QED BY <2>4, <2>5, <2>6
  <1>5. /\ phase' \in [Callers -> {"idle", "sending", "waiting", "over"}]
        /\ plan' \in [Callers -> Seq(Exchanges)]
        /\ inbox' \in [Callers -> Seq(Lines)]
        /\ rows' \in [Callers -> Nat]
        /\ outcome' \in [Callers -> {"none", "answer", "error", "timeout"}]
    BY <1>1, <1>2, <1>3, <1>4
  <1>6. /\ phase'[c] = ph /\ plan'[c] = pl /\ inbox'[c] = <<>> /\ rows'[c] = 0
        /\ \A d \in Callers \ {c} : /\ phase'[d] = phase[d] /\ plan'[d] = plan[d]
                                    /\ inbox'[d] = inbox[d] /\ rows'[d] = rows[d]
    BY <1>1, <1>2, <1>3
  <1>7. \A d \in Callers :
          /\ phase'[d] \in {"sending", "waiting"} <=> plan'[d] # <<>>
          /\ phase'[d] # "waiting" => inbox'[d] = <<>> /\ rows'[d] = 0
          /\ phase'[d] = "waiting" => rows'[d] < Head(plan'[d]).rows
    <2>1. \A d \in Callers :
            /\ phase[d] \in {"sending", "waiting"} <=> plan[d] # <<>>
            /\ phase[d] # "waiting" => inbox[d] = <<>> /\ rows[d] = 0
            /\ phase[d] = "waiting" => rows[d] < Head(plan[d]).rows
      BY DEF HostType, Exch
    <2> TAKE d \in Callers
    <2>2. CASE d = c
      BY <1>3, <1>6, <2>2
    <2>3. CASE d # c
      BY <1>6, <2>1, <2>3
    <2> QED BY <2>2, <2>3
  <1> QED BY <1>3, <1>4, <1>5, <1>6, <1>7 DEF HostType, Exch

\* What is left of a plan of one exchange is that exchange.
LEMMA LoneHead ==
    ASSUME NEW q \in Plans, NEW p \in Seq(Exchanges), p # <<>>, Len(q) = 1,
           Len(p) <= Len(q), Among(p) \subseteq Among(q)
    PROVE  Len(p) = 1 /\ Head(p) = Head(q) /\ Head(p) \in Exchanges
  <1>1. q \in Seq(Exchanges)
    BY PlanForm
  <1>2. Head(q) = q[1] /\ Among(q) = {q[1]}
    BY <1>1 DEF Among
  <1>3. Len(p) \in Nat /\ Len(p) # 0
    OBVIOUS
  <1>4. Len(p) <= 1
    OBVIOUS
  <1>5. \A n \in Nat : n # 0 /\ n <= 1 => n = 1
    OBVIOUS
  <1>6. Len(p) = 1
    BY <1>3, <1>4, <1>5, Zenon
  <1>7. 1 \in DOMAIN p /\ Head(p) = p[1] /\ Head(p) \in Exchanges
    BY <1>6
  <1>8. Head(p) \in Among(p)
    BY <1>7, Zenon DEF Among
  <1> QED BY <1>2, <1>6, <1>7, <1>8

\* The line of a call that may be answered late is the only one of its plan.
LEMMA LoneExchange ==
    ASSUME NEW q \in Plans, NEW p \in Seq(Exchanges), p # <<>>,
           Len(p) <= Len(q), Among(p) \subseteq Among(q),
           NEW i \in DOMAIN q, q[i].cmd \in LeavesLines \cup AnsweredLate
    PROVE  /\ Len(q) = 1 /\ Head(q).then = "on" /\ q[i] = Head(q)
           /\ Len(p) = 1 /\ Head(p) = Head(q)
  <1>1. Len(q) = 1 /\ q[i].then = "on"
    BY AloneAssumption
  <1>2. q \in Seq(Exchanges) /\ DOMAIN q = 1..1
    BY <1>1, PlanForm
  <1>3. i = 1 /\ Head(q) = q[1]
    BY <1>2
  <1> QED BY <1>1, <1>3, LoneHead

\* p, all or the rest of the plan q, is what c does next.
Ready(c, p, q) ==
    /\ phase[c] \in {"idle", "sending"}
    /\ p # <<>> /\ Len(p) <= Len(q) /\ Among(p) \subseteq Among(q)
    /\ Len(q) = 1 /\ Head(q).then = "on" => phase[c] = "idle"
    /\ phase[c] = "idle" => \A line \in Among(down) : line.by # c
    /\ \A line \in Among(down) : line.by = c => Meant(q, c, line)
    /\ \A d \in Callers : \A line \in Among(inbox[d]) : line.by = c => MeantAs(q, c, line)
    /\ \A late \in open : late.by # c

\* Whoever sends a command has nothing on the link that is not of its plan.
LEMMA SendsReady ==
    ASSUME TypeInv, SourceInv, NEW c \in Callers, Begin(c) \/ SendNext(c)
    PROVE  \E p \in Seq(Exchanges), q \in Plans : Ready(c, p, q) /\ Sends(c, p)
  <1>1. CASE Begin(c)
    <2>1. PICK p \in Plans : Sends(c, p)
      BY <1>1 DEF Begin
    <2>2. phase[c] = "idle" /\ Unheardof(c)
      BY <1>1 DEF Begin, SourceInv, CallOf
    <2>3. p \in Seq(Exchanges) /\ p # <<>> /\ Len(p) <= Len(p)
      BY PlanForm
    <2> QED BY <2>1, <2>2, <2>3 DEF Ready, Unheardof
  <1>2. CASE SendNext(c)
    <2>1. phase[c] = "sending" /\ Sends(c, plan[c])
      BY <1>2 DEF SendNext
    <2>2. PICK q \in Plans : CallOf(c, q)
      BY <2>1 DEF SourceInv, Unheardof
    <2>3. plan[c] \in Seq(Exchanges) /\ plan[c] # <<>>
      BY <2>1 DEF TypeInv, HostType
    <2>4. Ready(c, plan[c], q)
      BY <2>1, <2>2, <2>3 DEF Ready, CallOf
    <2> QED BY <2>1, <2>3, <2>4
  <1> QED BY <1>1, <1>2

\* What sending a command changes.
LEMMA SendsEffect ==
    ASSUME TypeInv, NEW c \in Callers, NEW p \in Seq(Exchanges), p # <<>>,
           phase[c] \in {"idle", "sending"}, Sends(c, p)
    PROVE  /\ Head(p) \in Exchanges /\ Head(p).cmd \in format_command
           /\ \E lines \in AllAnswers(Head(p)) :
                /\ lines \in AnswersOf(peer, Head(p).cmd, Head(p).rows)
                /\ Answer(lines, [cmd |-> Head(p).cmd, by |-> c])
                /\ open' = IF lines = <<>> /\ peer = "daemon" /\ Head(p).cmd \in AnsweredLate
                           THEN open \cup {[cmd |-> Head(p).cmd, by |-> c]} ELSE open
           /\ HostType'
           /\ IF Waits(Head(p)) THEN phase'[c] = "waiting" /\ plan'[c] = p
              ELSE phase'[c] \in {"sending", "over"}
           /\ \A d \in Callers \ {c} : /\ phase'[d] = phase[d] /\ plan'[d] = plan[d]
                                       /\ inbox'[d] = inbox[d] /\ rows'[d] = rows[d]
           /\ inbox'[c] = <<>> /\ rows'[c] = 0
           /\ Len(plan'[c]) <= Len(p) /\ Among(plan'[c]) \subseteq Among(p)
           /\ Len(p) = 1 /\ Head(p).then = "on" => phase'[c] \in {"waiting", "over"}
           /\ settled'[c] => settled[c] /\ Waits(Head(p))
           /\ \A d \in Callers \ {c} : settled'[d] = settled[d]
           /\ settled' \in [Callers -> BOOLEAN] /\ peer' = peer /\ heard' = heard
  <1>1. Head(p) \in Exchanges
    OBVIOUS
  <1>2. Head(p).cmd \in format_command /\ peer' = peer /\ heard' = heard
    BY DEF Sends
  <1>3. peer \in Peers /\ settled \in [Callers -> BOOLEAN] /\ HostType
    BY DEF TypeInv, LinkType
  <1>4. \E lines \in AllAnswers(Head(p)) :
          /\ lines \in AnswersOf(peer, Head(p).cmd, Head(p).rows)
          /\ Answer(lines, [cmd |-> Head(p).cmd, by |-> c])
          /\ open' = IF lines = <<>> /\ peer = "daemon" /\ Head(p).cmd \in AnsweredLate
                     THEN open \cup {[cmd |-> Head(p).cmd, by |-> c]} ELSE open
    <2> DEFINE command == [cmd |-> Head(p).cmd, by |-> c]
    <2>1. Handle(command, Head(p).rows) /\ command.cmd = Head(p).cmd
      BY DEF Sends
    <2> HIDE DEF command
    <2>2. PICK lines \in AnswersOf(peer, Head(p).cmd, Head(p).rows) :
            /\ Answer(lines, command)
            /\ open' = IF lines = <<>> /\ peer = "daemon" /\ Head(p).cmd \in AnsweredLate
                       THEN open \cup {command} ELSE open
      BY <2>1 DEF Handle
    <2>3. lines \in AllAnswers(Head(p))
      BY <1>3, <2>2 DEF AllAnswers
    <2> QED BY <2>2, <2>3 DEF command
  <1>5. /\ settled'[c] => settled[c] /\ Waits(Head(p))
        /\ \A d \in Callers \ {c} : settled'[d] = settled[d]
        /\ settled' \in [Callers -> BOOLEAN]
    <2>1. settled' = [settled EXCEPT ![c] = @ /\ Waits(Head(p))]
      BY DEF Sends, Settles
    <2>2. (settled[c] /\ Waits(Head(p))) \in BOOLEAN
      BY Zenon
    <2>3. settled' \in [Callers -> BOOLEAN]
      BY <1>3, <2>1, <2>2
    <2>4. settled'[c] = (settled[c] /\ Waits(Head(p)))
      BY <1>3, <2>1, Zenon
    <2>5. \A d \in Callers \ {c} : settled'[d] = settled[d]
      BY <1>3, <2>1
    <2> QED BY <2>3, <2>4, <2>5, Zenon
  <1>6. CASE ~Waits(Head(p))
    <2>1. EndsExchange(c, p, "answer")
      BY <1>6, Zenon DEF Sends
    <2> HIDE DEF EndsExchange
    <2>2. /\ HostType' /\ phase'[c] \in {"sending", "over"}
          /\ \A d \in Callers \ {c} : /\ phase'[d] = phase[d] /\ plan'[d] = plan[d]
                                      /\ inbox'[d] = inbox[d] /\ rows'[d] = rows[d]
          /\ inbox'[c] = <<>> /\ rows'[c] = 0
          /\ Len(plan'[c]) <= Len(p) /\ Among(plan'[c]) \subseteq Among(p)
          /\ Len(p) = 1 /\ Head(p).then = "on" => phase'[c] = "over"
      BY <1>3, <2>1, EndsEffect
    <2> QED BY <1>1, <1>2, <1>4, <1>5, <1>6, <2>2
  <1>7. CASE Waits(Head(p))
    <2>1. /\ phase' = [phase EXCEPT ![c] = "waiting"]
          /\ plan' = [plan EXCEPT ![c] = p]
          /\ inbox' = inbox /\ rows' = rows /\ outcome' = outcome
      BY <1>7, Zenon DEF Sends
    <2>2. /\ phase \in [Callers -> {"idle", "sending", "waiting", "over"}]
          /\ plan \in [Callers -> Seq(Exchanges)]
          /\ inbox \in [Callers -> Seq(Lines)]
          /\ rows \in [Callers -> Nat]
          /\ outcome \in [Callers -> {"none", "answer", "error", "timeout"}]
          /\ \A d \in Callers :
               /\ phase[d] \in {"sending", "waiting"} <=> plan[d] # <<>>
               /\ phase[d] # "waiting" => inbox[d] = <<>> /\ rows[d] = 0
               /\ phase[d] = "waiting" => rows[d] < Head(plan[d]).rows
      BY <1>3 DEF HostType, Exch
    <2>3. /\ phase'[c] = "waiting" /\ plan'[c] = p /\ inbox'[c] = <<>> /\ rows'[c] = 0
          /\ \A d \in Callers \ {c} : /\ phase'[d] = phase[d] /\ plan'[d] = plan[d]
                                      /\ inbox'[d] = inbox[d] /\ rows'[d] = rows[d]
      BY <2>1, <2>2
    <2>4. /\ phase' \in [Callers -> {"idle", "sending", "waiting", "over"}]
          /\ plan' \in [Callers -> Seq(Exchanges)]
          /\ inbox' \in [Callers -> Seq(Lines)]
          /\ rows' \in [Callers -> Nat]
          /\ outcome' \in [Callers -> {"none", "answer", "error", "timeout"}]
      BY <2>1, <2>2
    <2>5. Head(p).rows \in Nat /\ 0 < Head(p).rows
      BY <1>1, ExchangeForm
    <2>6. \A d \in Callers :
            /\ phase'[d] \in {"sending", "waiting"} <=> plan'[d] # <<>>
            /\ phase'[d] # "waiting" => inbox'[d] = <<>> /\ rows'[d] = 0
            /\ phase'[d] = "waiting" => rows'[d] < Head(plan'[d]).rows
      <3> TAKE d \in Callers
      <3>1. CASE d = c
        BY <2>3, <2>5, <3>1
      <3>2. CASE d # c
        BY <2>2, <2>3, <3>2
      <3> QED BY <3>1, <3>2
    <2>7. HostType'
      BY <2>4, <2>6 DEF HostType, Exch
    <2>8. Len(plan'[c]) <= Len(p) /\ Among(plan'[c]) \subseteq Among(p)
      BY <2>3
    <2> QED BY <1>1, <1>2, <1>4, <1>5, <1>7, <2>3, <2>7, <2>8
  <1> QED BY <1>6, <1>7
-----------------------------------------------------------------------------
(* Every line is of one call's plan, or noise                              *)

\* A step that sends nothing for d leaves it the call it was: it hears what was on
\* the way.
LEMMA CallKeeps ==
    ASSUME NEW d \in Callers, NEW p \in Plans, CallOf(d, p),
           phase'[d] # "idle", peer' = peer,
           Len(plan'[d]) <= Len(p), Among(plan'[d]) \subseteq Among(p),
           Len(p) = 1 /\ Head(p).then = "on" => phase'[d] # "sending",
           \A line \in Among(down') : line.by = d => line \in Among(down),
           \A x \in Callers : \A line \in Among(inbox'[x]) : line.by = d =>
             \/ line \in Among(inbox[x])
             \/ \E said \in Among(down) : \E word \in process_message(said.word) :
                  said.by = d /\ line = [said EXCEPT !.word = word],
           \A late \in open' : late.by = d =>
             late \in open /\ (phase[d] = "waiting" => phase'[d] \in {"waiting", "over"})
                           /\ (phase[d] = "over" => phase'[d] = "over"),
           LinkType
    PROVE  CallOf(d, p)'
  <1>1. \A line \in Among(down') : line.by = d => Meant(p, d, line)
    BY Zenon DEF CallOf
  <1>2. \A x \in Callers : \A line \in Among(inbox'[x]) : line.by = d => MeantAs(p, d, line)
    <2> TAKE x \in Callers
    <2> TAKE line \in Among(inbox'[x])
    <2> HAVE line.by = d
    <2>1. CASE line \in Among(inbox[x])
      BY <2>1, Zenon DEF CallOf
    <2>2. CASE \E said \in Among(down) : \E word \in process_message(said.word) :
                  said.by = d /\ line = [said EXCEPT !.word = word]
      <3>0. PICK said \in Among(down) : \E word \in process_message(said.word) :
               said.by = d /\ line = [said EXCEPT !.word = word]
        BY <2>2
      <3>1. PICK word \in process_message(said.word) :
               said.by = d /\ line = [said EXCEPT !.word = word]
        BY <3>0
      <3>2. Meant(p, d, said)
        BY <3>1, Zenon DEF CallOf
      <3>3. PICK i \in DOMAIN p : \E lines \in AllAnswers(p[i]) : \E k \in DOMAIN lines :
               said = Addressed(lines[k], [cmd |-> p[i].cmd, by |-> d])
        BY <3>2, Zenon DEF Meant
      <3>4. PICK lines \in AllAnswers(p[i]) : \E k \in DOMAIN lines :
               said = Addressed(lines[k], [cmd |-> p[i].cmd, by |-> d])
        BY <3>3
      <3>5. PICK k \in DOMAIN lines : said = Addressed(lines[k], [cmd |-> p[i].cmd, by |-> d])
        BY <3>4
      <3>6. said.word = lines[k].word
        BY <3>5 DEF Addressed
      <3>7. /\ line = [Addressed(lines[k], [cmd |-> p[i].cmd, by |-> d]) EXCEPT !.word = word]
            /\ word \in process_message(lines[k].word)
        BY <3>1, <3>5, <3>6
      <3>8. \E w \in process_message(lines[k].word) :
              line = [Addressed(lines[k], [cmd |-> p[i].cmd, by |-> d]) EXCEPT !.word = w]
        BY <3>7
      <3>9. \E a \in AllAnswers(p[i]) : \E j \in DOMAIN a : \E w \in process_message(a[j].word) :
              line = [Addressed(a[j], [cmd |-> p[i].cmd, by |-> d]) EXCEPT !.word = w]
        BY <3>8
      <3> QED BY <3>9 DEF MeantAs
    <2> QED BY <2>1, <2>2
  <1>3. ASSUME NEW late \in open', late.by = d
        PROVE  /\ peer' = "daemon" /\ phase'[d] \in {"waiting", "over"}
               /\ \E i \in DOMAIN p : p[i].cmd = late.cmd
               /\ \A line \in Among(down') : line.by # d
               /\ \A line \in Among(inbox'[d]) : line.by # d
    <2>1. late \in open
      BY <1>3
    <2>2. /\ peer = "daemon" /\ phase[d] \in {"waiting", "over"}
          /\ \E i \in DOMAIN p : p[i].cmd = late.cmd
          /\ \A line \in Among(down) : line.by # d
          /\ \A line \in Among(inbox[d]) : line.by # d
      BY <1>3, <2>1, Zenon DEF CallOf
    <2>3. /\ phase[d] = "waiting" => phase'[d] \in {"waiting", "over"}
          /\ phase[d] = "over" => phase'[d] = "over"
      BY <1>3
    <2>4. peer' = "daemon" /\ phase'[d] \in {"waiting", "over"}
      BY <2>2, <2>3
    <2>5. \A line \in Among(down') : line.by # d
      BY <2>2, Zenon
    <2>6. \A line \in Among(inbox'[d]) : line.by # d
      BY <2>2, Zenon
    <2> QED BY <2>2, <2>4, <2>5, <2>6, Zenon
  <1> QED BY <1>1, <1>2, <1>3, Zenon DEF CallOf

\* Nothing comes from a call that has not begun.
LEMMA UnheardofKeeps ==
    ASSUME NEW d \in Callers, Unheardof(d), phase'[d] = "idle",
           \A line \in Among(down') : line.by = d => line \in Among(down),
           \A x \in Callers : \A line \in Among(inbox'[x]) : line.by = d =>
             \/ line \in Among(inbox[x])
             \/ \E said \in Among(down) : said.by = d,
           \A late \in open' : late.by = d => late \in open
    PROVE  Unheardof(d)'
  BY Zenon DEF Unheardof

\* The plan of a call that has one.
LEMMA Called ==
    ASSUME SourceInv, NEW c \in Callers, phase[c] # "idle"
    PROVE  \E p \in Plans : CallOf(c, p)
  BY DEF SourceInv, Unheardof

\* Lines of a plan are known to the parser, and of one of its commands.
LEMMA MeantForm ==
    ASSUME NEW p \in Plans, NEW c \in Callers, NEW line \in Lines,
           Meant(p, c, line)
    PROVE  line.word \in DOMAIN parse_message
  <1>1. PICK i \in DOMAIN p : \E lines \in AllAnswers(p[i]) : \E k \in DOMAIN lines :
           line = Addressed(lines[k], [cmd |-> p[i].cmd, by |-> c])
    BY Zenon DEF Meant
  <1>2. PICK lines \in AllAnswers(p[i]) : \E k \in DOMAIN lines :
           line = Addressed(lines[k], [cmd |-> p[i].cmd, by |-> c])
    BY <1>1
  <1>3. PICK k \in DOMAIN lines : line = Addressed(lines[k], [cmd |-> p[i].cmd, by |-> c])
    BY <1>2
  <1>4. lines \in Seq(Reply) /\ lines[k] \in Reply
    <2>1. lines \in Seq(Reply)
      BY PlanForm, ExchangeForm
    <2> QED BY <2>1
  <1>5. line.word = lines[k].word /\ lines[k].word \in DOMAIN parse_message
    BY <1>3, <1>4 DEF Addressed, Reply
  <1> QED BY <1>5

\* Sending keeps the types, and adds only lines of the caller's plan.
LEMMA SendsSource ==
    ASSUME TypeInv, SourceInv, NEW c \in Callers, NEW p \in Seq(Exchanges), NEW q \in Plans,
           Ready(c, p, q), Sends(c, p), orderly' \in BOOLEAN
    PROVE  TypeInv' /\ SourceInv'
  <1> DEFINE e == Head(p)
  <1>1. p # <<>> /\ phase[c] \in {"idle", "sending"}
    BY DEF Ready
  <1>2. /\ e \in Exchanges /\ e.cmd \in format_command
        /\ HostType'
        /\ IF Waits(e) THEN phase'[c] = "waiting" /\ plan'[c] = p
           ELSE phase'[c] \in {"sending", "over"}
        /\ \A d \in Callers \ {c} : /\ phase'[d] = phase[d] /\ plan'[d] = plan[d]
                                    /\ inbox'[d] = inbox[d] /\ rows'[d] = rows[d]
        /\ inbox'[c] = <<>> /\ rows'[c] = 0
        /\ Len(plan'[c]) <= Len(p) /\ Among(plan'[c]) \subseteq Among(p)
        /\ Len(p) = 1 /\ Head(p).then = "on" => phase'[c] \in {"waiting", "over"}
        /\ settled' \in [Callers -> BOOLEAN] /\ peer' = peer /\ heard' = heard
    BY <1>1, SendsEffect
  <1>3. PICK lines \in AllAnswers(e) :
          /\ Answer(lines, [cmd |-> e.cmd, by |-> c])
          /\ open' = IF lines = <<>> /\ peer = "daemon" /\ e.cmd \in AnsweredLate
                     THEN open \cup {[cmd |-> e.cmd, by |-> c]} ELSE open
    BY <1>1, SendsEffect
  <1> HIDE DEF e
  <1>4. LinkType
    BY DEF TypeInv
  <1>5. /\ down' \in Seq(Lines) /\ Among(down') = Among(down) \cup Among(News(lines, e, c))
        /\ result' \in [Callers -> {"none"} \cup Results]
        /\ \A line \in Among(down') : line.by # c => line \in Among(down)
    BY <1>2, <1>3, <1>4, AnswerEffect
  <1>6. open' \subseteq [cmd : AnsweredLate, by : Callers]
    <2>1. open \subseteq [cmd : AnsweredLate, by : Callers]
      BY <1>4 DEF LinkType
    <2> QED BY <1>3, <2>1
  <1>7. LinkType'
    BY <1>2, <1>4, <1>5, <1>6 DEF LinkType, Results
  <1>8. /\ Head(q) \in Among(q) /\ q \in Seq(Exchanges) /\ Len(q) \in Nat /\ Len(p) \in Nat
        /\ Len(p) > 0 /\ e \in Among(q)
    <2>1. Head(p) = p[1] /\ 1 \in DOMAIN p /\ Len(p) \in Nat /\ Len(p) > 0
      BY <1>1
    <2>2. Head(p) \in Among(p)
      BY <2>1, Zenon DEF Among
    <2>3. e \in Among(q)
      BY <2>2, Zenon DEF e, Ready
    <2> QED BY <2>1, <2>3, PlanForm
  <1>9. PICK i \in DOMAIN q : q[i] = e
    BY <1>8 DEF Among
  <1>10. /\ DOMAIN News(lines, e, c) = DOMAIN lines
         /\ \A line \in Among(News(lines, e, c)) : line.by = c /\ Meant(q, c, line)
    <2>1. /\ DOMAIN News(lines, e, c) = DOMAIN lines
          /\ \A line \in Among(News(lines, e, c)) :
               /\ line.by = c
               /\ \E k \in DOMAIN lines : line = Addressed(lines[k], [cmd |-> e.cmd, by |-> c])
      BY <1>2, NewsForm
    <2> QED BY <1>9, <2>1, Zenon DEF Meant
  <1>11. \A line \in Among(down') : line.by \in Callers \/ Noisy(line)
    BY <1>5, <1>10, Zenon DEF SourceInv
  <1>12. \A d \in Callers : \A line \in Among(inbox'[d]) :
            d # c /\ line \in Among(inbox[d])
    <2>1. Among(<<>>) = {}
      BY DEF Among
    <2> QED BY <1>2, <2>1
  <1>13. \A d \in Callers : \A line \in Among(inbox'[d]) : line.by \in Callers \/ Noisy(line)
    BY <1>12, Zenon DEF SourceInv
  <1>14. \A d \in Callers \ {c} : \A late \in open' : late.by = d => late \in open
    BY <1>3
  <1>15. ASSUME NEW d \in Callers \ {c}
         PROVE  (Unheardof(d) \/ \E r \in Plans : CallOf(d, r))'
    <2>1. CASE Unheardof(d)
      <3>1. phase'[d] = "idle"
        BY <1>2, <2>1 DEF Unheardof
      <3>2. Unheardof(d)'
        BY <1>5, <1>12, <1>14, <2>1, <3>1, UnheardofKeeps
      <3> QED BY <3>2
    <2>2. CASE \E r \in Plans : CallOf(d, r)
      <3>1. PICK r \in Plans : CallOf(d, r)
        BY <2>2
      <3>2. /\ phase'[d] = phase[d] /\ plan'[d] = plan[d] /\ phase[d] # "idle"
            /\ Len(plan[d]) <= Len(r) /\ Among(plan[d]) \subseteq Among(r)
            /\ Len(r) = 1 /\ Head(r).then = "on" => phase[d] # "sending"
        BY <1>2, <3>1 DEF CallOf
      <3>3. CallOf(d, r)'
        BY <1>2, <1>4, <1>5, <1>12, <1>14, <3>1, <3>2, CallKeeps
      <3> QED BY <3>3
    <2> QED BY <2>1, <2>2 DEF SourceInv
  <1>16. CallOf(c, q)'
    <2>1. phase'[c] # "idle" /\ Len(plan'[c]) <= Len(q) /\ Among(plan'[c]) \subseteq Among(q)
      <3>1. phase'[c] # "idle"
        BY <1>2
      <3>2. Len(p) <= Len(q) /\ Among(p) \subseteq Among(q)
        BY DEF Ready
      <3>3. plan'[c] \in Seq(Exchanges)
        BY <1>2 DEF HostType
      <3>4. Len(plan'[c]) \in Nat
        BY <3>3
      <3> QED BY <1>2, <1>8, <3>1, <3>2, <3>4
    <2>2. Len(q) = 1 /\ Head(q).then = "on" => phase'[c] # "sending"
      <3> HAVE Len(q) = 1 /\ Head(q).then = "on"
      <3>1. Among(q) = {Head(q)}
        BY <1>8 DEF Among
      <3>2. Len(p) = 1
        BY <1>8 DEF Ready
      <3>3. Head(p).then = "on"
        BY <1>8, <3>1 DEF e
      <3> QED BY <1>2, <3>2, <3>3
    <2>3. \A line \in Among(down') : line.by = c => Meant(q, c, line)
      BY <1>5, <1>10, Zenon DEF Ready
    <2>4. \A d \in Callers : \A line \in Among(inbox'[d]) : line.by = c => MeantAs(q, c, line)
      BY <1>12, Zenon DEF Ready
    <2>5. ASSUME NEW late \in open', late.by = c
          PROVE  /\ peer' = "daemon" /\ phase'[c] \in {"waiting", "over"}
                 /\ \E k \in DOMAIN q : q[k].cmd = late.cmd
                 /\ \A line \in Among(down') : line.by # c
                 /\ \A line \in Among(inbox'[c]) : line.by # c
      <3>1. late \notin open
        BY <2>5 DEF Ready
      <3>2. /\ lines = <<>> /\ peer = "daemon" /\ e.cmd \in AnsweredLate
            /\ late = [cmd |-> e.cmd, by |-> c]
        BY <1>3, <2>5, <3>1
      <3>3. late.cmd = e.cmd
        BY <3>2
      <3>4. /\ Len(q) = 1 /\ Head(q).then = "on" /\ Len(p) = 1 /\ Head(p) = Head(q)
        BY <1>1, <1>9, <3>2, LoneExchange DEF Ready
      <3>5. phase'[c] \in {"waiting", "over"}
        BY <1>2, <3>4
      <3>6. \A line \in Among(down') : line.by # c
        <4>1. Among(News(lines, e, c)) = {}
          <5>1. DOMAIN lines = {}
            BY <3>2
          <5> QED BY <1>10, <5>1 DEF Among
        <4>2. \A line \in Among(down) : line.by # c
          BY <3>4 DEF Ready
        <4> QED BY <1>5, <4>1, <4>2
      <3>7. \A line \in Among(inbox'[c]) : line.by # c
        BY <1>12
      <3> QED BY <1>2, <1>9, <3>2, <3>3, <3>5, <3>6, <3>7
    <2> QED BY <2>1, <2>2, <2>3, <2>4, <2>5, Zenon DEF CallOf
  <1>17. SourceInv'
    BY <1>11, <1>13, <1>15, <1>16, Zenon DEF SourceInv
  <1> QED BY <1>2, <1>7, <1>17 DEF TypeInv

\* A command that is answered late is all there is of its plan.
LEMMA LateForm ==
    ASSUME TypeInv, SourceInv, NEW late \in open
    PROVE  /\ late.by \in Callers /\ late.cmd \in AnsweredLate /\ late.cmd \in format_command
           /\ \E q \in Plans :
                /\ CallOf(late.by, q) /\ Len(q) = 1 /\ Head(q).then = "on"
                /\ Head(q) \in Exchanges /\ Head(q).cmd = late.cmd
                /\ late = [cmd |-> Head(q).cmd, by |-> late.by]
                /\ LateAnswersOf(late.cmd) \subseteq AllAnswers(Head(q))
           /\ \A other \in open : other.by = late.by => other = late
  <1>1. open \subseteq [cmd : AnsweredLate, by : Callers]
    BY DEF TypeInv, LinkType
  <1>2. /\ late.by \in Callers /\ late.cmd \in AnsweredLate
        /\ late = [cmd |-> late.cmd, by |-> late.by]
        /\ \A other \in open : other.cmd = late.cmd /\ other.by = late.by => other = late
    BY <1>1
  <1>3. late.cmd \in format_command
    BY <1>2 DEF AnsweredLate, format_command, format_client_commands, format_system_commands
  <1>4. PICK q \in Plans : CallOf(late.by, q)
    BY <1>2 DEF SourceInv, Unheardof
  <1>5. PICK i \in DOMAIN q : q[i].cmd = late.cmd
    BY <1>4, Zenon DEF CallOf
  <1>6. Len(q) = 1 /\ q[i].then = "on"
    BY <1>2, <1>5, AloneAssumption
  <1>7. q \in Seq(Exchanges) /\ Head(q) \in Exchanges
    BY PlanForm
  <1>8. i = 1 /\ DOMAIN q = {1} /\ Head(q) = q[1]
    BY <1>6, <1>7
  <1>9. LateAnswersOf(late.cmd) \subseteq AllAnswers(Head(q))
    <2>1. Head(q).cmd = late.cmd
      BY <1>5, <1>8
    <2>2. AllAnswers(Head(q))
            = (UNION {AnswersOf(p, Head(q).cmd, Head(q).rows) : p \in Peers})
                \cup LateAnswersOf(Head(q).cmd)
      BY <1>2, <2>1 DEF AllAnswers
    <2> QED BY <2>1, <2>2
  <1>10. ASSUME NEW other \in open, other.by = late.by PROVE other = late
    <2>1. \E k \in DOMAIN q : q[k].cmd = other.cmd
      BY <1>4, <1>10, Zenon DEF CallOf
    <2> QED BY <1>2, <1>5, <1>8, <1>10, <2>1
  <1> QED BY <1>2, <1>3, <1>4, <1>5, <1>6, <1>7, <1>8, <1>9, <1>10

\* The host's part of the state stays as it is.
LEMMA HostStays ==
    ASSUME HostType, UNCHANGED <<phase, plan, inbox, rows, outcome>>
    PROVE  HostType'
  BY Zenon DEF HostType, Exch

\* A late answer adds only lines of its caller's plan.
LEMMA LateSource ==
    ASSUME TypeInv, SourceInv, LateAnswer
    PROVE  TypeInv' /\ SourceInv'
  <1>1. PICK late \in open :
          /\ open' = open \ {late}
          /\ \E lines \in LateAnswersOf(late.cmd) : Answer(lines, late)
          /\ UNCHANGED <<noise, host>>
    BY Zenon DEF LateAnswer
  <1>2. PICK lines \in LateAnswersOf(late.cmd) : Answer(lines, late)
    BY <1>1
  <1> DEFINE c == late.by
  <1>3. /\ c \in Callers /\ late.cmd \in format_command
        /\ \A other \in open : other.by = c => other = late
    BY LateForm
  <1>4. PICK q \in Plans :
          /\ CallOf(c, q) /\ Len(q) = 1 /\ Head(q).then = "on"
          /\ Head(q) \in Exchanges /\ Head(q).cmd = late.cmd
          /\ late = [cmd |-> Head(q).cmd, by |-> c]
          /\ LateAnswersOf(late.cmd) \subseteq AllAnswers(Head(q))
    BY LateForm
  <1> DEFINE e == Head(q)
  <1> HIDE DEF c, e
  <1>5. e \in Exchanges /\ e.cmd \in format_command /\ lines \in AllAnswers(e)
        /\ Answer(lines, [cmd |-> e.cmd, by |-> c])
    <2>1. Answer(lines, [cmd |-> Head(q).cmd, by |-> c])
      BY <1>2, <1>4
    <2> QED BY <1>2, <1>3, <1>4, <2>1 DEF e
  <1>6. LinkType /\ HostType
    BY DEF TypeInv
  <1>7. /\ down' \in Seq(Lines) /\ Among(down') = Among(down) \cup Among(News(lines, e, c))
        /\ result' \in [Callers -> {"none"} \cup Results]
        /\ \A line \in Among(down') : line.by # c => line \in Among(down)
    BY <1>3, <1>5, <1>6, AnswerEffect
  <1>8. /\ peer' = peer /\ phase' = phase /\ plan' = plan /\ inbox' = inbox /\ rows' = rows
        /\ outcome' = outcome /\ heard' = heard /\ settled' = settled /\ orderly' = orderly
    BY <1>1 DEF host
  <1>9. HostType'
    BY <1>6, <1>8, HostStays
  <1>10. LinkType'
    BY <1>1, <1>6, <1>7, <1>8 DEF LinkType, Results
  <1>11. \A line \in Among(News(lines, e, c)) : line.by = c /\ Meant(q, c, line)
    <2>1. 1 \in DOMAIN q /\ q[1] = e
      BY <1>4, PlanForm DEF e
    <2>2. \A line \in Among(News(lines, e, c)) :
            /\ line.by = c
            /\ \E k \in DOMAIN lines : line = Addressed(lines[k], [cmd |-> e.cmd, by |-> c])
      BY <1>3, <1>5, NewsForm
    <2> QED BY <1>5, <2>1, <2>2, Zenon DEF Meant
  <1>12. \A line \in Among(down') : line.by \in Callers \/ Noisy(line)
    BY <1>3, <1>7, <1>11, Zenon DEF SourceInv
  <1>13. \A d \in Callers : \A line \in Among(inbox'[d]) : line.by \in Callers \/ Noisy(line)
    BY <1>8, Zenon DEF SourceInv
  <1>14. ASSUME NEW d \in Callers \ {c}
         PROVE  (Unheardof(d) \/ \E r \in Plans : CallOf(d, r))'
    <2>1. CASE Unheardof(d)
      <3>1. phase'[d] = "idle"
        BY <1>8, <2>1 DEF Unheardof
      <3>2. Unheardof(d)'
        BY <1>1, <1>7, <1>8, <2>1, <3>1, UnheardofKeeps
      <3> QED BY <3>2
    <2>2. CASE \E r \in Plans : CallOf(d, r)
      <3>1. PICK r \in Plans : CallOf(d, r)
        BY <2>2
      <3>2. /\ phase'[d] = phase[d] /\ plan'[d] = plan[d] /\ phase[d] # "idle"
            /\ Len(plan[d]) <= Len(r) /\ Among(plan[d]) \subseteq Among(r)
            /\ Len(r) = 1 /\ Head(r).then = "on" => phase[d] # "sending"
        BY <1>8, <3>1 DEF CallOf
      <3>3. CallOf(d, r)'
        BY <1>1, <1>6, <1>7, <1>8, <3>1, <3>2, CallKeeps
      <3> QED BY <3>3
    <2> QED BY <2>1, <2>2 DEF SourceInv
  <1>15. CallOf(c, q)'
    <2>1. /\ phase'[c] # "idle" /\ Len(plan'[c]) <= Len(q) /\ Among(plan'[c]) \subseteq Among(q)
          /\ Len(q) = 1 /\ Head(q).then = "on" => phase'[c] # "sending"
      BY <1>4, <1>8 DEF CallOf
    <2>2. \A line \in Among(down') : line.by = c => Meant(q, c, line)
      BY <1>4, <1>7, <1>11, Zenon DEF CallOf
    <2>3. \A d \in Callers : \A line \in Among(inbox'[d]) : line.by = c => MeantAs(q, c, line)
      BY <1>4, <1>8, Zenon DEF CallOf
    <2>4. \A other \in open' : other.by # c
      BY <1>1, <1>3
    <2> QED BY <2>1, <2>2, <2>3, <2>4, Zenon DEF CallOf
  <1>16. SourceInv'
    BY <1>12, <1>13, <1>14, <1>15, Zenon DEF SourceInv
  <1> QED BY <1>9, <1>10, <1>16 DEF TypeInv

\* A step that sends nothing for anyone.
LEMMA OthersSource ==
    ASSUME TypeInv, SourceInv, LinkType', HostType', peer' = peer, open' = open,
           \A c \in Callers :
             /\ phase[c] = "idle" <=> phase'[c] = "idle"
             /\ phase[c] = "waiting" \/ phase'[c] = phase[c]
             /\ phase'[c] = "sending" =>
                  \/ phase[c] = "sending"
                  \/ ~(Len(plan[c]) = 1 /\ Head(plan[c]).then = "on")
             /\ (\E late \in open : late.by = c) => phase'[c] \in {"waiting", "over"}
             /\ Len(plan'[c]) <= Len(plan[c]) /\ Among(plan'[c]) \subseteq Among(plan[c])
             /\ \A line \in Among(inbox'[c]) :
                  \/ line \in Among(inbox[c])
                  \/ \E said \in Among(down) : \E word \in process_message(said.word) :
                       said \in Lines /\ word \in KnownWords /\ line = [said EXCEPT !.word = word],
           \A line \in Among(down') : line \in Among(down) \/ Noisy(line)
    PROVE  SourceInv'
  <1>1. \A line \in Among(down') : line.by \in Callers \/ Noisy(line)
    BY Zenon DEF SourceInv
  <1>2. "nobody" \notin Callers
    BY CallersAssumption
  <1>3. \A c \in Callers : \A line \in Among(inbox'[c]) :
          \/ line \in Among(inbox[c])
          \/ \E said \in Among(down) : \E word \in process_message(said.word) :
               /\ line = [said EXCEPT !.word = word]
               /\ line.by = said.by /\ line.text = said.text
    <2> TAKE c \in Callers
    <2> TAKE line \in Among(inbox'[c])
    <2>1. CASE \E said \in Among(down) : \E word \in process_message(said.word) :
                 said \in Lines /\ word \in KnownWords /\ line = [said EXCEPT !.word = word]
      <3>1. PICK said \in Among(down) : \E word \in process_message(said.word) :
                   said \in Lines /\ word \in KnownWords /\ line = [said EXCEPT !.word = word]
        BY <2>1
      <3>2. PICK word \in process_message(said.word) :
                   said \in Lines /\ word \in KnownWords /\ line = [said EXCEPT !.word = word]
        BY <3>1
      <3>3. line.by = said.by /\ line.text = said.text
        BY <3>2, LineForm
      <3> QED BY <3>2, <3>3
    <2> QED BY <2>1
  <1>4. \A c \in Callers : \A line \in Among(inbox'[c]) : line.by \in Callers \/ Noisy(line)
    <2> TAKE c \in Callers
    <2> TAKE line \in Among(inbox'[c])
    <2>1. CASE line \in Among(inbox[c])
      BY <2>1, Zenon DEF SourceInv
    <2>2. CASE \E said \in Among(down) : line.by = said.by /\ line.text = said.text
      BY <2>2, Zenon DEF SourceInv, Noisy
    <2> QED BY <1>3, <2>1, <2>2
  <1>5. \A d \in Callers : \A line \in Among(down') : line.by = d => line \in Among(down)
    BY <1>2 DEF Noisy
  <1>6. ASSUME NEW d \in Callers
        PROVE  (Unheardof(d) \/ \E r \in Plans : CallOf(d, r))'
    <2>0. \A x \in Callers : \A line \in Among(inbox'[x]) : line.by = d =>
             \/ line \in Among(inbox[x])
             \/ \E said \in Among(down) : \E word \in process_message(said.word) :
                  said.by = d /\ line = [said EXCEPT !.word = word]
      <3> TAKE x \in Callers
      <3> TAKE line \in Among(inbox'[x])
      <3> HAVE line.by = d
      <3>1. CASE line \in Among(inbox[x])
        BY <3>1
      <3>2. CASE \E said \in Among(down) : \E word \in process_message(said.word) :
                   /\ line = [said EXCEPT !.word = word]
                   /\ line.by = said.by /\ line.text = said.text
        BY <3>2
      <3> QED BY <1>3, <3>1, <3>2
    <2>1. CASE Unheardof(d)
      <3>1. phase'[d] = "idle"
        BY <2>1 DEF Unheardof
      <3>2. \A x \in Callers : \A line \in Among(inbox'[x]) : line.by = d =>
             line \in Among(inbox[x]) \/ \E said \in Among(down) : said.by = d
        BY <2>0, Zenon
      <3>3. Unheardof(d)'
        BY <1>5, <2>1, <3>1, <3>2, UnheardofKeeps
      <3> QED BY <3>3
    <2>2. CASE \E r \in Plans : CallOf(d, r)
      <3>1. PICK r \in Plans : CallOf(d, r)
        BY <2>2
      <3>2. /\ phase[d] # "idle" /\ Len(plan[d]) <= Len(r) /\ Among(plan[d]) \subseteq Among(r)
            /\ Len(r) = 1 /\ Head(r).then = "on" => phase[d] # "sending"
            /\ \A late \in open : late.by = d => phase[d] \in {"waiting", "over"}
        BY <3>1, Zenon DEF CallOf
      <3>3. phase'[d] # "idle"
        BY <3>2
      <3>4. Len(plan'[d]) <= Len(r) /\ Among(plan'[d]) \subseteq Among(r)
        <4>1. plan[d] \in Seq(Exchanges) /\ plan'[d] \in Seq(Exchanges) /\ r \in Seq(Exchanges)
          BY PlanForm DEF TypeInv, HostType
        <4>2. Len(plan[d]) \in Nat /\ Len(plan'[d]) \in Nat /\ Len(r) \in Nat
          BY <4>1
        <4>3. Len(plan'[d]) <= Len(plan[d]) /\ Among(plan'[d]) \subseteq Among(plan[d])
          OBVIOUS
        <4> QED BY <3>2, <4>2, <4>3
      <3>5. Len(r) = 1 /\ Head(r).then = "on" => phase'[d] # "sending"
        <4> SUFFICES ASSUME Len(r) = 1, Head(r).then = "on", phase'[d] = "sending" PROVE FALSE
          OBVIOUS
        <4>1. phase[d] # "sending"
          BY <3>2
        <4>2. phase[d] = "waiting"
          BY <4>1
        <4>3. plan[d] \in Seq(Exchanges) /\ plan[d] # <<>>
          BY <4>2 DEF TypeInv, HostType
        <4>4. Len(plan[d]) = 1 /\ Head(plan[d]) = Head(r)
          BY <3>2, <4>3, LoneHead
        <4> QED BY <4>1, <4>4
      <3>6. \A late \in open' : late.by = d =>
             late \in open /\ (phase[d] = "waiting" => phase'[d] \in {"waiting", "over"})
                           /\ (phase[d] = "over" => phase'[d] = "over")
        BY <3>2
      <3>7. LinkType
        BY DEF TypeInv
      <3>8. CallOf(d, r)'
        BY <1>5, <2>0, <3>1, <3>3, <3>4, <3>5, <3>6, <3>7, CallKeeps
      <3> QED BY <3>8
    <2> QED BY <2>1, <2>2 DEF SourceInv
  <1> QED BY <1>1, <1>4, <1>6, Zenon DEF SourceInv

\* c's exchange has ended, as EndsEffect has it.
Ended(c) ==
    /\ HostType' /\ phase'[c] \in {"sending", "over"}
    /\ \A d \in Callers \ {c} : /\ phase'[d] = phase[d] /\ plan'[d] = plan[d]
                                /\ inbox'[d] = inbox[d] /\ rows'[d] = rows[d]
    /\ inbox'[c] = <<>> /\ rows'[c] = 0
    /\ Len(plan'[c]) <= Len(plan[c]) /\ Among(plan'[c]) \subseteq Among(plan[c])
    /\ Len(plan[c]) = 1 /\ Head(plan[c]).then = "on" => phase'[c] = "over"

\* c goes on waiting, with n answers and the events of q.
Stays(c, n, q) ==
    /\ HostType' /\ phase' = phase /\ plan' = plan
    /\ \A d \in Callers \ {c} : inbox'[d] = inbox[d] /\ rows'[d] = rows[d]
    /\ inbox'[c] = q /\ rows'[c] = n

\* Nothing but c's own part of the host changes.
Alone(c, really) ==
    /\ peer' = peer /\ down' = down /\ open' = open /\ result' = result /\ orderly' = orderly
    /\ LinkType'
    /\ \A d \in Callers \ {c} : heard'[d] = heard[d] /\ settled'[d] = settled[d]
    /\ settled'[c] <=> settled[c] /\ really

\* A call that waits has an exchange, and wants more rows than it has.
LEMMA WaitingForm ==
    ASSUME TypeInv, NEW c \in Callers, phase[c] = "waiting"
    PROVE  /\ plan[c] \in Seq(Exchanges) /\ plan[c] # <<>>
           /\ Exch(c) \in Exchanges /\ Exch(c) = Head(plan[c])
           /\ rows[c] \in Nat /\ rows[c] < Exch(c).rows /\ inbox[c] \in Seq(Lines)
  <1>1. plan[c] \in Seq(Exchanges) /\ plan[c] # <<>>
    BY DEF TypeInv, HostType
  <1>2. Head(plan[c]) \in Exchanges
    BY <1>1
  <1> QED BY <1>1, <1>2 DEF TypeInv, HostType, Exch

\* What hearing and giving up leave alone.
LEMMA AloneEffect ==
    ASSUME TypeInv, NEW c \in Callers, NEW really \in BOOLEAN,
           UNCHANGED <<peer, down, open, result, orderly>>, Settles(c, really),
           heard' = heard \/ \E h : heard' = [heard EXCEPT ![c] = h]
    PROVE  Alone(c, really)
  <1>1. LinkType
    BY DEF TypeInv
  <1>2. settled \in [Callers -> BOOLEAN] /\ settled' = [settled EXCEPT ![c] = @ /\ really]
    BY <1>1 DEF LinkType, Settles
  <1>3. (settled[c] /\ really) \in BOOLEAN
    BY Zenon
  <1>4. settled' \in [Callers -> BOOLEAN]
    BY <1>2, <1>3
  <1>5. settled'[c] = (settled[c] /\ really)
    BY <1>2, Zenon
  <1>6. \A d \in Callers \ {c} : settled'[d] = settled[d]
    BY <1>2
  <1>7. heard = [d \in Callers |-> heard[d]]
    BY <1>1 DEF LinkType
  <1>8. heard' = [d \in Callers |-> heard'[d]] /\ \A d \in Callers \ {c} : heard'[d] = heard[d]
    <2>1. CASE heard' = heard
      BY <1>7, <2>1
    <2>2. CASE \E h : heard' = [heard EXCEPT ![c] = h]
      <3>1. PICK h : heard' = [heard EXCEPT ![c] = h]
        BY <2>2
      <3> QED BY <1>7, <3>1
    <2> QED BY <2>1, <2>2
  <1>9. LinkType'
    BY <1>1, <1>4, <1>8 DEF LinkType
  <1> QED BY <1>3, <1>5, <1>6, <1>8, <1>9, Zenon DEF Alone

\* What becomes of the first event of c's queue.
LEMMA TakeEffect ==
    ASSUME TypeInv, NEW c \in Callers, Take(c)
    PROVE  LET e == Exch(c)
               line == Head(inbox[c])
           IN  /\ phase[c] = "waiting" /\ inbox[c] # <<>> /\ line \in Lines
               /\ line \in Among(inbox[c])
               /\ \/ /\ Fits(c, e, line) /\ rows[c] + 1 = e.rows /\ TakesFor(c, e, line)
                     /\ Ended(c) /\ Alone(c, line.by = c)
                  \/ /\ Fits(c, e, line) /\ rows[c] + 1 < e.rows /\ TakesFor(c, e, line)
                     /\ Stays(c, rows[c] + 1, IF e.how = "anew" THEN <<>> ELSE Tail(inbox[c]))
                     /\ Alone(c, line.by = c)
                  \/ /\ Refuses(e, line) /\ TakesFor(c, e, line)
                     /\ Ended(c) /\ Alone(c, line.by = c)
                  \/ /\ ~Fits(c, e, line) /\ ~Refuses(e, line) /\ heard' = heard
                     /\ Ended(c) /\ Alone(c, FALSE)
                  \/ /\ ~Fits(c, e, line) /\ ~Refuses(e, line) /\ heard' = heard
                     /\ Stays(c, rows[c], Tail(inbox[c])) /\ Alone(c, TRUE)
  <1> DEFINE e == Exch(c)
             line == Head(inbox[c])
             ends(end) == EndsExchange(c, plan[c], end)
             stays(n, q) == /\ rows' = [rows EXCEPT ![c] = n] /\ inbox' = [inbox EXCEPT ![c] = q]
                            /\ UNCHANGED <<phase, plan, outcome>>
  <1>1. /\ phase[c] = "waiting" /\ inbox[c] # <<>>
        /\ TakeAnswer(c) \/ TakeError(c) \/ TakeOther(c)
        /\ UNCHANGED <<peer, down, open, result, orderly>>
    BY Zenon DEF Take
  <1>2. /\ plan[c] \in Seq(Exchanges) /\ plan[c] # <<>> /\ e \in Exchanges /\ e = Head(plan[c])
        /\ rows[c] \in Nat /\ rows[c] < e.rows /\ inbox[c] \in Seq(Lines)
    BY <1>1, WaitingForm
  <1>3. line \in Lines /\ line \in Among(inbox[c]) /\ Tail(inbox[c]) \in Seq(Lines)
    <2>1. line \in Lines
      BY <1>1, <1>2
    <2> QED BY <1>1, <1>2, <2>1, AmongQueue
  <1>4. e.rows \in Nat
    BY <1>2, ExchangeForm
  <1>5. ASSUME NEW end \in {"answer", "error", "timeout"}, ends(end) PROVE Ended(c)
    <2>1. HostType
      BY DEF TypeInv
    <2> HIDE DEF e, line
    <2>2. EndsExchange(c, plan[c], end)
      BY <1>5
    <2> QED BY <1>2, <2>1, <2>2, EndsEffect DEF Ended
  <1>6. ASSUME NEW n \in Nat, n < e.rows, NEW q \in Seq(Lines), stays(n, q) PROVE Stays(c, n, q)
    <2>1. HostType
      BY DEF TypeInv
    <2>2. /\ inbox' \in [Callers -> Seq(Lines)] /\ rows' \in [Callers -> Nat]
          /\ \A d \in Callers \ {c} : inbox'[d] = inbox[d] /\ rows'[d] = rows[d]
          /\ inbox'[c] = q /\ rows'[c] = n
      BY <1>6, <2>1 DEF HostType
    <2>3. phase' = phase /\ plan' = plan /\ outcome' = outcome
      BY <1>6
    <2>4. \A d \in Callers :
            /\ phase'[d] \in {"sending", "waiting"} <=> plan'[d] # <<>>
            /\ phase'[d] # "waiting" => inbox'[d] = <<>> /\ rows'[d] = 0
            /\ phase'[d] = "waiting" => rows'[d] < Head(plan'[d]).rows
      <3> TAKE d \in Callers
      <3>1. CASE d = c
        BY <1>1, <1>2, <1>6, <2>2, <2>3, <3>1
      <3>2. CASE d # c
        BY <2>1, <2>2, <2>3, <3>2 DEF HostType, Exch
      <3> QED BY <3>1, <3>2
    <2>5. HostType'
      BY <2>1, <2>2, <2>3, <2>4 DEF HostType, Exch
    <2> QED BY <2>2, <2>3, <2>5 DEF Stays
  <1>7. ASSUME TakesFor(c, e, line) PROVE \E h : heard' = [heard EXCEPT ![c] = h]
    BY <1>7 DEF TakesFor
  <1>8. \A really \in BOOLEAN :
          Settles(c, really) /\ (heard' = heard \/ \E h : heard' = [heard EXCEPT ![c] = h])
            => Alone(c, really)
    BY <1>1, AloneEffect
  <1> HIDE DEF e, line
  <1>9. CASE TakeAnswer(c)
    <2>1. /\ Fits(c, e, line) /\ TakesFor(c, e, line) /\ Settles(c, line.by = c)
          /\ \/ rows[c] + 1 = e.rows /\ ends("answer")
             \/ /\ rows[c] + 1 # e.rows
                /\ stays(rows[c] + 1, IF e.how = "anew" THEN <<>> ELSE Tail(inbox[c]))
      BY <1>9, Zenon DEF TakeAnswer, e, line
    <2>2. Alone(c, line.by = c)
      <3>1. (line.by = c) \in BOOLEAN
        OBVIOUS
      <3> QED BY <1>7, <1>8, <2>1, <3>1, Zenon
    <2>3. CASE rows[c] + 1 = e.rows /\ ends("answer")
      BY <1>1, <1>3, <1>5, <2>1, <2>2, <2>3 DEF e, line
    <2>4. CASE /\ rows[c] + 1 # e.rows
               /\ stays(rows[c] + 1, IF e.how = "anew" THEN <<>> ELSE Tail(inbox[c]))
      <3> DEFINE q == IF e.how = "anew" THEN <<>> ELSE Tail(inbox[c])
      <3>1. rows[c] + 1 \in Nat /\ rows[c] + 1 < e.rows
        BY <1>2, <1>4, <2>4
      <3>2. q \in Seq(Lines)
        BY <1>3
      <3> HIDE DEF stays, q
      <3>3. stays(rows[c] + 1, q)
        BY <2>4 DEF q
      <3>4. Stays(c, rows[c] + 1, q)
        BY <1>6, <3>1, <3>2, <3>3
      <3> QED BY <1>1, <1>3, <2>1, <2>2, <3>1, <3>4 DEF e, line, q
    <2> QED BY <2>1, <2>3, <2>4
  <1>10. CASE TakeError(c)
    <2>1. /\ Refuses(e, line) /\ TakesFor(c, e, line) /\ Settles(c, line.by = c) /\ ends("error")
      BY <1>10, Zenon DEF TakeError, e, line
    <2>2. Alone(c, line.by = c)
      <3>1. (line.by = c) \in BOOLEAN
        OBVIOUS
      <3> QED BY <1>7, <1>8, <2>1, <3>1, Zenon
    <2> QED BY <1>1, <1>3, <1>5, <2>1, <2>2 DEF e, line
  <1>11. CASE TakeOther(c)
    <2>1. /\ ~Fits(c, e, line) /\ ~Refuses(e, line) /\ heard' = heard
          /\ Settles(c, e.how # "glance")
          /\ \/ e.how = "glance" /\ ends("error")
             \/ e.how # "glance" /\ inbox' = [inbox EXCEPT ![c] = Tail(@)]
                /\ UNCHANGED <<phase, plan, rows, outcome>>
      BY <1>11, Zenon DEF TakeOther, e, line
    <2>2. CASE e.how = "glance" /\ ends("error")
      <3>1. Settles(c, FALSE)
        <4>1. (e.how # "glance") = FALSE
          BY <2>2
        <4> QED BY <2>1, <4>1 DEF Settles
      <3>2. Alone(c, FALSE)
        BY <1>8, <2>1, <3>1
      <3> QED BY <1>1, <1>3, <1>5, <2>1, <2>2, <3>2 DEF e, line
    <2>3. CASE e.how # "glance" /\ inbox' = [inbox EXCEPT ![c] = Tail(@)]
               /\ UNCHANGED <<phase, plan, rows, outcome>>
      <3>1. Settles(c, TRUE)
        <4>1. (e.how # "glance") = TRUE
          BY <2>3
        <4> QED BY <2>1, <4>1 DEF Settles
      <3>2. Alone(c, TRUE)
        BY <1>8, <2>1, <3>1
      <3>3. stays(rows[c], Tail(inbox[c]))
        <4>1. rows' = [rows EXCEPT ![c] = rows[c]]
          BY <2>3 DEF TypeInv, HostType
        <4> QED BY <2>3, <4>1
      <3> HIDE DEF stays
      <3>4. Stays(c, rows[c], Tail(inbox[c]))
        BY <1>2, <1>3, <1>6, <3>3
      <3> QED BY <1>1, <1>3, <2>1, <3>2, <3>4 DEF e, line
    <2> QED BY <2>1, <2>2, <2>3
  <1> QED BY <1>1, <1>9, <1>10, <1>11

\* When time is up the exchange ends, and not by a line of its own.
LEMMA TimeoutEffect ==
    ASSUME TypeInv, NEW c \in Callers, Timeout(c)
    PROVE  phase[c] = "waiting" /\ heard' = heard /\ Ended(c) /\ Alone(c, FALSE)
  <1>1. /\ phase[c] = "waiting" /\ EndsExchange(c, plan[c], "timeout") /\ Settles(c, FALSE)
        /\ UNCHANGED <<peer, down, open, noise, result, heard, orderly>>
    BY DEF Timeout
  <1>2. HostType /\ plan[c] \in Seq(Exchanges) /\ plan[c] # <<>>
    BY <1>1, WaitingForm DEF TypeInv
  <1>3. Ended(c)
    BY <1>1, <1>2, EndsEffect DEF Ended
  <1>4. Alone(c, FALSE)
    BY <1>1, AloneEffect
  <1> QED BY <1>1, <1>3, <1>4

\* What a call that waits does keeps types and sources.
LEMMA HostSource ==
    ASSUME TypeInv, SourceInv, NEW c \in Callers, NEW really, Alone(c, really),
           phase[c] = "waiting",
           \/ Ended(c)
           \/ inbox[c] # <<>> /\ \E n \in Nat : \E q \in {<<>>, Tail(inbox[c])} : Stays(c, n, q)
    PROVE  TypeInv' /\ SourceInv'
  <1>1. HostType' /\ LinkType' /\ peer' = peer /\ open' = open /\ down' = down
    BY DEF Ended, Stays, Alone
  <1>2. ASSUME NEW d \in Callers
        PROVE  /\ phase[d] = "idle" <=> phase'[d] = "idle"
               /\ phase[d] = "waiting" \/ phase'[d] = phase[d]
               /\ phase'[d] = "sending" =>
                    \/ phase[d] = "sending"
                    \/ ~(Len(plan[d]) = 1 /\ Head(plan[d]).then = "on")
               /\ (\E late \in open : late.by = d) => phase'[d] \in {"waiting", "over"}
               /\ Len(plan'[d]) <= Len(plan[d]) /\ Among(plan'[d]) \subseteq Among(plan[d])
               /\ Among(inbox'[d]) \subseteq Among(inbox[d])
    <2>0. /\ plan[d] \in Seq(Exchanges) /\ Len(plan[d]) <= Len(plan[d])
          /\ inbox[d] \in Seq(Lines)
      <3>1. plan[d] \in Seq(Exchanges) /\ inbox[d] \in Seq(Lines)
        BY DEF TypeInv, HostType
      <3>2. Len(plan[d]) \in Nat
        BY <3>1
      <3> QED BY <3>1, <3>2
    <2>1. (\E late \in open : late.by = d) => phase[d] \in {"waiting", "over"}
      BY Zenon DEF SourceInv, Unheardof, CallOf
    <2>2. CASE d # c
      <3>1. phase'[d] = phase[d] /\ plan'[d] = plan[d] /\ inbox'[d] = inbox[d]
        BY <2>2 DEF Ended, Stays
      <3> QED BY <2>0, <2>1, <3>1
    <2>3. CASE d = c /\ Ended(c)
      <3>1. Among(inbox'[c]) = {}
        BY <2>3 DEF Among, Ended
      <3>2. (\E late \in open : late.by = c) => phase'[c] = "over"
        <4> SUFFICES ASSUME NEW late \in open, late.by = c PROVE phase'[c] = "over"
          OBVIOUS
        <4>1. PICK q \in Plans : /\ CallOf(c, q) /\ Len(q) = 1 /\ Head(q).then = "on"
          BY LateForm
        <4>2. plan[c] \in Seq(Exchanges) /\ plan[c] # <<>>
          BY WaitingForm
        <4>3. Len(plan[c]) = 1 /\ Head(plan[c]) = Head(q)
          BY <4>1, <4>2, LoneHead DEF CallOf
        <4> QED BY <2>3, <4>1, <4>3 DEF Ended
      <3> QED BY <2>3, <3>1, <3>2 DEF Ended
    <2>4. CASE /\ d = c /\ inbox[c] # <<>>
               /\ \E n \in Nat : \E q \in {<<>>, Tail(inbox[c])} : Stays(c, n, q)
      <3>1. phase' = phase /\ plan' = plan /\ inbox'[c] \in {<<>>, Tail(inbox[c])}
        BY <2>4 DEF Stays
      <3>2. Among(inbox'[c]) \subseteq Among(inbox[c])
        <4>1. Among(<<>>) = {}
          BY DEF Among
        <4>2. Head(inbox[c]) \in Lines
          BY <2>0, <2>4
        <4>3. Among(Tail(inbox[c])) \subseteq Among(inbox[c])
          BY <2>0, <2>4, <4>2, AmongQueue
        <4> QED BY <3>1, <4>1, <4>3
      <3> QED BY <2>0, <2>1, <2>4, <3>1, <3>2
    <2> QED BY <2>2, <2>3, <2>4
  <1>3. SourceInv'
    BY <1>1, <1>2, OthersSource
  <1> QED BY <1>1, <1>3 DEF TypeInv

\* How a line reaches d: as an event it subscribed to, or not at all.
Reaches(d, line) ==
    \/ /\ inbox'[d] = inbox[d]
       /\ phase[d] = "waiting" /\ line.word \in DOMAIN parse_message =>
            line \notin FitDown(d, Exch(d)) /\ line \notin RefuseDown(d, Exch(d))
    \/ /\ phase[d] = "waiting"
       /\ \E as \in Lines :
            /\ inbox'[d] = Append(inbox[d], as)
            /\ \E word \in process_message(line.word) :
                 word \in KnownWords /\ as = [line EXCEPT !.word = word]
            /\ as.by = line.by /\ as.of = line.of /\ as.text = line.text
            /\ Harmless(line) => HarmlessAs(as.word, as.ctx)
            /\ line.by = d => (as \in FitIn(d, Exch(d)) <=> line \in FitDown(d, Exch(d)))
            /\ line.by = d => (as \in RefuseIn(Exch(d)) <=> line \in RefuseDown(d, Exch(d)))

\* The first line leaves the link and reaches each call that wants it.
LEMMA DeliverEffect ==
    ASSUME TypeInv, Deliver
    PROVE  LET line == Head(down)
           IN  /\ down # <<>> /\ down' = Tail(down) /\ line \in Lines
               /\ line \in Among(down) /\ Among(down') \subseteq Among(down)
               /\ Among(down) = Among(down') \cup {line}
               /\ \A S : Count(down, S) = Count(down', S) + IF line \in S THEN 1 ELSE 0
               /\ \A d \in Callers : Reaches(d, line)
               /\ UNCHANGED <<peer, phase, plan, rows, outcome, open, result, heard, settled,
                              orderly>>
               /\ TypeInv'
  <1> DEFINE line == Head(down)
             wants(c) == /\ phase[c] = "waiting" /\ line.word \in DOMAIN parse_message
                         /\ process_message(line.word) \cap Subscribed(Exch(c)) # {}
             word(c) == CHOOSE w \in process_message(line.word) : w \in Subscribed(Exch(c))
  <1>1. /\ down # <<>> /\ down' = Tail(down)
        /\ inbox' = [c \in Callers |->
                       IF wants(c) THEN Append(inbox[c], [line EXCEPT !.word = word(c)])
                       ELSE inbox[c]]
        /\ UNCHANGED <<peer, phase, plan, rows, outcome, open, result, heard, settled, orderly>>
    BY DEF Deliver
  <1>2. down \in Seq(Lines) /\ inbox \in [Callers -> Seq(Lines)]
    BY DEF TypeInv, HostType, LinkType
  <1>3. line \in Lines /\ Tail(down) \in Seq(Lines)
    BY <1>1, <1>2
  <1>4. /\ line \in Among(down) /\ Among(down') \subseteq Among(down)
        /\ Among(down) = Among(down') \cup {line}
    BY <1>1, <1>2, <1>3, AmongQueue
  <1>5. \A S : Count(down, S) = Count(down', S) + IF line \in S THEN 1 ELSE 0
    BY <1>1, <1>2, CountTail
  <1>6. line.word \in KnownWords /\ process_message(line.word) \subseteq KnownWords
    BY <1>3, LineForm, WordsAssumption
  <1> HIDE DEF line
  <1>7. ASSUME NEW d \in Callers PROVE Reaches(d, line)
    <2>1. CASE ~wants(d)
      <3>1. inbox'[d] = inbox[d]
        BY <1>1, <2>1
      <3>2. ASSUME phase[d] = "waiting", line.word \in DOMAIN parse_message
            PROVE  line \notin FitDown(d, Exch(d)) /\ line \notin RefuseDown(d, Exch(d))
        <4>1. Exch(d) \in Exchanges
          BY <3>2, WaitingForm
        <4>2. ~(process_message(line.word) \cap Subscribed(Exch(d)) # {})
          BY <2>1, <3>2
        <4> QED BY <1>3, <4>1, <4>2, HeardForm
      <3> QED BY <3>1, <3>2 DEF Reaches
    <2>2. CASE wants(d)
      <3> DEFINE as == [line EXCEPT !.word = word(d)]
      <3>1. inbox'[d] = Append(inbox[d], as)
        BY <1>1, <2>2
      <3>2. phase[d] = "waiting" /\ process_message(line.word) \cap Subscribed(Exch(d)) # {}
        BY <2>2
      <3>3. Exch(d) \in Exchanges
        BY <3>2, WaitingForm
      <3>4. /\ word(d) \in process_message(line.word) /\ as \in Lines
            /\ as.by = line.by /\ as.of = line.of /\ as.text = line.text
            /\ Harmless(line) => HarmlessAs(as.word, as.ctx)
            /\ line.by = d => (as \in FitIn(d, Exch(d)) <=> line \in FitDown(d, Exch(d)))
            /\ line.by = d => (as \in RefuseIn(Exch(d)) <=> line \in RefuseDown(d, Exch(d)))
        <4>1. as = [line EXCEPT !.word = word(d)]
          OBVIOUS
        <4>2. word(d) = CHOOSE w \in process_message(line.word) : w \in Subscribed(Exch(d))
          OBVIOUS
        <4> HIDE DEF as, word
        <4> DEFINE w == word(d)
        <4>3. w \in process_message(line.word) /\ w \in Subscribed(Exch(d))
          <5>1. \E v \in process_message(line.word) : v \in Subscribed(Exch(d))
            BY <3>2
          <5> QED BY <4>2, <5>1, Zenon
        <4>4. as = HeardAs(line, w)
          BY <4>1 DEF HeardAs
        <4> HIDE DEF w
        <4>5. /\ w \in process_message(line.word) /\ as \in Lines
              /\ as.by = line.by /\ as.of = line.of /\ as.text = line.text
              /\ Harmless(line) => HarmlessAs(as.word, as.ctx)
              /\ line.by = d => (as \in FitIn(d, Exch(d)) <=> line \in FitDown(d, Exch(d)))
              /\ line.by = d => (as \in RefuseIn(Exch(d)) <=> line \in RefuseDown(d, Exch(d)))
          BY <1>3, <3>2, <3>3, <4>3, <4>4, HeardForm
        <4> QED BY <4>5 DEF w
      <3>5. \E w \in process_message(line.word) : w \in KnownWords /\ as = [line EXCEPT !.word = w]
        BY <1>6, <3>4
      <3> HIDE DEF as
      <3> QED BY <3>1, <3>2, <3>4, <3>5, Zenon DEF Reaches
    <2> QED BY <2>1, <2>2
  <1>8. ASSUME NEW d \in Callers
        PROVE  inbox'[d] \in Seq(Lines) /\ (phase[d] # "waiting" => inbox'[d] = inbox[d])
    <2>1. inbox[d] \in Seq(Lines)
      BY <1>2
    <2>2. CASE inbox'[d] = inbox[d]
      BY <2>1, <2>2
    <2>3. CASE phase[d] = "waiting" /\ \E as \in Lines : inbox'[d] = Append(inbox[d], as)
      <3>1. PICK as \in Lines : inbox'[d] = Append(inbox[d], as)
        BY <2>3
      <3>2. Append(inbox[d], as) \in Seq(Lines)
        BY <2>1, AmongQueue
      <3> QED BY <2>3, <3>1, <3>2
    <2> QED BY <1>7, <2>2, <2>3, Zenon DEF Reaches
  <1>9. inbox' \in [Callers -> Seq(Lines)]
    <2>1. inbox' = [c \in Callers |-> inbox'[c]]
      BY <1>1
    <2> QED BY <1>8, <2>1
  <1>10. HostType'
    <2>1. HostType
      BY DEF TypeInv
    <2> QED BY <1>1, <1>8, <1>9, <2>1, Zenon DEF HostType, Exch
  <1>11. LinkType'
    <2>1. LinkType
      BY DEF TypeInv
    <2> QED BY <1>1, <1>3, <2>1 DEF LinkType
  <1> QED BY <1>1, <1>3, <1>4, <1>5, <1>7, <1>10, <1>11 DEF TypeInv, line

\* Lines keep their sources when they are heard.
LEMMA DeliverSource ==
    ASSUME TypeInv, SourceInv, Deliver
    PROVE  SourceInv'
  <1> DEFINE said == Head(down)
  <1>1. /\ said \in Lines /\ said \in Among(down) /\ Among(down') \subseteq Among(down)
        /\ \A d \in Callers : Reaches(d, said)
        /\ UNCHANGED <<peer, phase, plan, rows, outcome, open, result, heard, settled, orderly>>
        /\ TypeInv'
    BY DeliverEffect
  <1> HIDE DEF said
  <1>2. ASSUME NEW d \in Callers
        PROVE  \A line \in Among(inbox'[d]) :
                  \/ line \in Among(inbox[d])
                  \/ \E s \in Among(down) : \E word \in process_message(s.word) :
                       s \in Lines /\ word \in KnownWords /\ line = [s EXCEPT !.word = word]
    <2>1. CASE inbox'[d] = inbox[d]
      BY <2>1
    <2>2. CASE \E as \in Lines :
                 /\ inbox'[d] = Append(inbox[d], as)
                 /\ \E word \in process_message(said.word) :
                      word \in KnownWords /\ as = [said EXCEPT !.word = word]
      <3>1. PICK as \in Lines :
                 /\ inbox'[d] = Append(inbox[d], as)
                 /\ \E word \in process_message(said.word) :
                      word \in KnownWords /\ as = [said EXCEPT !.word = word]
        BY <2>2
      <3>2. inbox[d] \in Seq(Lines)
        BY DEF TypeInv, HostType
      <3>3. Among(inbox'[d]) = Among(inbox[d]) \cup {as}
        BY <3>1, <3>2, AmongQueue
      <3> QED BY <1>1, <3>1, <3>3
    <2> QED BY <1>1, <2>1, <2>2 DEF Reaches
  <1>3. ASSUME NEW d \in Callers
        PROVE  /\ phase[d] = "idle" <=> phase'[d] = "idle"
               /\ phase[d] = "waiting" \/ phase'[d] = phase[d]
               /\ phase'[d] = "sending" =>
                    \/ phase[d] = "sending"
                    \/ ~(Len(plan[d]) = 1 /\ Head(plan[d]).then = "on")
               /\ (\E late \in open : late.by = d) => phase'[d] \in {"waiting", "over"}
               /\ Len(plan'[d]) <= Len(plan[d]) /\ Among(plan'[d]) \subseteq Among(plan[d])
    <2>1. (\E late \in open : late.by = d) => phase[d] \in {"waiting", "over"}
      BY Zenon DEF SourceInv, Unheardof, CallOf
    <2>2. plan[d] \in Seq(Exchanges)
      BY DEF TypeInv, HostType
    <2>3. Len(plan[d]) <= Len(plan[d])
      BY <2>2
    <2> QED BY <1>1, <2>1, <2>3
  <1>4. HostType' /\ LinkType' /\ peer' = peer /\ open' = open
    BY <1>1 DEF TypeInv
  <1> QED BY <1>1, <1>2, <1>3, <1>4, OthersSource

\* A line that comes unasked is nobody's.
LEMMA UnaskedEffect ==
    ASSUME TypeInv, Unasked
    PROVE  /\ \E line \in Lines :
                /\ line.by = "nobody" /\ Noisy(line)
                /\ Among(down') = Among(down) \cup {line}
                /\ \A c \in Callers : \A S \in SUBSET Own(c) :
                     /\ Count(down', S) = Count(down, S)
                     /\ Among(down') \cap S = Among(down) \cap S
           /\ UNCHANGED <<open, result, host>>
           /\ TypeInv'
  <1>1. PICK w \in Noise, about \in Arguments \cup {"none"} :
           down' = Append(down, [word |-> w, ctx |-> "", text |-> FALSE, by |-> "nobody",
                                 of |-> "nothing", key |-> about])
    BY Zenon DEF Unasked
  <1>2. UNCHANGED <<open, result, host>>
    BY DEF Unasked
  <1> DEFINE line == [word |-> w, ctx |-> "", text |-> FALSE, by |-> "nobody",
                      of |-> "nothing", key |-> about]
  <1>3. line \in Lines /\ line.by = "nobody" /\ line.text = FALSE
    <2>1. w \in KnownWords /\ about \in Arguments \cup {"own", "none"}
      BY DEF KnownWords
    <2>2. "" \in Contexts
      BY DEF Contexts
    <2>3. "nothing" \in format_command \cup {"nothing"}
      OBVIOUS
    <2> QED BY <2>1, <2>2, <2>3 DEF Lines
  <1>4. down \in Seq(Lines) /\ down' = Append(down, line)
    BY <1>1 DEF TypeInv, LinkType
  <1> HIDE DEF line
  <1>5. Among(down') = Among(down) \cup {line} /\ down' \in Seq(Lines)
    BY <1>3, <1>4, AmongQueue
  <1>6. ASSUME NEW c \in Callers, NEW S \in SUBSET Own(c)
        PROVE  Count(down', S) = Count(down, S) /\ Among(down') \cap S = Among(down) \cap S
    <2>1. line \notin S
      BY <1>3, CallersAssumption DEF Own
    <2>2. Count(down, S) \in Nat
      BY <1>4, CountType
    <2>3. Count(down', S) = Count(down, S) + 0
      BY <1>3, <1>4, <2>1, CountAppend
    <2> QED BY <1>5, <2>1, <2>2, <2>3
  <1>7. HostType' /\ LinkType'
    <2>1. HostType /\ LinkType
      BY DEF TypeInv
    <2>2. HostType'
      BY <1>2, <2>1, HostStays DEF host
    <2>3. LinkType'
      BY <1>2, <1>5, <2>1 DEF LinkType, host
    <2> QED BY <2>2, <2>3
  <1> QED BY <1>2, <1>3, <1>5, <1>6, <1>7 DEF TypeInv, Noisy

\* It changes no call's lines.
LEMMA UnaskedSource ==
    ASSUME TypeInv, SourceInv, Unasked
    PROVE  SourceInv'
  <1>1. PICK line \in Lines : Noisy(line) /\ Among(down') = Among(down) \cup {line}
    BY UnaskedEffect
  <1>2. UNCHANGED <<open, result, host>> /\ TypeInv'
    BY UnaskedEffect
  <1>3. ASSUME NEW d \in Callers
        PROVE  /\ phase[d] = "idle" <=> phase'[d] = "idle"
               /\ phase[d] = "waiting" \/ phase'[d] = phase[d]
               /\ phase'[d] = "sending" =>
                    \/ phase[d] = "sending"
                    \/ ~(Len(plan[d]) = 1 /\ Head(plan[d]).then = "on")
               /\ (\E late \in open : late.by = d) => phase'[d] \in {"waiting", "over"}
               /\ Len(plan'[d]) <= Len(plan[d]) /\ Among(plan'[d]) \subseteq Among(plan[d])
               /\ inbox'[d] = inbox[d]
    <2>1. (\E late \in open : late.by = d) => phase[d] \in {"waiting", "over"}
      BY Zenon DEF SourceInv, Unheardof, CallOf
    <2>2. plan[d] \in Seq(Exchanges)
      BY DEF TypeInv, HostType
    <2>3. Len(plan[d]) <= Len(plan[d])
      BY <2>2
    <2> QED BY <1>2, <2>1, <2>3 DEF host
  <1>4. HostType' /\ LinkType' /\ peer' = peer /\ open' = open
    BY <1>2 DEF TypeInv, host
  <1>5. \A l \in Among(down') : l \in Among(down) \/ Noisy(l)
    BY <1>1
  <1> QED BY <1>3, <1>4, <1>5, OthersSource

-----------------------------------------------------------------------------
(* Types and sources hold in every state                                   *)

\* At first nothing is under way.
LEMMA InitSource == Init => TypeInv /\ SourceInv
  <1> SUFFICES ASSUME Init PROVE TypeInv /\ SourceInv
    OBVIOUS
  <1>1. HostType
    BY DEF Init, HostType
  <1>2. LinkType
    BY DEF Init, LinkType
  <1>3. Among(<<>>) = {}
    BY DEF Among
  <1>4. SourceInv
    BY <1>3 DEF Init, SourceInv, Unheardof
  <1> QED BY <1>1, <1>2, <1>4 DEF TypeInv

\* Types and sources are kept by every step.
LEMMA StepSource ==
    ASSUME TypeInv, SourceInv, [Next]_vars
    PROVE  TypeInv' /\ SourceInv'
  <1>1. ASSUME NEW c \in Callers, Begin(c) \/ SendNext(c) PROVE TypeInv' /\ SourceInv'
    <2>1. PICK p \in Seq(Exchanges), q \in Plans : Ready(c, p, q) /\ Sends(c, p)
      BY <1>1, SendsReady
    <2>2. orderly' \in BOOLEAN
      <3>1. orderly \in BOOLEAN
        BY DEF TypeInv, LinkType
      <3>2. CASE Begin(c)
        BY <3>2, Zenon DEF Begin
      <3>3. CASE SendNext(c)
        BY <3>1, <3>3 DEF SendNext
      <3> QED BY <1>1, <3>2, <3>3
    <2> QED BY <2>1, <2>2, SendsSource
  <1>2. ASSUME NEW c \in Callers, Take(c) PROVE TypeInv' /\ SourceInv'
    <2> DEFINE line == Head(inbox[c])
    <2>1. /\ phase[c] = "waiting" /\ inbox[c] # <<>>
          /\ \/ Ended(c)
             \/ \E n \in Nat : \E q \in {<<>>, Tail(inbox[c])} : Stays(c, n, q)
      <3>1. rows[c] \in Nat /\ rows[c] + 1 \in Nat
        BY DEF TypeInv, HostType
      <3> QED BY <1>2, <3>1, TakeEffect
    <2>2. Alone(c, line.by = c) \/ Alone(c, TRUE) \/ Alone(c, FALSE)
      BY <1>2, TakeEffect
    <2> QED BY <2>1, <2>2, HostSource
  <1>3. ASSUME NEW c \in Callers, Timeout(c) PROVE TypeInv' /\ SourceInv'
    BY <1>3, TimeoutEffect, HostSource
  <1>4. CASE LateAnswer
    BY <1>4, LateSource
  <1>5. CASE Unasked
    BY <1>5, UnaskedEffect, UnaskedSource
  <1>6. CASE Deliver
    BY <1>6, DeliverEffect, DeliverSource
  <1>7. CASE UNCHANGED vars
    <2>1. /\ peer' = peer /\ phase' = phase /\ plan' = plan /\ inbox' = inbox /\ rows' = rows
          /\ outcome' = outcome /\ down' = down /\ open' = open /\ result' = result
          /\ heard' = heard /\ settled' = settled /\ orderly' = orderly
      BY <1>7 DEF vars
    <2>2. HostType /\ LinkType
      BY DEF TypeInv
    <2>3. HostType'
      BY <2>1, <2>2, HostStays
    <2>4. LinkType'
      BY <2>1, <2>2, Zenon DEF LinkType
    <2>5. SourceInv'
      <3>1. ASSUME NEW d \in Callers
            PROVE  /\ Unheardof(d) => Unheardof(d)'
                   /\ \A p \in Plans : CallOf(d, p) => CallOf(d, p)'
        BY <2>1 DEF Unheardof, CallOf
      <3> QED BY <2>1, <3>1 DEF SourceInv
    <2> QED BY <2>3, <2>4, <2>5 DEF TypeInv
  <1> QED BY <1>1, <1>2, <1>3, <1>4, <1>5, <1>6, <1>7, Zenon DEF Next
-----------------------------------------------------------------------------
(* What a call takes for its answer                                        *)

\* The parser keeps the texts that may hold separators, but for the ones it cuts.
LEMMA ParsedWhole == \A w \in WholeTexts : w \in DOMAIN parse_message /\ parse_message[w] = "whole"
  <1>1. /\ \A w \in {"LOG", "VAR", "CMD"} :
             w \in DOMAIN parse_log_and_clients /\ parse_log_and_clients[w] = "whole"
        /\ DOMAIN parse_log_and_clients
             = {"LOG", "VAR", "CMD", "MEM", "HB", "READY", "CLIENTS"}
    <2> DEFINE f == Words({"LOG", "VAR", "CMD"}, "whole")
               g == Words({"MEM", "HB", "READY"}, "plain")
               h == Words({"CLIENTS"}, "cut")
    <2>1. /\ DOMAIN f = {"LOG", "VAR", "CMD"} /\ \A w \in {"LOG", "VAR", "CMD"} : f[w] = "whole"
          /\ DOMAIN g = {"MEM", "HB", "READY"} /\ DOMAIN h = {"CLIENTS"}
      BY DEF Words
    <2>2. parse_log_and_clients = (f ++ g) ++ h
      BY DEF parse_log_and_clients
    <2> HIDE DEF f, g, h
    <2>3. DOMAIN (f ++ g) = DOMAIN f \cup DOMAIN g /\ \A w \in DOMAIN f : (f ++ g)[w] = f[w]
      BY DEF ++
    <2>4. /\ DOMAIN parse_log_and_clients = DOMAIN (f ++ g) \cup DOMAIN h
          /\ \A w \in DOMAIN (f ++ g) : parse_log_and_clients[w] = (f ++ g)[w]
      BY <2>2 DEF ++
    <2> QED BY <2>1, <2>3, <2>4
  <1>2. /\ \A w \in {"TASKS", "LIBS", "DIR", "PROC", "CLOG", "CVAR"} :
             w \in DOMAIN parse_lists_and_clog /\ parse_lists_and_clog[w] = "whole"
        /\ DOMAIN parse_lists_and_clog
             = {"TASKS", "LIBS", "DIR", "PROC", "CLOG", "CVAR", "FILE", "FILEINFO"}
    <2> DEFINE f == Words({"TASKS", "LIBS", "DIR", "PROC", "CLOG", "CVAR"}, "whole")
               g == Words({"FILE"}, "plain")
               h == Words({"FILEINFO"}, "cut")
    <2>1. /\ DOMAIN f = {"TASKS", "LIBS", "DIR", "PROC", "CLOG", "CVAR"}
          /\ \A w \in {"TASKS", "LIBS", "DIR", "PROC", "CLOG", "CVAR"} : f[w] = "whole"
          /\ DOMAIN g = {"FILE"} /\ DOMAIN h = {"FILEINFO"}
      BY DEF Words
    <2>2. parse_lists_and_clog = (f ++ g) ++ h
      BY DEF parse_lists_and_clog
    <2> HIDE DEF f, g, h
    <2>3. DOMAIN (f ++ g) = DOMAIN f \cup DOMAIN g /\ \A w \in DOMAIN f : (f ++ g)[w] = f[w]
      BY DEF ++
    <2>4. /\ DOMAIN parse_lists_and_clog = DOMAIN (f ++ g) \cup DOMAIN h
          /\ \A w \in DOMAIN (f ++ g) : parse_lists_and_clog[w] = (f ++ g)[w]
      BY <2>2 DEF ++
    <2> QED BY <2>1, <2>3, <2>4
  <1>3. /\ \A w \in {"VOLUMES", "OK", "ERR", "DEVICES"} :
             w \in DOMAIN parse_ok_and_hooks /\ parse_ok_and_hooks[w] = "whole"
        /\ DOMAIN parse_ok_and_hooks
             = {"VOLUMES", "OK", "ERR", "DEVICES", "PONG", "CINFO", "HOOKS", "MEMREGS"}
    BY DEF parse_ok_and_hooks, Words, ++
  <1>4. \A w \in {"LIBINFO", "DEVINFO"} : w \in DOMAIN parse_system /\ parse_system[w] = "whole"
    BY DEF parse_system, Words, ++
  <1>5. /\ "AREXXRESULT" \in DOMAIN parse_tests_and_clipboard
        /\ parse_tests_and_clipboard["AREXXRESULT"] = "whole"
        /\ "ENV" \notin DOMAIN parse_tests_and_clipboard
    BY DEF parse_tests_and_clipboard, Words, ++
  <1>6. "ENV" \in DOMAIN parse_files_and_environment
        /\ parse_files_and_environment["ENV"] = "whole"
    BY DEF parse_files_and_environment, Words, ++
  <1>7. \A w \in {"LIBINFO", "DEVINFO", "AREXXRESULT", "ENV"} :
           /\ w \notin DOMAIN parse_graphics /\ w \notin DOMAIN parse_debugger
           /\ w \notin DOMAIN parse_crash_and_resources
    BY DEF parse_graphics, parse_debugger, parse_crash_and_resources, Words, ++
  <1>8. \A w \in {"AREXXRESULT", "ENV"} :
           w \notin DOMAIN parse_system /\ w \notin DOMAIN parse_snoop_and_intuition
    BY DEF parse_system, parse_snoop_and_intuition, Words, ++
  <1>9. \A f, g : /\ DOMAIN (f ++ g) = DOMAIN f \cup DOMAIN g
                  /\ \A w \in DOMAIN f : (f ++ g)[w] = f[w]
                  /\ \A w \in DOMAIN g : w \notin DOMAIN f => (f ++ g)[w] = g[w]
    BY DEF ++
  <1> DEFINE a == parse_log_and_clients ++ parse_lists_and_clog
             b == a ++ parse_ok_and_hooks
             c == b ++ parse_graphics ++ parse_debugger ++ parse_crash_and_resources
             d == c ++ parse_system
             e == d ++ parse_snoop_and_intuition ++ parse_tests_and_clipboard
             T1 == {"LOG", "VAR", "CMD", "TASKS", "LIBS", "DIR", "PROC", "CLOG", "CVAR"}
             T2 == T1 \cup {"VOLUMES", "OK", "ERR", "DEVICES"}
             T3 == T2 \cup {"LIBINFO", "DEVINFO"}
             T4 == T3 \cup {"AREXXRESULT"}
  <1>10. parse_message = e ++ parse_files_and_environment
    BY DEF parse_message
  <1>11. /\ DOMAIN a = DOMAIN parse_log_and_clients \cup DOMAIN parse_lists_and_clog
         /\ \A w \in T1 : w \in DOMAIN a /\ a[w] = "whole"
    <2>1. DOMAIN a = DOMAIN parse_log_and_clients \cup DOMAIN parse_lists_and_clog
      BY <1>9
    <2>2. \A w \in DOMAIN parse_log_and_clients : a[w] = parse_log_and_clients[w]
      BY <1>9
    <2>3. \A w \in {"TASKS", "LIBS", "DIR", "PROC", "CLOG", "CVAR"} :
            a[w] = parse_lists_and_clog[w]
      BY <1>1, <1>2, <1>9
    <2> HIDE DEF a
    <2> QED BY <1>1, <1>2, <2>1, <2>2, <2>3
  <1> HIDE DEF a
  <1>12. /\ DOMAIN b = DOMAIN a \cup DOMAIN parse_ok_and_hooks
         /\ \A w \in T2 : w \in DOMAIN b /\ b[w] = "whole"
    BY <1>1, <1>2, <1>3, <1>9, <1>11
  <1> HIDE DEF b
  <1>13. \A w \in {"LIBINFO", "DEVINFO", "AREXXRESULT", "ENV"} : w \notin DOMAIN b
    BY <1>1, <1>2, <1>3, <1>11, <1>12
  <1>14. /\ \A w \in T2 : w \in DOMAIN c /\ c[w] = "whole"
         /\ \A w \in {"LIBINFO", "DEVINFO", "AREXXRESULT", "ENV"} : w \notin DOMAIN c
    <2> DEFINE f == b ++ parse_graphics
               g == f ++ parse_debugger
    <2>1. DOMAIN f = DOMAIN b \cup DOMAIN parse_graphics /\ \A w \in DOMAIN b : f[w] = b[w]
      BY <1>9
    <2>2. DOMAIN g = DOMAIN f \cup DOMAIN parse_debugger /\ \A w \in DOMAIN f : g[w] = f[w]
      BY <1>9
    <2>3. DOMAIN c = DOMAIN g \cup DOMAIN parse_crash_and_resources /\ \A w \in DOMAIN g : c[w] = g[w]
      BY <1>9
    <2> HIDE DEF f, g, c, T2
    <2> QED BY <1>7, <1>12, <1>13, <2>1, <2>2, <2>3
  <1> HIDE DEF c
  <1>15. /\ \A w \in T3 : w \in DOMAIN d /\ d[w] = "whole"
         /\ \A w \in {"AREXXRESULT", "ENV"} : w \notin DOMAIN d
    <2>1. DOMAIN d = DOMAIN c \cup DOMAIN parse_system
      BY <1>9
    <2>2. \A w \in T3 : w \in DOMAIN d /\ d[w] = "whole"
      BY <1>4, <1>9, <1>14, <2>1
    <2>3. \A w \in {"AREXXRESULT", "ENV"} : w \notin DOMAIN d
      BY <1>8, <1>14, <2>1
    <2> QED BY <2>2, <2>3
  <1> HIDE DEF d
  <1>16. (\A w \in T4 : w \in DOMAIN e /\ e[w] = "whole") /\ "ENV" \notin DOMAIN e
    <2> DEFINE f == d ++ parse_snoop_and_intuition
    <2>1. /\ DOMAIN f = DOMAIN d \cup DOMAIN parse_snoop_and_intuition
          /\ \A w \in DOMAIN d : f[w] = d[w]
      BY <1>9
    <2>2. e = f ++ parse_tests_and_clipboard
      OBVIOUS
    <2> HIDE DEF f, e
    <2>3. /\ DOMAIN e = DOMAIN f \cup DOMAIN parse_tests_and_clipboard
          /\ \A w \in DOMAIN f : e[w] = f[w]
          /\ \A w \in DOMAIN parse_tests_and_clipboard :
               w \notin DOMAIN f => e[w] = parse_tests_and_clipboard[w]
      BY <1>9, <2>2
    <2>4. \A w \in T3 : w \in DOMAIN e /\ e[w] = "whole"
      BY <1>15, <2>1, <2>3
    <2>5. "AREXXRESULT" \in DOMAIN e /\ e["AREXXRESULT"] = "whole"
      BY <1>5, <1>8, <1>15, <2>1, <2>3
    <2>6. "ENV" \notin DOMAIN e
      BY <1>5, <1>8, <1>15, <2>1, <2>3
    <2> QED BY <2>4, <2>5, <2>6
  <1> HIDE DEF e
  <1>17. /\ DOMAIN parse_message = DOMAIN e \cup DOMAIN parse_files_and_environment
         /\ \A w \in DOMAIN e : parse_message[w] = e[w]
         /\ \A w \in DOMAIN parse_files_and_environment :
              w \notin DOMAIN e => parse_message[w] = parse_files_and_environment[w]
    BY <1>10 DEF ++
  <1>18. \A w \in T4 \cup {"ENV"} : w \in DOMAIN parse_message /\ parse_message[w] = "whole"
    <2> HIDE DEF T4
    <2>1. \A w \in T4 : w \in DOMAIN parse_message /\ parse_message[w] = "whole"
      BY <1>16, <1>17
    <2>2. "ENV" \in DOMAIN parse_message /\ parse_message["ENV"] = "whole"
      BY <1>6, <1>16, <1>17
    <2> QED BY <2>1, <2>2
  <1>19. WholeTexts = T4 \cup {"ENV"}
    BY DEF WholeTexts
  <1> QED BY <1>18, <1>19, Zenon

\* The line that an event of a plan was, and what it means to a call.
LEMMA EventForm ==
    ASSUME NEW b \in Callers, NEW q \in Plans, NEW line \in Lines, MeantAs(q, b, line)
    PROVE  \E j \in DOMAIN q : \E lines \in AllAnswers(q[j]) : \E k \in DOMAIN lines :
             /\ q[j] \in Exchanges /\ lines[k] \in Reply
             /\ line.word \in process_message(lines[k].word)
             /\ line.ctx = lines[k].ctx /\ line.text = lines[k].text /\ line.of = q[j].cmd
             /\ \A c \in Callers :
                  line.key = Argument[c] => Argument[c] = Argument[b] /\ lines[k].echo = "arg"
  <1>1. PICK j \in DOMAIN q : \E lines \in AllAnswers(q[j]) : \E k \in DOMAIN lines :
          \E word \in process_message(lines[k].word) :
            line = [Addressed(lines[k], [cmd |-> q[j].cmd, by |-> b]) EXCEPT !.word = word]
    BY Zenon DEF MeantAs
  <1>2. PICK lines \in AllAnswers(q[j]) : \E k \in DOMAIN lines :
          \E word \in process_message(lines[k].word) :
            line = [Addressed(lines[k], [cmd |-> q[j].cmd, by |-> b]) EXCEPT !.word = word]
    BY <1>1
  <1>3. PICK k \in DOMAIN lines :
          \E word \in process_message(lines[k].word) :
            line = [Addressed(lines[k], [cmd |-> q[j].cmd, by |-> b]) EXCEPT !.word = word]
    BY <1>2
  <1>4. PICK word \in process_message(lines[k].word) :
          line = [Addressed(lines[k], [cmd |-> q[j].cmd, by |-> b]) EXCEPT !.word = word]
    BY <1>3
  <1>5. q[j] \in Exchanges /\ lines[k] \in Reply
    <2>1. q[j] \in Exchanges
      BY PlanForm
    <2>2. lines \in Seq(Reply)
      BY <2>1, ExchangeForm
    <2> QED BY <2>1, <2>2
  <1>6. line = [word |-> word, ctx |-> lines[k].ctx, text |-> lines[k].text, by |-> b,
                of |-> q[j].cmd, key |-> IF lines[k].echo = "arg" THEN Argument[b] ELSE lines[k].echo]
    BY <1>4 DEF Addressed
  <1>7. /\ line.word = word /\ line.ctx = lines[k].ctx /\ line.text = lines[k].text
        /\ line.of = q[j].cmd
        /\ line.key = IF lines[k].echo = "arg" THEN Argument[b] ELSE lines[k].echo
    BY <1>6
  <1>8. \A c \in Callers :
          line.key = Argument[c] => Argument[c] = Argument[b] /\ lines[k].echo = "arg"
    <2>1. /\ lines[k].echo \in {"arg", "own", "none"}
          /\ \A c \in Callers : Argument[c] \notin {"own", "none"}
      BY <1>5, CallersAssumption DEF Reply, Arguments
    <2> QED BY <1>7, <2>1
  <1>9. line.word \in process_message(lines[k].word)
    BY <1>7
  <1>10. \E m \in DOMAIN lines :
           /\ q[j] \in Exchanges /\ lines[m] \in Reply
           /\ line.word \in process_message(lines[m].word)
           /\ line.ctx = lines[m].ctx /\ line.text = lines[m].text /\ line.of = q[j].cmd
           /\ \A c \in Callers :
                line.key = Argument[c] => Argument[c] = Argument[b] /\ lines[m].echo = "arg"
    BY <1>5, <1>7, <1>8, <1>9, Zenon
  <1> QED BY <1>10

\* A line is for the kind of exchange that e of c is, or for one it is told from
\* by the argument alone.
Alike(c, e, line) ==
    \/ line.by = "nobody" \/ AnyContext \in e.ok \cup e.err
    \/ Related(e.cmd, line.of)
    \/ Confusable(e.cmd, line.of) /\ Argument[line.by] = Argument[c]

\* A line that ends an exchange is of its kind, and whole.
LEMMA TakenForm ==
    ASSUME TypeInv, SourceInv, NEW c \in Callers, phase[c] = "waiting",
           NEW line \in Among(inbox[c]), line \in Lines,
           Fits(c, Exch(c), line) \/ Refuses(Exch(c), line)
    PROVE  /\ Alike(c, Exch(c), line)
           /\ Survives(line.word, line.text) \/ line.word \in CutTexts
  <1> DEFINE e == Exch(c)
             b == line.by
  <1>1. e \in Exchanges
    BY WaitingForm
  <1>2. CASE Noisy(line)
    BY <1>2 DEF Noisy, Survives, Alike
  <1>3. CASE line.by \in Callers
    <2>1. PICK p \in Plans : CallOf(c, p)
      BY Called
    <2>2. PICK i \in DOMAIN p : p[i] = e
      <3>1. plan[c] \in Seq(Exchanges) /\ plan[c] # <<>> /\ e = Head(plan[c])
        BY WaitingForm
      <3>2. e = plan[c][1] /\ 1 \in DOMAIN plan[c]
        BY <3>1
      <3>3. e \in Among(plan[c])
        BY <3>2, Zenon DEF Among
      <3> HIDE DEF e
      <3>4. e \in Among(p)
        BY <2>1, <3>3, Zenon DEF CallOf
      <3> QED BY <3>4 DEF Among
    <2>3. \E q \in Plans : CallOf(b, q)
      <3>1. ~Unheardof(b)
        BY DEF Unheardof
      <3> QED BY <1>3, <3>1 DEF SourceInv
    <2>4. PICK q \in Plans : CallOf(b, q)
      BY <2>3
    <2>5. MeantAs(q, b, line)
      BY <2>4, Zenon DEF CallOf
    <2> HIDE DEF e, b
    <2>6. \E j \in DOMAIN q : \E lines \in AllAnswers(q[j]) : \E k \in DOMAIN lines :
             /\ q[j] \in Exchanges /\ lines[k] \in Reply
             /\ line.word \in process_message(lines[k].word)
             /\ line.ctx = lines[k].ctx /\ line.text = lines[k].text /\ line.of = q[j].cmd
             /\ \A d \in Callers :
                  line.key = Argument[d] => Argument[d] = Argument[b] /\ lines[k].echo = "arg"
      BY <1>3, <2>5, EventForm DEF b
    <2>7. PICK j \in DOMAIN q : \E lines \in AllAnswers(q[j]) : \E k \in DOMAIN lines :
             /\ q[j] \in Exchanges /\ lines[k] \in Reply
             /\ line.word \in process_message(lines[k].word)
             /\ line.ctx = lines[k].ctx /\ line.text = lines[k].text /\ line.of = q[j].cmd
             /\ \A d \in Callers :
                  line.key = Argument[d] => Argument[d] = Argument[b] /\ lines[k].echo = "arg"
      BY <2>6
    <2>8. PICK lines \in AllAnswers(q[j]) : \E k \in DOMAIN lines :
             /\ q[j] \in Exchanges /\ lines[k] \in Reply
             /\ line.word \in process_message(lines[k].word)
             /\ line.ctx = lines[k].ctx /\ line.text = lines[k].text /\ line.of = q[j].cmd
             /\ \A d \in Callers :
                  line.key = Argument[d] => Argument[d] = Argument[b] /\ lines[k].echo = "arg"
      BY <2>7
    <2>9. PICK k \in DOMAIN lines :
             /\ q[j] \in Exchanges /\ lines[k] \in Reply
             /\ line.word \in process_message(lines[k].word)
             /\ line.ctx = lines[k].ctx /\ line.text = lines[k].text /\ line.of = q[j].cmd
             /\ \A d \in Callers :
                  line.key = Argument[d] => Argument[d] = Argument[b] /\ lines[k].echo = "arg"
      BY <2>8
    <2>10. /\ \/ (e.key => line.key = Argument[c]) /\ Counts(e, line.word, lines[k].ctx)
              \/ Fails(e, line.word, lines[k].ctx)
      <3>1. Fits(c, e, line) \/ Refuses(e, line)
        BY DEF e
      <3>2. line.ctx = lines[k].ctx
        BY <2>9
      <3> QED BY <3>1, <3>2, FitsMeans, Zenon
    <2>11. \/ MayRefuse(e, lines[k])
           \/ MayFit(e, lines[k]) /\ (e.key => Argument[b] = Argument[c])
      <3>1. CASE Fails(e, line.word, lines[k].ctx)
        BY <2>9, <3>1, Zenon DEF MayRefuse
      <3>2. CASE (e.key => line.key = Argument[c]) /\ Counts(e, line.word, lines[k].ctx)
        <4>1. e.key => lines[k].echo = "arg" /\ Argument[b] = Argument[c]
          BY <2>9, <3>2
        <4> QED BY <2>9, <3>2, <4>1, Zenon DEF MayFit
      <3> QED BY <2>10, <3>1, <3>2
    <2>12. Alike(c, e, line)
      <3>1. \/ AnyContext \in e.ok \cup e.err \/ Related(e.cmd, q[j].cmd)
            \/ ~MayRefuse(e, lines[k]) /\ e.key /\ Confusable(e.cmd, q[j].cmd)
        BY <2>2, <2>11, KindsAssumption
      <3> QED BY <2>9, <2>11, <3>1, Zenon DEF Alike, b
    <2>13. Survives(line.word, line.text) \/ line.word \in CutTexts
      <3>1. CASE line.text
        <4>1. ~HarmlessAs(line.word, lines[k].ctx)
          BY <1>1, <2>10, Zenon DEF HarmlessAs, e
        <4>2. lines[k] \in Said /\ lines[k].text
          BY <2>9, <3>1 DEF Said
        <4>3. line.word \in WholeTexts \cup CutTexts
          BY <2>9, <4>1, <4>2, TextsAssumption
        <4> QED BY <4>3, ParsedWhole DEF Survives
      <3>2. CASE ~line.text
        BY <3>2 DEF Survives
      <3> QED BY <3>1, <3>2
    <2> QED BY <2>9, <2>12, <2>13 DEF e
  <1> QED BY <1>2, <1>3 DEF SourceInv

\* heard stays as it was but for the taker, whose new line is of its queue.
LEMMA HeardStep ==
    ASSUME TypeInv, SourceInv, [Next]_vars
    PROVE  \/ heard' = heard
           \/ \E c \in Callers : \E line \in Lines :
                /\ TakesFor(c, Exch(c), line)
                /\ Alike(c, Exch(c), line)
                /\ Survives(line.word, line.text) \/ line.word \in CutTexts
  <1>1. ASSUME NEW c \in Callers, Begin(c) \/ SendNext(c) \/ Timeout(c) PROVE heard' = heard
    BY <1>1 DEF Begin, SendNext, Timeout, Sends
  <1>2. ASSUME NEW c \in Callers, Take(c)
        PROVE  \/ heard' = heard
               \/ \E line \in Lines :
                    /\ TakesFor(c, Exch(c), line)
                    /\ Alike(c, Exch(c), line)
                    /\ Survives(line.word, line.text) \/ line.word \in CutTexts
    <2> DEFINE line == Head(inbox[c])
    <2>1. phase[c] = "waiting" /\ line \in Lines /\ line \in Among(inbox[c])
      BY <1>2, TakeEffect
    <2>2. \/ heard' = heard
          \/ TakesFor(c, Exch(c), line) /\ (Fits(c, Exch(c), line) \/ Refuses(Exch(c), line))
      BY <1>2, TakeEffect
    <2> HIDE DEF line
    <2> QED BY <2>1, <2>2, TakenForm
  <1>3. CASE LateAnswer \/ Unasked \/ Deliver \/ UNCHANGED vars
    BY <1>3, Zenon DEF LateAnswer, Unasked, Deliver, vars, host
  <1> QED BY <1>1, <1>2, <1>3, Zenon DEF Next

\* So every step keeps what was taken of its kind, and whole.
LEMMA StepHeard ==
    ASSUME TypeInv, SourceInv, [Next]_vars
    PROVE  (NoCrossTalk => NoCrossTalk') /\ (TextsArriveWhole => TextsArriveWhole')
  <1>1. CASE heard' = heard
    BY <1>1 DEF NoCrossTalk, TextsArriveWhole
  <1>2. CASE heard' # heard
    <2>1. PICK c \in Callers : \E line \in Lines :
                /\ TakesFor(c, Exch(c), line)
                /\ Alike(c, Exch(c), line)
                /\ Survives(line.word, line.text) \/ line.word \in CutTexts
      BY <1>2, HeardStep
    <2>2. PICK line \in Lines :
                /\ TakesFor(c, Exch(c), line)
                /\ Alike(c, Exch(c), line)
                /\ Survives(line.word, line.text) \/ line.word \in CutTexts
      BY <2>1
    <2> DEFINE new == [by |-> line.by, of |-> line.of, to |-> Exch(c).cmd, word |-> line.word,
                       text |-> line.text, loose |-> AnyContext \in Exch(c).ok \cup Exch(c).err]
    <2>3. heard = [d \in Callers |-> heard[d]]
      BY DEF TypeInv, LinkType
    <2>4. heard' = [heard EXCEPT ![c] = @ \cup {new}]
      BY <2>2 DEF TakesFor
    <2>5. \A d \in Callers : \A h \in heard'[d] : h \in heard[d] \/ (d = c /\ h = new)
      <3>1. \A d \in Callers \ {c} : heard'[d] = heard[d]
        BY <2>3, <2>4
      <3>2. heard'[c] = heard[c] \cup {new}
        BY <2>3, <2>4
      <3> HIDE DEF new
      <3> QED BY <3>1, <3>2
    <2>6. /\ new.by = line.by /\ new.of = line.of /\ new.to = Exch(c).cmd /\ new.word = line.word
          /\ new.text = line.text /\ new.loose = (AnyContext \in Exch(c).ok \cup Exch(c).err)
      BY Zenon
    <2> HIDE DEF new
    <2>7. \/ new.by = "nobody" \/ new.loose \/ Related(new.to, new.of)
          \/ Confusable(new.to, new.of) /\ Argument[new.by] = Argument[c]
      BY <2>2, <2>6, Zenon DEF Alike
    <2>8. Survives(new.word, new.text) \/ new.word \in CutTexts
      BY <2>2, <2>6, Zenon
    <2> QED BY <2>5, <2>7, <2>8, Zenon DEF NoCrossTalk, TextsArriveWhole
  <1> QED BY <1>1, <1>2
-----------------------------------------------------------------------------
(* What is still to come of an answer is enough                            *)

\* Only a call's own lines count for it.
LEMMA OwnSets ==
    ASSUME NEW c, NEW e
    PROVE  /\ FitDown(c, e) \subseteq Own(c) /\ RefuseDown(c, e) \subseteq Own(c)
           /\ EndDown(c, e) \subseteq Own(c) /\ EndIn(c, e) \subseteq Own(c)
  BY DEF FitDown, RefuseDown, EndDown, EndIn, Own

\* What others do changes nothing of it.
LEMMA EnoughKeeps ==
    ASSUME NEW d \in Callers, Enough(d), peer' = peer, phase'[d] = phase[d], plan'[d] = plan[d],
           rows'[d] = rows[d], inbox'[d] = inbox[d],
           result'[d] = result[d],
           \A S \in SUBSET Own(d) :
             Count(down', S) = Count(down, S) /\ Among(down') \cap S = Among(down) \cap S
    PROVE  Enough(d)'
  <1> SUFFICES ASSUME phase'[d] = "waiting"
               PROVE  EnoughOf(d, Exch(d), result'[d], rows'[d], inbox'[d], down')
    BY Zenon DEF Enough, EnoughOf, Exch
  <1> DEFINE e == Exch(d)
  <1>1. EnoughOf(d, e, result[d], rows[d], inbox[d], down)
    BY Zenon DEF Enough, EnoughOf
  <1>2. /\ Count(down', FitDown(d, e)) = Count(down, FitDown(d, e))
        /\ Among(down') \cap RefuseDown(d, e) = Among(down) \cap RefuseDown(d, e)
    BY OwnSets
  <1> HIDE DEF e
  <1>3. EnoughOf(d, e, result'[d], rows'[d], inbox'[d], down')
    BY <1>1, <1>2 DEF EnoughOf
  <1> QED BY <1>3 DEF e

\* An answer has come for c, which waits for it.
LEMMA EnoughNews ==
    ASSUME LinkType, NEW c \in Callers, NEW e \in Exchanges, e.cmd \in format_command, Waits(e),
           NEW n \in Nat, NEW here \in Seq(Lines), NEW lines \in AllAnswers(e),
           peer \in Peers,
           lines \in AnswersOf(peer, e.cmd, e.rows)
                       \cup IF peer = "daemon" /\ e.cmd \in AnsweredLate
                            THEN LateAnswersOf(e.cmd) ELSE {},
           Answer(lines, [cmd |-> e.cmd, by |-> c])
    PROVE  EnoughOf(c, e, result'[c], n, here, down')
  <1> DEFINE new == News(lines, e, c)
  <1>1. /\ result'[c] = IF lines = <<>> THEN "silence" ELSE Verdict(lines)
        /\ Among(down') = Among(down) \cup Among(new)
        /\ Count(down', FitDown(c, e)) = Count(down, FitDown(c, e)) + Count(new, FitDown(c, e))
    BY AnswerEffect
  <1>2. /\ Count(new, FitDown(c, e)) = Cardinality(Fitting(e, lines))
        /\ Among(new) \cap RefuseDown(c, e) # {} <=> \E i \in DOMAIN lines : MayRefuse(e, lines[i])
    BY NewsCounts
  <1>3. /\ Count(down, FitDown(c, e)) \in Nat /\ Count(new, FitDown(c, e)) \in Nat
        /\ Count(here, FitIn(c, e)) \in Nat
    <2>1. down \in Seq(Lines) /\ new \in Seq(Lines)
      BY NewsForm DEF LinkType
    <2> HIDE DEF new
    <2> QED BY <2>1, CountType
  <1> HIDE DEF new
  <1>4. e.rows \in Nat /\ e.rows > 0
    BY ExchangeForm
  <1>5. /\ e.how = "anew" /\ e.rows > 1 => e \in WaitForMore /\ e.err = {}
        /\ \/ lines = <<>>
           \/ Unheard(peer, e, Verdict(lines))
           \/ /\ Verdict(lines) = "done"
              /\ Cardinality(Fitting(e, lines)) >= e.rows
           \/ /\ Verdict(lines) = "refused"
              /\ \E i \in DOMAIN lines : MayRefuse(e, lines[i])
    BY RepliesAssumption
  <1>6. CASE lines = <<>>
    BY <1>1, <1>6 DEF EnoughOf, Unheard
  <1>7. CASE lines # <<>> /\ Unheard(peer, e, Verdict(lines))
    BY <1>1, <1>7 DEF EnoughOf
  <1>8. CASE lines # <<>> /\ e.how = "anew" /\ e.rows > 1 /\ Verdict(lines) \in {"done", "refused"}
    BY <1>1, <1>5, <1>8 DEF EnoughOf, Unheard
  <1>9. CASE /\ lines # <<>> /\ ~(e.how = "anew" /\ e.rows > 1) /\ Verdict(lines) = "done"
             /\ Cardinality(Fitting(e, lines)) >= e.rows
    <2>1. e.how = "anew" => e.rows = 1
      BY <1>4, <1>9
    <2>2. Count(new, FitDown(c, e)) >= e.rows
      BY <1>2, <1>9
    <2>3. n + Count(here, FitIn(c, e)) + Count(down', FitDown(c, e)) >= e.rows
      BY <1>1, <1>3, <1>4, <2>2
    <2> QED BY <1>1, <1>9, <2>1, <2>3 DEF EnoughOf
  <1>10. CASE /\ lines # <<>> /\ ~(e.how = "anew" /\ e.rows > 1) /\ Verdict(lines) = "refused"
              /\ \E i \in DOMAIN lines : MayRefuse(e, lines[i])
    <2>1. e.how = "anew" => e.rows = 1
      BY <1>4, <1>10
    <2>2. Among(down') \cap RefuseDown(c, e) # {}
      BY <1>1, <1>2, <1>10
    <2> QED BY <1>1, <1>10, <2>1, <2>2 DEF EnoughOf
  <1> QED BY <1>5, <1>6, <1>7, <1>8, <1>9, <1>10

\* The answer to a command is enough for the caller that sent it.
LEMMA SendsEnough ==
    ASSUME TypeInv, EnoughInv, NEW c \in Callers, NEW p \in Seq(Exchanges), NEW q \in Plans,
           Ready(c, p, q), Sends(c, p)
    PROVE  EnoughInv'
  <1> DEFINE e == Head(p)
  <1>1. p # <<>> /\ phase[c] \in {"idle", "sending"}
    BY DEF Ready
  <1>2. /\ e \in Exchanges /\ e.cmd \in format_command
        /\ IF Waits(e) THEN phase'[c] = "waiting" /\ plan'[c] = p
           ELSE phase'[c] \in {"sending", "over"}
        /\ \A d \in Callers \ {c} : /\ phase'[d] = phase[d] /\ plan'[d] = plan[d]
                                    /\ inbox'[d] = inbox[d] /\ rows'[d] = rows[d]
        /\ inbox'[c] = <<>> /\ rows'[c] = 0 /\ peer' = peer /\ HostType'
    BY <1>1, SendsEffect
  <1>3. PICK lines \in AllAnswers(e) :
          /\ lines \in AnswersOf(peer, e.cmd, e.rows)
          /\ Answer(lines, [cmd |-> e.cmd, by |-> c])
    BY <1>1, SendsEffect
  <1>4. LinkType /\ peer \in Peers
    BY DEF TypeInv, LinkType
  <1>5. ASSUME NEW d \in Callers \ {c} PROVE Enough(d)'
    <2>1. /\ result'[d] = result[d]
          /\ \A S \in SUBSET Own(d) : Count(down', S) = Count(down, S)
          /\ \A S \in SUBSET Own(d) : Among(down') \cap S = Among(down) \cap S
      BY <1>2, <1>3, <1>4, AnswerEffect
    <2> QED BY <1>2, <2>1, EnoughKeeps DEF EnoughInv
  <1>6. Enough(c)'
    <2>1. CASE Waits(e)
      <3>1. Exch(c)' = e /\ inbox'[c] \in Seq(Lines) /\ rows'[c] \in Nat
        BY <1>2, <2>1 DEF Exch, HostType
      <3> HIDE DEF e
      <3>2. EnoughOf(c, e, result'[c], rows'[c], inbox'[c], down')
        BY <1>2, <1>3, <1>4, <2>1, <3>1, EnoughNews
      <3> QED BY <1>2, <3>1, <3>2, Zenon DEF Enough, EnoughOf
    <2>2. CASE ~Waits(e)
      BY <1>2, <2>2 DEF Enough
    <2> QED BY <2>1, <2>2
  <1> QED BY <1>5, <1>6 DEF EnoughInv

\* So is a late one.
LEMMA LateEnough ==
    ASSUME TypeInv, SourceInv, EnoughInv, LateAnswer
    PROVE  EnoughInv'
  <1>1. PICK late \in open : \E lines \in LateAnswersOf(late.cmd) : Answer(lines, late)
    BY DEF LateAnswer
  <1>2. PICK lines \in LateAnswersOf(late.cmd) : Answer(lines, late)
    BY <1>1
  <1> DEFINE c == late.by
  <1>3. UNCHANGED host
    BY DEF LateAnswer
  <1>4. c \in Callers /\ late.cmd \in AnsweredLate /\ late.cmd \in format_command
    BY LateForm
  <1>5. PICK q \in Plans :
          /\ CallOf(c, q) /\ Len(q) = 1 /\ Head(q).then = "on"
          /\ Head(q) \in Exchanges /\ Head(q).cmd = late.cmd
          /\ late = [cmd |-> Head(q).cmd, by |-> c]
          /\ LateAnswersOf(late.cmd) \subseteq AllAnswers(Head(q))
    BY LateForm
  <1> DEFINE e == Head(q)
  <1>6. lines \in AllAnswers(e) /\ Answer(lines, [cmd |-> e.cmd, by |-> c]) /\ e.cmd \in format_command
    BY <1>2, <1>4, <1>5
  <1>7. peer = "daemon" /\ LinkType /\ peer \in Peers
    BY <1>5, Zenon DEF CallOf, TypeInv, LinkType
  <1>8. Waits(e)
    <2>1. e = q[1] /\ 1 \in DOMAIN q
      BY <1>5, PlanForm
    <2> QED BY <1>4, <1>5, <2>1, AloneAssumption
  <1>9. UNCHANGED <<peer, phase, plan, inbox, rows>>
    BY <1>3 DEF host
  <1> HIDE DEF c, e
  <1>10. ASSUME NEW d \in Callers \ {c} PROVE Enough(d)'
    <2>1. /\ result'[d] = result[d]
          /\ \A S \in SUBSET Own(d) : Count(down', S) = Count(down, S)
          /\ \A S \in SUBSET Own(d) : Among(down') \cap S = Among(down) \cap S
      BY <1>4, <1>5, <1>6, <1>7, AnswerEffect DEF c, e
    <2> QED BY <1>9, <2>1, EnoughKeeps DEF EnoughInv
  <1>11. Enough(c)'
    <2> SUFFICES ASSUME phase[c] = "waiting" PROVE Enough(c)'
      BY <1>9 DEF Enough
    <2>1. Exch(c) = e /\ rows[c] \in Nat /\ inbox[c] \in Seq(Lines)
      <3>1. /\ plan[c] \in Seq(Exchanges) /\ plan[c] # <<>> /\ Exch(c) = Head(plan[c])
            /\ rows[c] \in Nat /\ inbox[c] \in Seq(Lines)
        BY <1>4, WaitingForm DEF c
      <3>2. Len(plan[c]) <= Len(q) /\ Among(plan[c]) \subseteq Among(q)
        BY <1>5 DEF CallOf, c
      <3> QED BY <1>5, <3>1, <3>2, LoneHead DEF e
    <2>2. e \in Exchanges /\ e.cmd = late.cmd
      BY <1>5 DEF e
    <2>3. EnoughOf(c, e, result'[c], rows[c], inbox[c], down')
      <3>1. lines \in AnswersOf(peer, e.cmd, e.rows)
                       \cup IF peer = "daemon" /\ e.cmd \in AnsweredLate
                            THEN LateAnswersOf(e.cmd) ELSE {}
        BY <1>2, <1>4, <1>7, <2>2
      <3>2. c \in Callers
        BY <1>4 DEF c
      <3> QED BY <1>6, <1>7, <1>8, <2>1, <2>2, <3>1, <3>2, EnoughNews
    <2>4. Exch(c)' = e
      BY <1>9, <2>1 DEF Exch
    <2> QED BY <1>9, <2>3, <2>4, Zenon DEF Enough, EnoughOf
  <1> QED BY <1>10, <1>11 DEF EnoughInv

\* What is delivered is counted in the queue and no longer on the link.
LEMMA DeliverEnough ==
    ASSUME TypeInv, SourceInv, EnoughInv, Deliver
    PROVE  EnoughInv'
  <1> DEFINE line == Head(down)
  <1>1. /\ line \in Lines /\ line \in Among(down) /\ Among(down) = Among(down') \cup {line}
        /\ \A S : Count(down, S) = Count(down', S) + IF line \in S THEN 1 ELSE 0
        /\ \A d \in Callers : Reaches(d, line)
        /\ UNCHANGED <<peer, phase, plan, rows, outcome, open, result, heard, settled, orderly>>
        /\ TypeInv'
    BY DeliverEffect
  <1> HIDE DEF line
  <1> SUFFICES ASSUME NEW d \in Callers, phase[d] = "waiting"
               PROVE  Enough(d)'
    BY <1>1 DEF EnoughInv, Enough
  <1> DEFINE e == Exch(d)
             In == FitIn(d, e)
             Down == FitDown(d, e)
  <1>2. /\ e \in Exchanges /\ rows[d] \in Nat /\ inbox[d] \in Seq(Lines) /\ e.rows \in Nat
        /\ down' \in Seq(Lines)
    BY <1>1, WaitingForm, ExchangeForm DEF TypeInv, LinkType
  <1>3. Exch(d)' = e
    BY <1>1 DEF Exch
  <1>4. EnoughOf(d, e, result[d], rows[d], inbox[d], down)
    BY Zenon DEF EnoughInv, Enough, EnoughOf
  <1>5. line \in Own(d) => line.word \in DOMAIN parse_message
    <2>1. PICK p \in Plans : CallOf(d, p)
      BY Called
    <2> QED BY <1>1, <2>1, MeantForm DEF CallOf, Own
  <1>6. /\ Count(down, Down) = Count(down', Down) + IF line \in Down THEN 1 ELSE 0
        /\ Count(down', Down) \in Nat /\ Count(inbox[d], In) \in Nat
    BY <1>1, <1>2, CountType
  <1>7. CASE /\ inbox'[d] = inbox[d]
             /\ line.word \in DOMAIN parse_message => line \notin Down /\ line \notin RefuseDown(d, e)
    <2>1. line \notin Down /\ line \notin RefuseDown(d, e)
      <3>1. Down \subseteq Own(d) /\ RefuseDown(d, e) \subseteq Own(d)
        BY OwnSets
      <3> QED BY <1>5, <1>7, <3>1
    <2>2. Count(down', Down) = Count(down, Down)
      BY <1>6, <2>1
    <2>3. Among(down') \cap RefuseDown(d, e) = Among(down) \cap RefuseDown(d, e)
      BY <1>1, <2>1
    <2> HIDE DEF e
    <2>4. EnoughOf(d, e, result'[d], rows'[d], inbox'[d], down')
      BY <1>1, <1>4, <1>7, <2>2, <2>3 DEF EnoughOf
    <2> QED BY <1>1, <1>3, <2>4, Zenon DEF Enough, EnoughOf
  <1>8. ASSUME NEW as \in Lines, inbox'[d] = Append(inbox[d], as),
               line.by = d => (as \in FitIn(d, e) <=> line \in FitDown(d, e)),
               line.by = d => (as \in RefuseIn(e) <=> line \in RefuseDown(d, e))
        PROVE  Enough(d)'
    <2> DEFINE a == Count(inbox[d], In)
               b == Count(down, Down)
               a1 == Count(inbox'[d], In)
               b1 == Count(down', Down)
    <2>1. /\ Among(inbox'[d]) = Among(inbox[d]) \cup {as}
          /\ a1 = a + IF as \in In THEN 1 ELSE 0
      <3> HIDE DEF In
      <3>0. inbox[d] \in Seq(Lines) /\ as \in Lines
        BY <1>2, <1>8
      <3>1. Among(inbox'[d]) = Among(inbox[d]) \cup {as}
        <4>1. \A y : y \in Among(inbox'[d]) <=> y \in Among(inbox[d]) \/ y = as
          BY <1>8, <3>0, AmongAppend
        <4> QED BY <4>1
      <3>2. Count(Append(inbox[d], as), In) = Count(inbox[d], In) + IF as \in In THEN 1 ELSE 0
        BY <1>2, CountAppend
      <3> QED BY <1>8, <3>1, <3>2
    <2>2. (line \in Down => as \in In) /\ (line \in RefuseDown(d, e) => as \in RefuseIn(e))
      BY <1>8, OwnSets DEF Own
    <2>3. b = b1 + (IF line \in Down THEN 1 ELSE 0) /\ b1 \in Nat /\ a \in Nat
      BY <1>6
    <2>4. rows[d] + a + b >= e.rows => rows[d] + a1 + b1 >= e.rows
      <3> HIDE DEF a, b, a1, b1, In, Down, e
      <3>1. CASE line \in Down
        <4>1. a1 = a + 1 /\ b = b1 + 1
          BY <2>1, <2>2, <2>3, <3>1
        <4> QED BY <1>2, <2>3, <4>1
      <3>2. CASE line \notin Down
        <4>1. b = b1
          BY <2>3, <3>2
        <4>2. a1 = a \/ a1 = a + 1
          <5>1. CASE as \in In
            BY <2>1, <5>1
          <5>2. CASE as \notin In
            BY <2>1, <2>3, <5>2
          <5> QED BY <5>1, <5>2
        <4> QED BY <1>2, <2>3, <4>1, <4>2
      <3> QED BY <3>1, <3>2
    <2>5. \/ Among(inbox[d]) \cap RefuseIn(e) # {}
          \/ Among(down) \cap RefuseDown(d, e) # {}
          => \/ Among(inbox'[d]) \cap RefuseIn(e) # {}
             \/ Among(down') \cap RefuseDown(d, e) # {}
      BY <1>1, <2>1, <2>2
    <2> HIDE DEF e
    <2>6. EnoughOf(d, e, result'[d], rows'[d], inbox'[d], down')
      BY <1>1, <1>4, <2>4, <2>5 DEF EnoughOf
    <2> QED BY <1>1, <1>3, <2>6, Zenon DEF Enough, EnoughOf
  <1>9. Reaches(d, line)
    BY <1>1
  <1>10. CASE \E as \in Lines :
                /\ inbox'[d] = Append(inbox[d], as)
                /\ line.by = d => (as \in FitIn(d, Exch(d)) <=> line \in FitDown(d, Exch(d)))
                /\ line.by = d => (as \in RefuseIn(Exch(d)) <=> line \in RefuseDown(d, Exch(d)))
    BY <1>8, <1>10
  <1> QED BY <1>7, <1>9, <1>10, Zenon DEF Reaches

\* An answer that is taken is counted as a row and no longer in the queue.
LEMMA TakeEnough ==
    ASSUME TypeInv, EnoughInv, NEW c \in Callers, Take(c)
    PROVE  Enough(c)'
  <1> DEFINE e == Exch(c)
             line == Head(inbox[c])
             In == FitIn(c, e)
             Down == FitDown(c, e)
  <1>1. phase[c] = "waiting" /\ inbox[c] # <<>> /\ line \in Lines
    BY TakeEffect
  <1>2. /\ e \in Exchanges /\ rows[c] \in Nat /\ inbox[c] \in Seq(Lines) /\ e.rows \in Nat
        /\ down \in Seq(Lines)
    BY <1>1, WaitingForm, ExchangeForm DEF TypeInv, LinkType
  <1>3. EnoughOf(c, e, result[c], rows[c], inbox[c], down)
    BY <1>1, Zenon DEF EnoughInv, Enough, EnoughOf
  <1>4. /\ Count(inbox[c], In) = Count(Tail(inbox[c]), In) + IF line \in In THEN 1 ELSE 0
        /\ Among(inbox[c]) = Among(Tail(inbox[c])) \cup {line}
        /\ Count(Tail(inbox[c]), In) \in Nat /\ Count(down, Down) \in Nat
    <2>1. Tail(inbox[c]) \in Seq(Lines)
      BY <1>1, <1>2
    <2>2. Among(inbox[c]) = Among(Tail(inbox[c])) \cup {line}
      BY <1>1, <1>2, AmongQueue
    <2> QED BY <1>1, <1>2, <2>1, <2>2, CountTail, CountType
  <1>5. CASE Ended(c)
    BY <1>5 DEF Ended, Enough
  <1>6. CASE /\ Fits(c, e, line) /\ rows[c] + 1 < e.rows
             /\ Stays(c, rows[c] + 1, IF e.how = "anew" THEN <<>> ELSE Tail(inbox[c]))
             /\ peer' = peer /\ down' = down /\ result' = result
    <2>1. Exch(c)' = e /\ phase'[c] = phase[c] /\ rows'[c] = rows[c] + 1
      BY <1>6 DEF Stays, Exch
    <2>2. line \in In /\ line \notin RefuseIn(e)
      BY <1>1, <1>6, FitsMeans DEF FitIn, RefuseIn
    <2>3. CASE Unheard(peer, e, result[c])
      BY <1>6, <2>1, <2>3, Zenon DEF Enough, EnoughOf
    <2>4. CASE ~Unheard(peer, e, result[c])
      <3>1. e.how # "anew"
        <4>1. e.how = "anew" => e.rows = 1
          BY <1>3, <2>4 DEF EnoughOf
        <4> QED BY <1>2, <1>6, <4>1
      <3>2. inbox'[c] = Tail(inbox[c])
        BY <1>6, <3>1 DEF Stays
      <3>3. rows'[c] + Count(inbox'[c], In) + Count(down', Down)
              = rows[c] + Count(inbox[c], In) + Count(down, Down)
        <4> DEFINE a == Count(inbox[c], In)
                   b == Count(down, Down)
                   a1 == Count(inbox'[c], In)
        <4>1. a = a1 + 1 /\ a1 \in Nat /\ b \in Nat
          BY <1>4, <2>2, <3>2
        <4>2. rows'[c] = rows[c] + 1 /\ Count(down', Down) = b
          BY <1>6, <2>1
        <4> HIDE DEF a, b, a1
        <4>3. (rows[c] + 1) + a1 + b = rows[c] + a + b
          <5>1. \A n, x, y \in Nat : (n + 1) + x + y = n + (x + 1) + y
            OBVIOUS
          <5>2. rows[c] \in Nat
            BY <1>2
          <5> QED BY <4>1, <5>1, <5>2, Zenon
        <4> QED BY <4>2, <4>3 DEF a, b, a1
      <3>4. Among(inbox'[c]) \cap RefuseIn(e) = Among(inbox[c]) \cap RefuseIn(e)
        BY <1>4, <2>2, <3>2
      <3> HIDE DEF e, line
      <3>5. EnoughOf(c, e, result'[c], rows'[c], inbox'[c], down')
        BY <1>3, <1>6, <3>3, <3>4 DEF EnoughOf
      <3> QED BY <1>6, <2>1, <3>5, Zenon DEF Enough, EnoughOf
    <2> QED BY <2>3, <2>4
  <1>7. CASE /\ ~Fits(c, e, line) /\ ~Refuses(e, line) /\ Stays(c, rows[c], Tail(inbox[c]))
             /\ peer' = peer /\ down' = down /\ result' = result
    <2>1. Exch(c)' = e /\ phase'[c] = phase[c] /\ rows'[c] = rows[c] /\ inbox'[c] = Tail(inbox[c])
      BY <1>7 DEF Stays, Exch
    <2>2. line \notin In /\ line \notin RefuseIn(e)
      BY <1>7 DEF FitIn, RefuseIn
    <2>3. Count(inbox'[c], In) = Count(inbox[c], In)
      BY <1>4, <2>1, <2>2
    <2>4. Among(inbox'[c]) \cap RefuseIn(e) = Among(inbox[c]) \cap RefuseIn(e)
      BY <1>4, <2>1, <2>2
    <2> HIDE DEF e, line
    <2>5. EnoughOf(c, e, result'[c], rows'[c], inbox'[c], down')
      BY <1>3, <1>7, <2>1, <2>3, <2>4 DEF EnoughOf
    <2> QED BY <1>7, <2>1, <2>5, Zenon DEF Enough, EnoughOf
  <1>8. \/ Ended(c)
        \/ /\ Fits(c, e, line) /\ rows[c] + 1 < e.rows
           /\ Stays(c, rows[c] + 1, IF e.how = "anew" THEN <<>> ELSE Tail(inbox[c]))
           /\ Alone(c, line.by = c)
        \/ /\ ~Fits(c, e, line) /\ ~Refuses(e, line)
           /\ Stays(c, rows[c], Tail(inbox[c])) /\ Alone(c, TRUE)
    BY TakeEffect, Zenon
  <1> QED BY <1>5, <1>6, <1>7, <1>8, Zenon DEF Alone

\* Others are not touched by what c hears, nor when its time is up.
LEMMA AloneEnough ==
    ASSUME EnoughInv, NEW c \in Callers, NEW really, Alone(c, really),
           Ended(c) \/ \E n \in Nat : \E q : Stays(c, n, q), Enough(c)'
    PROVE  EnoughInv'
  <1>1. ASSUME NEW d \in Callers \ {c} PROVE Enough(d)'
    <2>1. /\ phase'[d] = phase[d] /\ plan'[d] = plan[d] /\ rows'[d] = rows[d]
          /\ inbox'[d] = inbox[d]
      BY DEF Ended, Stays
    <2>2. peer' = peer /\ down' = down /\ result' = result
      BY DEF Alone
    <2> QED BY <2>1, <2>2, EnoughKeeps DEF EnoughInv
  <1> QED BY <1>1 DEF EnoughInv

\* What is still to come is enough after every step.
LEMMA StepEnough ==
    ASSUME TypeInv, SourceInv, EnoughInv, [Next]_vars
    PROVE  EnoughInv'
  <1>1. ASSUME NEW c \in Callers, Begin(c) \/ SendNext(c) PROVE EnoughInv'
    BY <1>1, SendsReady, SendsEnough
  <1>2. ASSUME NEW c \in Callers, Take(c) PROVE EnoughInv'
    <2>1. Enough(c)'
      BY <1>2, TakeEnough
    <2>2. Ended(c) \/ \E n \in Nat : \E q : Stays(c, n, q)
      <3>1. rows[c] \in Nat /\ rows[c] + 1 \in Nat
        BY DEF TypeInv, HostType
      <3> QED BY <1>2, <3>1, TakeEffect
    <2>3. \E really : Alone(c, really)
      BY <1>2, TakeEffect
    <2> QED BY <2>1, <2>2, <2>3, AloneEnough
  <1>3. ASSUME NEW c \in Callers, Timeout(c) PROVE EnoughInv'
    <2>1. Ended(c) /\ Alone(c, FALSE)
      BY <1>3, TimeoutEffect
    <2>2. Enough(c)'
      BY <2>1 DEF Ended, Enough
    <2> QED BY <2>1, <2>2, AloneEnough
  <1>4. CASE LateAnswer
    BY <1>4, LateEnough
  <1>5. CASE Unasked
    <2>1. /\ UNCHANGED <<result, host>>
          /\ \A d \in Callers : \A S \in SUBSET Own(d) :
               Count(down', S) = Count(down, S) /\ Among(down') \cap S = Among(down) \cap S
      BY <1>5, UnaskedEffect
    <2>2. UNCHANGED <<peer, phase, plan, inbox, rows>>
      BY <2>1 DEF host
    <2> QED BY <2>1, <2>2, EnoughKeeps DEF EnoughInv
  <1>6. CASE Deliver
    BY <1>6, DeliverEnough
  <1>7. CASE UNCHANGED vars
    <2>1. UNCHANGED <<peer, phase, plan, inbox, rows, result, down>>
      BY <1>7 DEF vars
    <2> QED BY <2>1, EnoughKeeps DEF EnoughInv
  <1> QED BY <1>1, <1>2, <1>3, <1>4, <1>5, <1>6, <1>7, Zenon DEF Next

\* With nothing left to come, enough has come.
LEMMA EnoughReturns ==
    ASSUME TypeInv, EnoughInv
    PROVE  AnsweredCallsReturn
  <1> SUFFICES ASSUME NEW c \in Callers, phase[c] = "waiting", inbox[c] = <<>>,
                      \A i \in DOMAIN down : down[i].by # c
               PROVE  Unheard(peer, Exch(c), result[c])
    BY Zenon DEF AnsweredCallsReturn
  <1> DEFINE e == Exch(c)
  <1>1. /\ e.rows \in Nat /\ rows[c] \in Nat /\ rows[c] < e.rows /\ down \in Seq(Lines)
    BY WaitingForm, ExchangeForm DEF TypeInv, LinkType
  <1>2. Among(down) \cap Own(c) = {} /\ Among(inbox[c]) = {}
    BY DEF Among, Own
  <1>3. Count(inbox[c], FitIn(c, e)) = 0
    BY CountEmpty
  <1>4. Count(down, FitDown(c, e)) = 0
    <2>1. Among(down) \cap FitDown(c, e) = {}
      BY <1>2, OwnSets
    <2> QED BY <1>1, <2>1, CountZero
  <1>5. ~(rows[c] + Count(inbox[c], FitIn(c, e)) + Count(down, FitDown(c, e)) >= e.rows)
    BY <1>1, <1>3, <1>4
  <1>6. ~(Among(inbox[c]) \cap RefuseIn(e) # {} \/ Among(down) \cap RefuseDown(c, e) # {})
    BY <1>2, OwnSets
  <1> QED BY <1>5, <1>6, Zenon DEF EnoughInv, Enough, EnoughOf
-----------------------------------------------------------------------------
(* Calls that follow one another                                           *)

\* What others than d do leaves Behind(d) as it was.
LEMMA BehindKeeps ==
    ASSUME NEW d \in Callers, Behind(d),
           \A line \in Among(down') : line.by = d => line \in Among(down),
           \A x \in Callers : \A line \in Among(inbox'[x]) : line.by = d => line \in Among(inbox[x]),
           \A late \in open' : late.by = d => late \in open
    PROVE  Behind(d)'
  BY Zenon DEF Behind

\* When c does something, the others have not begun or are over.
LEMMA RestOrder ==
    ASSUME TypeInv, OrderInv, orderly, NEW c \in Callers, Others(c), NEW d \in Callers \ {c},
           phase'[d] = phase[d], settled'[d] = settled[d],
           \A line \in Among(down') : line.by = d => line \in Among(down),
           \A x \in Callers : \A line \in Among(inbox'[x]) : line.by = d => line \in Among(inbox[x]),
           \A late \in open' : late.by = d => late \in open
    PROVE  Order(d)'
  <1>1. phase[d] = "idle" \/ (phase[d] = "over" /\ settled[d])
    BY DEF Others
  <1>2. CASE phase[d] = "idle"
    BY <1>2 DEF Order
  <1>3. CASE phase[d] = "over" /\ settled[d]
    <2>1. Behind(d)
      BY <1>3 DEF OrderInv, Order
    <2>2. Behind(d)'
      BY <2>1, BehindKeeps
    <2> QED BY <1>3, <2>2 DEF Order
  <1> QED BY <1>1, <1>2, <1>3

\* A call that waits or sends is the only one.
LEMMA OnlyOne ==
    ASSUME TypeInv, OrderInv, orderly, NEW c \in Callers, phase[c] \in {"sending", "waiting"}
    PROVE  Others(c)
  BY DEF OrderInv, Order

\* While c does something, the others stay as they are.
LEMMA OthersKeep ==
    ASSUME NEW c \in Callers, Others(c),
           \A d \in Callers \ {c} : phase'[d] = phase[d] /\ settled'[d] = settled[d]
    PROVE  Others(c)'
  BY DEF Others

\* How many lines end an exchange is a number.
LEMMA EndsType ==
    ASSUME NEW c, NEW e, NEW here \in Seq(Lines), NEW coming \in Seq(Lines)
    PROVE  /\ Ends(c, e, here, coming) \in Nat
           /\ Count(here, EndIn(c, e)) \in Nat /\ Count(coming, EndDown(c, e)) \in Nat
           /\ Ends(c, e, here, coming) = Count(here, EndIn(c, e)) + Count(coming, EndDown(c, e))
  <1>1. Count(here, EndIn(c, e)) \in Nat /\ Count(coming, EndDown(c, e)) \in Nat
    BY CountType
  <1> QED BY <1>1 DEF Ends

\* The answer to e leaves nothing that counts behind the lines that end e.
LEMMA AheadNews ==
    ASSUME LinkType, NEW c \in Callers, NEW e \in Exchanges, e.cmd \in format_command,
           NEW lines \in AllAnswers(e), Answer(lines, [cmd |-> e.cmd, by |-> c]),
           NEW here \in Seq(Lines), \A line \in Among(here) : line.by # c,
           \A line \in Among(down) : line.by = c => Harmless(line),
           NEW later
    PROVE  AheadOf(c, e, 0, here, down', later)
  <1> DEFINE new == News(lines, e, c)
             Down == EndDown(c, e)
  <1>1. /\ down' \in Seq(Lines) /\ Among(down') = Among(down) \cup Among(new)
        /\ Count(down', Down) = Count(down, Down) + Count(new, Down)
    BY AnswerEffect
  <1>2. /\ DOMAIN new = DOMAIN lines
        /\ \A line \in Among(new) : line \in Lines /\ line.by = c /\ line.of = e.cmd
    BY NewsForm
  <1>3. /\ Count(new, Down) = Cardinality(Ending(e, lines))
        /\ Among(new) \cap RefuseDown(c, e) # {} <=> \E i \in DOMAIN lines : MayRefuse(e, lines[i])
        /\ \A i \in DOMAIN lines : Harmless(new[i]) <=> Harmless(lines[i])
        /\ \A i \in DOMAIN lines : new[i] \in Down <=> MayEnd(e, lines[i])
    BY NewsCounts
  <1> HIDE DEF new
  <1>4. \A line \in Among(down) : line \notin Down
    <2>1. \A line \in Down : line.by = c
      BY OwnSets DEF Own
    <2> QED BY <2>1, EndingHarms
  <1>5. Count(down, Down) = 0 /\ Count(here, EndIn(c, e)) = 0
    <2>1. Among(down) \cap Down = {} /\ Among(here) \cap EndIn(c, e) = {}
      BY <1>4, OwnSets DEF Own
    <2> QED BY <2>1, CountZero DEF LinkType
  <1>6. CASE e.cmd \in LeavesLines
    <2>1. \A line \in Among(down') : line.by = c => Spent(line)
      BY <1>1, <1>2, <1>6 DEF Spent
    <2> QED BY <1>6, <2>1 DEF AheadOf
  <1>7. CASE e.cmd \notin LeavesLines
    <2> DEFINE ends == Ending(e, lines)
    <2>1. \/ ends = {}
          \/ /\ \A i \in DOMAIN lines \ ends : Harmless(lines[i])
             /\ Cardinality(ends) <= e.rows
             /\ (\E i \in ends : MayRefuse(e, lines[i])) => Cardinality(ends) <= 1
      BY <1>7, LeftoversAssumption
    <2>2. Cardinality(ends) \in Nat
      <3>1. new \in Seq(Lines)
        BY NewsForm DEF new
      <3> QED BY <1>3, <3>1, CountType
    <2>3. Ends(c, e, here, down') = Cardinality(ends)
      BY <1>1, <1>3, <1>5, <2>2 DEF Ends
    <2>4. CASE ends = {}
      <3>1. Ends(c, e, here, down') = 0
        BY <2>3, <2>4, FS_EmptySet
      <3> QED BY <1>7, <3>1 DEF AheadOf
    <2>5. CASE /\ \A i \in DOMAIN lines \ ends : Harmless(lines[i])
               /\ Cardinality(ends) <= e.rows
               /\ (\E i \in ends : MayRefuse(e, lines[i])) => Cardinality(ends) <= 1
      <3>1. \A line \in Among(down') : line.by = c => line \in Down \/ Harmless(line)
        <4>1. \A line \in Among(new) : line \in Down \/ Harmless(line)
          <5>1. \A i \in DOMAIN lines : new[i] \in Down \/ Harmless(new[i])
            <6> TAKE i \in DOMAIN lines
            <6>1. CASE i \in ends
              <7>1. MayEnd(e, lines[i])
                BY <6>1 DEF Ending
              <7> QED BY <1>3, <7>1
            <6>2. CASE i \notin ends
              BY <1>3, <2>5, <6>2
            <6> QED BY <6>1, <6>2
          <5> QED BY <1>2, <5>1 DEF Among
        <4> QED BY <1>1, <4>1
      <3>2. Refused(c, e, here, down') => Cardinality(ends) <= 1
        <4> HAVE Refused(c, e, here, down')
        <4>1. Among(here) \cap Own(c) = {}
          BY DEF Own
        <4>2. Among(down) \cap RefuseDown(c, e) = {}
          BY <1>4 DEF EndDown
        <4>3. Among(new) \cap RefuseDown(c, e) # {}
          BY <1>1, <4>1, <4>2 DEF Refused
        <4>4. PICK i \in DOMAIN lines : MayRefuse(e, lines[i])
          BY <1>3, <4>3
        <4>5. i \in ends
          BY <4>4 DEF Ending, MayEnd
        <4> QED BY <2>5, <4>4, <4>5
      <3>3. 0 + Ends(c, e, here, down') = Cardinality(ends)
        BY <2>2, <2>3
      <3> HIDE DEF ends
      <3>4. LastOnesEnd(c, e, 0, here, down')
        BY <2>5, <3>1, <3>2, <3>3, Zenon DEF LastOnesEnd
      <3> QED BY <1>7, <3>4 DEF AheadOf
    <2> QED BY <2>1, <2>4, <2>5
  <1> QED BY <1>6, <1>7

\* A call that sends leaves the others as they were, and waits for its own lines.
LEMMA SendsOrder ==
    ASSUME TypeInv, OrderInv, orderly, NEW c \in Callers, NEW p \in Seq(Exchanges),
           NEW q \in Plans, Ready(c, p, q), Sends(c, p), Others(c)
    PROVE  \A d \in Callers : Order(d)'
  <1> DEFINE e == Head(p)
  <1>1. p # <<>> /\ phase[c] \in {"idle", "sending"}
    BY DEF Ready
  <1>2. /\ e \in Exchanges /\ e.cmd \in format_command
        /\ IF Waits(e) THEN phase'[c] = "waiting" /\ plan'[c] = p
           ELSE phase'[c] \in {"sending", "over"}
        /\ \A d \in Callers \ {c} : /\ phase'[d] = phase[d] /\ plan'[d] = plan[d]
                                    /\ inbox'[d] = inbox[d] /\ rows'[d] = rows[d]
        /\ inbox'[c] = <<>> /\ rows'[c] = 0 /\ HostType'
        /\ settled'[c] => settled[c] /\ Waits(e)
        /\ \A d \in Callers \ {c} : settled'[d] = settled[d]
    BY <1>1, SendsEffect
  <1>3. PICK lines \in AllAnswers(e) :
          /\ Answer(lines, [cmd |-> e.cmd, by |-> c])
          /\ open' = IF lines = <<>> /\ peer = "daemon" /\ e.cmd \in AnsweredLate
                     THEN open \cup {[cmd |-> e.cmd, by |-> c]} ELSE open
    BY <1>1, SendsEffect
  <1>4. LinkType
    BY DEF TypeInv
  <1> HIDE DEF e
  <1>5. \A line \in Among(down') : line.by # c => line \in Among(down)
    BY <1>2, <1>3, <1>4, AnswerEffect
  <1>6. \A x \in Callers : \A line \in Among(inbox'[x]) : x # c /\ line \in Among(inbox[x])
    <2>1. Among(<<>>) = {}
      BY DEF Among
    <2> QED BY <1>2, <2>1
  <1>7. ASSUME NEW d \in Callers \ {c} PROVE Order(d)'
    <2>1. \A late \in open' : late.by = d => late \in open
      BY <1>3
    <2> QED BY <1>2, <1>5, <1>6, <2>1, RestOrder
  <1>8. Others(c)'
    BY <1>2, OthersKeep
  <1>9. ASSUME settled'[c] PROVE phase'[c] = "waiting" /\ \A line \in Among(down) : line.by = c => Harmless(line)
    <2>1. settled[c] /\ Waits(e)
      BY <1>2, <1>9
    <2>2. CASE phase[c] = "idle"
      BY <1>2, <2>1, <2>2 DEF Ready
    <2>3. CASE phase[c] = "sending"
      BY <1>2, <2>1, <2>3 DEF OrderInv, Order
    <2> QED BY <1>1, <2>2, <2>3
  <1>10. ASSUME settled'[c] PROVE AheadOf(c, Exch(c), rows[c], inbox[c], down, open)'
    <2>1. Exch(c)' = e
      BY <1>2, <1>9, <1>10 DEF Exch, e
    <2>2. inbox'[c] \in Seq(Lines) /\ \A line \in Among(inbox'[c]) : line.by # c
      BY <1>2, <1>6 DEF HostType
    <2>3. AheadOf(c, e, 0, inbox'[c], down', open')
      BY <1>2, <1>3, <1>4, <1>9, <1>10, <2>2, AheadNews
    <2>4. AheadOf(c, e, rows'[c], inbox'[c], down', open')
      BY <1>2, <2>3
    <2> QED BY <2>1, <2>4, Zenon DEF AheadOf, LastOnesEnd, Ends, Refused
  <1>11. Order(c)'
    BY <1>2, <1>8, <1>9, <1>10 DEF Order
  <1> QED BY <1>7, <1>11
\* Nothing of an exchange depends on the lines of others.
LEMMA AheadKeeps ==
    ASSUME NEW c, NEW e, NEW n, NEW here, NEW coming, NEW later, NEW soon, NEW sooner,
           AheadOf(c, e, n, here, coming, later),
           \A S \in SUBSET Own(c) : Count(soon, S) = Count(coming, S)
                                    /\ Among(soon) \cap S = Among(coming) \cap S,
           \A line \in Among(soon) : line.by = c => line \in Among(coming),
           \A late \in sooner : late.by = c => late \in later
    PROVE  AheadOf(c, e, n, here, soon, sooner)
  <1>1. EndDown(c, e) \in SUBSET Own(c) /\ RefuseDown(c, e) \in SUBSET Own(c)
    BY OwnSets
  <1>2. Ends(c, e, here, soon) = Ends(c, e, here, coming)
    BY <1>1 DEF Ends
  <1>3. Refused(c, e, here, soon) <=> Refused(c, e, here, coming)
    <2>1. Among(soon) \cap RefuseDown(c, e) = Among(coming) \cap RefuseDown(c, e)
      BY <1>1
    <2> QED BY <2>1 DEF Refused
  <1>4. LastOnesEnd(c, e, n, here, coming) => LastOnesEnd(c, e, n, here, soon)
    BY <1>2, <1>3 DEF LastOnesEnd
  <1>5. (\E late \in sooner : late.by = c) => \E late \in later : late.by = c
    BY Zenon
  <1> QED BY <1>2, <1>4, <1>5, Zenon DEF AheadOf

\* A late answer is the first its caller hears.
LEMMA LateOrder ==
    ASSUME TypeInv, SourceInv, OrderInv, orderly, LateAnswer
    PROVE  \A d \in Callers : Order(d)'
  <1>1. PICK late \in open :
          open' = open \ {late} /\ \E lines \in LateAnswersOf(late.cmd) : Answer(lines, late)
    BY DEF LateAnswer
  <1>2. PICK lines \in LateAnswersOf(late.cmd) : Answer(lines, late)
    BY <1>1
  <1> DEFINE c == late.by
  <1>3. UNCHANGED <<peer, phase, plan, inbox, rows, settled>>
    BY DEF LateAnswer, host
  <1>4. c \in Callers /\ late.cmd \in AnsweredLate /\ late.cmd \in format_command
    BY LateForm
  <1>5. PICK q \in Plans :
          /\ CallOf(c, q) /\ Len(q) = 1 /\ Head(q).then = "on"
          /\ Head(q) \in Exchanges /\ Head(q).cmd = late.cmd
          /\ late = [cmd |-> Head(q).cmd, by |-> c]
          /\ LateAnswersOf(late.cmd) \subseteq AllAnswers(Head(q))
    BY LateForm
  <1> DEFINE e == Head(q)
  <1>6. /\ lines \in AllAnswers(e) /\ Answer(lines, [cmd |-> e.cmd, by |-> c])
        /\ e.cmd \in format_command /\ e \in Exchanges
    BY <1>2, <1>4, <1>5
  <1>7. LinkType
    BY DEF TypeInv
  <1>8. /\ phase[c] \in {"waiting", "over"}
        /\ \A line \in Among(down) : line.by # c
        /\ \A line \in Among(inbox[c]) : line.by # c
    BY <1>5, Zenon DEF CallOf
  <1>9. \E l \in open : l.by = c
    BY <1>1
  <1> HIDE DEF c, e
  <1>10. /\ \A line \in Among(down') : line.by # c => line \in Among(down)
         /\ \A d \in Callers \ {c} : \A S \in SUBSET Own(d) :
              Count(down', S) = Count(down, S) /\ Among(down') \cap S = Among(down) \cap S
    <2>1. c \in Callers
      BY <1>4 DEF c
    <2> QED BY <1>6, <1>7, <2>1, AnswerEffect
  <1>11. ASSUME NEW d \in Callers PROVE Others(d) => Others(d)'
    BY <1>3 DEF Others
  <1>12. ASSUME NEW d \in Callers \ {c} PROVE Order(d)'
    <2>1. Order(d)
      BY DEF OrderInv
    <2>2. /\ \A line \in Among(down') : line.by = d => line \in Among(down)
          /\ \A x \in Callers : \A line \in Among(inbox'[x]) :
               line.by = d => line \in Among(inbox[x])
          /\ \A l \in open' : l.by = d => l \in open
      BY <1>1, <1>3, <1>10
    <2>3. Behind(d) => Behind(d)'
      BY <2>2, BehindKeeps
    <2>4. Exch(d)' = Exch(d)
      BY <1>3 DEF Exch
    <2>5. AheadOf(d, Exch(d), rows[d], inbox[d], down, open)
          => AheadOf(d, Exch(d), rows[d], inbox[d], down', open')
      BY <1>10, <2>2, AheadKeeps
    <2>6. AheadOf(d, Exch(d), rows[d], inbox[d], down, open)
          => AheadOf(d, Exch(d), rows[d], inbox[d], down, open)'
      BY <1>3, <2>4, <2>5, Zenon DEF AheadOf, LastOnesEnd, Ends, Refused
    <2>7. phase'[d] = phase[d] /\ settled'[d] = settled[d]
      BY <1>3
    <2>8. (\A line \in Among(down) : line.by = d => Harmless(line))
          => \A line \in Among(down') : line.by = d => Harmless(line)
      BY <2>2
    <2> QED BY <1>11, <2>1, <2>3, <2>6, <2>7, <2>8, Zenon DEF Order
  <1>13. Order(c)'
    <2>0. c \in Callers
      BY <1>4 DEF c
    <2>1. Order(c)
      BY <2>0 DEF OrderInv
    <2>2. ~(phase[c] = "over" /\ settled[c])
      BY <1>9, <2>1 DEF Order, Behind
    <2>3. ASSUME phase[c] = "waiting", settled[c]
          PROVE  AheadOf(c, Exch(c), rows[c], inbox[c], down, open)'
      <3>1. Exch(c) = e /\ inbox[c] \in Seq(Lines)
        <4>1. /\ plan[c] \in Seq(Exchanges) /\ plan[c] # <<>> /\ Exch(c) = Head(plan[c])
              /\ inbox[c] \in Seq(Lines)
          BY <2>0, <2>3, WaitingForm
        <4>2. Len(plan[c]) <= Len(q) /\ Among(plan[c]) \subseteq Among(q)
          BY <1>5 DEF CallOf, c
        <4> QED BY <1>5, <4>1, <4>2, LoneHead DEF e
      <3>2. e.cmd \notin LeavesLines
        <4>1. e.cmd \in AnsweredLate
          BY <1>4, <1>5 DEF e
        <4> QED BY <4>1 DEF AnsweredLate, LeavesLines
      <3>3. rows[c] = 0
        <4>1. AheadOf(c, e, rows[c], inbox[c], down, open)
          BY <2>1, <2>3, <3>1 DEF Order
        <4> QED BY <1>9, <3>2, <4>1 DEF AheadOf
      <3>4. AheadOf(c, e, 0, inbox[c], down', open')
        BY <1>6, <1>7, <1>8, <2>0, <3>1, AheadNews
      <3>5. AheadOf(c, e, rows[c], inbox[c], down', open')
        BY <3>3, <3>4
      <3>6. Exch(c)' = e
        BY <1>3, <3>1 DEF Exch
      <3> QED BY <1>3, <3>5, <3>6, Zenon DEF AheadOf, LastOnesEnd, Ends, Refused
    <2>4. phase'[c] = phase[c] /\ settled'[c] = settled[c]
      BY <1>3
    <2> QED BY <1>8, <1>11, <2>0, <2>1, <2>2, <2>3, <2>4 DEF Order
  <1> QED BY <1>12, <1>13

\* A line that comes unasked ends nobody's order.
LEMMA UnaskedOrder ==
    ASSUME TypeInv, OrderInv, orderly, Unasked
    PROVE  \A d \in Callers : Order(d)'
  <1>1. PICK line \in Lines :
          /\ line.by = "nobody"
          /\ Among(down') = Among(down) \cup {line}
          /\ \A c \in Callers : \A S \in SUBSET Own(c) :
               Count(down', S) = Count(down, S) /\ Among(down') \cap S = Among(down) \cap S
    BY UnaskedEffect
  <1>2. UNCHANGED <<open, phase, plan, inbox, rows, settled>>
    BY UnaskedEffect DEF host
  <1> TAKE d \in Callers
  <1>3. Order(d)
    BY DEF OrderInv
  <1>4. \A l \in Among(down') : l.by = d => l \in Among(down)
    BY <1>1, CallersAssumption
  <1>5. Behind(d) => Behind(d)'
    BY <1>2, <1>4, BehindKeeps
  <1>6. Others(d) => Others(d)'
    BY <1>2 DEF Others
  <1>7. AheadOf(d, Exch(d), rows[d], inbox[d], down, open)
        => AheadOf(d, Exch(d), rows[d], inbox[d], down, open)'
    <2>1. AheadOf(d, Exch(d), rows[d], inbox[d], down, open)
          => AheadOf(d, Exch(d), rows[d], inbox[d], down', open')
      BY <1>1, <1>2, <1>4, AheadKeeps
    <2>2. Exch(d)' = Exch(d)
      BY <1>2 DEF Exch
    <2> QED BY <1>2, <2>1, <2>2, Zenon DEF AheadOf, LastOnesEnd, Ends, Refused
  <1>8. (\A l \in Among(down) : l.by = d => Harmless(l))
        => \A l \in Among(down') : l.by = d => Harmless(l)
    BY <1>4
  <1>9. phase'[d] = phase[d] /\ settled'[d] = settled[d]
    BY <1>2
  <1> QED BY <1>3, <1>5, <1>6, <1>7, <1>8, <1>9, Zenon DEF Order

\* A line that d hears moves from what is to come to what is there.
LEMMA DeliverAhead ==
    ASSUME TypeInv, SourceInv, Deliver, NEW d \in Callers, phase[d] = "waiting"
    PROVE  /\ Ends(d, Exch(d), inbox'[d], down') = Ends(d, Exch(d), inbox[d], down)
           /\ Refused(d, Exch(d), inbox'[d], down') => Refused(d, Exch(d), inbox[d], down)
  <1> DEFINE line == Head(down)
             e == Exch(d)
             In == EndIn(d, e)
             Down == EndDown(d, e)
  <1>1. /\ line \in Lines /\ line \in Among(down) /\ Among(down) = Among(down') \cup {line}
        /\ Count(down, Down) = Count(down', Down) + IF line \in Down THEN 1 ELSE 0
        /\ Reaches(d, line)
        /\ TypeInv'
    BY DeliverEffect
  <1>2. /\ e \in Exchanges /\ inbox[d] \in Seq(Lines) /\ down' \in Seq(Lines)
    BY <1>1, WaitingForm DEF TypeInv, LinkType
  <1>3. Count(down', Down) \in Nat /\ Count(inbox[d], In) \in Nat
    BY <1>2, CountType
  <1>4. line \in Own(d) => line.word \in DOMAIN parse_message
    <2>1. PICK p \in Plans : CallOf(d, p)
      BY Called
    <2> QED BY <1>1, <2>1, MeantForm DEF CallOf, Own
  <1>5. CASE /\ inbox'[d] = inbox[d]
             /\ line.word \in DOMAIN parse_message =>
                  line \notin FitDown(d, e) /\ line \notin RefuseDown(d, e)
    <2>1. line \notin Down
      BY <1>4, <1>5, OwnSets DEF EndDown
    <2>2. Count(down, Down) = Count(down', Down)
      BY <1>1, <1>3, <2>1
    <2> HIDE DEF line, e
    <2>3. Refused(d, e, inbox'[d], down') => Refused(d, e, inbox[d], down)
      BY <1>1, <1>5 DEF Refused
    <2>4. Ends(d, e, inbox'[d], down') = Ends(d, e, inbox[d], down)
      BY <1>5, <2>2 DEF Ends
    <2> QED BY <2>3, <2>4 DEF e
  <1>6. ASSUME NEW as \in Lines, inbox'[d] = Append(inbox[d], as), as.by = line.by,
               line.by = d => (as \in FitIn(d, e) <=> line \in FitDown(d, e)),
               line.by = d => (as \in RefuseIn(e) <=> line \in RefuseDown(d, e))
        PROVE  /\ Ends(d, e, inbox'[d], down') = Ends(d, e, inbox[d], down)
               /\ Refused(d, e, inbox'[d], down') => Refused(d, e, inbox[d], down)
    <2>1. as \in In <=> line \in Down
      BY <1>1, <1>6, OwnSets DEF EndIn, EndDown, Own
    <2>2. \A y : y \in Among(inbox'[d]) <=> y \in Among(inbox[d]) \/ y = as
      <3> HIDE DEF line, e, In, Down
      <3>1. inbox[d] \in Seq(Lines) /\ as \in Lines
        BY <1>2
      <3>2. inbox'[d] = Append(inbox[d], as)
        BY <1>6
      <3> QED BY <3>1, <3>2, AmongAppend
    <2>3. as \in Own(d) /\ as \in RefuseIn(e) => line \in RefuseDown(d, e)
      BY <1>6 DEF Own
    <2>4. Count(inbox'[d], In) = Count(inbox[d], In) + IF as \in In THEN 1 ELSE 0
      <3> HIDE DEF In
      <3>1. Count(Append(inbox[d], as), In) = Count(inbox[d], In) + IF as \in In THEN 1 ELSE 0
        BY <1>2, CountAppend
      <3> QED BY <1>6, <3>1
    <2> HIDE DEF line, e
    <2>5. Refused(d, e, inbox'[d], down') => Refused(d, e, inbox[d], down)
      BY <1>1, <2>2, <2>3 DEF Refused
    <2>6. Count(inbox'[d], In) + Count(down', Down) = Count(inbox[d], In) + Count(down, Down)
      <3> HIDE DEF In, Down
      <3>1. CASE line \in Down
        <4>1. Count(inbox'[d], In) = Count(inbox[d], In) + 1
          BY <2>1, <2>4, <3>1
        <4>2. Count(down, Down) = Count(down', Down) + 1
          BY <1>1, <3>1
        <4> QED BY <1>3, <4>1, <4>2
      <3>2. CASE line \notin Down
        <4>0. as \notin In
          BY <2>1, <3>2
        <4>1. Count(inbox'[d], In) = Count(inbox[d], In)
          <5>1. Count(inbox'[d], In) = Count(inbox[d], In) + 0
            BY <2>4, <4>0
          <5> QED BY <1>3, <5>1
        <4>2. Count(down, Down) = Count(down', Down)
          BY <1>1, <1>3, <3>2
        <4> QED BY <1>3, <4>1, <4>2
      <3> QED BY <3>1, <3>2
    <2> QED BY <2>5, <2>6 DEF Ends
  <1>7. CASE \E as \in Lines :
                /\ inbox'[d] = Append(inbox[d], as) /\ as.by = line.by
                /\ line.by = d => (as \in FitIn(d, Exch(d)) <=> line \in FitDown(d, Exch(d)))
                /\ line.by = d => (as \in RefuseIn(Exch(d)) <=> line \in RefuseDown(d, Exch(d)))
    BY <1>6, <1>7
  <1> QED BY <1>1, <1>5, <1>7, Zenon DEF Reaches

\* A line that is delivered ends as much as it did under way.
LEMMA DeliverOrder ==
    ASSUME TypeInv, SourceInv, OrderInv, orderly, Deliver
    PROVE  \A d \in Callers : Order(d)'
  <1> DEFINE line == Head(down)
  <1>1. /\ line \in Lines /\ line \in Among(down) /\ Among(down') \subseteq Among(down)
        /\ \A d \in Callers : Reaches(d, line)
        /\ UNCHANGED <<phase, plan, rows, open, settled>>
    BY DeliverEffect
  <1> HIDE DEF line
  <1> TAKE d \in Callers
  <1>2. Order(d)
    BY DEF OrderInv
  <1>3. Others(d) => Others(d)'
    BY <1>1 DEF Others
  <1>4. ASSUME Behind(d) PROVE Behind(d)'
    <2>1. \A x \in Callers : \A l \in Among(inbox'[x]) : l.by = d => SpentAs(l)
      <3> TAKE x \in Callers
      <3>1. \A l \in Among(inbox[x]) : l.by = d => SpentAs(l)
        BY <1>4 DEF Behind
      <3>2. CASE inbox'[x] = inbox[x]
        BY <3>1, <3>2
      <3>3. CASE \E as \in Lines :
                   /\ inbox'[x] = Append(inbox[x], as)
                   /\ as.by = line.by /\ as.of = line.of
                   /\ Harmless(line) => HarmlessAs(as.word, as.ctx)
        <4>1. PICK as \in Lines :
                   /\ inbox'[x] = Append(inbox[x], as)
                   /\ as.by = line.by /\ as.of = line.of
                   /\ Harmless(line) => HarmlessAs(as.word, as.ctx)
          BY <3>3
        <4>2. inbox[x] \in Seq(Lines)
          BY DEF TypeInv, HostType
        <4>3. \A y : y \in Among(inbox'[x]) <=> y \in Among(inbox[x]) \/ y = as
          <5>1. as \in Lines /\ inbox'[x] = Append(inbox[x], as)
            BY <4>1
          <5> QED BY <4>2, <5>1, AmongAppend
        <4>4. as.by = d => SpentAs(as)
          <5>1. line.by = d => Spent(line)
            BY <1>1, <1>4 DEF Behind
          <5> QED BY <4>1, <5>1 DEF Spent, SpentAs
        <4> QED BY <3>1, <4>3, <4>4
      <3> QED BY <1>1, <3>2, <3>3, Zenon DEF Reaches
    <2>2. \A l \in Among(down') : l.by = d => Spent(l)
      BY <1>1, <1>4 DEF Behind
    <2>3. \A late \in open' : late.by # d
      BY <1>1, <1>4 DEF Behind
    <2> QED BY <2>1, <2>2, <2>3 DEF Behind
  <1>5. ASSUME phase[d] = "waiting", AheadOf(d, Exch(d), rows[d], inbox[d], down, open)
        PROVE  AheadOf(d, Exch(d), rows[d], inbox[d], down, open)'
    <2> DEFINE e == Exch(d)
    <2>1. /\ Ends(d, e, inbox'[d], down') = Ends(d, e, inbox[d], down)
          /\ Refused(d, e, inbox'[d], down') => Refused(d, e, inbox[d], down)
      BY <1>5, DeliverAhead
    <2>2. AheadOf(d, e, rows[d], inbox[d], down, open)
      BY <1>5
    <2>3. Exch(d)' = e
      BY <1>1 DEF Exch
    <2> HIDE DEF e
    <2>4. \A l \in Among(down') : l \in Among(down)
      BY <1>1
    <2>5. LastOnesEnd(d, e, rows[d], inbox[d], down) => LastOnesEnd(d, e, rows[d], inbox'[d], down')
      BY <2>1, <2>4 DEF LastOnesEnd
    <2>6. AheadOf(d, e, rows[d], inbox'[d], down', open)
      BY <2>1, <2>2, <2>4, <2>5, Zenon DEF AheadOf
    <2> QED BY <1>1, <2>3, <2>6, Zenon DEF AheadOf, LastOnesEnd, Ends, Refused
  <1>6. (\A l \in Among(down) : l.by = d => Harmless(l))
        => \A l \in Among(down') : l.by = d => Harmless(l)
    BY <1>1
  <1>7. phase'[d] = phase[d] /\ settled'[d] = settled[d]
    BY <1>1
  <1> QED BY <1>2, <1>3, <1>4, <1>5, <1>6, <1>7, Zenon DEF Order

\* A call that was ended by a line of its own has left nothing that counts.
LEMMA EndedOrder ==
    ASSUME TypeInv, SourceInv, OrderInv, orderly, NEW c \in Callers, phase[c] = "waiting",
           Ended(c), NEW really \in BOOLEAN, Alone(c, really),
           really /\ settled[c] =>
             /\ \E line \in Among(inbox[c]) : line.by = c
             /\ \A line \in Among(down) : line.by = c =>
                  IF Exch(c).cmd \in LeavesLines THEN Spent(line) ELSE Harmless(line)
    PROVE  \A d \in Callers : Order(d)'
  <1>1. /\ phase'[c] \in {"sending", "over"}
        /\ \A d \in Callers \ {c} : phase'[d] = phase[d] /\ inbox'[d] = inbox[d]
        /\ inbox'[c] = <<>>
        /\ Len(plan[c]) = 1 /\ Head(plan[c]).then = "on" => phase'[c] = "over"
    BY DEF Ended
  <1>2. /\ down' = down /\ open' = open
        /\ \A d \in Callers \ {c} : settled'[d] = settled[d]
        /\ settled'[c] => settled[c] /\ really
    BY DEF Alone
  <1>3. Others(c)
    BY OnlyOne
  <1>4. Others(c)'
    BY <1>1, <1>2, <1>3, OthersKeep
  <1>5. Among(<<>>) = {}
    BY DEF Among
  <1>6. ASSUME NEW d \in Callers \ {c} PROVE Order(d)'
    <2>1. \A x \in Callers : \A line \in Among(inbox'[x]) : line.by = d => line \in Among(inbox[x])
      BY <1>1, <1>5
    <2> QED BY <1>1, <1>2, <1>3, <2>1, RestOrder
  <1>7. ASSUME settled'[c]
        PROVE  /\ phase'[c] = "sending" => \A line \in Among(down) : line.by = c => Harmless(line)
               /\ phase'[c] = "over" => Behind(c)'
    <2>1. /\ \E line \in Among(inbox[c]) : line.by = c
          /\ \A line \in Among(down) : line.by = c =>
               IF Exch(c).cmd \in LeavesLines THEN Spent(line) ELSE Harmless(line)
      BY <1>2, <1>7
    <2>2. PICK q \in Plans : CallOf(c, q)
      BY Called
    <2>3. Exch(c).cmd \in LeavesLines => phase'[c] = "over"
      <3> HAVE Exch(c).cmd \in LeavesLines
      <3>1. /\ plan[c] \in Seq(Exchanges) /\ plan[c] # <<>> /\ Exch(c) = Head(plan[c])
        BY WaitingForm
      <3>2. Len(plan[c]) <= Len(q) /\ Among(plan[c]) \subseteq Among(q)
        BY <2>2 DEF CallOf
      <3>3. Exch(c) \in Among(plan[c])
        <4>1. Exch(c) = plan[c][1] /\ 1 \in DOMAIN plan[c]
          BY <3>1
        <4> QED BY <4>1, Zenon DEF Among
      <3>4. PICK i \in DOMAIN q : q[i] = Exch(c)
        BY <3>2, <3>3, Zenon DEF Among
      <3>5. q[i].cmd \in LeavesLines \cup AnsweredLate
        BY <3>4
      <3>6. Len(plan[c]) = 1 /\ Head(plan[c]).then = "on"
        BY <3>1, <3>2, <3>5, LoneExchange
      <3> QED BY <1>1, <3>6
    <2>4. phase'[c] = "sending" => \A line \in Among(down) : line.by = c => Harmless(line)
      BY <2>1, <2>3
    <2>5. \A line \in Among(down') : line.by = c => Spent(line)
      BY <1>2, <2>1 DEF Spent
    <2>6. \A d \in Callers : \A line \in Among(inbox'[d]) : line.by = c => SpentAs(line)
      <3> TAKE d \in Callers
      <3>1. inbox'[d] = <<>>
        <4>1. CASE d = c
          BY <1>1, <4>1
        <4>2. CASE d # c
          <5>1. phase[d] # "waiting"
            BY <1>3, <4>2 DEF Others
          <5>2. inbox[d] = <<>>
            BY <5>1 DEF TypeInv, HostType
          <5> QED BY <1>1, <4>2, <5>2
        <4> QED BY <4>1, <4>2
      <3> QED BY <1>5, <3>1
    <2>7. \A late \in open' : late.by # c
      BY <1>2, <2>1, <2>2 DEF CallOf
    <2> QED BY <2>4, <2>5, <2>6, <2>7 DEF Behind
  <1>8. Order(c)'
    <2>1. (\A line \in Among(down) : line.by = c => Harmless(line))
          => \A line \in Among(down') : line.by = c => Harmless(line)
      BY <1>2
    <2> QED BY <1>1, <1>4, <1>7, <2>1 DEF Order
  <1> QED BY <1>6, <1>8

\* A call whose time is up is not settled.
LEMMA TimeoutOrder ==
    ASSUME TypeInv, SourceInv, OrderInv, orderly, NEW c \in Callers, Timeout(c)
    PROVE  \A d \in Callers : Order(d)'
  <1>1. phase[c] = "waiting" /\ Ended(c) /\ Alone(c, FALSE)
    BY TimeoutEffect
  <1> QED BY <1>1, EndedOrder

\* A line of c's own that answers its exchange or ends it, and what that says of
\* the lines that are still to come.
LEMMA OwnEnds ==
    ASSUME TypeInv, OrderInv, orderly, NEW c \in Callers, phase[c] = "waiting", settled[c],
           inbox[c] # <<>>, Head(inbox[c]).by = c, Head(inbox[c]) \in EndIn(c, Exch(c))
    PROVE  \/ /\ Exch(c).cmd \in LeavesLines
              /\ \A line \in Among(down) : line.by = c => Spent(line)
           \/ /\ Exch(c).cmd \notin LeavesLines
              /\ LastOnesEnd(c, Exch(c), rows[c], inbox[c], down)
              /\ Count(inbox[c], EndIn(c, Exch(c)))
                   = Count(Tail(inbox[c]), EndIn(c, Exch(c))) + 1
              /\ Count(Tail(inbox[c]), EndIn(c, Exch(c))) \in Nat
              /\ Count(down, EndDown(c, Exch(c))) \in Nat
  <1> DEFINE e == Exch(c)
             In == EndIn(c, e)
             Down == EndDown(c, e)
  <1>1. AheadOf(c, e, rows[c], inbox[c], down, open)
    BY DEF OrderInv, Order
  <1>2. inbox[c] \in Seq(Lines) /\ down \in Seq(Lines) /\ Tail(inbox[c]) \in Seq(Lines)
    <2>1. inbox[c] \in Seq(Lines) /\ down \in Seq(Lines)
      BY DEF TypeInv, HostType, LinkType
    <2> QED BY <2>1
  <1>3. /\ Count(inbox[c], In) = Count(Tail(inbox[c]), In) + 1
        /\ Count(Tail(inbox[c]), In) \in Nat /\ Count(down, Down) \in Nat
    <2>1. Head(inbox[c]) \in In
      OBVIOUS
    <2> HIDE DEF In, Down
    <2>2. Count(inbox[c], In) = Count(Tail(inbox[c]), In) + IF Head(inbox[c]) \in In THEN 1 ELSE 0
      BY <1>2, CountTail
    <2>3. Count(Tail(inbox[c]), In) \in Nat /\ Count(down, Down) \in Nat
      BY <1>2, CountType
    <2> QED BY <2>1, <2>2, <2>3
  <1> HIDE DEF e
  <1>4. Ends(c, e, inbox[c], down) # 0
    <2>1. Ends(c, e, inbox[c], down) = Count(inbox[c], In) + Count(down, Down)
      BY DEF Ends
    <2> HIDE DEF In, Down
    <2> QED BY <1>3, <2>1
  <1> QED BY <1>1, <1>3, <1>4, Zenon DEF AheadOf, e

\* While c waits on, its queue and its answers are all that changes.
LEMMA StaysOrder ==
    ASSUME TypeInv, OrderInv, orderly, NEW c \in Callers, phase[c] = "waiting",
           NEW n, NEW q, Stays(c, n, q), Among(q) \subseteq Among(inbox[c]),
           NEW really \in BOOLEAN, Alone(c, really),
           really /\ settled[c] => AheadOf(c, Exch(c), n, q, down, open)
    PROVE  \A d \in Callers : Order(d)'
  <1>1. /\ phase' = phase /\ plan' = plan /\ inbox'[c] = q /\ rows'[c] = n
        /\ \A d \in Callers \ {c} : inbox'[d] = inbox[d]
    BY DEF Stays
  <1>2. /\ down' = down /\ open' = open
        /\ \A d \in Callers \ {c} : settled'[d] = settled[d]
        /\ settled'[c] => settled[c] /\ really
    BY DEF Alone
  <1>3. Others(c)
    BY OnlyOne
  <1>4. Others(c)'
    BY <1>1, <1>2, <1>3, OthersKeep
  <1>5. ASSUME NEW d \in Callers \ {c} PROVE Order(d)'
    <2>1. \A x \in Callers : \A line \in Among(inbox'[x]) : line.by = d => line \in Among(inbox[x])
      BY <1>1
    <2> QED BY <1>1, <1>2, <1>3, <2>1, RestOrder
  <1>6. settled'[c] => AheadOf(c, Exch(c), rows[c], inbox[c], down, open)'
    <2>1. Exch(c)' = Exch(c)
      BY <1>1 DEF Exch
    <2>2. settled'[c] => AheadOf(c, Exch(c), rows'[c], inbox'[c], down', open')
      BY <1>1, <1>2
    <2> QED BY <2>1, <2>2, Zenon DEF AheadOf, LastOnesEnd, Ends, Refused
  <1>7. Order(c)'
    BY <1>1, <1>4, <1>6 DEF Order
  <1> QED BY <1>5, <1>7

\* A line that is taken ends one exchange and no more.
LEMMA TakeOrder ==
    ASSUME TypeInv, SourceInv, OrderInv, orderly, NEW c \in Callers, Take(c)
    PROVE  \A d \in Callers : Order(d)'
  <1> DEFINE e == Exch(c)
             line == Head(inbox[c])
             rest == Tail(inbox[c])
             In == EndIn(c, e)
             Down == EndDown(c, e)
  <1>1. phase[c] = "waiting" /\ inbox[c] # <<>> /\ line \in Lines /\ line \in Among(inbox[c])
    BY TakeEffect
  <1>2. /\ e \in Exchanges /\ rows[c] \in Nat /\ e.rows \in Nat /\ inbox[c] \in Seq(Lines)
        /\ down \in Seq(Lines) /\ rest \in Seq(Lines)
    <2>1. /\ e \in Exchanges /\ rows[c] \in Nat /\ inbox[c] \in Seq(Lines) /\ down \in Seq(Lines)
      BY <1>1, WaitingForm DEF TypeInv, LinkType
    <2>2. e.rows \in Nat
      BY <2>1, ExchangeForm
    <2> QED BY <1>1, <2>1, <2>2
  <1>3. Among(inbox[c]) = Among(rest) \cup {line}
    BY <1>1, <1>2, AmongQueue
  <1>4. ASSUME Fits(c, e, line) \/ Refuses(e, line), line.by = c PROVE line \in In
    BY <1>1, <1>4 DEF EndIn, Own, FitIn, RefuseIn
  <1>5. ASSUME settled[c], line.by = c, line \in In
        PROVE  \/ /\ e.cmd \in LeavesLines
                  /\ \A l \in Among(down) : l.by = c => Spent(l)
               \/ /\ e.cmd \notin LeavesLines
                  /\ LastOnesEnd(c, e, rows[c], inbox[c], down)
                  /\ Count(inbox[c], In) = Count(rest, In) + 1
                  /\ Count(rest, In) \in Nat /\ Count(down, Down) \in Nat
    BY <1>1, <1>5, OwnEnds
  <1>6. CASE /\ (Fits(c, e, line) /\ rows[c] + 1 = e.rows) \/ Refuses(e, line)
             /\ Ended(c) /\ Alone(c, line.by = c)
    <2>1. ASSUME line.by = c, settled[c], NEW l \in Among(down), l.by = c
          PROVE  IF e.cmd \in LeavesLines THEN Spent(l) ELSE Harmless(l)
      <3>1. CASE e.cmd \in LeavesLines
        BY <1>4, <1>5, <1>6, <2>1, <3>1
      <3>2. CASE e.cmd \notin LeavesLines
        <4>1. /\ LastOnesEnd(c, e, rows[c], inbox[c], down)
              /\ Count(inbox[c], In) = Count(rest, In) + 1
              /\ Count(rest, In) \in Nat /\ Count(down, Down) \in Nat
          BY <1>4, <1>5, <1>6, <2>1, <3>2
        <4>2. Refuses(e, line) => Refused(c, e, inbox[c], down)
          BY <1>1, <2>1 DEF Refused, Own, RefuseIn
        <4>3. Ends(c, e, inbox[c], down) = Count(inbox[c], In) + Count(down, Down)
          BY DEF Ends
        <4> HIDE DEF In, Down, e, line, rest
        <4>4. /\ rows[c] + Ends(c, e, inbox[c], down) <= e.rows
              /\ Refuses(e, line) => rows[c] + Ends(c, e, inbox[c], down) <= 1
          BY <4>1, <4>2 DEF LastOnesEnd
        <4>5. Count(down, Down) = 0
          <5> DEFINE x == Count(rest, In)
                     y == Count(down, Down)
                     t == Ends(c, e, inbox[c], down)
          <5>1. x \in Nat /\ y \in Nat /\ t = (x + 1) + y /\ rows[c] \in Nat /\ e.rows \in Nat
            BY <1>2, <4>1, <4>3
          <5>2. rows[c] + t <= e.rows /\ (Refuses(e, line) => rows[c] + t <= 1)
            BY <4>4
          <5> HIDE DEF x, y, t
          <5>3. rows[c] + 1 = e.rows \/ Refuses(e, line)
            BY <1>6
          <5>4. y = 0
            BY <5>1, <5>2, <5>3
          <5> QED BY <5>4 DEF y
        <4>6. Among(down) \cap Down = {}
          BY <1>2, <4>5, CountZero
        <4>7. l \notin Down
          BY <4>6
        <4>8. Harmless(l)
          BY <2>1, <4>1, <4>7 DEF LastOnesEnd, Down
        <4> QED BY <3>2, <4>8
      <3> QED BY <3>1, <3>2
    <2>2. (line.by = c) \in BOOLEAN
      OBVIOUS
    <2>3. (line.by = c) /\ settled[c] => \E l \in Among(inbox[c]) : l.by = c
      BY <1>1
    <2> HIDE DEF line
    <2>4. (line.by = c) /\ settled[c] =>
            /\ \E l \in Among(inbox[c]) : l.by = c
            /\ \A l \in Among(down) : l.by = c =>
                 IF Exch(c).cmd \in LeavesLines THEN Spent(l) ELSE Harmless(l)
      BY <2>1, <2>3
    <2> QED BY <1>1, <1>6, <2>2, <2>4, EndedOrder
  <1>7. CASE /\ Fits(c, e, line) /\ rows[c] + 1 < e.rows
             /\ Stays(c, rows[c] + 1, IF e.how = "anew" THEN <<>> ELSE rest)
             /\ Alone(c, line.by = c)
    <2> DEFINE q == IF e.how = "anew" THEN <<>> ELSE rest
    <2>1. q \in Seq(Lines) /\ Among(q) \subseteq Among(rest) /\ Among(q) \subseteq Among(inbox[c])
      <3>1. Among(<<>>) = {} /\ <<>> \in Seq(Lines)
        BY DEF Among
      <3> QED BY <1>2, <1>3, <3>1
    <2>2. Count(q, In) \in Nat /\ (Count(rest, In) \in Nat => Count(q, In) <= Count(rest, In))
      <3> HIDE DEF In, e, rest
      <3>1. CASE q = <<>>
        <4>1. Count(q, In) = 0
          BY <3>1, CountEmpty
        <4> QED BY <4>1
      <3>2. CASE q = rest
        <4>1. Count(rest, In) \in Nat
          BY <1>2, CountType
        <4> QED BY <3>2, <4>1
      <3> QED BY <3>1, <3>2
    <2> HIDE DEF q
    <2>3. ASSUME line.by = c, settled[c] PROVE AheadOf(c, e, rows[c] + 1, q, down, open)
      <3>1. CASE e.cmd \in LeavesLines
        <4>1. \A l \in Among(down) : l.by = c => Spent(l)
          BY <1>4, <1>5, <1>7, <2>3, <3>1
        <4> QED BY <3>1, <4>1 DEF AheadOf
      <3>2. CASE e.cmd \notin LeavesLines
        <4>1. /\ LastOnesEnd(c, e, rows[c], inbox[c], down)
              /\ Count(inbox[c], In) = Count(rest, In) + 1
              /\ Count(rest, In) \in Nat /\ Count(down, Down) \in Nat
          BY <1>4, <1>5, <1>7, <2>3, <3>2
        <4>2. Refused(c, e, q, down) => Refused(c, e, inbox[c], down)
          BY <2>1 DEF Refused
        <4>3. Ends(c, e, inbox[c], down) = Count(inbox[c], In) + Count(down, Down)
          BY DEF Ends
        <4>4. Ends(c, e, q, down) = Count(q, In) + Count(down, Down)
          BY DEF Ends
        <4> HIDE DEF In, Down, e, line, rest
        <4>5. /\ rows[c] + Ends(c, e, inbox[c], down) <= e.rows
              /\ Refused(c, e, q, down) => rows[c] + Ends(c, e, inbox[c], down) <= 1
          BY <4>1, <4>2 DEF LastOnesEnd
        <4>6. /\ (rows[c] + 1) + Ends(c, e, q, down) <= e.rows
              /\ Refused(c, e, q, down) => (rows[c] + 1) + Ends(c, e, q, down) <= 1
          <5> DEFINE x == Count(rest, In)
                     z == Count(q, In)
                     y == Count(down, Down)
                     t == Ends(c, e, inbox[c], down)
                     u == Ends(c, e, q, down)
          <5>1. /\ x \in Nat /\ y \in Nat /\ z \in Nat /\ z <= x /\ t = (x + 1) + y /\ u = z + y
                /\ rows[c] \in Nat /\ e.rows \in Nat
            BY <1>2, <2>2, <4>1, <4>3, <4>4
          <5>2. rows[c] + t <= e.rows /\ (Refused(c, e, q, down) => rows[c] + t <= 1)
            BY <4>5
          <5> HIDE DEF x, y, z, t, u
          <5>3. /\ (rows[c] + 1) + u <= e.rows
                /\ Refused(c, e, q, down) => (rows[c] + 1) + u <= 1
            BY <5>1, <5>2
          <5> QED BY <5>3 DEF u
        <4>7. LastOnesEnd(c, e, rows[c] + 1, q, down)
          BY <4>1, <4>6 DEF LastOnesEnd
        <4>8. \A late \in open : late.by # c
          <5>1. PICK p \in Plans : CallOf(c, p)
            BY <1>1, Called
          <5> QED BY <1>1, <2>3, <5>1 DEF CallOf
        <4> QED BY <3>2, <4>7, <4>8, Zenon DEF AheadOf
      <3> QED BY <3>1, <3>2
    <2>4. Stays(c, rows[c] + 1, q)
      BY <1>7 DEF q
    <2>5. (line.by = c) \in BOOLEAN
      OBVIOUS
    <2> HIDE DEF line
    <2> QED BY <1>1, <1>7, <2>1, <2>3, <2>4, <2>5, StaysOrder
  <1>8. CASE /\ ~Fits(c, e, line) /\ ~Refuses(e, line)
             /\ Ended(c) /\ Alone(c, FALSE)
    BY <1>1, <1>8, EndedOrder
  <1>9. CASE /\ ~Fits(c, e, line) /\ ~Refuses(e, line)
             /\ Stays(c, rows[c], rest) /\ Alone(c, TRUE)
    <2>1. line \notin In
      BY <1>9 DEF EndIn, FitIn, RefuseIn
    <2>2. Count(inbox[c], In) = Count(rest, In)
      <3> HIDE DEF In
      <3>1. Count(inbox[c], In) = Count(rest, In) + IF line \in In THEN 1 ELSE 0
        BY <1>1, <1>2, CountTail
      <3>2. Count(rest, In) \in Nat
        BY <1>2, CountType
      <3> QED BY <2>1, <3>1, <3>2
    <2>3. Ends(c, e, rest, down) = Ends(c, e, inbox[c], down)
      BY <2>2 DEF Ends
    <2>4. Refused(c, e, rest, down) => Refused(c, e, inbox[c], down)
      BY <1>3 DEF Refused
    <2> HIDE DEF e, rest
    <2>5. LastOnesEnd(c, e, rows[c], inbox[c], down) => LastOnesEnd(c, e, rows[c], rest, down)
      BY <2>3, <2>4 DEF LastOnesEnd
    <2>6. AheadOf(c, e, rows[c], inbox[c], down, open) => AheadOf(c, e, rows[c], rest, down, open)
      BY <2>3, <2>5, Zenon DEF AheadOf
    <2>7. settled[c] => AheadOf(c, Exch(c), rows[c], rest, down, open)
      BY <1>1, <2>6 DEF OrderInv, Order, e
    <2> QED BY <1>1, <1>3, <1>9, <2>7, StaysOrder
  <1>10. \/ /\ (Fits(c, e, line) /\ rows[c] + 1 = e.rows) \/ Refuses(e, line)
            /\ Ended(c) /\ Alone(c, line.by = c)
         \/ /\ Fits(c, e, line) /\ rows[c] + 1 < e.rows
            /\ Stays(c, rows[c] + 1, IF e.how = "anew" THEN <<>> ELSE rest)
            /\ Alone(c, line.by = c)
         \/ ~Fits(c, e, line) /\ ~Refuses(e, line) /\ Ended(c) /\ Alone(c, FALSE)
         \/ /\ ~Fits(c, e, line) /\ ~Refuses(e, line)
            /\ Stays(c, rows[c], rest) /\ Alone(c, TRUE)
    BY TakeEffect, Zenon
  <1> QED BY <1>6, <1>7, <1>8, <1>9, <1>10, Zenon

\* Only the beginning of a call that overlaps another ends the order of calls.
LEMMA OrderlyStep ==
    ASSUME TypeInv, [Next]_vars
    PROVE  /\ orderly' => orderly
           /\ \A c \in Callers : Begin(c) /\ orderly' => Others(c)
  <1>1. ASSUME NEW c \in Callers, Begin(c)
        PROVE  orderly' => orderly /\ Others(c)
    BY <1>1 DEF Begin, Others
  <1>2. ASSUME NEW c \in Callers, SendNext(c) \/ Take(c) \/ Timeout(c) PROVE orderly' = orderly
    BY <1>2 DEF SendNext, Take, Timeout
  <1>3. CASE LateAnswer \/ Unasked \/ Deliver \/ UNCHANGED vars
    <2>1. orderly' = orderly
      BY <1>3 DEF LateAnswer, Unasked, Deliver, vars, host
    <2> QED BY <1>1, <2>1
  <1> QED BY <1>1, <1>2, <1>3, Zenon DEF Next

\* Every step keeps the order of calls that follow one another.
LEMMA StepOrder ==
    ASSUME TypeInv, SourceInv, OrderInv, [Next]_vars
    PROVE  OrderInv'
  <1> SUFFICES ASSUME orderly' PROVE \A d \in Callers : Order(d)'
    BY DEF OrderInv
  <1>1. orderly /\ \A c \in Callers : Begin(c) => Others(c)
    BY OrderlyStep
  <1>2. ASSUME NEW c \in Callers, Begin(c) \/ SendNext(c) PROVE \A d \in Callers : Order(d)'
    <2>1. Others(c)
      <3>1. CASE Begin(c)
        BY <1>1, <3>1
      <3>2. CASE SendNext(c)
        <4>1. phase[c] = "sending"
          BY <3>2 DEF SendNext
        <4> QED BY <1>1, <4>1, OnlyOne
      <3> QED BY <1>2, <3>1, <3>2
    <2>2. PICK p \in Seq(Exchanges), q \in Plans : Ready(c, p, q) /\ Sends(c, p)
      BY <1>2, SendsReady
    <2> QED BY <1>1, <2>1, <2>2, SendsOrder
  <1>3. ASSUME NEW c \in Callers, Take(c) PROVE \A d \in Callers : Order(d)'
    BY <1>1, <1>3, TakeOrder
  <1>4. ASSUME NEW c \in Callers, Timeout(c) PROVE \A d \in Callers : Order(d)'
    BY <1>1, <1>4, TimeoutOrder
  <1>5. CASE LateAnswer
    BY <1>1, <1>5, LateOrder
  <1>6. CASE Unasked
    BY <1>1, <1>6, UnaskedOrder
  <1>7. CASE Deliver
    BY <1>1, <1>7, DeliverOrder
  <1>8. CASE UNCHANGED vars
    <2>1. UNCHANGED <<phase, plan, inbox, rows, down, open, settled>>
      BY <1>8 DEF vars
    <2>2. \A d \in Callers : Order(d)
      BY <1>1 DEF OrderInv
    <2> QED BY <2>1, <2>2 DEF Order, Others, Behind, AheadOf, LastOnesEnd, Ends, Refused, Exch
  <1> QED BY <1>2, <1>3, <1>4, <1>5, <1>6, <1>7, <1>8, Zenon DEF Next

\* A line of an earlier call, where calls follow one another, is one of several.
LEMMA TakenOwn ==
    ASSUME TypeInv, SourceInv, OrderInv, orderly, NEW c \in Callers, phase[c] = "waiting",
           NEW line \in Among(inbox[c]), Fits(c, Exch(c), line) \/ Refuses(Exch(c), line)
    PROVE  line.by \in {c, "nobody"} \/ line.of \in LeavesLines
  <1> SUFFICES ASSUME line.by \notin {c, "nobody"} PROVE line.of \in LeavesLines
    OBVIOUS
  <1> DEFINE b == line.by
  <1>1. b \in Callers
    BY DEF SourceInv, Noisy
  <1>2. Others(c)
    BY OnlyOne
  <1>3. phase[b] # "idle"
    <2>1. ~Unheardof(b)
      BY DEF Unheardof
    <2> QED BY <1>1, <2>1 DEF SourceInv, CallOf
  <1>4. phase[b] = "over" /\ settled[b]
    BY <1>1, <1>2, <1>3 DEF Others
  <1>5. Behind(b)
    BY <1>1, <1>4 DEF OrderInv, Order
  <1>6. SpentAs(line)
    BY <1>5 DEF Behind
  <1>7. ~HarmlessAs(line.word, line.ctx)
    <2>1. Exch(c) \in Exchanges
      BY WaitingForm
    <2> QED BY <2>1, EndingHarms
  <1> QED BY <1>6, <1>7 DEF SpentAs

\* So none of them takes a line of an earlier one.
LEMMA StepOwnAnswer ==
    ASSUME TypeInv, SourceInv, OrderInv, OwnAnswer, [Next]_vars
    PROVE  OwnAnswer'
  <1> SUFFICES ASSUME orderly'
               PROVE  \A c \in Callers : \A h \in heard'[c] :
                        h.by \in {c, "nobody"} \/ h.of \in LeavesLines
    BY DEF OwnAnswer
  <1>1. orderly
    BY OrderlyStep
  <1>2. \A c \in Callers : \A h \in heard[c] : h.by \in {c, "nobody"} \/ h.of \in LeavesLines
    BY <1>1 DEF OwnAnswer
  <1>3. CASE heard' = heard
    BY <1>2, <1>3
  <1>4. ASSUME NEW c \in Callers, Take(c)
        PROVE  \A d \in Callers : \A h \in heard'[d] :
                 h.by \in {d, "nobody"} \/ h.of \in LeavesLines
    <2> DEFINE line == Head(inbox[c])
    <2>1. phase[c] = "waiting" /\ line \in Among(inbox[c])
      BY <1>4, TakeEffect
    <2>2. \/ heard' = heard
          \/ TakesFor(c, Exch(c), line) /\ (Fits(c, Exch(c), line) \/ Refuses(Exch(c), line))
      BY <1>4, TakeEffect
    <2> HIDE DEF line
    <2>3. CASE heard' = heard
      BY <1>2, <2>3
    <2>4. CASE TakesFor(c, Exch(c), line) /\ (Fits(c, Exch(c), line) \/ Refuses(Exch(c), line))
      <3> DEFINE new == [by |-> line.by, of |-> line.of, to |-> Exch(c).cmd, word |-> line.word,
                         text |-> line.text, loose |-> AnyContext \in Exch(c).ok \cup Exch(c).err]
      <3>1. line.by \in {c, "nobody"} \/ line.of \in LeavesLines
        BY <1>1, <2>1, <2>4, TakenOwn
      <3>2. heard = [d \in Callers |-> heard[d]]
        BY DEF TypeInv, LinkType
      <3>3. heard' = [heard EXCEPT ![c] = @ \cup {new}]
        BY <2>4 DEF TakesFor
      <3>4. new.by = line.by /\ new.of = line.of
        BY Zenon
      <3> HIDE DEF new
      <3>5. /\ \A d \in Callers \ {c} : heard'[d] = heard[d]
            /\ \A h \in heard'[c] : h \in heard[c] \/ h = new
        BY <3>2, <3>3
      <3> QED BY <1>2, <3>1, <3>4, <3>5
    <2> QED BY <2>2, <2>3, <2>4
  <1>5. \/ heard' = heard
        \/ \E c \in Callers : Take(c)
    <2>1. ASSUME NEW c \in Callers, Begin(c) \/ SendNext(c) \/ Timeout(c) PROVE heard' = heard
      BY <2>1 DEF Begin, SendNext, Timeout, Sends
    <2>2. CASE LateAnswer \/ Unasked \/ Deliver \/ UNCHANGED vars
      BY <2>2, Zenon DEF LateAnswer, Unasked, Deliver, vars, host
    <2> QED BY <2>1, <2>2, Zenon DEF Next
  <1> QED BY <1>3, <1>4, <1>5, Zenon
-----------------------------------------------------------------------------
(* The theorems                                                            *)

\* The invariant holds at first, is kept by every step, and so always holds.
LEMMA InitInv == Init => Inv
  <1> SUFFICES ASSUME Init PROVE Inv
    OBVIOUS
  <1>1. TypeInv /\ SourceInv
    BY InitSource
  <1>2. /\ \A c \in Callers : phase[c] = "idle" /\ heard[c] = {}
        /\ orderly = TRUE
    BY DEF Init
  <1>3. EnoughInv
    BY <1>2 DEF EnoughInv, Enough
  <1>4. OrderInv
    BY <1>2 DEF OrderInv, Order
  <1>5. OwnAnswer /\ NoCrossTalk /\ TextsArriveWhole
    BY <1>2 DEF OwnAnswer, NoCrossTalk, TextsArriveWhole
  <1> QED BY <1>1, <1>3, <1>4, <1>5 DEF Inv

LEMMA StepInv == Inv /\ [Next]_vars => Inv'
  <1> SUFFICES ASSUME Inv, [Next]_vars PROVE Inv'
    OBVIOUS
  <1>1. TypeInv /\ SourceInv /\ EnoughInv /\ OrderInv /\ OwnAnswer /\ NoCrossTalk
        /\ TextsArriveWhole
    BY DEF Inv
  <1>2. TypeInv' /\ SourceInv'
    BY <1>1, StepSource
  <1>3. EnoughInv'
    BY <1>1, StepEnough
  <1>4. OrderInv' /\ OwnAnswer'
    BY <1>1, StepOrder, StepOwnAnswer
  <1>5. NoCrossTalk' /\ TextsArriveWhole'
    BY <1>1, StepHeard
  <1> QED BY <1>2, <1>3, <1>4, <1>5, Zenon DEF Inv

LEMMA AlwaysInv == Spec => []Inv
  BY InitInv, StepInv, PTL DEF Spec

\* What calls and the link hold is of the kinds the code gives them; a call that
\* waits has an exchange to wait for and fewer answers than it wants: the queues of
\* subscriptions end with the wait (serial_conn.py, mcp_tools.py, server.py).
THEOREM TypeCorrect == Spec => []TypeOK
  <1>1. TypeInv => TypeOK
    <2> SUFFICES ASSUME TypeInv PROVE TypeOK
      OBVIOUS
    <2>1. \A i \in DOMAIN down : down[i] \in Lines
      BY DEF TypeInv, LinkType
    <2>2. \A c \in Callers :
            /\ phase[c] \in {"sending", "waiting"} <=> plan[c] # <<>>
            /\ inbox[c] # <<>> => phase[c] = "waiting"
            /\ \A i \in DOMAIN inbox[c] : inbox[c][i] \in Lines
            /\ phase[c] = "waiting" => rows[c] < Exch(c).rows
            /\ phase[c] # "waiting" => rows[c] = 0
      BY DEF TypeInv, HostType
    <2> QED BY <2>1, <2>2 DEF TypeInv, HostType, LinkType, TypeOK
  <1>2. Inv => TypeOK
    BY <1>1 DEF Inv
  <1> QED BY <1>2, AlwaysInv, PTL

\* However many calls overlap, and whatever comes too late for the call it was
\* meant for, an exchange that asks for more than any OK or any error is only
\* ended by a line for its own kind of command (publish in state.py hands every
\* line to every subscription; the tools and endpoints tell them apart).
THEOREM NoCrossTalkCorrect == Spec => []NoCrossTalk
  <1>1. Inv => NoCrossTalk
    BY DEF Inv
  <1> QED BY <1>1, AlwaysInv, PTL

\* An answer that may hold the separator in its text reaches the tool whole, or is
\* of a word whose text the parser cuts (parse_message in protocol.py).
THEOREM TextsWholeCorrect == Spec => []TextsArriveWhole
  <1>1. Inv => TextsArriveWhole
    BY DEF Inv
  <1> QED BY <1>1, AlwaysInv, PTL

\* When all that the daemon has said of a command it carried out has come, no
\* caller still waits for it, however many others call: nothing it needs goes to
\* another's queue or is thrown away with a line before it.
THEOREM AnsweredCallsReturnCorrect == Spec => []AnsweredCallsReturn
  <1>1. Inv => AnsweredCallsReturn
    BY EnoughReturns DEF Inv
  <1> QED BY <1>1, AlwaysInv, PTL

\* As long as calls follow one another and each is ended by lines of its own, none
\* takes a line that an earlier one left, though no line says which request it
\* answers: the number of lines a tool waits for is the number that is sent
\* (mcp_tools.py, server.py against the handlers of the daemon).
THEOREM OwnAnswerCorrect == Spec => []OwnAnswer
  <1>1. Inv => OwnAnswer
    BY DEF Inv
  <1> QED BY <1>1, AlwaysInv, PTL
=============================================================================
