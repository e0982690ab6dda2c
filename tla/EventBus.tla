------------------------------- MODULE EventBus -------------------------------
(***************************************************************************)
(* The host server's publish/subscribe bus (amiga_devbench/state.py).      *)
(* Every decoded bridge message is published here; a tool call that wants  *)
(* an answer subscribes with wait_for(event, timeout, predicate); the SSE  *)
(* stream and the persistent log subscribe to "*".  Everything runs on one *)
(* asyncio loop, so publish and the code between two awaits are atomic,    *)
(* while a subscriber takes one item from its queue per step.  Time is a  *)
(* clock of ticks that stands still while a timer is due: asyncio's loop   *)
(* runs what is ready before it sleeps again.                              *)
(***************************************************************************)
EXTENDS Naturals, Sequences, FiniteSets

CONSTANTS
    Waiters,       \* calls of wait_for, each used once
    Streams,       \* subscribers to "*" that run until they are cancelled
    Events,        \* event names
    Data,          \* payloads, as far as predicates tell them apart
    MaxQueue,      \* asyncio.Queue(maxsize=1000), scaled down
    Timeout,       \* wait_for's timeout, in ticks of the loop's clock
    MaxPublished   \* bound: publications in one behaviour

ASSUME BusAssumption ==
    /\ Waiters \cap Streams = {}
    /\ MaxQueue \in Nat \ {0}
    /\ Timeout \in Nat \ {0}
    /\ MaxPublished \in Nat

Subscribers == Waiters \cup Streams
None == [n |-> 0]

VARIABLES
    published,   \* every (event, data) ever published, in order
    queues,      \* _subscribers: sid -> (events, queue); absent = not subscribed
    want,        \* what the call asked for: its event and its predicate
    since,       \* publications before the subscription was made
    status,      \* "new", "waiting", "answered", "timeout", "closed"
    result,      \* what wait_for returned
    taken,       \* items a stream has taken from its queue, in order
    age,         \* ticks since the call set its deadline
    timer        \* ticks until the await it stands in times out

clocks == <<age, timer>>
vars == <<published, queues, want, since, status, result, taken, age, timer>>

Message == [n : Nat, event : Events, data : Data]
Predicate == SUBSET Data

\* The shape of the state; a subscriber's queue is bounded (publish drops).
TypeOK ==
    /\ published \in Seq(Events \X Data)
    /\ DOMAIN queues \subseteq Subscribers
    /\ \A s \in DOMAIN queues :
          /\ queues[s] \in [events : SUBSET Events, queue : Seq(Message)]
          /\ Len(queues[s].queue) <= MaxQueue
    /\ want \in [Waiters -> [event : Events, accept : Predicate]]
    /\ since \in [Subscribers -> Nat]
    /\ status \in [Subscribers -> {"new", "waiting", "answered", "timeout", "closed"}]
    /\ result \in [Waiters -> Message \cup {None}]
    /\ taken \in [Streams -> Seq(Message)]
    /\ age \in [Waiters -> Nat]
    /\ timer \in [Waiters -> Nat]

Init ==
    /\ published = <<>>
    /\ queues = [s \in {} |-> [events |-> {}, queue |-> <<>>]]
    /\ want \in [Waiters -> [event : Events, accept : Predicate \ {{}}]]
    /\ since = [s \in Subscribers |-> 0]
    /\ status = [s \in Subscribers |-> "new"]
    /\ result = [w \in Waiters |-> None]
    /\ taken = [s \in Streams |-> <<>>]
    /\ age = [w \in Waiters |-> 0]
    /\ timer = [w \in Waiters |-> 0]

\* Slips of Offer: a queue that hands out the newest item first; one that drops the
\* new item when it is full.
OfferNewestFirst(q, m) == IF Len(q) < MaxQueue THEN <<m>> \o q ELSE <<m>> \o Tail(q)
OfferDropNewest(q, m) == IF Len(q) < MaxQueue THEN Append(q, m) ELSE q

\* put_nowait; on QueueFull the oldest item is dropped to make room.
Offer(q, m) == IF Len(q) < MaxQueue THEN Append(q, m) ELSE Append(Tail(q), m)

Publish(e, d) ==
    /\ Len(published) < MaxPublished
    /\ published' = Append(published, <<e, d>>)
    /\ LET m == [n |-> Len(published) + 1, event |-> e, data |-> d]
       IN queues' = [s \in DOMAIN queues |->
                       IF e \in queues[s].events
                       THEN [queues[s] EXCEPT !.queue = Offer(@, m)]
                       ELSE queues[s]]
    /\ UNCHANGED <<want, since, status, result, taken, age, timer>>

\* subscribe(): a fresh empty queue under a new id.
Subscribe(s, events) ==
    /\ status[s] = "new"
    /\ queues' = [t \in DOMAIN queues \cup {s} |->
                    IF t = s THEN [events |-> events, queue |-> <<>>] ELSE queues[t]]
    /\ since' = [since EXCEPT ![s] = Len(published)]
    /\ status' = [status EXCEPT ![s] = "waiting"]
    /\ UNCHANGED <<published, want, result, taken>>

\* The finally clause of subscribe(): _subscribers.pop(sid).
Unsubscribed(s) == [t \in DOMAIN queues \ {s} |-> queues[t]]

\* The deadline is set once, and what is left of it arms the first await.
WaitForStart(w) ==
    /\ Subscribe(w, {want[w].event})
    /\ age' = [age EXCEPT ![w] = 0]
    /\ timer' = [timer EXCEPT ![w] = Timeout]

\* Mutant of Remaining: every item gets the whole timeout, as if the deadline were
\* set inside the loop.
RemainingAfresh(w) == Timeout

\* remaining = deadline - time(): what arms the next await.
Remaining(w) == IF age[w] < Timeout THEN Timeout - age[w] ELSE 0

\* The queue's oldest item is the answer.
WaitForMatch(w) ==
    /\ Head(queues[w].queue).data \in want[w].accept
    /\ result' = [result EXCEPT ![w] = Head(queues[w].queue)]
    /\ status' = [status EXCEPT ![w] = "answered"]
    /\ queues' = Unsubscribed(w)
    /\ UNCHANGED timer

\* It is not: the loop goes round, and returns None when nothing remains.
WaitForOther(w) ==
    /\ Head(queues[w].queue).data \notin want[w].accept
    /\ timer' = [timer EXCEPT ![w] = Remaining(w)]
    /\ IF Remaining(w) = 0
       THEN status' = [status EXCEPT ![w] = "timeout"] /\ queues' = Unsubscribed(w)
       ELSE queues' = [queues EXCEPT ![w].queue = Tail(@)] /\ UNCHANGED status
    /\ UNCHANGED result

\* One turn of wait_for's loop: an item was got; return it if it matches.
WaitForGet(w) ==
    /\ w \in DOMAIN queues
    /\ queues[w].queue # <<>>
    /\ WaitForMatch(w) \/ WaitForOther(w)
    /\ UNCHANGED <<published, want, since, taken, age>>

\* The call ends with None, whatever its queue holds.
WaitForGivesUp(w, verdict) ==
    /\ w \in DOMAIN queues
    /\ status' = [status EXCEPT ![w] = verdict]
    /\ queues' = Unsubscribed(w)
    /\ UNCHANGED <<published, want, since, result, taken, age, timer>>

\* The await's timer fires; it may do so with an item already in the queue.
WaitForTimeout(w) == timer[w] = 0 /\ WaitForGivesUp(w, "timeout")

\* The calling task is cancelled; wait_for swallows that and returns None.
WaitForCancel(w) == WaitForGivesUp(w, "closed")

\* The clock moves on, unless a timer is due.
Tick ==
    LET waiting == {w \in Waiters : status[w] = "waiting"}
    IN /\ \A w \in waiting : timer[w] > 0
       /\ age' = [w \in Waiters |-> IF w \in waiting THEN age[w] + 1 ELSE age[w]]
       /\ timer' = [w \in Waiters |-> IF w \in waiting THEN timer[w] - 1 ELSE timer[w]]
       /\ UNCHANGED <<published, queues, want, since, status, result, taken>>

StreamStart(s) == Subscribe(s, Events) /\ UNCHANGED clocks

\* PersistentLog.subscribe_to_bus and the SSE handler take items one by one.
StreamGet(s) ==
    /\ s \in DOMAIN queues
    /\ queues[s].queue # <<>>
    /\ taken' = [taken EXCEPT ![s] = Append(@, Head(queues[s].queue))]
    /\ queues' = [queues EXCEPT ![s].queue = Tail(@)]
    /\ UNCHANGED <<published, want, since, status, result, age, timer>>

StreamCancel(s) ==
    /\ s \in DOMAIN queues
    /\ status' = [status EXCEPT ![s] = "closed"]
    /\ queues' = Unsubscribed(s)
    /\ UNCHANGED <<published, want, since, result, taken, age, timer>>

WaiterStep(w) ==
    WaitForStart(w) \/ WaitForGet(w) \/ WaitForTimeout(w) \/ WaitForCancel(w)
StreamStep(s) == StreamStart(s) \/ StreamGet(s) \/ StreamCancel(s)

Next ==
    \/ \E e \in Events, d \in Data : Publish(e, d)
    \/ \E w \in Waiters : WaiterStep(w)
    \/ \E s \in Streams : StreamStep(s)
    \/ Tick

Spec == Init /\ [][Next]_vars

-------------------------------------------------------------------------------
\* The bus without its queues.
Promise == INSTANCE BusPromise WITH
    Capacity <- MaxQueue,
    answer <- [w \in Waiters |-> result[w].n],
    got <- [s \in Streams |-> [i \in DOMAIN taken[s] |-> taken[s][i].n]]

\* What the queues do implements what the bus promises (state.py, publish and
\* wait_for): wait_for returns the first match published since it subscribed,
\* nothing older, of another event or that its predicate rejects; the log and
\* the SSE stream get every event once and in order; and either misses one only
\* if MaxQueue newer ones it had asked for were published before it got there.
KeepsItsPromise == Promise!Spec

\* A live subscription's queue holds the publications it names, in order, all
\* made since it subscribed, and none is missing after the first of them, even
\* when publish has dropped the oldest.
QueueIsNewestSuffix ==
    \A s \in DOMAIN queues :
        LET q == queues[s].queue
            heard == Promise!Heard(s, queues[s].events)
        IN /\ \A i \in DOMAIN q : /\ q[i].n \in heard
                                /\ published[q[i].n] = <<q[i].event, q[i].data>>
           /\ \A j, k \in DOMAIN q : j < k => q[j].n < q[k].n
           /\ \A h \in heard : h \in {q[j].n : j \in DOMAIN q} \/ \A j \in DOMAIN q : h < q[j].n

\* wait_for keeps one deadline for the whole call (state.py, remaining = deadline -
\* time()): however many events arrive that are not the one it wants, it is over
\* when its timeout has passed since it began, and it does not say so any sooner.
WaitForEndsInTime ==
    \A w \in Waiters : /\ status[w] = "waiting" => age[w] <= Timeout
                       /\ status[w] = "timeout" => age[w] = Timeout
===============================================================================
