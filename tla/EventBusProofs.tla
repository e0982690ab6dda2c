---------------------------- MODULE EventBusProofs ----------------------------
(***************************************************************************)
(* Proofs about the event bus: its queues stay bounded and hold the newest *)
(* publications in order, a waiting call keeps its deadline, and the bus   *)
(* implements the abstract one of BusPromise, for any number of            *)
(* subscribers, events and publications.                                   *)
(***************************************************************************)
EXTENDS EventBus, TLAPS

\* A subscription exists while its call waits; it hears what the call asked for,
\* and nothing from before it was made.
Subscriptions ==
    /\ \A s \in Subscribers : s \in DOMAIN queues <=> status[s] = "waiting"
    /\ \A s \in Subscribers : since[s] <= Len(published)
    /\ \A s \in Streams : status[s] = "new" => taken[s] = <<>>
    /\ \A w \in Waiters : w \in DOMAIN queues => queues[w].events = {want[w].event}
    /\ \A s \in Streams : s \in DOMAIN queues => queues[s].events = Events

Heard(s) == Promise!Heard(s, queues[s].events)
Queued(s) == {queues[s].queue[i].n : i \in DOMAIN queues[s].queue}
Latest(s) == IF taken[s] = <<>> THEN since[s] ELSE taken[s][Len(taken[s])].n

\* What a subscriber still wants and does not find in its queue was overtaken.
MissingWasOvertaken ==
    /\ \A w \in Waiters : w \in DOMAIN queues =>
         \A h \in Heard(w) : published[h][2] \in want[w].accept
            => h \in Queued(w) \/ Promise!Overtaken(h, Heard(w))
    /\ \A s \in Streams : s \in DOMAIN queues =>
         /\ Latest(s) \in 0..Len(published)
         /\ \A h \in Queued(s) : h > Latest(s)
         /\ \A h \in Heard(s) : h > Latest(s)
              => h \in Queued(s) \/ Promise!Overtaken(h, Heard(s))

\* What a waiting call has used of its time and what its await may still take make
\* up the timeout; one that timed out has used it all.
InTime ==
    \A w \in Waiters : /\ status[w] = "waiting" => age[w] + timer[w] = Timeout
                       /\ status[w] = "timeout" => age[w] = Timeout

IInv == TypeOK /\ Subscriptions /\ InTime /\ QueueIsNewestSuffix /\ MissingWasOvertaken

-------------------------------------------------------------------------------
(* Offer, and what it loses.                                               *)

\* What put_nowait with drop-oldest leaves in a queue.
LEMMA OfferFacts ==
    ASSUME NEW q \in Seq(Message), Len(q) <= MaxQueue, NEW m \in Message
    PROVE  /\ Offer(q, m) \in Seq(Message)
           /\ Len(Offer(q, m)) \in 1..MaxQueue
           /\ Offer(q, m)[Len(Offer(q, m))] = m
           /\ \/ /\ Len(q) < MaxQueue /\ Len(Offer(q, m)) = Len(q) + 1
                 /\ \A i \in 1..Len(q) : Offer(q, m)[i] = q[i]
              \/ /\ Len(q) = MaxQueue /\ Len(Offer(q, m)) = MaxQueue
                 /\ \A i \in 1..(MaxQueue - 1) : Offer(q, m)[i] = q[i + 1]
<1>0. MaxQueue \in Nat /\ MaxQueue >= 1
  BY BusAssumption
<1>1. CASE Len(q) < MaxQueue
  BY <1>0, <1>1 DEF Offer
<1>2. CASE Len(q) = MaxQueue
  <2>1. q # <<>> /\ Tail(q) \in Seq(Message) /\ Len(Tail(q)) = MaxQueue - 1
    BY <1>0, <1>2
  <2>2. \A i \in 1..(MaxQueue - 1) : Tail(q)[i] = q[i + 1]
    BY <1>0, <1>2
  <2>3. Offer(q, m) = Append(Tail(q), m)
    BY <1>2 DEF Offer
  <2> QED BY <1>0, <1>2, <2>1, <2>2, <2>3
<1> QED BY <1>0, <1>1, <1>2

\* b numbers the items of a queue of at most K after one numbered N was put into
\* the queue a numbers.
Shift(K, N, p, p2, a, b) ==
    /\ a \in [1..p -> Nat] /\ b \in [1..p2 -> Nat]
    /\ \A i \in 1..p : a[i] < N
    /\ \A j, k \in 1..p : j < k => a[j] < a[k]
    /\ p2 \in 1..K /\ b[p2] = N
    /\ \/ p < K /\ p2 = p + 1 /\ \A i \in 1..p : b[i] = a[i]
       \/ p = K /\ p2 = K /\ \A i \in 1..(K - 1) : b[i] = a[i + 1]

\* The numbers stay in order, and one that is gone was the least of a full queue.
LEMMA Shifted ==
    ASSUME NEW K \in Nat, K >= 1, NEW N \in Nat, NEW p \in Nat, NEW p2 \in Nat,
           NEW a, NEW b, Shift(K, N, p, p2, a, b)
    PROVE  /\ \A j, k \in 1..p2 : j < k => b[j] < b[k]
           /\ \A i \in 1..p : \/ \E k \in 1..p2 : b[k] = a[i]
                              \/ p2 = K /\ \A k \in 1..p2 : a[i] < b[k]
<1> USE DEF Shift
<1>1. CASE p < K /\ p2 = p + 1 /\ \A i \in 1..p : b[i] = a[i]
  <2>1. \A i \in 1..p2 : i = p2 \/ (i \in 1..p /\ b[i] = a[i])
    BY <1>1
  <2>2. \A i \in 1..p : i \in 1..p2 /\ b[i] = a[i]
    BY <1>1
  <2>3. ASSUME NEW j \in 1..p2, NEW k \in 1..p2, j < k PROVE b[j] < b[k]
    <3>1. j \in 1..p /\ b[j] = a[j]
      BY <2>1, <2>3
    <3>2. k = p2 \/ (k \in 1..p /\ b[k] = a[k])
      BY <2>1
    <3> QED BY <3>1, <3>2, <2>3
  <2> QED BY <2>1, <2>2, <2>3
<1>2. CASE p = K /\ p2 = K /\ \A i \in 1..(K - 1) : b[i] = a[i + 1]
  <2>1. \A i \in 1..p2 : i = p2 \/ (i + 1 \in 1..p /\ b[i] = a[i + 1])
    BY <1>2
  <2>2. ASSUME NEW i \in 1..p, i # 1 PROVE i - 1 \in 1..p2 /\ b[i - 1] = a[i]
    <3>1. i - 1 \in 1..(K - 1) /\ (i - 1) + 1 = i
      BY <1>2, <2>2
    <3>2. b[i - 1] = a[(i - 1) + 1]
      BY <1>2, <3>1
    <3> QED BY <1>2, <3>1, <3>2
  <2>3. ASSUME NEW j \in 1..p2, NEW k \in 1..p2, j < k PROVE b[j] < b[k]
    <3>1. j + 1 \in 1..p /\ b[j] = a[j + 1]
      BY <2>1, <2>3
    <3>2. k = p2 \/ (k + 1 \in 1..p /\ b[k] = a[k + 1])
      BY <2>1
    <3> QED BY <3>1, <3>2, <2>3
  <2>4. ASSUME NEW k \in 1..p2 PROVE 1 \in 1..p /\ a[1] < b[k]
    <3>1. 1 \in 1..p
      BY <1>2
    <3>2. k = p2 \/ (k + 1 \in 1..p /\ b[k] = a[k + 1])
      BY <2>1
    <3> QED BY <3>1, <3>2
  <2> QED BY <1>2, <2>1, <2>2, <2>3, <2>4
<1> QED BY <1>1, <1>2

\* To have heard more does not undo that a publication was overtaken.
LEMMA OvertakenGrows ==
    ASSUME NEW S, NEW T, S \subseteq T, NEW h, Promise!Overtaken(h, S)
    PROVE  Promise!Overtaken(h, T)
<1>1. PICK newer \in [1..MaxQueue -> S] :
        /\ \A j \in 1..MaxQueue : newer[j] > h
        /\ \A j, k \in 1..MaxQueue : j < k => newer[j] < newer[k]
  BY DEF Promise!Overtaken
<1>2. newer \in [1..MaxQueue -> T]
  OBVIOUS
<1> QED BY <1>1, <1>2 DEF Promise!Overtaken

-------------------------------------------------------------------------------
(* The shape of the state.                                                 *)

LEMMA TypeInit == Init => TypeOK
<1> SUFFICES ASSUME Init PROVE TypeOK
  OBVIOUS
<1>1. MaxQueue \in Nat /\ MaxQueue >= 1
  BY BusAssumption
<1>2. want \in [Waiters -> [event : Events, accept : Predicate]]
  BY DEF Init, Predicate
<1> QED BY <1>1, <1>2 DEF Init, TypeOK, Subscribers

LEMMA SubscribeType ==
    ASSUME TypeOK, NEW s \in Subscribers, NEW events \in SUBSET Events, Subscribe(s, events),
           age' \in [Waiters -> Nat], timer' \in [Waiters -> Nat]
    PROVE  TypeOK'
<1> USE BusAssumption DEF TypeOK, Subscribe
<1>1. Len(published) \in Nat
  OBVIOUS
<1>2. /\ DOMAIN queues' = DOMAIN queues \cup {s}
      /\ queues'[s] = [events |-> events, queue |-> <<>>]
      /\ \A t \in DOMAIN queues' : t # s => t \in DOMAIN queues /\ queues'[t] = queues[t]
  OBVIOUS
<1>3. \A t \in DOMAIN queues' :
         /\ queues'[t] \in [events : SUBSET Events, queue : Seq(Message)]
         /\ Len(queues'[t].queue) <= MaxQueue
  <2>1. <<>> \in Seq(Message) /\ Len(<<>>) <= MaxQueue
    OBVIOUS
  <2> QED BY <1>2, <2>1
<1>4. DOMAIN queues' \subseteq Subscribers
  BY <1>2
<1>5. since' \in [Subscribers -> Nat] /\ status' \in
        [Subscribers -> {"new", "waiting", "answered", "timeout", "closed"}]
  BY <1>1
<1>6. UNCHANGED <<published, want, result, taken>>
  OBVIOUS
<1> QED BY <1>3, <1>4, <1>5, <1>6

\* Taking an entry away leaves the others as they are.
LEMMA UnsubscribedFacts ==
    ASSUME NEW s
    PROVE  /\ DOMAIN Unsubscribed(s) = DOMAIN queues \ {s}
           /\ \A t \in DOMAIN queues \ {s} : Unsubscribed(s)[t] = queues[t]
BY DEF Unsubscribed

\* The three ways a turn of wait_for ends: with the answer, with another await, with None.
Matches(w) ==
    /\ WaitForGet(w) /\ Head(queues[w].queue).data \in want[w].accept
    /\ result' = [result EXCEPT ![w] = Head(queues[w].queue)]
    /\ status' = [status EXCEPT ![w] = "answered"]
    /\ queues' = Unsubscribed(w) /\ UNCHANGED timer
GoesRound(w) ==
    /\ Head(queues[w].queue).data \notin want[w].accept
    /\ queues' = [queues EXCEPT ![w].queue = Tail(queues[w].queue)]
    /\ Remaining(w) # 0 /\ timer' = [timer EXCEPT ![w] = Remaining(w)]
    /\ queues[w].queue # <<>> /\ UNCHANGED <<result, status>>
Ends(w) ==
    /\ \/ status' = [status EXCEPT ![w] = "closed"]
       \/ /\ status' = [status EXCEPT ![w] = "timeout"]
          /\ timer[w] = 0 \/ Remaining(w) = 0
    /\ queues' = Unsubscribed(w) /\ UNCHANGED result
    /\ timer' = timer \/ timer' = [timer EXCEPT ![w] = Remaining(w)]

LEMMA WaiterTurn ==
    ASSUME NEW w \in Waiters, WaitForGet(w) \/ WaitForTimeout(w) \/ WaitForCancel(w)
    PROVE  /\ w \in DOMAIN queues /\ UNCHANGED <<published, want, since, taken, age>>
           /\ Matches(w) \/ GoesRound(w) \/ Ends(w)
<1>1. CASE WaitForGet(w) /\ WaitForMatch(w)
  BY <1>1 DEF WaitForGet, WaitForMatch, Matches
<1>2. CASE WaitForGet(w) /\ WaitForOther(w)
  BY <1>2 DEF WaitForGet, WaitForOther, GoesRound, Ends
<1>3. CASE WaitForTimeout(w) \/ WaitForCancel(w)
  BY <1>3 DEF WaitForTimeout, WaitForCancel, WaitForGivesUp, Ends
<1> QED BY <1>1, <1>2, <1>3 DEF WaitForGet

LEMMA TypeStep == TypeOK /\ [Next]_vars => TypeOK'
<1> SUFFICES ASSUME TypeOK, [Next]_vars PROVE TypeOK'
  OBVIOUS
<1>1. ASSUME NEW e \in Events, NEW d \in Data, Publish(e, d) PROVE TypeOK'
  <2> DEFINE m == [n |-> Len(published) + 1, event |-> e, data |-> d]
  <2>1. published' \in Seq(Events \X Data) /\ m \in Message
    BY <1>1 DEF TypeOK, Publish, Message
  <2>2. /\ DOMAIN queues' = DOMAIN queues
        /\ \A s \in DOMAIN queues : \/ queues'[s] = queues[s]
                                    \/ queues'[s] = [queues[s] EXCEPT !.queue = Offer(queues[s].queue, m)]
    BY <1>1 DEF Publish
  <2>3. ASSUME NEW s \in DOMAIN queues
        PROVE  /\ queues'[s] \in [events : SUBSET Events, queue : Seq(Message)]
               /\ Len(queues'[s].queue) <= MaxQueue
    <3>1. queues[s].queue \in Seq(Message) /\ Len(queues[s].queue) <= MaxQueue
      BY DEF TypeOK
    <3> HIDE DEF m
    <3>2. /\ Offer(queues[s].queue, m) \in Seq(Message)
          /\ Len(Offer(queues[s].queue, m)) \in 1..MaxQueue
      BY <2>1, <3>1, OfferFacts
    <3>3. Len(Offer(queues[s].queue, m)) <= MaxQueue
      BY <3>2, BusAssumption
    <3> QED BY <2>2, <3>2, <3>3 DEF TypeOK
  <2>4. UNCHANGED <<want, since, status, result, taken, age, timer>>
    BY <1>1 DEF Publish
  <2>5. DOMAIN queues' \subseteq Subscribers
    BY <2>2 DEF TypeOK
  <2> QED BY <2>1, <2>2, <2>3, <2>4, <2>5 DEF TypeOK
<1>2. ASSUME NEW w \in Waiters, WaitForStart(w) PROVE TypeOK'
  <2>1. {want[w].event} \in SUBSET Events /\ w \in Subscribers
    BY DEF TypeOK, Subscribers
  <2>2. age' \in [Waiters -> Nat] /\ timer' \in [Waiters -> Nat]
    BY <1>2, BusAssumption DEF WaitForStart, TypeOK
  <2> QED BY <1>2, <2>1, <2>2, SubscribeType DEF WaitForStart
<1>3. ASSUME NEW w \in Waiters, WaitForGet(w) \/ WaitForTimeout(w) \/ WaitForCancel(w) PROVE TypeOK'
  <2> DEFINE q == queues[w].queue
  <2>1. w \in DOMAIN queues /\ UNCHANGED <<published, want, since, taken, age>>
    BY <1>3, WaiterTurn
  <2>2. Remaining(w) \in Nat
    BY BusAssumption DEF TypeOK, Remaining
  <2>3. q \in Seq(Message) /\ Len(q) <= MaxQueue
    BY <2>1 DEF TypeOK
  <2>4. q # <<>> => Head(q) \in Message /\ Tail(q) \in Seq(Message) /\ Len(Tail(q)) <= MaxQueue
    BY <2>3, BusAssumption
  <2>5. CASE Matches(w)
    <3>1. q # <<>>
      BY <2>5 DEF Matches, WaitForGet
    <3> QED BY <2>1, <2>4, <2>5, <3>1, UnsubscribedFacts DEF TypeOK, Matches
  <2>6. CASE GoesRound(w)
    BY <2>1, <2>2, <2>4, <2>6 DEF TypeOK, GoesRound
  <2>7. CASE Ends(w)
    <3>1. timer' \in [Waiters -> Nat]
      BY <2>2, <2>7 DEF TypeOK, Ends
    <3>2. status' \in [Subscribers -> {"new", "waiting", "answered", "timeout", "closed"}]
      BY <2>7 DEF TypeOK, Ends
    <3>3. queues' = Unsubscribed(w) /\ UNCHANGED result
      BY <2>7 DEF Ends
    <3> QED BY <2>1, <3>1, <3>2, <3>3, UnsubscribedFacts DEF TypeOK
  <2> QED BY <1>3, <2>5, <2>6, <2>7, WaiterTurn
<1>4. CASE Tick
  <2>1. timer' \in [Waiters -> Nat] /\ age' \in [Waiters -> Nat]
    BY <1>4 DEF Tick, TypeOK
  <2> QED BY <1>4, <2>1 DEF Tick, TypeOK
<1>5. ASSUME NEW s \in Streams, StreamStart(s) PROVE TypeOK'
  BY <1>5, SubscribeType DEF StreamStart, Subscribers, TypeOK, clocks
<1>6. ASSUME NEW s \in Streams, StreamGet(s) PROVE TypeOK'
  <2> DEFINE q == queues[s].queue
  <2>1. q \in Seq(Message) /\ q # <<>> /\ Len(q) <= MaxQueue
    BY <1>6 DEF TypeOK, StreamGet
  <2>2. Head(q) \in Message /\ Tail(q) \in Seq(Message) /\ Len(Tail(q)) <= MaxQueue
    BY <2>1, BusAssumption
  <2>3. queues' = [queues EXCEPT ![s].queue = Tail(q)]
        /\ taken' = [taken EXCEPT ![s] = Append(taken[s], Head(q))]
    BY <1>6 DEF StreamGet
  <2>4. taken' \in [Streams -> Seq(Message)]
    BY <2>2, <2>3 DEF TypeOK
  <2>5. /\ DOMAIN queues' \subseteq Subscribers
        /\ \A t \in DOMAIN queues' : /\ queues'[t] \in [events : SUBSET Events, queue : Seq(Message)]
                                    /\ Len(queues'[t].queue) <= MaxQueue
    BY <2>2, <2>3 DEF TypeOK
  <2>6. UNCHANGED <<published, want, since, status, result, age, timer>>
    BY <1>6 DEF StreamGet
  <2> QED BY <2>4, <2>5, <2>6 DEF TypeOK
<1>7. ASSUME NEW s \in Streams, StreamCancel(s) PROVE TypeOK'
  BY <1>7, UnsubscribedFacts DEF TypeOK, StreamCancel
<1>8. CASE UNCHANGED vars
  BY <1>8 DEF TypeOK, vars
<1> QED BY <1>1, <1>2, <1>3, <1>4, <1>5, <1>6, <1>7, <1>8 DEF Next, WaiterStep, StreamStep

-------------------------------------------------------------------------------
(* Which subscriptions there are.                                          *)

LEMMA SubscribeSubscriptions ==
    ASSUME TypeOK, Subscriptions, NEW s \in Subscribers, NEW events, Subscribe(s, events),
           s \in Waiters => events = {want[s].event},
           s \in Streams => events = Events
    PROVE  Subscriptions'
<1>1. /\ DOMAIN queues' = DOMAIN queues \cup {s}
      /\ queues'[s] = [events |-> events, queue |-> <<>>]
      /\ \A t \in DOMAIN queues' : t # s => queues'[t] = queues[t]
      /\ UNCHANGED <<published, want, result, taken>>
  BY DEF Subscribe
<1>2. /\ status'[s] = "waiting" /\ since'[s] = Len(published)
      /\ \A t \in Subscribers : t # s => status'[t] = status[t] /\ since'[t] = since[t]
  BY DEF Subscribe, TypeOK
<1>3. Len(published) \in Nat
  BY DEF TypeOK
<1>4. \A t \in Subscribers : (t \in DOMAIN queues' <=> status'[t] = "waiting")
                             /\ since'[t] <= Len(published')
  BY <1>1, <1>2, <1>3 DEF Subscriptions
<1>5. \A t \in Streams : status'[t] = "new" => taken'[t] = <<>>
  BY <1>1, <1>2 DEF Subscriptions, Subscribers
<1>6. \A t \in Waiters : t \in DOMAIN queues' => queues'[t].events = {want'[t].event}
  BY <1>1 DEF Subscriptions
<1>7. \A t \in Streams : t \in DOMAIN queues' => queues'[t].events = Events
  BY <1>1 DEF Subscriptions
<1> QED BY <1>4, <1>5, <1>6, <1>7 DEF Subscriptions

LEMMA UnsubscribeSubscriptions ==
    ASSUME TypeOK, Subscriptions, NEW s \in Subscribers, NEW verdict,
           verdict \notin {"new", "waiting"},
           queues' = Unsubscribed(s), status' = [status EXCEPT ![s] = verdict],
           UNCHANGED <<published, want, since, taken>>
    PROVE  Subscriptions'
<1>1. /\ status'[s] = verdict
      /\ \A t \in Subscribers : t # s => status'[t] = status[t]
  BY DEF TypeOK
<1>2. /\ DOMAIN queues' = DOMAIN queues \ {s}
      /\ \A t \in DOMAIN queues' : queues'[t] = queues[t]
  BY UnsubscribedFacts
<1>3. \A t \in Subscribers : (t \in DOMAIN queues' <=> status'[t] = "waiting")
                             /\ since'[t] <= Len(published')
  BY <1>1, <1>2 DEF Subscriptions
<1>4. \A t \in Streams : status'[t] = "new" => taken'[t] = <<>>
  BY <1>1 DEF Subscriptions, Subscribers
<1> QED BY <1>2, <1>3, <1>4 DEF Subscriptions

LEMMA SubscriptionsStep == TypeOK /\ Subscriptions /\ [Next]_vars => Subscriptions'
<1> SUFFICES ASSUME TypeOK, Subscriptions, [Next]_vars PROVE Subscriptions'
  OBVIOUS
<1>1. ASSUME NEW e \in Events, NEW d \in Data, Publish(e, d) PROVE Subscriptions'
  <2>1. Len(published') = Len(published) + 1 /\ Len(published) \in Nat
    BY <1>1 DEF Publish, TypeOK
  <2>2. /\ DOMAIN queues' = DOMAIN queues
        /\ \A s \in DOMAIN queues : queues'[s].events = queues[s].events
    BY <1>1 DEF Publish, TypeOK
  <2> QED BY <1>1, <2>1, <2>2 DEF Subscriptions, Publish, TypeOK, Subscribers
<1>2. ASSUME NEW w \in Waiters, WaitForStart(w) PROVE Subscriptions'
  BY <1>2, SubscribeSubscriptions, BusAssumption DEF WaitForStart, Subscribers
<1>3. ASSUME NEW w \in Waiters, WaitForGet(w) \/ WaitForTimeout(w) \/ WaitForCancel(w)
      PROVE  Subscriptions'
  <2>1. w \in DOMAIN queues /\ w \in Subscribers /\ UNCHANGED <<published, want, since, taken>>
    BY <1>3, WaiterTurn DEF Subscribers
  <2>2. CASE Matches(w)
    BY <2>1, <2>2, UnsubscribeSubscriptions DEF Matches
  <2>3. CASE GoesRound(w)
    BY <2>1, <2>3 DEF Subscriptions, TypeOK, GoesRound
  <2>4. CASE Ends(w)
    <3>1. queues' = Unsubscribed(w)
      BY <2>4 DEF Ends
    <3>2. CASE status' = [status EXCEPT ![w] = "closed"]
      BY <2>1, <3>1, <3>2, UnsubscribeSubscriptions
    <3>3. CASE status' = [status EXCEPT ![w] = "timeout"]
      BY <2>1, <3>1, <3>3, UnsubscribeSubscriptions
    <3> QED BY <2>4, <3>2, <3>3 DEF Ends
  <2> QED BY <1>3, <2>2, <2>3, <2>4, WaiterTurn
<1>4. CASE Tick
  BY <1>4 DEF Tick, Subscriptions
<1>5. ASSUME NEW s \in Streams, StreamStart(s) PROVE Subscriptions'
  BY <1>5, SubscribeSubscriptions, BusAssumption DEF StreamStart, Subscribers
<1>6. ASSUME NEW s \in Streams, StreamGet(s) PROVE Subscriptions'
  <2>1. /\ DOMAIN queues' = DOMAIN queues
        /\ \A t \in DOMAIN queues : queues'[t].events = queues[t].events
    BY <1>6 DEF StreamGet, TypeOK
  <2>2. status[s] = "waiting" /\ \A t \in Streams : t # s => taken'[t] = taken[t]
    BY <1>6 DEF StreamGet, TypeOK, Subscriptions, Subscribers
  <2> QED BY <1>6, <2>1, <2>2 DEF Subscriptions, StreamGet
<1>7. ASSUME NEW s \in Streams, StreamCancel(s) PROVE Subscriptions'
  BY <1>7, UnsubscribeSubscriptions DEF StreamCancel, Subscribers
<1>8. CASE UNCHANGED vars
  BY <1>8 DEF Subscriptions, vars
<1> QED BY <1>1, <1>2, <1>3, <1>4, <1>5, <1>6, <1>7, <1>8 DEF Next, WaiterStep, StreamStep

-------------------------------------------------------------------------------
(* The deadline of a waiting call.                                         *)

LEMMA InTimeStep == TypeOK /\ Subscriptions /\ InTime /\ [Next]_vars => InTime'
<1> SUFFICES ASSUME TypeOK, Subscriptions, InTime, [Next]_vars PROVE InTime'
  OBVIOUS
<1>1. ASSUME NEW w \in Waiters, WaitForStart(w) PROVE InTime'
  <2>1. /\ age'[w] = 0 /\ timer'[w] = Timeout /\ status'[w] = "waiting"
        /\ \A v \in Waiters : v # w =>
              age'[v] = age[v] /\ timer'[v] = timer[v] /\ status'[v] = status[v]
    BY <1>1 DEF WaitForStart, Subscribe, TypeOK, Subscribers
  <2> QED BY <2>1, BusAssumption DEF InTime
<1>2. ASSUME NEW w \in Waiters, WaitForGet(w) \/ WaitForTimeout(w) \/ WaitForCancel(w) PROVE InTime'
  <2>1. w \in DOMAIN queues /\ UNCHANGED age /\ w \in Subscribers
    BY <1>2, WaiterTurn DEF Subscribers
  <2>2. status[w] = "waiting" /\ age[w] + timer[w] = Timeout /\ age[w] \in Nat /\ timer[w] \in Nat
    BY <2>1 DEF Subscriptions, InTime, TypeOK
  <2>3. Remaining(w) = timer[w]
    BY <2>2, BusAssumption DEF Remaining
  <2>4. timer' = timer
    <3>1. timer' = timer \/ timer' = [timer EXCEPT ![w] = timer[w]]
      BY <1>2, <2>3, WaiterTurn DEF Matches, GoesRound, Ends
    <3> QED BY <3>1 DEF TypeOK
  <2>5. \A v \in Waiters : v # w => status'[v] = status[v]
    BY <1>2, WaiterTurn DEF Matches, GoesRound, Ends, TypeOK, Subscribers
  <2>6. \/ status'[w] \in {"answered", "closed", "waiting"}
        \/ status'[w] = "timeout" /\ timer[w] = 0
    BY <1>2, <2>1, <2>2, <2>3, WaiterTurn DEF Matches, GoesRound, Ends, TypeOK
  <2> QED BY <2>1, <2>2, <2>4, <2>5, <2>6 DEF InTime
<1>3. CASE Tick
  <2> SUFFICES ASSUME NEW w \in Waiters
               PROVE  /\ status'[w] = "waiting" => age'[w] + timer'[w] = Timeout
                      /\ status'[w] = "timeout" => age'[w] = Timeout
    BY DEF InTime
  <2>1. age[w] \in Nat /\ timer[w] \in Nat /\ UNCHANGED status
    BY <1>3 DEF Tick, TypeOK
  <2>2. CASE status[w] = "waiting"
    <3>1. timer[w] > 0 /\ age'[w] = age[w] + 1 /\ timer'[w] = timer[w] - 1
      BY <1>3, <2>2 DEF Tick
    <3> QED BY <2>1, <2>2, <3>1, BusAssumption DEF InTime
  <2>3. CASE status[w] # "waiting"
    <3>1. age'[w] = age[w]
      BY <1>3, <2>3 DEF Tick
    <3> QED BY <2>1, <2>3, <3>1 DEF InTime
  <2> QED BY <2>2, <2>3
<1>4. ASSUME NEW s \in Streams, StreamStep(s) PROVE InTime'
  <2>1. UNCHANGED <<age, timer>> /\ \A w \in Waiters : status'[w] = status[w]
    BY <1>4, BusAssumption DEF StreamStep, StreamStart, StreamGet, StreamCancel, Subscribe, clocks,
       TypeOK, Subscribers
  <2> QED BY <2>1 DEF InTime
<1>5. ASSUME NEW e \in Events, NEW d \in Data, Publish(e, d) PROVE InTime'
  BY <1>5 DEF Publish, InTime
<1>6. CASE UNCHANGED vars
  BY <1>6 DEF vars, InTime
<1> QED BY <1>1, <1>2, <1>3, <1>4, <1>5, <1>6 DEF Next, WaiterStep

-------------------------------------------------------------------------------
(* What is in the queues.                                                  *)

Suffix(s) ==
    LET q == queues[s].queue IN
    /\ \A i \in DOMAIN q : /\ q[i].n \in Heard(s)
                           /\ published[q[i].n] = <<q[i].event, q[i].data>>
    /\ \A j, k \in DOMAIN q : j < k => q[j].n < q[k].n
    /\ \A h \in Heard(s) : h \in Queued(s) \/ \A j \in DOMAIN q : h < q[j].n

LEMMA SuffixOfEach == QueueIsNewestSuffix <=> \A s \in DOMAIN queues : Suffix(s)
BY DEF QueueIsNewestSuffix, Suffix, Queued, Heard

\* Publish adds to what a subscriber has heard, and nothing else.
LEMMA PublishHeard ==
    ASSUME TypeOK, Subscriptions, NEW e \in Events, NEW d \in Data, Publish(e, d),
           NEW s \in DOMAIN queues
    PROVE  /\ Len(published) \in Nat /\ Len(published') = Len(published) + 1
           /\ \A i \in 1..Len(published) : published'[i] = published[i]
           /\ published'[Len(published) + 1] = <<e, d>>
           /\ Heard(s) \subseteq 1..Len(published)
           /\ e \in queues[s].events => Heard(s)' = Heard(s) \cup {Len(published) + 1}
           /\ e \notin queues[s].events => Heard(s)' = Heard(s)
<1>1. /\ Len(published) \in Nat /\ Len(published') = Len(published) + 1
      /\ \A i \in 1..Len(published) : published'[i] = published[i]
      /\ published'[Len(published) + 1] = <<e, d>>
  BY DEF Publish, TypeOK
<1>2. since'[s] = since[s] /\ since[s] \in Nat /\ since[s] <= Len(published)
  BY DEF Publish, TypeOK, Subscriptions
<1>3. queues'[s].events = queues[s].events
  BY DEF Publish, TypeOK
<1>4. Heard(s) = {i \in (since[s] + 1)..Len(published) : published[i][1] \in queues[s].events}
  BY DEF Heard, Promise!Heard
<1>5. Heard(s)' = {i \in (since[s] + 1)..(Len(published) + 1) : published'[i][1] \in queues[s].events}
  BY <1>1, <1>2, <1>3 DEF Heard, Promise!Heard
<1>6. Heard(s) \subseteq 1..Len(published)
  BY <1>1, <1>2, <1>4
<1>7. ASSUME NEW i PROVE i \in Heard(s)' <=> \/ i \in Heard(s)
                                             \/ i = Len(published) + 1 /\ e \in queues[s].events
  BY <1>1, <1>2, <1>4, <1>5
<1> QED BY <1>1, <1>6, <1>7

\* Publish to a subscriber that asked for the event: the new publication is queued,
\* and one that falls out of the queue was overtaken.
LEMMA PublishQueued ==
    ASSUME TypeOK, Subscriptions, NEW e \in Events, NEW d \in Data, Publish(e, d),
           NEW s \in DOMAIN queues, Suffix(s), e \in queues[s].events
    PROVE  /\ Suffix(s)'
           /\ Queued(s)' \subseteq Queued(s) \cup {Len(published) + 1}
           /\ Len(published) + 1 \in Queued(s)'
           /\ \A h \in Queued(s) : h \in Queued(s)' \/ Promise!Overtaken(h, Heard(s)')
<1> DEFINE m == [n |-> Len(published) + 1, event |-> e, data |-> d]
           q == queues[s].queue
           r == Offer(q, m)
           N == Len(published) + 1
<1>1. MaxQueue \in Nat /\ MaxQueue >= 1
  BY BusAssumption
<1>2. q \in Seq(Message) /\ Len(q) <= MaxQueue /\ m \in Message /\ m.n = N /\ N \in Nat
  <2>1. q \in Seq(Message) /\ Len(q) <= MaxQueue
    BY DEF TypeOK
  <2>2. m.n = N /\ N \in Nat
    BY DEF TypeOK
  <2>3. m \in Message
    BY <2>2 DEF Message
  <2> QED BY <2>1, <2>2, <2>3
<1>3. queues'[s].queue = r
  BY DEF Publish, TypeOK
<1>4. /\ r \in Seq(Message)
      /\ Len(r) \in 1..MaxQueue
      /\ r[Len(r)] = m
      /\ \/ /\ Len(q) < MaxQueue /\ Len(r) = Len(q) + 1
            /\ \A i \in 1..Len(q) : r[i] = q[i]
         \/ /\ Len(q) = MaxQueue /\ Len(r) = MaxQueue
            /\ \A i \in 1..(MaxQueue - 1) : r[i] = q[i + 1]
  <2> HIDE DEF m, q
  <2> QED BY <1>2, OfferFacts
<1>5. /\ \A i \in 1..Len(published) : published'[i] = published[i]
      /\ published'[N] = <<e, d>>
      /\ Heard(s) \subseteq 1..Len(published)
      /\ Heard(s)' = Heard(s) \cup {N}
  BY PublishHeard
<1>6. /\ \A i \in 1..Len(q) : q[i].n \in Heard(s) /\ published[q[i].n] = <<q[i].event, q[i].data>>
      /\ \A j, k \in 1..Len(q) : j < k => q[j].n < q[k].n
      /\ \A h \in Heard(s) : (\E i \in 1..Len(q) : q[i].n = h) \/ \A j \in 1..Len(q) : h < q[j].n
  <2>1. DOMAIN q = 1..Len(q)
    BY <1>2
  <2> QED BY <2>1 DEF Suffix, Queued
<1>7. DOMAIN r = 1..Len(r) /\ Len(q) \in Nat
  BY <1>2, <1>4
<1>8. Queued(s) = {q[i].n : i \in 1..Len(q)} /\ Queued(s)' = {r[i].n : i \in 1..Len(r)}
  BY <1>2, <1>3, <1>7 DEF Queued
<1> HIDE DEF m, q, r
<1> DEFINE a == [i \in 1..Len(q) |-> q[i].n]
           b == [i \in 1..Len(r) |-> r[i].n]
<1>9. /\ a \in [1..Len(q) -> Nat] /\ b \in [1..Len(r) -> Nat]
      /\ \A i \in 1..Len(q) : a[i] = q[i].n
      /\ \A i \in 1..Len(r) : b[i] = r[i].n
  <2>1. \A i \in 1..Len(q) : q[i].n \in Nat
    <3>1. \A i \in 1..Len(q) : q[i] \in Message
      BY <1>2
    <3> QED BY <3>1 DEF Message
  <2>2. \A i \in 1..Len(r) : r[i].n \in Nat
    <3>1. \A i \in 1..Len(r) : r[i] \in Message
      BY <1>4
    <3> QED BY <3>1 DEF Message
  <2> QED BY <2>1, <2>2
<1>10. /\ \A i \in 1..Len(q) : a[i] < N
       /\ \A j, k \in 1..Len(q) : j < k => a[j] < a[k]
  <2>1. \A i \in 1..Len(q) : q[i].n \in 1..Len(published)
    BY <1>5, <1>6
  <2>2. \A i \in 1..Len(q) : q[i].n < N
    BY <2>1 DEF TypeOK
  <2> QED BY <2>2, <1>6, <1>9
<1>11. /\ Len(r) \in 1..MaxQueue /\ b[Len(r)] = N
       /\ \/ /\ Len(q) < MaxQueue /\ Len(r) = Len(q) + 1
             /\ \A i \in 1..Len(q) : b[i] = a[i]
          \/ /\ Len(q) = MaxQueue /\ Len(r) = MaxQueue
             /\ \A i \in 1..(MaxQueue - 1) : b[i] = a[i + 1]
  <2>1. Len(r) \in 1..MaxQueue /\ Len(r) \in 1..Len(r) /\ b[Len(r)] = N
    BY <1>1, <1>2, <1>4, <1>9
  <2>2. CASE /\ Len(q) < MaxQueue /\ Len(r) = Len(q) + 1
             /\ \A i \in 1..Len(q) : r[i] = q[i]
    <3>1. \A i \in 1..Len(q) : i \in 1..Len(r)
      BY <2>2, <1>7
    <3> QED BY <2>1, <2>2, <3>1, <1>9
  <2>3. CASE /\ Len(q) = MaxQueue /\ Len(r) = MaxQueue
             /\ \A i \in 1..(MaxQueue - 1) : r[i] = q[i + 1]
    <3>1. \A i \in 1..(MaxQueue - 1) : i \in 1..Len(r) /\ i + 1 \in 1..Len(q)
      BY <2>3, <1>1
    <3> QED BY <2>1, <2>3, <3>1, <1>9
  <2> QED BY <2>1, <2>2, <2>3, <1>4
<1> HIDE DEF a, b
<1>12. /\ \A j, k \in 1..Len(r) : j < k => r[j].n < r[k].n
       /\ \A i \in 1..Len(q) : \/ \E k \in 1..Len(r) : r[k].n = q[i].n
                               \/ Len(r) = MaxQueue /\ \A k \in 1..Len(r) : q[i].n < r[k].n
  <2>1. /\ \A j, k \in 1..Len(r) : j < k => b[j] < b[k]
        /\ \A i \in 1..Len(q) : \/ \E k \in 1..Len(r) : b[k] = a[i]
                                \/ Len(r) = MaxQueue /\ \A k \in 1..Len(r) : a[i] < b[k]
    <3>1. N \in Nat
      BY <1>2
    <3> HIDE DEF N
    <3>2. Len(q) \in Nat /\ Len(r) \in Nat
      BY <1>2, <1>4
    <3>3. Shift(MaxQueue, N, Len(q), Len(r), a, b)
      BY <1>9, <1>10, <1>11 DEF Shift
    <3> QED BY <3>1, <3>2, <3>3, <1>1, Shifted
  <2> QED BY <2>1, <1>9
<1>13. ASSUME NEW i \in 1..Len(r), i # Len(r)
       PROVE  \E k \in 1..Len(q) : r[i] = q[k]
  <2>1. CASE /\ Len(q) < MaxQueue /\ Len(r) = Len(q) + 1
             /\ \A j \in 1..Len(q) : r[j] = q[j]
    <3>1. i \in 1..Len(q)
      BY <2>1, <1>7, <1>13
    <3> QED BY <2>1, <3>1
  <2>2. CASE /\ Len(q) = MaxQueue /\ Len(r) = MaxQueue
             /\ \A j \in 1..(MaxQueue - 1) : r[j] = q[j + 1]
    <3>1. i \in 1..(MaxQueue - 1) /\ i + 1 \in 1..Len(q)
      BY <2>2, <1>1, <1>13
    <3> QED BY <2>2, <3>1
  <2> QED BY <2>1, <2>2, <1>4
<1>14. \A i \in 1..Len(r) : /\ r[i].n \in Heard(s)'
                            /\ published'[r[i].n] = <<r[i].event, r[i].data>>
                            /\ r[i].n \in Queued(s) \cup {N}
  <2> SUFFICES ASSUME NEW i \in 1..Len(r)
               PROVE  /\ r[i].n \in Heard(s)'
                      /\ published'[r[i].n] = <<r[i].event, r[i].data>>
                      /\ r[i].n \in Queued(s) \cup {N}
    OBVIOUS
  <2>1. CASE i = Len(r)
    <3>1. m.event = e /\ m.data = d
      BY DEF m
    <3> QED BY <2>1, <3>1, <1>2, <1>4, <1>5
  <2>2. CASE i # Len(r)
    BY <2>2, <1>5, <1>6, <1>8, <1>13
  <2> QED BY <2>1, <2>2
<1>15. N \in Queued(s)' /\ Queued(s)' \subseteq Queued(s) \cup {N}
  <2>1. Len(r) \in 1..Len(r) /\ r[Len(r)].n = N
    BY <1>1, <1>2, <1>4
  <2> QED BY <2>1, <1>8, <1>14
<1>16. ASSUME NEW h \in Queued(s), h \notin Queued(s)'
       PROVE  /\ \A i \in 1..Len(r) : h < r[i].n
              /\ Promise!Overtaken(h, Heard(s)')
  <2>1. PICK i \in 1..Len(q) : h = q[i].n
    BY <1>8
  <2>2. Len(r) = MaxQueue /\ \A k \in 1..Len(r) : h < r[k].n
    BY <2>1, <1>8, <1>12, <1>16
  <2> DEFINE newer == [j \in 1..MaxQueue |-> r[j].n]
  <2>3. newer \in [1..MaxQueue -> Heard(s)']
    BY <2>2, <1>14
  <2>4. \A j \in 1..MaxQueue : newer[j] > h
    <3>1. h \in Nat /\ \A j \in 1..MaxQueue : h < r[j].n /\ r[j].n \in Nat
      BY <2>1, <2>2, <1>9
    <3> QED BY <3>1
  <2>5. \A j, k \in 1..MaxQueue : j < k => newer[j] < newer[k]
    BY <2>2, <1>12
  <2> HIDE DEF newer
  <2>6. Promise!Overtaken(h, Heard(s)')
    BY <2>3, <2>4, <2>5 DEF Promise!Overtaken
  <2> QED BY <2>2, <2>6
<1>17. \A h \in Heard(s)' : h \in Queued(s)' \/ \A j \in 1..Len(r) : h < r[j].n
  <2> SUFFICES ASSUME NEW h \in Heard(s)', h \notin Queued(s)'
               PROVE  \A j \in 1..Len(r) : h < r[j].n
    OBVIOUS
  <2>1. h \in Heard(s) /\ h \in 1..Len(published)
    BY <1>5, <1>15
  <2>2. CASE h \in Queued(s)
    BY <2>2, <1>16
  <2>3. CASE h \notin Queued(s)
    <3>1. \A j \in 1..Len(q) : h < q[j].n
      BY <2>1, <2>3, <1>6, <1>8
    <3>2. h < N
      BY <2>1 DEF TypeOK
    <3> SUFFICES ASSUME NEW j \in 1..Len(r) PROVE h < r[j].n
      OBVIOUS
    <3>3. CASE j = Len(r)
      BY <3>2, <3>3, <1>2, <1>4
    <3>4. CASE j # Len(r)
      BY <3>1, <3>4, <1>13
    <3> QED BY <3>3, <3>4
  <2> QED BY <2>2, <2>3
<1>18. Suffix(s)'
  BY <1>3, <1>7, <1>8, <1>12, <1>14, <1>17 DEF Suffix
<1> QED BY <1>15, <1>16, <1>18

\* Publish to a subscriber of other events changes nothing for it.
LEMMA PublishOther ==
    ASSUME TypeOK, Subscriptions, NEW e \in Events, NEW d \in Data, Publish(e, d),
           NEW s \in DOMAIN queues, Suffix(s), e \notin queues[s].events
    PROVE  Suffix(s)' /\ Queued(s)' = Queued(s) /\ Heard(s)' = Heard(s)
<1>1. queues'[s] = queues[s]
  BY DEF Publish
<1>2. /\ Heard(s)' = Heard(s) /\ Heard(s) \subseteq 1..Len(published)
      /\ \A i \in 1..Len(published) : published'[i] = published[i]
  BY PublishHeard
<1>3. Queued(s)' = Queued(s)
  BY <1>1 DEF Queued
<1>4. \A i \in DOMAIN queues[s].queue :
         published'[queues[s].queue[i].n] = published[queues[s].queue[i].n]
  BY <1>2 DEF Suffix
<1> QED BY <1>1, <1>2, <1>3, <1>4 DEF Suffix

\* Nor does a step of another subscriber.
LEMMA Untouched ==
    ASSUME NEW s \in DOMAIN queues, queues'[s] = queues[s], since'[s] = since[s],
           published' = published
    PROVE  /\ Queued(s)' = Queued(s) /\ Heard(s)' = Heard(s)
           /\ Suffix(s) => Suffix(s)'
<1>1. Queued(s)' = Queued(s)
  BY DEF Queued
<1>2. Heard(s)' = Heard(s)
  BY DEF Heard, Promise!Heard
<1> QED BY <1>1, <1>2 DEF Suffix

\* A fresh subscription has heard nothing.
LEMMA Fresh ==
    ASSUME TypeOK, NEW s \in Subscribers, NEW events, Subscribe(s, events)
    PROVE  Suffix(s)' /\ Queued(s)' = {} /\ Heard(s)' = {}
<1>1. queues'[s].queue = <<>> /\ since'[s] = Len(published') /\ Len(published') \in Nat
  BY DEF Subscribe, TypeOK
<1>2. \A n \in Nat : (n + 1)..n = {}
  OBVIOUS
<1>3. Heard(s)' = {}
  BY <1>1, <1>2 DEF Heard, Promise!Heard
<1>4. Queued(s)' = {}
  BY <1>1 DEF Queued
<1> QED BY <1>1, <1>3, <1>4 DEF Suffix

\* To take the head of a queue takes the least of what it holds.
LEMMA Taking ==
    ASSUME TypeOK, NEW s \in DOMAIN queues, Suffix(s), queues[s].queue # <<>>,
           queues' = [queues EXCEPT ![s].queue = Tail(queues[s].queue)],
           UNCHANGED <<published, since>>
    PROVE  /\ Suffix(s)' /\ Heard(s)' = Heard(s)
           /\ Queued(s)' = Queued(s) \ {Head(queues[s].queue).n}
           /\ \A h \in Queued(s)' : Head(queues[s].queue).n < h
<1> DEFINE q == queues[s].queue
           r == Tail(q)
<1>1. /\ q \in Seq(Message) /\ q # <<>> /\ r \in Seq(Message) /\ Head(q) = q[1]
      /\ Len(q) \in Nat /\ Len(q) >= 1 /\ Len(r) = Len(q) - 1
      /\ DOMAIN q = 1..Len(q) /\ DOMAIN r = 1..Len(r)
      /\ \A i \in 1..Len(r) : i + 1 \in 1..Len(q) /\ r[i] = q[i + 1]
  BY DEF TypeOK
<1>2. queues'[s].queue = r /\ queues'[s].events = queues[s].events
  BY DEF TypeOK
<1>3. Heard(s)' = Heard(s)
  BY <1>2 DEF Heard, Promise!Heard
<1>4. /\ \A i \in 1..Len(q) : q[i].n \in Heard(s) /\ published[q[i].n] = <<q[i].event, q[i].data>>
      /\ \A j, k \in 1..Len(q) : j < k => q[j].n < q[k].n
      /\ \A h \in Heard(s) : h \in Queued(s) \/ \A j \in 1..Len(q) : h < q[j].n
      /\ Queued(s) = {q[i].n : i \in 1..Len(q)}
  BY <1>1 DEF Suffix, Queued
<1>5. Queued(s)' = {r[i].n : i \in 1..Len(r)}
  BY <1>1, <1>2 DEF Queued
<1> HIDE DEF q, r
<1>6. \A i \in 1..Len(r) : q[1].n < r[i].n
  <2> TAKE i \in 1..Len(r)
  <2>1. i + 1 \in 1..Len(q) /\ 1 \in 1..Len(q) /\ 1 < i + 1 /\ r[i] = q[i + 1]
    BY <1>1
  <2> QED BY <2>1, <1>4
<1>7. \A j, k \in 1..Len(r) : j < k => r[j].n < r[k].n
  <2> TAKE j, k \in 1..Len(r)
  <2>1. /\ j + 1 \in 1..Len(q) /\ r[j] = q[j + 1]
        /\ k + 1 \in 1..Len(q) /\ r[k] = q[k + 1]
        /\ j < k => j + 1 < k + 1
    BY <1>1
  <2> QED BY <2>1, <1>4
<1>8. Queued(s)' = Queued(s) \ {q[1].n}
  <2>1. ASSUME NEW i \in 1..Len(q), q[i].n # q[1].n PROVE q[i].n \in Queued(s)'
    <3>1. i - 1 \in 1..Len(r) /\ (i - 1) + 1 = i
      BY <2>1, <1>1
    <3>2. r[i - 1] = q[i]
      BY <3>1, <1>1
    <3> QED BY <3>1, <3>2, <1>5
  <2>2. ASSUME NEW i \in 1..Len(r) PROVE r[i].n \in Queued(s) /\ r[i].n # q[1].n
    <3>1. r[i].n \in Queued(s)
      BY <1>1, <1>4
    <3>2. q[1].n \in Nat /\ r[i].n \in Nat
      <4>1. q[1] \in Message /\ r[i] \in Message
        BY <1>1
      <4> QED BY <4>1 DEF Message
    <3>3. q[1].n < r[i].n
      BY <1>6
    <3> QED BY <3>1, <3>2, <3>3
  <2> QED BY <2>1, <2>2, <1>4, <1>5
<1>9. \A h \in Heard(s) : h \in Queued(s)' \/ \A j \in 1..Len(r) : h < r[j].n
  <2> TAKE h \in Heard(s)
  <2>1. CASE h = q[1].n
    BY <2>1, <1>6
  <2>2. CASE h # q[1].n /\ h \in Queued(s)
    BY <2>2, <1>8
  <2>3. CASE h \notin Queued(s)
    BY <2>3, <1>1, <1>4
  <2> QED BY <2>1, <2>2, <2>3
<1>10. \A i \in 1..Len(r) : r[i].n \in Heard(s) /\ published[r[i].n] = <<r[i].event, r[i].data>>
  BY <1>1, <1>4
<1>11. Suffix(s)'
  <2>1. queues'[s].queue = r /\ DOMAIN r = 1..Len(r) /\ published' = published
    BY <1>1, <1>2
  <2> QED BY <2>1, <1>3, <1>7, <1>9, <1>10 DEF Suffix
<1>12. \A h \in Queued(s)' : Head(q).n < h
  BY <1>1, <1>5, <1>6
<1>13. Queued(s)' = Queued(s) \ {Head(q).n}
  BY <1>1, <1>8
<1> QED BY <1>3, <1>11, <1>12, <1>13 DEF q

LEMMA SuffixStep ==
    ASSUME TypeOK, Subscriptions, QueueIsNewestSuffix, [Next]_vars
    PROVE  QueueIsNewestSuffix'
<1>0. \A s \in DOMAIN queues : Suffix(s)
  BY SuffixOfEach
<1> SUFFICES ASSUME NEW s \in DOMAIN queues' PROVE Suffix(s)'
  BY DEF QueueIsNewestSuffix, Suffix, Queued, Heard
<1>1. ASSUME NEW e \in Events, NEW d \in Data, Publish(e, d) PROVE Suffix(s)'
  <2>1. s \in DOMAIN queues
    BY <1>1 DEF Publish
  <2> QED BY <1>0, <1>1, <2>1, PublishQueued, PublishOther
<1>2. ASSUME NEW t \in Subscribers, NEW events, Subscribe(t, events) PROVE Suffix(s)'
  <2>1. CASE s = t
    BY <1>2, <2>1, Fresh
  <2>2. CASE s # t
    <3>1. s \in DOMAIN queues /\ queues'[s] = queues[s] /\ since'[s] = since[s]
          /\ published' = published
      BY <1>2, <2>2 DEF Subscribe, TypeOK
    <3> QED BY <1>0, <3>1, Untouched
  <2> QED BY <2>1, <2>2
<1>3. ASSUME NEW t, queues' = Unsubscribed(t), UNCHANGED <<published, since>> PROVE Suffix(s)'
  <2>1. s \in DOMAIN queues /\ queues'[s] = queues[s]
    BY <1>3, UnsubscribedFacts
  <2> QED BY <1>0, <1>3, <2>1, Untouched
<1>4. ASSUME NEW t \in DOMAIN queues, queues[t].queue # <<>>,
             queues' = [queues EXCEPT ![t].queue = Tail(queues[t].queue)],
             UNCHANGED <<published, since>>
      PROVE  Suffix(s)'
  <2>1. CASE s = t
    BY <1>0, <1>4, <2>1, Taking
  <2>2. CASE s # t
    <3>1. s \in DOMAIN queues /\ queues'[s] = queues[s]
      BY <1>4, <2>2
    <3> QED BY <1>0, <1>4, <3>1, Untouched
  <2> QED BY <2>1, <2>2
<1>5. ASSUME NEW w \in Waiters, WaiterStep(w) PROVE Suffix(s)'
  <2>1. CASE WaitForStart(w)
    BY <2>1, <1>2 DEF WaitForStart, Subscribers
  <2>2. CASE WaitForGet(w) \/ WaitForTimeout(w) \/ WaitForCancel(w)
    <3>1. w \in DOMAIN queues /\ UNCHANGED <<published, since>>
      BY <2>2, WaiterTurn
    <3>2. \/ queues' = Unsubscribed(w)
          \/ /\ queues[w].queue # <<>>
             /\ queues' = [queues EXCEPT ![w].queue = Tail(queues[w].queue)]
      BY <2>2, WaiterTurn DEF Matches, GoesRound, Ends
    <3> QED BY <3>1, <3>2, <1>3, <1>4
  <2> QED BY <1>5, <2>1, <2>2 DEF WaiterStep
<1>6. ASSUME NEW t \in Streams, StreamStep(t) PROVE Suffix(s)'
  <2>1. CASE StreamStart(t)
    BY <2>1, <1>2 DEF StreamStart, Subscribers
  <2>2. CASE StreamGet(t)
    <3>1. /\ t \in DOMAIN queues /\ queues[t].queue # <<>> /\ UNCHANGED <<published, since>>
          /\ queues' = [queues EXCEPT ![t].queue = Tail(queues[t].queue)]
      BY <2>2 DEF StreamGet
    <3> QED BY <3>1, <1>4
  <2>3. CASE StreamCancel(t)
    BY <2>3, <1>3 DEF StreamCancel
  <2> QED BY <1>6, <2>1, <2>2, <2>3 DEF StreamStep
<1>7. CASE Tick \/ UNCHANGED vars
  <2>1. s \in DOMAIN queues /\ queues'[s] = queues[s] /\ UNCHANGED <<published, since>>
    BY <1>7 DEF vars, Tick
  <2> QED BY <1>0, <2>1, Untouched
<1> QED BY <1>1, <1>5, <1>6, <1>7 DEF Next

-------------------------------------------------------------------------------
(* What is missing from the queues.                                        *)

WaiterMissing(w) ==
    \A h \in Heard(w) : published[h][2] \in want[w].accept
        => h \in Queued(w) \/ Promise!Overtaken(h, Heard(w))

StreamMissing(s) ==
    /\ Latest(s) \in 0..Len(published)
    /\ \A h \in Queued(s) : h > Latest(s)
    /\ \A h \in Heard(s) : h > Latest(s)
         => h \in Queued(s) \/ Promise!Overtaken(h, Heard(s))

LEMMA MissingOfEach ==
    MissingWasOvertaken <=> /\ \A w \in Waiters : w \in DOMAIN queues => WaiterMissing(w)
                            /\ \A s \in Streams : s \in DOMAIN queues => StreamMissing(s)
BY DEF MissingWasOvertaken, WaiterMissing, StreamMissing

LEMMA PublishWaiterMissing ==
    ASSUME TypeOK, Subscriptions, NEW e \in Events, NEW d \in Data, Publish(e, d),
           NEW w \in Waiters, w \in DOMAIN queues, Suffix(w), WaiterMissing(w)
    PROVE  WaiterMissing(w)'
<1>1. /\ Heard(w) \subseteq 1..Len(published) /\ Heard(w) \subseteq Heard(w)'
      /\ \A i \in 1..Len(published) : published'[i] = published[i]
      /\ want' = want
  BY PublishHeard DEF Publish
<1>2. CASE e \in queues[w].events
  <2> SUFFICES ASSUME NEW h \in Heard(w)', published'[h][2] \in want[w].accept
               PROVE  h \in Queued(w)' \/ Promise!Overtaken(h, Heard(w)')
    BY <1>1 DEF WaiterMissing
  <2>1. CASE h \notin Heard(w)
    BY <1>2, <2>1, PublishHeard, PublishQueued
  <2>2. CASE h \in Heard(w)
    <3>1. h \in Queued(w) \/ Promise!Overtaken(h, Heard(w))
      BY <1>1, <2>2 DEF WaiterMissing
    <3>2. Promise!Overtaken(h, Heard(w)) => Promise!Overtaken(h, Heard(w)')
      BY <1>1, OvertakenGrows
    <3>3. h \in Queued(w) => h \in Queued(w)' \/ Promise!Overtaken(h, Heard(w)')
      BY <1>2, PublishQueued
    <3> QED BY <3>1, <3>2, <3>3
  <2> QED BY <2>1, <2>2
<1>3. CASE e \notin queues[w].events
  <2>1. Queued(w)' = Queued(w) /\ Heard(w)' = Heard(w)
    BY <1>3, PublishOther
  <2> QED BY <1>1, <2>1 DEF WaiterMissing
<1> QED BY <1>2, <1>3

LEMMA PublishStreamMissing ==
    ASSUME TypeOK, Subscriptions, NEW e \in Events, NEW d \in Data, Publish(e, d),
           NEW s \in Streams, s \in DOMAIN queues, Suffix(s), StreamMissing(s)
    PROVE  StreamMissing(s)'
<1>1. /\ Heard(s)' = Heard(s) \cup {Len(published) + 1}
      /\ Queued(s)' \subseteq Queued(s) \cup {Len(published) + 1}
      /\ Len(published) + 1 \in Queued(s)'
      /\ \A h \in Queued(s) : h \in Queued(s)' \/ Promise!Overtaken(h, Heard(s)')
      /\ Len(published) \in Nat /\ Len(published') = Len(published) + 1
  <2>1. e \in queues[s].events
    BY DEF Subscriptions
  <2> QED BY <2>1, PublishHeard, PublishQueued
<1>2. Latest(s)' = Latest(s)
  BY DEF Latest, Publish
<1>3. Latest(s)' \in 0..Len(published') /\ Len(published) + 1 > Latest(s)
  BY <1>1, <1>2 DEF StreamMissing
<1>4. \A h \in Queued(s)' : h > Latest(s)'
  BY <1>1, <1>2, <1>3 DEF StreamMissing
<1>5. ASSUME NEW h \in Heard(s)', h > Latest(s)'
      PROVE  h \in Queued(s)' \/ Promise!Overtaken(h, Heard(s)')
  <2>1. CASE h \notin Heard(s)
    BY <1>1, <2>1
  <2>2. CASE h \in Heard(s)
    <3>1. h \in Queued(s) \/ Promise!Overtaken(h, Heard(s))
      BY <1>2, <1>5, <2>2 DEF StreamMissing
    <3>2. Promise!Overtaken(h, Heard(s)) => Promise!Overtaken(h, Heard(s)')
      BY <1>1, OvertakenGrows
    <3> QED BY <3>1, <3>2, <1>1
  <2> QED BY <2>1, <2>2
<1> QED BY <1>3, <1>4, <1>5 DEF StreamMissing

\* A step that leaves a subscriber's queue alone leaves what it misses alone.
LEMMA UntouchedMissing ==
    ASSUME NEW s \in DOMAIN queues, queues'[s] = queues[s], since'[s] = since[s],
           published' = published, want' = want
    PROVE  /\ WaiterMissing(s) => WaiterMissing(s)'
           /\ taken'[s] = taken[s] /\ StreamMissing(s) => StreamMissing(s)'
<1>1. Queued(s)' = Queued(s) /\ Heard(s)' = Heard(s)
  BY Untouched
<1>2. taken'[s] = taken[s] => Latest(s)' = Latest(s)
  BY DEF Latest
<1> QED BY <1>1, <1>2 DEF WaiterMissing, StreamMissing

LEMMA RejectWaiterMissing ==
    ASSUME TypeOK, NEW w \in Waiters, w \in DOMAIN queues, Suffix(w), WaiterMissing(w),
           queues[w].queue # <<>>,
           queues' = [queues EXCEPT ![w].queue = Tail(queues[w].queue)],
           Head(queues[w].queue).data \notin want[w].accept,
           UNCHANGED <<published, want, since>>
    PROVE  WaiterMissing(w)'
<1> DEFINE head == Head(queues[w].queue)
<1>1. Heard(w)' = Heard(w) /\ Queued(w)' = Queued(w) \ {head.n}
  BY Taking
<1>2. published[head.n][2] \notin want[w].accept
  <2>1. 1 \in DOMAIN queues[w].queue /\ head = queues[w].queue[1]
    BY DEF TypeOK
  <2>2. published[head.n] = <<head.event, head.data>>
    BY <2>1 DEF Suffix
  <2> QED BY <2>2
<1> QED BY <1>1, <1>2 DEF WaiterMissing

\* What a stream takes is later than all it took before.
LEMMA TakeStreamMissing ==
    ASSUME TypeOK, Subscriptions, NEW s \in Streams, StreamGet(s), Suffix(s), StreamMissing(s)
    PROVE  /\ StreamMissing(s)'
           /\ Latest(s)' = Head(queues[s].queue).n
           /\ Head(queues[s].queue).n \in Queued(s) \cap Heard(s)
<1> DEFINE head == Head(queues[s].queue)
<1>1. /\ s \in DOMAIN queues /\ queues[s].queue # <<>>
      /\ queues' = [queues EXCEPT ![s].queue = Tail(queues[s].queue)]
      /\ taken' = [taken EXCEPT ![s] = Append(taken[s], head)]
      /\ UNCHANGED <<published, want, since>>
  BY DEF StreamGet
<1>2. /\ Heard(s)' = Heard(s) /\ Queued(s)' = Queued(s) \ {head.n}
      /\ \A h \in Queued(s)' : head.n < h
  BY <1>1, Taking
<1>3. head \in Message /\ head = queues[s].queue[1] /\ 1 \in DOMAIN queues[s].queue
  BY <1>1 DEF TypeOK
<1>4. head.n \in Queued(s) /\ head.n \in Heard(s)
  BY <1>3 DEF Suffix, Queued
<1>5. Latest(s)' = head.n
  <2>1. taken'[s] = Append(taken[s], head) /\ taken[s] \in Seq(Message)
    BY <1>1 DEF TypeOK
  <2>2. taken'[s] # <<>> /\ taken'[s][Len(taken'[s])] = head
    BY <2>1, <1>3
  <2> QED BY <2>2 DEF Latest
<1>6. head.n \in 1..Len(published) /\ Len(published) \in Nat
  <2>1. /\ Heard(s) = {i \in (since[s] + 1)..Len(published) : published[i][1] \in queues[s].events}
        /\ since[s] \in Nat /\ Len(published) \in Nat
    BY DEF Heard, Promise!Heard, TypeOK, Subscribers
  <2> QED BY <2>1, <1>4
<1>7. Latest(s) \in 0..Len(published) /\ head.n > Latest(s)
  BY <1>4 DEF StreamMissing
<1>8. ASSUME NEW h \in Heard(s)', h > Latest(s)'
      PROVE  h \in Queued(s)' \/ Promise!Overtaken(h, Heard(s)')
  <2>1. h \in Nat
    BY <1>1, <1>2, <1>8 DEF Heard, Promise!Heard, TypeOK, Subscribers
  <2>2. h > Latest(s) /\ h # head.n
    BY <2>1, <1>5, <1>6, <1>7, <1>8
  <2> QED BY <2>2, <1>2, <1>8 DEF StreamMissing
<1>9. \A h \in Queued(s)' : h > Latest(s)'
  <2>1. \A h \in Queued(s)' : h > Latest(s) /\ head.n < h
    BY <1>2 DEF StreamMissing
  <2>2. \A h \in Queued(s)' : h \in Nat
    <3>1. \A i \in DOMAIN queues[s].queue : queues[s].queue[i] \in Message
      BY <1>1 DEF TypeOK
    <3> QED BY <3>1, <1>2 DEF Queued, Message
  <2> QED BY <2>1, <2>2, <1>5, <1>6
<1>10. Latest(s)' \in 0..Len(published')
  BY <1>1, <1>5, <1>6
<1> QED BY <1>4, <1>5, <1>8, <1>9, <1>10 DEF StreamMissing

LEMMA MissingStep == ASSUME IInv, [Next]_vars PROVE MissingWasOvertaken'
<1>0. /\ TypeOK /\ Subscriptions /\ \A s \in DOMAIN queues : Suffix(s)
      /\ \A w \in Waiters : w \in DOMAIN queues => WaiterMissing(w)
      /\ \A s \in Streams : s \in DOMAIN queues => StreamMissing(s)
  BY SuffixOfEach, MissingOfEach DEF IInv
<1> DEFINE Goal == /\ \A w \in Waiters : w \in DOMAIN queues' => WaiterMissing(w)'
                   /\ \A s \in Streams : s \in DOMAIN queues' => StreamMissing(s)'
<1> SUFFICES Goal
  BY DEF MissingWasOvertaken, WaiterMissing, StreamMissing
<1>1. ASSUME NEW e \in Events, NEW d \in Data, Publish(e, d) PROVE Goal
  <2>1. DOMAIN queues' = DOMAIN queues
    BY <1>1 DEF Publish
  <2> QED BY <1>0, <1>1, <2>1, PublishWaiterMissing, PublishStreamMissing
<1>2. ASSUME NEW t \in Subscribers, NEW events, Subscribe(t, events) PROVE Goal
  <2>1. /\ \A s \in DOMAIN queues' : s # t => /\ s \in DOMAIN queues /\ queues'[s] = queues[s]
                                              /\ since'[s] = since[s]
        /\ UNCHANGED <<published, want, taken>>
    BY <1>2 DEF Subscribe, TypeOK
  <2>2. \A s \in DOMAIN queues' : s # t => /\ WaiterMissing(s) => WaiterMissing(s)'
                                           /\ StreamMissing(s) => StreamMissing(s)'
    BY <2>1, UntouchedMissing
  <2>3. Queued(t)' = {} /\ Heard(t)' = {}
    BY <1>0, <1>2, Fresh
  <2>4. WaiterMissing(t)'
    BY <2>3 DEF WaiterMissing
  <2>5. t \in Streams => Latest(t)' \in 0..Len(published')
    BY <1>0, <1>2 DEF Latest, Subscribe, Subscriptions, TypeOK
  <2>6. t \in Streams => StreamMissing(t)'
    BY <2>3, <2>5 DEF StreamMissing
  <2> QED BY <1>0, <2>1, <2>2, <2>4, <2>6
<1>3. ASSUME NEW t, \A s \in DOMAIN queues' : /\ s \in DOMAIN queues
                                              /\ s # t => queues'[s] = queues[s],
             t \in DOMAIN queues' => \/ t \in Waiters /\ WaiterMissing(t)'
                                     \/ t \in Streams /\ StreamMissing(t)',
             \A s \in Streams : s # t => taken'[s] = taken[s],
             UNCHANGED <<published, want, since>>
      PROVE  Goal
  <2>1. \A s \in DOMAIN queues' : s # t /\ WaiterMissing(s) => WaiterMissing(s)'
    BY <1>3, UntouchedMissing
  <2>2. \A s \in DOMAIN queues' : s \in Streams /\ s # t /\ StreamMissing(s) => StreamMissing(s)'
    BY <1>3, UntouchedMissing
  <2> QED BY <1>0, <1>3, <2>1, <2>2, BusAssumption
<1>4. ASSUME NEW t, queues' = Unsubscribed(t), UNCHANGED <<published, want, since, taken>> PROVE Goal
  BY <1>4, <1>3, UnsubscribedFacts
<1>5. ASSUME NEW w \in Waiters, WaiterStep(w) PROVE Goal
  <2>1. CASE WaitForStart(w)
    BY <2>1, <1>2 DEF WaitForStart, Subscribers
  <2>2. CASE WaitForGet(w) \/ WaitForTimeout(w) \/ WaitForCancel(w)
    <3>1. w \in DOMAIN queues /\ UNCHANGED <<published, want, since, taken>>
      BY <2>2, WaiterTurn
    <3>2. CASE queues' = Unsubscribed(w)
      BY <3>1, <3>2, <1>4
    <3>3. CASE GoesRound(w)
      <4>1. /\ queues[w].queue # <<>> /\ Head(queues[w].queue).data \notin want[w].accept
            /\ queues' = [queues EXCEPT ![w].queue = Tail(queues[w].queue)]
        BY <3>3 DEF GoesRound
      <4>2. WaiterMissing(w)'
        BY <1>0, <3>1, <4>1, RejectWaiterMissing
      <4> QED BY <3>1, <4>1, <4>2, <1>3
    <3> QED BY <2>2, <3>2, <3>3, WaiterTurn DEF Matches, Ends
  <2> QED BY <1>5, <2>1, <2>2 DEF WaiterStep
<1>6. ASSUME NEW t \in Streams, StreamStep(t) PROVE Goal
  <2>1. CASE StreamStart(t)
    BY <2>1, <1>2 DEF StreamStart, Subscribers
  <2>2. CASE StreamGet(t)
    <3>1. /\ t \in DOMAIN queues /\ UNCHANGED <<published, want, since>>
          /\ queues' = [queues EXCEPT ![t].queue = Tail(queues[t].queue)]
          /\ \A s \in Streams : s # t => taken'[s] = taken[s]
      BY <1>0, <2>2 DEF StreamGet, TypeOK
    <3>2. StreamMissing(t)'
      BY <1>0, <2>2, <3>1, TakeStreamMissing
    <3> QED BY <3>1, <3>2, <1>3
  <2>3. CASE StreamCancel(t)
    BY <2>3, <1>4 DEF StreamCancel
  <2> QED BY <1>6, <2>1, <2>2, <2>3 DEF StreamStep
<1>7. CASE Tick \/ UNCHANGED vars
  <2>1. UNCHANGED <<published, queues, want, since, taken>>
    BY <1>7 DEF vars, Tick
  <2> QED BY <1>0, <2>1, UntouchedMissing
<1> QED BY <1>0, <1>1, <1>5, <1>6, <1>7 DEF Next, IInv

-------------------------------------------------------------------------------
(* The invariant.                                                          *)

LEMMA InvInit == Init => IInv
<1> SUFFICES ASSUME Init PROVE IInv
  OBVIOUS
<1>1. DOMAIN queues = {}
  BY DEF Init
<1>2. Subscriptions
  BY <1>1 DEF Init, Subscriptions, Subscribers
<1>3. QueueIsNewestSuffix /\ MissingWasOvertaken
  BY <1>1 DEF QueueIsNewestSuffix, MissingWasOvertaken
<1>4. InTime
  BY DEF Init, InTime, Subscribers
<1> QED BY <1>2, <1>3, <1>4, TypeInit DEF IInv

LEMMA InvStep == IInv /\ [Next]_vars => IInv'
<1> SUFFICES ASSUME IInv, [Next]_vars PROVE IInv'
  OBVIOUS
<1>1. TypeOK' /\ Subscriptions' /\ InTime'
  BY TypeStep, SubscriptionsStep, InTimeStep DEF IInv
<1>2. QueueIsNewestSuffix'
  BY SuffixStep DEF IInv
<1>3. MissingWasOvertaken'
  BY MissingStep
<1> QED BY <1>1, <1>2, <1>3 DEF IInv

LEMMA Invariance == Spec => []IInv
BY InvInit, InvStep, PTL DEF Spec

\* publish, subscribe and the loops that take from the queues keep every queue
\* within its bound and every record of its type, for any number of calls.
THEOREM TypeCorrect == Spec => []TypeOK
<1>1. IInv => TypeOK
  BY DEF IInv
<1> QED BY <1>1, Invariance, PTL

\* publish's drop-oldest keeps in every queue the newest publications its
\* subscription names, in order and without a gap.
THEOREM SuffixCorrect == Spec => []QueueIsNewestSuffix
<1>1. IInv => QueueIsNewestSuffix
  BY DEF IInv
<1> QED BY <1>1, Invariance, PTL

\* wait_for's one deadline holds for the whole call, whatever number of events it
\* turns down: it is over by then, and returns None for want of time no sooner.
THEOREM EndsInTime == Spec => []WaitForEndsInTime
<1>1. IInv => WaitForEndsInTime
  <2> SUFFICES ASSUME IInv, NEW w \in Waiters
               PROVE  /\ status[w] = "waiting" => age[w] <= Timeout
                      /\ status[w] = "timeout" => age[w] = Timeout
    BY DEF WaitForEndsInTime
  <2>1. age[w] \in Nat /\ timer[w] \in Nat
    BY DEF IInv, TypeOK
  <2> QED BY <2>1, BusAssumption DEF IInv, InTime
<1> QED BY <1>1, Invariance, PTL

\* Whatever a waiting call or a live stream has heard and not got is in its queue
\* or was pushed out by MaxQueue newer publications.
THEOREM MissingCorrect == Spec => []MissingWasOvertaken
<1>1. IInv => MissingWasOvertaken
  BY DEF IInv
<1> QED BY <1>1, Invariance, PTL

-------------------------------------------------------------------------------
(* The bus implements what it promises.                                    *)

Numbers(t) == [i \in DOMAIN t |-> t[i].n]

LEMMA NumbersFacts ==
    ASSUME NEW t \in Seq(Message)
    PROVE  /\ Numbers(t) = <<>> <=> t = <<>>
           /\ Len(Numbers(t)) = Len(t)
           /\ t # <<>> => Numbers(t)[Len(Numbers(t))] = t[Len(t)].n
           /\ \A m \in Message : Numbers(Append(t, m)) = Append(Numbers(t), m.n)
<1>1. Numbers(t) \in Seq(Nat) /\ Len(Numbers(t)) = Len(t)
  <2>1. \A i \in 1..Len(t) : t[i].n \in Nat
    <3>1. \A i \in 1..Len(t) : t[i] \in Message
      OBVIOUS
    <3> QED BY <3>1 DEF Message
  <2> QED BY <2>1 DEF Numbers
<1>2. Numbers(t) = <<>> <=> t = <<>>
  BY <1>1
<1>3. t # <<>> => Numbers(t)[Len(Numbers(t))] = t[Len(t)].n
  BY <1>1 DEF Numbers
<1>4. ASSUME NEW m \in Message PROVE Numbers(Append(t, m)) = Append(Numbers(t), m.n)
  <2> DEFINE a == Numbers(Append(t, m))
             b == Append(Numbers(t), m.n)
  <2>1. m.n \in Nat
    BY DEF Message
  <2>2. DOMAIN a = 1..(Len(t) + 1) /\ DOMAIN b = 1..(Len(t) + 1)
    BY <1>1, <2>1 DEF Numbers
  <2>3. \A i \in 1..(Len(t) + 1) : a[i] = b[i]
    <3> TAKE i \in 1..(Len(t) + 1)
    <3>1. CASE i = Len(t) + 1
      BY <1>1, <2>1, <3>1 DEF Numbers
    <3>2. CASE i # Len(t) + 1
      BY <1>1, <2>1, <3>2 DEF Numbers
    <3> QED BY <3>1, <3>2
  <2>4. a = [i \in 1..(Len(t) + 1) |-> a[i]] /\ b = [i \in 1..(Len(t) + 1) |-> b[i]]
    BY <1>1, <2>1, <2>2 DEF Numbers
  <2> HIDE DEF a, b
  <2>5. a = b
    BY <2>3, <2>4
  <2> QED BY <2>5 DEF a, b
<1> QED BY <1>1, <1>2, <1>3, <1>4

\* The variables of the abstract bus that are not variables of this one.
Answers == [w \in Waiters |-> result[w].n]
Got == [s \in Streams |-> Numbers(taken[s])]

LEMMA RefineInit == Init => Promise!Init
<1> SUFFICES ASSUME Init PROVE Promise!Init
  OBVIOUS
<1>1. Answers = [w \in Waiters |-> 0]
  BY DEF Init, Answers, None
<1>2. Got = [s \in Streams |-> <<>>]
  <2>1. Numbers(<<>>) = <<>>
    <3>1. <<>> \in Seq(Message)
      OBVIOUS
    <3> QED BY <3>1, NumbersFacts
  <2> QED BY <2>1 DEF Init, Got
<1>3. [w \in Waiters |-> result[w].n] = [w \in Waiters |-> 0]
  BY <1>1 DEF Answers
<1>4. [s \in Streams |-> [i \in DOMAIN taken[s] |-> taken[s][i].n]] = [s \in Streams |-> <<>>]
  BY <1>2 DEF Got, Numbers
<1>5. Subscribers = Promise!Subscribers
  BY DEF Subscribers, Promise!Subscribers
<1>6. /\ published = <<>>
      /\ want \in [Waiters -> [event : Events, accept : Predicate \ {{}}]]
      /\ since = [s \in Subscribers |-> 0] /\ status = [s \in Subscribers |-> "new"]
  BY DEF Init
<1> QED BY <1>3, <1>4, <1>5, <1>6 DEF Promise!Init, Predicate

\* The first match of a call's queue is the first of all it heard, but for those overtaken.
LEMMA RefineAnswer ==
    ASSUME IInv, NEW w \in Waiters, Matches(w)
    PROVE  Promise!Answer(w)
<1> DEFINE head == Head(queues[w].queue)
           matching == {i \in Heard(w) : published[i][2] \in want[w].accept}
<1>1. /\ w \in DOMAIN queues /\ queues[w].queue # <<>>
      /\ result' = [result EXCEPT ![w] = head]
      /\ status' = [status EXCEPT ![w] = "answered"] /\ head.data \in want[w].accept
      /\ UNCHANGED <<published, want, since, taken>>
  BY DEF Matches, WaitForGet
<1>2. TypeOK /\ Subscriptions /\ Suffix(w) /\ WaiterMissing(w)
  BY <1>1, SuffixOfEach, MissingOfEach DEF IInv
<1>3. Heard(w) = Promise!Heard(w, {want[w].event}) /\ status[w] = "waiting"
  BY <1>1, <1>2 DEF Subscriptions, Heard, Subscribers
<1>4. head = queues[w].queue[1] /\ 1 \in DOMAIN queues[w].queue
  BY <1>1, <1>2 DEF TypeOK
<1>5. head.n \in matching
  <2>1. head.n \in Heard(w) /\ published[head.n] = <<head.event, head.data>>
    BY <1>2, <1>4 DEF Suffix
  <2>2. head.data \in want[w].accept
    BY <1>1
  <2>3. published[head.n][2] = head.data
    BY <2>1
  <2> QED BY <2>1, <2>2, <2>3
<1>6. ASSUME NEW j \in matching, j < head.n PROVE Promise!Overtaken(j, Heard(w))
  <2>1. j \notin Queued(w)
    <3> SUFFICES ASSUME NEW i \in DOMAIN queues[w].queue, j = queues[w].queue[i].n PROVE FALSE
      BY DEF Queued
    <3>1. i \in Nat /\ i >= 1
      BY <1>1, <1>2 DEF TypeOK
    <3>2. CASE i = 1
      <4>1. head \in Message
        BY <1>1, <1>2, <1>4 DEF TypeOK
      <4>2. head.n \in Nat
        BY <4>1 DEF Message
      <4> QED BY <3>2, <4>2, <1>4, <1>6
    <3>3. CASE 1 < i
      <4>1. head.n < j
        BY <3>3, <1>2, <1>4 DEF Suffix
      <4>2. head \in Message /\ queues[w].queue[i] \in Message
        BY <1>1, <1>2, <1>4 DEF TypeOK
      <4>3. head.n \in Nat /\ j \in Nat
        BY <4>2 DEF Message
      <4> QED BY <4>1, <4>3, <1>6
    <3> QED BY <3>1, <3>2, <3>3
  <2> QED BY <2>1, <1>2 DEF WaiterMissing
<1>7. Answers' = [Answers EXCEPT ![w] = head.n]
  BY <1>1, <1>2 DEF Answers, TypeOK
<1>8. Got' = Got
  BY <1>1 DEF Got
<1> HIDE DEF head
<1>9. /\ \E i \in matching : /\ \A j \in matching : j < i => Promise!Overtaken(j, Heard(w))
                             /\ Answers' = [Answers EXCEPT ![w] = i]
  BY <1>5, <1>6, <1>7
<1> QED BY <1>1, <1>3, <1>8, <1>9 DEF Promise!Answer, Answers, Got, Numbers

\* What a stream takes is the next of all it heard, but for those overtaken.
LEMMA RefineTake ==
    ASSUME IInv, NEW s \in Streams, StreamGet(s)
    PROVE  Promise!Take(s)
<1> DEFINE head == Head(queues[s].queue)
<1>1. /\ s \in DOMAIN queues /\ queues[s].queue # <<>>
      /\ taken' = [taken EXCEPT ![s] = Append(taken[s], head)]
      /\ UNCHANGED <<published, want, since, status, result>>
  BY DEF StreamGet
<1>2. TypeOK /\ Subscriptions /\ Suffix(s) /\ StreamMissing(s)
  BY <1>1, SuffixOfEach, MissingOfEach DEF IInv
<1>3. Heard(s) = Promise!Heard(s, Events) /\ status[s] = "waiting"
  BY <1>1, <1>2 DEF Subscriptions, Heard, Subscribers
<1>4. head = queues[s].queue[1] /\ 1 \in DOMAIN queues[s].queue /\ head \in Message
  BY <1>1, <1>2 DEF TypeOK
<1>5. head.n \in Queued(s) /\ head.n \in Heard(s)
  BY <1>2, TakeStreamMissing
<1>6. head.n > Latest(s)
  BY <1>2, <1>5 DEF StreamMissing
<1>7. ASSUME NEW j \in Heard(s), Latest(s) < j, j < head.n PROVE Promise!Overtaken(j, Heard(s))
  <2>1. j \in Nat /\ Latest(s) \in Nat
    BY <1>1, <1>2 DEF Heard, Promise!Heard, TypeOK, Subscribers, StreamMissing
  <2>2. j \notin Queued(s)
    <3> SUFFICES ASSUME NEW i \in DOMAIN queues[s].queue, j = queues[s].queue[i].n PROVE FALSE
      BY DEF Queued
    <3>1. i \in Nat /\ i >= 1
      BY <1>1, <1>2 DEF TypeOK
    <3>2. head.n \in Nat
      BY <1>4 DEF Message
    <3>3. CASE i = 1
      BY <3>2, <3>3, <1>4, <1>7
    <3>4. CASE 1 < i
      <4>1. head.n < j
        BY <3>4, <1>2, <1>4 DEF Suffix
      <4> QED BY <4>1, <3>2, <2>1, <1>7
    <3> QED BY <3>1, <3>3, <3>4
  <2> QED BY <2>1, <2>2, <1>2, <1>7 DEF StreamMissing
<1>8. Latest(s) = (IF Got[s] = <<>> THEN since[s] ELSE Got[s][Len(Got[s])])
  <2>1. taken[s] \in Seq(Message) /\ Got[s] = Numbers(taken[s])
    BY <1>2 DEF TypeOK, Got
  <2> QED BY <2>1, NumbersFacts DEF Latest
<1>9. Got' = [Got EXCEPT ![s] = Append(Got[s], head.n)]
  <2>1. taken[s] \in Seq(Message)
    BY <1>2 DEF TypeOK
  <2>2. Numbers(Append(taken[s], head)) = Append(Numbers(taken[s]), head.n)
    BY <2>1, <1>4, NumbersFacts
  <2> QED BY <2>2, <1>1, <1>2 DEF Got, TypeOK
<1>10. Answers' = Answers
  BY <1>1 DEF Answers
<1> HIDE DEF head
<1>11. Promise!Latest(s) = Latest(s)
  BY <1>8 DEF Promise!Latest, Got, Numbers
<1>12. \E i \in Heard(s) : /\ i > Promise!Latest(s)
                           /\ \A j \in Heard(s) : Promise!Latest(s) < j /\ j < i
                                 => Promise!Overtaken(j, Heard(s))
                           /\ Got' = [Got EXCEPT ![s] = Append(Got[s], i)]
  BY <1>5, <1>6, <1>7, <1>9, <1>11
<1>13. UNCHANGED <<published, want, since, status>>
  BY <1>1
<1> DEFINE got == [t \in Streams |-> [i \in DOMAIN taken[t] |-> taken[t][i].n]]
<1>14. got = Got /\ got' = Got'
  BY DEF Got, Numbers
<1>15. UNCHANGED [w \in Waiters |-> result[w].n]
  BY <1>10 DEF Answers
<1> DEFINE heard == Promise!Heard(s, Events)
           answers == [w \in Waiters |-> result[w].n]
<1>16. Promise!Take(s) <=>
         /\ status[s] = "waiting"
         /\ \E i \in heard :
               /\ i > Promise!Latest(s)
               /\ \A j \in heard : Promise!Latest(s) < j /\ j < i => Promise!Overtaken(j, heard)
               /\ got' = [got EXCEPT ![s] = Append(got[s], i)]
         /\ UNCHANGED <<published, want, since, status, answers>>
  BY DEF Promise!Take
<1> HIDE DEF got, heard, answers
<1>17. \E i \in Heard(s) : /\ i > Promise!Latest(s)
                           /\ \A j \in Heard(s) : Promise!Latest(s) < j /\ j < i
                                 => Promise!Overtaken(j, Heard(s))
                           /\ got' = [got EXCEPT ![s] = Append(got[s], i)]
  BY <1>12, <1>14
<1> QED BY <1>3, <1>13, <1>15, <1>16, <1>17 DEF heard, answers

LEMMA RefineStep == IInv /\ [Next]_vars => [Promise!Next]_(Promise!vars)
<1> SUFFICES ASSUME IInv, [Next]_vars PROVE Promise!Next \/ UNCHANGED Promise!vars
  OBVIOUS
<1> DEFINE answers == [w \in Waiters |-> result[w].n]
           got == [t \in Streams |-> [i \in DOMAIN taken[t] |-> taken[t][i].n]]
<1>1. /\ result' = result => answers' = answers
      /\ taken' = taken => got' = got
  OBVIOUS
<1>2. TypeOK /\ Subscriptions
  BY DEF IInv
<1>3. Subscribers = Promise!Subscribers
  BY DEF Subscribers, Promise!Subscribers
<1> HIDE DEF answers, got
<1>4. ASSUME UNCHANGED <<published, want, since, status, result, taken>> PROVE UNCHANGED Promise!vars
  BY <1>1, <1>4 DEF Promise!vars, answers, got
<1>5. ASSUME NEW e \in Events, NEW d \in Data, Publish(e, d) PROVE Promise!Next
  <2>1. UNCHANGED <<want, since, status, answers, got>>
    BY <1>1, <1>5 DEF Publish
  <2>2. Promise!Publish(e, d)
    BY <1>5, <2>1 DEF Publish, Promise!Publish, answers, got
  <2> QED BY <2>2 DEF Promise!Next
<1>6. ASSUME NEW s \in Subscribers, NEW events, Subscribe(s, events) PROVE Promise!Next
  <2>1. UNCHANGED <<published, want, answers, got>>
    BY <1>1, <1>6 DEF Subscribe
  <2>2. Promise!Start(s)
    BY <1>6, <2>1 DEF Subscribe, Promise!Start, answers, got
  <2> QED BY <1>3, <2>2 DEF Promise!Next
<1>7. ASSUME NEW w \in Waiters, WaiterStep(w) PROVE Promise!Next \/ UNCHANGED Promise!vars
  <2>1. CASE WaitForStart(w)
    BY <2>1, <1>6 DEF WaitForStart, Subscribers
  <2>2. CASE WaitForGet(w) \/ WaitForTimeout(w) \/ WaitForCancel(w)
    <3>1. w \in DOMAIN queues /\ UNCHANGED <<published, want, since, taken, got>>
      BY <2>2, <1>1, WaiterTurn
    <3>2. CASE Matches(w)
      BY <3>2, RefineAnswer DEF Promise!Next
    <3>3. CASE GoesRound(w)
      BY <3>1, <3>3, <1>4 DEF GoesRound
    <3>4. CASE Ends(w)
      <4>1. status[w] = "waiting" /\ UNCHANGED answers
        BY <3>1, <3>4, <1>1, <1>2 DEF Ends, Subscriptions, Subscribers
      <4>2. Promise!GiveUp(w, "closed") \/ Promise!GiveUp(w, "timeout")
        BY <3>1, <3>4, <4>1 DEF Ends, Promise!GiveUp, answers, got
      <4> QED BY <4>2 DEF Promise!Next
    <3> QED BY <2>2, <3>2, <3>3, <3>4, WaiterTurn
  <2> QED BY <1>7, <2>1, <2>2 DEF WaiterStep
<1>8. ASSUME NEW s \in Streams, StreamStep(s) PROVE Promise!Next
  <2>1. CASE StreamStart(s)
    BY <2>1, <1>6 DEF StreamStart, Subscribers
  <2>2. CASE StreamGet(s)
    BY <2>2, RefineTake DEF Promise!Next
  <2>3. CASE StreamCancel(s)
    <3>1. status[s] = "waiting" /\ UNCHANGED <<published, want, since, answers, got>>
      BY <2>3, <1>1, <1>2 DEF StreamCancel, Subscriptions, Subscribers
    <3>2. Promise!GiveUp(s, "closed")
      BY <2>3, <3>1 DEF StreamCancel, Promise!GiveUp, answers, got
    <3> QED BY <3>2 DEF Promise!Next
  <2> QED BY <1>8, <2>1, <2>2, <2>3 DEF StreamStep
<1>9. CASE Tick \/ UNCHANGED vars
  BY <1>4, <1>9 DEF vars, Tick
<1> QED BY <1>5, <1>7, <1>8, <1>9 DEF Next

\* The queues of state.py implement the bus without queues: wait_for answers with
\* the first match since it subscribed, the log and the SSE stream get every event
\* once and in order, but for those MaxQueue newer ones pushed out.
THEOREM Refines == Spec => KeepsItsPromise
BY RefineInit, RefineStep, Invariance, PTL DEF Spec, KeepsItsPromise, Promise!Spec

===============================================================================
