------------------------------ MODULE BusPromise ------------------------------
(***************************************************************************)
(* What the event bus promises its subscribers, without its queues.  A     *)
(* stream takes publications one by one, each at most once and in order; a *)
(* wait_for call answers with a publication it asked for, made after it    *)
(* subscribed, or with nothing.  Either may pass over a publication only   *)
(* if Capacity newer ones it had asked for were made meanwhile.            *)
(* EventBus implements this specification.                                 *)
(***************************************************************************)
EXTENDS Naturals, Sequences

CONSTANTS Waiters, Streams, Events, Data, Capacity, MaxPublished

VARIABLES
    published,   \* every (event, data) published, in order
    want,        \* what each wait_for call asks for
    since,       \* publications made before the subscription
    status,      \* "new", "waiting", "answered", "timeout", "closed"
    answer,      \* number of the publication wait_for returned; 0: none
    got          \* numbers of the publications a stream has taken

vars == <<published, want, since, status, answer, got>>

Subscribers == Waiters \cup Streams

Init ==
    /\ published = <<>>
    /\ want \in [Waiters -> [event : Events, accept : (SUBSET Data) \ {{}}]]
    /\ since = [s \in Subscribers |-> 0]
    /\ status = [s \in Subscribers |-> "new"]
    /\ answer = [w \in Waiters |-> 0]
    /\ got = [s \in Streams |-> <<>>]

Publish(e, d) ==
    /\ Len(published) < MaxPublished
    /\ published' = Append(published, <<e, d>>)
    /\ UNCHANGED <<want, since, status, answer, got>>

Start(s) ==
    /\ status[s] = "new"
    /\ since' = [since EXCEPT ![s] = Len(published)]
    /\ status' = [status EXCEPT ![s] = "waiting"]
    /\ UNCHANGED <<published, want, answer, got>>

\* The publications since the subscription of one of these events.
Heard(s, events) ==
    {i \in (since[s] + 1)..Len(published) : published[i][1] \in events}

\* Capacity newer ones among those heard.
Overtaken(i, heard) ==
    \E newer \in [1..Capacity -> heard] :
        /\ \A j \in 1..Capacity : newer[j] > i
        /\ \A j, k \in 1..Capacity : j < k => newer[j] < newer[k]

\* The first match, unless it was overtaken.
Answer(w) ==
    LET heard == Heard(w, {want[w].event})
        matching == {i \in heard : published[i][2] \in want[w].accept}
    IN /\ status[w] = "waiting"
       /\ \E i \in matching :
             /\ \A j \in matching : j < i => Overtaken(j, heard)
             /\ answer' = [answer EXCEPT ![w] = i]
       /\ status' = [status EXCEPT ![w] = "answered"]
       /\ UNCHANGED <<published, want, since, got>>

Latest(s) == IF got[s] = <<>> THEN since[s] ELSE got[s][Len(got[s])]

\* The next one, unless it was overtaken.
Take(s) ==
    LET heard == Heard(s, Events)
    IN /\ status[s] = "waiting"
       /\ \E i \in heard :
             /\ i > Latest(s)
             /\ \A j \in heard : Latest(s) < j /\ j < i => Overtaken(j, heard)
             /\ got' = [got EXCEPT ![s] = Append(@, i)]
       /\ UNCHANGED <<published, want, since, status, answer>>

GiveUp(s, verdict) ==
    /\ status[s] = "waiting"
    /\ status' = [status EXCEPT ![s] = verdict]
    /\ UNCHANGED <<published, want, since, answer, got>>

Next ==
    \/ \E e \in Events, d \in Data : Publish(e, d)
    \/ \E s \in Subscribers : Start(s)
    \/ \E w \in Waiters : Answer(w) \/ GiveUp(w, "timeout") \/ GiveUp(w, "closed")
    \/ \E s \in Streams : Take(s) \/ GiveUp(s, "closed")

Spec == Init /\ [][Next]_vars
===============================================================================
