---------------------------- MODULE NotificationBus ----------------------------
(***************************************************************************)
(* JsonRpcNotificationBus, its subscriptions, and the message stream each  *)
(* of them reads (rpc/router.py).  The dispatcher publishes; every         *)
(* subscription has a bounded queue of its own and one consumer.  A        *)
(* subscription that lags is closed with an overflow error and the others  *)
(* go on.                                                                  *)
(*                                                                         *)
(* A consumer that finds its queue empty waits with two helper tasks, one  *)
(* in queue.get() and one on the closed event: an item passes through the  *)
(* hand of the first before the consumer is woken.                         *)
(*                                                                         *)
(* A notification is the number of its publication.                        *)
(***************************************************************************)
EXTENDS Naturals, Sequences, SequencesExt

CONSTANTS Subs,          \* subscriptions that may be made
          Topics,        \* what filters tell apart: method, thread, turn
          Wants,         \* the topics the filter of each subscription matches
          Limit,         \* max_queue_size of each subscription
          MaxPublished   \* bound: notifications published

ASSUME BusAssumption ==
    /\ Wants \in [Subs -> SUBSET Topics]
    /\ Limit \in [Subs -> Nat \ {0}]   \* _coerce_max_queue_size
    /\ MaxPublished \in Nat

VARIABLES
    bus,         \* open, closed, or failed with a terminal error
    published,   \* notifications published so far
    registered,  \* the subscriptions in _subscriptions
    stream,      \* of each subscription: unused, open, or how it was closed
    queue,       \* its queue
    hand,        \* what its get task has taken, not yet handed to the consumer
    reader,      \* its consumer: idle, waiting, or how its iteration ended
    received,    \* history: what its consumer was given
    owed         \* history: what matched its filter while it was registered

vars == <<bus, published, registered, stream, queue, hand, reader, received, owed>>

Streams == {"unused", "open", "closed", "failed", "overflow"}
Readers == {"idle", "waiting", "ended", "failed", "overflow", "cancelled"}

Init ==
    /\ bus = "open"
    /\ published = 0
    /\ registered = {}
    /\ stream = [s \in Subs |-> "unused"]
    /\ queue = [s \in Subs |-> <<>>]
    /\ hand = [s \in Subs |-> <<>>]
    /\ reader = [s \in Subs |-> "idle"]
    /\ received = [s \in Subs |-> <<>>]
    /\ owed = [s \in Subs |-> <<>>]

-----------------------------------------------------------------------------
(* The bus *)

\* subscribe: on a closed bus the stream is born closed, with the error the bus
\* was closed with.
Subscribe(s) ==
    /\ stream[s] = "unused"
    /\ stream' = [stream EXCEPT ![s] = bus]
    /\ registered' = IF bus = "open" THEN registered \cup {s} ELSE registered
    /\ UNCHANGED <<bus, published, queue, hand, reader, received, owed>>

Matching(topic) == {s \in registered : topic \in Wants[s]}

Full(s) == Len(queue[s]) >= Limit[s]

\* Mutants of Publish: a full queue drops its oldest notification instead of
\* closing the subscription; a full queue stays subscribed and skips one.
PublishDroppingOldest(topic) ==
    LET n == published + 1
    IN  /\ bus = "open"
        /\ published < MaxPublished
        /\ published' = n
        /\ queue' = [s \in Subs |->
                        IF s \notin Matching(topic) THEN queue[s]
                        ELSE IF Full(s) THEN Append(Tail(queue[s]), n)
                        ELSE Append(queue[s], n)]
        /\ owed' = [s \in Subs |-> IF s \in Matching(topic) THEN Append(owed[s], n)
                                                            ELSE owed[s]]
        /\ UNCHANGED <<bus, registered, stream, hand, reader, received>>

PublishOverLimit(topic) ==
    LET n == published + 1
    IN  /\ bus = "open"
        /\ published < MaxPublished
        /\ published' = n
        /\ queue' = [s \in Subs |-> IF s \in Matching(topic) THEN Append(queue[s], n)
                                                             ELSE queue[s]]
        /\ owed' = [s \in Subs |-> IF s \in Matching(topic) THEN Append(owed[s], n)
                                                            ELSE owed[s]]
        /\ UNCHANGED <<bus, registered, stream, hand, reader, received>>

\* publish: the dispatcher reaches every matching subscription in one step.
Publish(topic) ==
    LET n == published + 1
        lagging == {s \in Matching(topic) : Full(s)}
    IN  /\ bus = "open"
        /\ published < MaxPublished
        /\ published' = n
        /\ queue' = [s \in Subs |-> IF s \in Matching(topic) \ lagging
                                    THEN Append(queue[s], n) ELSE queue[s]]
        /\ stream' = [s \in Subs |-> IF s \in lagging THEN "overflow" ELSE stream[s]]
        /\ registered' = registered \ lagging
        /\ owed' = [s \in Subs |-> IF s \in Matching(topic) THEN Append(owed[s], n)
                                                            ELSE owed[s]]
        /\ UNCHANGED <<bus, hand, reader, received>>

\* close, with or without an error; what is queued stays queued.
CloseBus ==
    /\ bus = "open"
    /\ \E how \in {"closed", "failed"} :
        /\ bus' = how
        /\ stream' = [s \in Subs |-> IF s \in registered THEN how ELSE stream[s]]
    /\ registered' = {}
    /\ UNCHANGED <<published, queue, hand, reader, received, owed>>

-----------------------------------------------------------------------------
(* One consumer *)

\* Only the first close of a stream decides how it ends.
CloseStream(s) ==
    /\ registered' = registered \ {s}
    /\ stream' = [stream EXCEPT ![s] = IF @ = "open" THEN "closed" ELSE @]

Give(s, n) ==
    /\ received' = [received EXCEPT ![s] = Append(@, n)]
    /\ reader' = [reader EXCEPT ![s] = "idle"]

\* The iteration raises the terminal error of the stream or just ends.
EndIteration(s) ==
    /\ reader' = [reader EXCEPT ![s] = IF stream[s] = "closed" THEN "ended"
                                                               ELSE stream[s]]
    /\ CloseStream(s)

TakeQueued(s) ==
    /\ stream[s] # "unused"
    /\ reader[s] = "idle"
    /\ queue[s] # <<>>
    /\ Give(s, Head(queue[s]))
    /\ queue' = [queue EXCEPT ![s] = Tail(@)]
    /\ UNCHANGED <<bus, published, registered, stream, hand, owed>>

FindClosed(s) ==
    /\ reader[s] = "idle"
    /\ queue[s] = <<>>
    /\ stream[s] \notin {"unused", "open"}
    /\ EndIteration(s)
    /\ UNCHANGED <<bus, published, queue, hand, received, owed>>

Wait(s) ==
    /\ reader[s] = "idle"
    /\ queue[s] = <<>>
    /\ stream[s] = "open"
    /\ reader' = [reader EXCEPT ![s] = "waiting"]
    /\ UNCHANGED <<bus, published, registered, stream, queue, hand, received, owed>>

\* The get task runs, in an iteration of the loop of its own.
GetTask(s) ==
    /\ reader[s] = "waiting"
    /\ hand[s] = <<>>
    /\ queue[s] # <<>>
    /\ hand' = [hand EXCEPT ![s] = <<Head(queue[s])>>]
    /\ queue' = [queue EXCEPT ![s] = Tail(@)]
    /\ UNCHANGED <<bus, published, registered, stream, reader, received, owed>>

\* Mutant of WakeWithItem: the consumer looks at the queue again and forgets
\* what its get task returned.
WakeWithoutItem(s) ==
    /\ reader[s] = "waiting"
    /\ hand[s] # <<>>
    /\ reader' = [reader EXCEPT ![s] = "idle"]
    /\ hand' = [hand EXCEPT ![s] = <<>>]
    /\ UNCHANGED <<bus, published, registered, stream, queue, received, owed>>

WakeWithItem(s) ==
    /\ reader[s] = "waiting"
    /\ hand[s] # <<>>
    /\ Give(s, Head(hand[s]))
    /\ hand' = [hand EXCEPT ![s] = <<>>]
    /\ UNCHANGED <<bus, published, registered, stream, queue, owed>>

\* Mutants of WakeClosed: the stream ends with what is left in the queue; the
\* consumer waits for its queue alone.
WakeClosedNever(s) ==
    /\ reader[s] = "waiting"
    /\ hand[s] = <<>>
    /\ stream[s] # "open"
    /\ queue[s] # <<>>
    /\ Give(s, Head(queue[s]))
    /\ queue' = [queue EXCEPT ![s] = Tail(@)]
    /\ UNCHANGED <<bus, published, registered, stream, hand, owed>>

WakeClosedAtOnce(s) ==
    /\ reader[s] = "waiting"
    /\ hand[s] = <<>>
    /\ stream[s] # "open"
    /\ EndIteration(s)
    /\ UNCHANGED <<bus, published, queue, hand, received, owed>>

\* Woken by the closed event with the get task still waiting: what is queued
\* comes before the end.
WakeClosed(s) ==
    /\ reader[s] = "waiting"
    /\ hand[s] = <<>>
    /\ stream[s] # "open"
    /\ \/ /\ queue[s] # <<>>
          /\ Give(s, Head(queue[s]))
          /\ queue' = [queue EXCEPT ![s] = Tail(@)]
          /\ UNCHANGED <<registered, stream>>
       \/ /\ queue[s] = <<>>
          /\ EndIteration(s)
          /\ UNCHANGED <<queue, received>>
    /\ UNCHANGED <<bus, published, hand, owed>>

\* The consumer is cancelled while it waits: what its get task holds is lost,
\* and the generator closes the subscription on its way out.
CancelRead(s) ==
    /\ reader[s] = "waiting"
    /\ reader' = [reader EXCEPT ![s] = "cancelled"]
    /\ hand' = [hand EXCEPT ![s] = <<>>]
    /\ CloseStream(s)
    /\ UNCHANGED <<bus, published, queue, received, owed>>

\* close() of the subscription, by anybody; or its last reference is dropped.
Close(s) ==
    /\ s \in registered
    /\ CloseStream(s)
    /\ UNCHANGED <<bus, published, queue, hand, reader, received, owed>>

Next ==
    \/ \E s \in Subs :
        \/ Subscribe(s) \/ TakeQueued(s) \/ FindClosed(s) \/ Wait(s) \/ GetTask(s)
        \/ WakeWithItem(s) \/ WakeClosed(s) \/ CancelRead(s) \/ Close(s)
    \/ \E topic \in Topics : Publish(topic)
    \/ CloseBus

\* A consumer that keeps iterating is woken, and so is its get task.
Fairness ==
    \A s \in Subs :
        WF_vars(TakeQueued(s) \/ FindClosed(s) \/ Wait(s) \/ GetTask(s)
                    \/ WakeWithItem(s) \/ WakeClosed(s))

Spec == Init /\ [][Next]_vars

FairSpec == Spec /\ Fairness

-----------------------------------------------------------------------------
TypeOK ==
    /\ bus \in {"open", "closed", "failed"}
    /\ published \in 0..MaxPublished
    /\ registered \subseteq Subs
    /\ stream \in [Subs -> Streams]
    /\ queue \in [Subs -> Seq(1..MaxPublished)]
    /\ hand \in [Subs -> Seq(1..MaxPublished)]
    /\ reader \in [Subs -> Readers]
    /\ received \in [Subs -> Seq(1..MaxPublished)]
    /\ owed \in [Subs -> Seq(1..MaxPublished)]
    /\ \A s \in Subs : Len(queue[s]) <= Limit[s] /\ Len(hand[s]) <= 1
    /\ \A s \in Subs : s \in registered <=> stream[s] = "open"

InOrder(s) == received[s] \o hand[s] \o queue[s]

\* A subscription loses, repeats and reorders nothing: what its consumer has and
\* what is on the way to it are the notifications that matched, in the order of
\* their publication, all of them while it is registered, and all but the one
\* that found the queue full when it overflowed.  A cancelled read may lose one
\* more, the one in the hand of the get task, and what is left is in order.
GapFree ==
    \A s \in Subs :
        LET due == IF stream[s] = "overflow" THEN Front(owed[s]) ELSE owed[s]
        IN  \/ InOrder(s) = due
            \/ /\ reader[s] = "cancelled"
               /\ InOrder(s) = RemoveAt(due, Len(received[s]) + 1)

\* An iteration that ended was given all there was, and was told the reason: a
\* lagging consumer never sees a clean end.
EndedIsComplete ==
    \A s \in Subs :
        /\ reader[s] \in {"ended", "failed", "overflow"} =>
            /\ queue[s] = <<>> /\ hand[s] = <<>>
            /\ stream[s] = IF reader[s] = "ended" THEN "closed" ELSE reader[s]
        /\ (reader[s] = "ended" => received[s] = owed[s])

\* A consumer of a closed stream that is not cancelled comes to its end.
ClosedStreamsEnd ==
    \A s \in Subs :
        stream[s] \notin {"unused", "open"}
            ~> reader[s] \in {"ended", "failed", "overflow", "cancelled"}

\* What a live subscription is owed is delivered, unless its consumer is cancelled.
OwedIsDelivered ==
    \A s \in Subs : \A n \in 1..MaxPublished :
        (Len(owed[s]) >= n /\ stream[s] = "open")
            ~> (Len(received[s]) >= n \/ stream[s] # "open")
=============================================================================
