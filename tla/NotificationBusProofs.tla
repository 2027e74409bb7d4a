-------------------------- MODULE NotificationBusProofs --------------------------
(***************************************************************************)
(* Proofs about NotificationBus, for every number of subscriptions, every  *)
(* queue limit and every filter: a subscription loses, repeats and         *)
(* reorders nothing (GapFree), and an iteration that ended was given all   *)
(* there was (EndedIsComplete).                                            *)
(***************************************************************************)
EXTENDS NotificationBus, TLAPS, SequenceTheorems

Notifications == 1..MaxPublished
Way == Seq(Notifications)      \* what received, hand and queue hold

-----------------------------------------------------------------------------
(* Sequences *)

\* Along the way from the queue to the consumer the order stays.
LEMMA TakenFromQueue ==
    ASSUME NEW S, NEW r \in Seq(S), NEW q \in Seq(S), q # <<>>
    PROVE  /\ Append(r, Head(q)) \o <<>> \o Tail(q) = r \o <<>> \o q
           /\ r \o <<Head(q)>> \o Tail(q) = r \o <<>> \o q
<1>1. Head(q) \in S /\ Tail(q) \in Seq(S) /\ <<Head(q)>> \in Seq(S)
  BY HeadTailProperties
<1>2. <<Head(q)>> \o Tail(q) = q
  <2>1. Len(q) \in Nat /\ Len(q) >= 1 /\ q = SubSeq(q, 1, Len(q))
    BY EmptySeq, SubSeqFull, LenProperties
  <2>2. SubSeq(q, 1, Len(q)) = <<q[1]>> \o SubSeq(q, 2, Len(q))
    BY <2>1, SubSeqRecursiveFirst, 1 \in 1..Len(q), Len(q) \in 1..Len(q)
  <2>3. Tail(q) = SubSeq(q, 2, Len(q)) /\ Head(q) = q[1]
    BY TailIsSubSeq
  <2>4. QED
    BY <2>1, <2>2, <2>3
<1>3. Append(r, Head(q)) = r \o <<Head(q)>> /\ Append(r, Head(q)) \in Seq(S)
  BY <1>1, AppendIsConcat, AppendProperties
<1>4. r \o <<Head(q)>> \o Tail(q) = r \o q
  BY <1>1, <1>2, ConcatAssociative
<1>5. r \o <<>> = r /\ Append(r, Head(q)) \o <<>> = Append(r, Head(q))
  BY <1>3, ConcatEmptySeq
<1>6. QED
  BY <1>3, <1>4, <1>5

LEMMA TakenFromHand ==
    ASSUME NEW S, NEW r \in Seq(S), NEW h \in Seq(S), NEW q \in Seq(S),
           Len(h) = 1
    PROVE  Append(r, Head(h)) \o <<>> \o q = r \o h \o q
<1>1. h # <<>> /\ Head(h) \in S
  BY HeadTailProperties, EmptySeq
<1>2. h = <<Head(h)>>
  BY SMT
<1>3. Append(r, Head(h)) = r \o h /\ Append(r, Head(h)) \in Seq(S)
  BY <1>1, <1>2, AppendIsConcat, AppendProperties
<1>4. QED
  BY <1>3, ConcatEmptySeq

LEMMA AppendedToQueue ==
    ASSUME NEW S, NEW r \in Seq(S), NEW h \in Seq(S), NEW q \in Seq(S), NEW n \in S
    PROVE  r \o h \o Append(q, n) = Append(r \o h \o q, n)
<1>1. r \o h \in Seq(S) /\ r \o h \o q \in Seq(S) /\ <<n>> \in Seq(S)
  BY ConcatProperties
<1>2. Append(q, n) = q \o <<n>> /\ Append(r \o h \o q, n) = (r \o h \o q) \o <<n>>
  BY <1>1, AppendIsConcat
<1>3. QED
  BY <1>1, <1>2, ConcatAssociative

LEMMA FrontOfAppend ==
    ASSUME NEW S, NEW s \in Seq(S), NEW n \in S
    PROVE  Front(Append(s, n)) = s
<1>1. Append(s, n) \in Seq(S) /\ Len(Append(s, n)) = Len(s) + 1
  BY AppendProperties
<1>2. Front(Append(s, n)) = SubSeq(Append(s, n), 1, Len(s))
  BY <1>1, LenProperties DEF Front
<1>3. SubSeq(Append(s, n), 1, Len(s)) \in Seq(S)
      /\ Len(SubSeq(Append(s, n), 1, Len(s))) = Len(s)
      /\ \A i \in 1..Len(s) : SubSeq(Append(s, n), 1, Len(s))[i] = s[i]
  BY <1>1
<1>4. QED
  BY <1>2, <1>3, SeqEqual

\* Dropping the hand is removing the element behind what was received.
LEMMA DroppedHand ==
    ASSUME NEW S, NEW r \in Seq(S), NEW h \in Seq(S), NEW q \in Seq(S), Len(h) = 1
    PROVE  r \o <<>> \o q = RemoveAt(r \o h \o q, Len(r) + 1)
<1> DEFINE w == r \o h \o q
           n == Len(r)
<1>1. n \in Nat /\ Len(q) \in Nat /\ r \o h \in Seq(S) /\ Len(r \o h) = n + 1
  <2>1. r \o h \in Seq(S) /\ Len(r \o h) = Len(r) + Len(h)
    BY ConcatProperties
  <2>2. Len(r) \in Nat /\ Len(q) \in Nat
    BY LenProperties
  <2>3. QED
    BY <2>1, <2>2
<1>2. w \in Seq(S) /\ Len(w) = n + 1 + Len(q)
  BY <1>1
<1>3. \A i \in 1..n : w[i] = r[i]
  <2> TAKE i \in 1..n
  <2>1. (r \o h)[i] = r[i]
    BY <1>1, ConcatProperties
  <2>2. w[i] = (r \o h)[i]
    BY <1>1, ConcatProperties
  <2>3. QED
    BY <2>1, <2>2
<1>4. \A i \in 1..Len(q) : w[n + 1 + i] = q[i]
  BY <1>1, ConcatProperties
<1>5. SubSeq(w, 1, n) = r
  <2>1. SubSeq(w, 1, n) \in Seq(S) /\ Len(SubSeq(w, 1, n)) = n
        /\ \A i \in 1..n : SubSeq(w, 1, n)[i] = w[i]
    BY <1>1, <1>2
  <2>2. QED
    BY <1>3, <2>1, SeqEqual
<1>6. SubSeq(w, n + 2, Len(w)) = q
  <2> DEFINE t == SubSeq(w, n + 2, Len(w))
  <2>1. t \in Seq(S) /\ Len(t) = Len(q) /\ \A i \in 1..Len(q) : t[i] = w[n + 1 + i]
    BY <1>1, <1>2
  <2> HIDE DEF t
  <2>2. t = q
    BY <1>4, <2>1, SeqEqual
  <2>3. QED
    BY <2>2 DEF t
<1>7. RemoveAt(w, n + 1) = SubSeq(w, 1, n) \o SubSeq(w, n + 2, Len(w))
  <2>1. (n + 1) - 1 = n /\ (n + 1) + 1 = n + 2
    BY <1>1
  <2> HIDE DEF w
  <2>2. QED
    BY <2>1 DEF RemoveAt
<1>8. r \o <<>> = r
  BY ConcatEmptySeq
<1>9. QED
  BY <1>5, <1>6, <1>7, <1>8

-----------------------------------------------------------------------------
(* The inductive invariant *)

\* What a subscription was to be given, but for the one that found it full.
Due(s) == IF stream[s] = "overflow" THEN Front(owed[s]) ELSE owed[s]

Delivered(s) ==
    \/ InOrder(s) = Due(s)
    \/ reader[s] = "cancelled" /\ InOrder(s) = RemoveAt(Due(s), Len(received[s]) + 1)

\* How the stream, its consumer and the hand of the get task stand to each other:
\* GapFree alone does not say that a consumer which is handed an item is the one
\* that waits, or that nothing follows a cancelled read.
Coherent(s) ==
    /\ stream[s] = "unused" => reader[s] = "idle"
    /\ hand[s] # <<>> => reader[s] = "waiting"
    /\ reader[s] = "cancelled" => stream[s] \notin {"unused", "open"}
    /\ reader[s] \in {"ended", "failed", "overflow"} =>
          /\ queue[s] = <<>>
          /\ stream[s] = IF reader[s] = "ended" THEN "closed" ELSE reader[s]

Linked(s) == Delivered(s) /\ Coherent(s)

IInv == TypeOK /\ \A s \in Subs : Linked(s)

-----------------------------------------------------------------------------
(* Steps *)

LEMMA InitIInv == Init => IInv
<1> SUFFICES ASSUME Init
             PROVE  IInv
  OBVIOUS
<1>1. TypeOK
  BY BusAssumption DEF Init, TypeOK, Streams, Readers
<1>2. ASSUME NEW s \in Subs
      PROVE  Linked(s)
  <2>1. <<>> \in Seq(Notifications) /\ <<>> \o <<>> \o <<>> = <<>>
    BY EmptySeq, ConcatEmptySeq
  <2>2. QED
    BY <2>1 DEF Init, Linked, Delivered, Coherent, InOrder, Due
<1>3. QED
  BY <1>1, <1>2 DEF IInv

\* A subscription of which a step changes nothing.
Untouched(s) ==
    /\ stream'[s] = stream[s]
    /\ queue'[s] = queue[s]
    /\ hand'[s] = hand[s]
    /\ reader'[s] = reader[s]
    /\ received'[s] = received[s]
    /\ owed'[s] = owed[s]

LEMMA UntouchedStaysLinked ==
    ASSUME NEW s \in Subs, Linked(s), Untouched(s)
    PROVE  Linked(s)'
BY DEF Linked, Delivered, Coherent, InOrder, Due, Untouched

LEMMA TypesOf ==
    ASSUME TypeOK, NEW s \in Subs
    PROVE  /\ queue[s] \in Way /\ hand[s] \in Way /\ received[s] \in Way
           /\ owed[s] \in Way
           /\ stream[s] \in Streams /\ reader[s] \in Readers
           /\ Len(queue[s]) <= Limit[s] /\ Len(hand[s]) <= 1
           /\ Len(queue[s]) \in Nat /\ Len(hand[s]) \in Nat
           /\ s \in registered <=> stream[s] = "open"
           /\ Limit[s] \in Nat \ {0}
BY BusAssumption, LenProperties DEF TypeOK, Way, Notifications

LEMMA OneInHand ==
    ASSUME TypeOK, NEW s \in Subs, hand[s] # <<>>
    PROVE  Len(hand[s]) = 1
<1> DEFINE n == Len(hand[s])
<1>1. hand[s] \in Seq(Notifications)
  BY TypesOf DEF Way
<1>2. n \in Nat /\ n # 0 /\ n <= 1
  BY <1>1, EmptySeq, TypesOf
<1> HIDE DEF n
<1>3. n = 1
  BY <1>2
<1>4. QED
  BY <1>3 DEF n

\* The consumer is given the head of its queue, and nothing else changes.
LEMMA GivenFromQueue ==
    ASSUME IInv, NEW s \in Subs, queue[s] # <<>>, hand[s] = <<>>,
           reader[s] \in {"idle", "waiting"}, stream[s] # "unused",
           Give(s, Head(queue[s])),
           queue' = [queue EXCEPT ![s] = Tail(@)],
           UNCHANGED <<bus, published, registered, stream, hand, owed>>
    PROVE  IInv'
<1>1. TypeOK /\ Linked(s)
  BY DEF IInv
<1>2. /\ Head(queue[s]) \in Notifications /\ Tail(queue[s]) \in Way
      /\ Len(Tail(queue[s])) <= Limit[s]
      /\ Append(received[s], Head(queue[s])) \in Way
  <2>1. Head(queue[s]) \in Notifications /\ Tail(queue[s]) \in Way
        /\ Len(Tail(queue[s])) = Len(queue[s]) - 1
    BY <1>1, TypesOf, HeadTailProperties DEF Way
  <2>2. QED
    BY <1>1, <2>1, TypesOf, AppendProperties DEF Way
<1>3. /\ received'[s] = Append(received[s], Head(queue[s]))
      /\ queue'[s] = Tail(queue[s]) /\ reader'[s] = "idle"
      /\ hand'[s] = <<>> /\ stream'[s] = stream[s] /\ owed'[s] = owed[s]
  BY <1>1 DEF Give, TypeOK
<1>4. TypeOK'
  BY <1>1, <1>2 DEF TypeOK, Give, Way, Notifications, Readers
<1>5. Linked(s)'
  <2>1. InOrder(s)' = InOrder(s)
    <3>1. InOrder(s)' = Append(received[s], Head(queue[s])) \o <<>> \o Tail(queue[s])
      BY <1>3 DEF InOrder
    <3>2. InOrder(s) = received[s] \o <<>> \o queue[s]
      BY DEF InOrder
    <3>3. QED
      BY <1>1, <3>1, <3>2, TypesOf, TakenFromQueue DEF Way
  <2>2. Delivered(s)'
    BY <1>1, <1>3, <2>1 DEF Linked, Delivered, Due
  <2>3. QED
    BY <1>1, <1>3, <2>2 DEF Linked, Coherent
<1>6. ASSUME NEW t \in Subs, t # s
      PROVE  Linked(t)'
  <2>1. Untouched(t)
    BY <1>1, <1>6 DEF Give, Untouched, TypeOK
  <2>2. QED
    BY <2>1, UntouchedStaysLinked DEF IInv
<1>7. QED
  BY <1>4, <1>5, <1>6 DEF IInv

\* The iteration of a consumer with nothing queued and nothing in hand ends.
LEMMA IterationEnds ==
    ASSUME IInv, NEW s \in Subs, queue[s] = <<>>, hand[s] = <<>>,
           reader[s] \in {"idle", "waiting"}, stream[s] \notin {"unused", "open"},
           EndIteration(s),
           UNCHANGED <<bus, published, queue, hand, received, owed>>
    PROVE  IInv'
<1>1. TypeOK /\ Linked(s)
  BY DEF IInv
<1>2. stream[s] \in {"closed", "failed", "overflow"}
  BY <1>1, TypesOf DEF Streams
<1>3. stream' = stream /\ registered' = registered
  BY <1>1, <1>2, TypesOf DEF EndIteration, CloseStream, TypeOK
<1>4. reader'[s] = IF stream[s] = "closed" THEN "ended" ELSE stream[s]
  BY <1>1 DEF EndIteration, TypeOK
<1>5. TypeOK'
  BY <1>1, <1>2, <1>3 DEF TypeOK, EndIteration, Readers
<1>6. Linked(s)'
  BY <1>1, <1>2, <1>3, <1>4 DEF Linked, Delivered, Due, InOrder, Coherent
<1>7. ASSUME NEW t \in Subs, t # s
      PROVE  Linked(t)'
  <2>1. Untouched(t)
    BY <1>1, <1>3, <1>7 DEF EndIteration, Untouched, TypeOK
  <2>2. QED
    BY <2>1, UntouchedStaysLinked DEF IInv
<1>8. QED
  BY <1>5, <1>6, <1>7 DEF IInv

LEMMA SubscribeStep ==
    ASSUME IInv, NEW s \in Subs, Subscribe(s)
    PROVE  IInv'
<1>1. TypeOK /\ Linked(s)
  BY DEF IInv
<1>2. stream'[s] = bus /\ stream[s] = "unused" /\ bus \in {"open", "closed", "failed"}
  BY <1>1 DEF Subscribe, TypeOK
<1>3. TypeOK'
  BY <1>1, <1>2 DEF TypeOK, Subscribe, Streams
<1>4. Linked(s)'
  BY <1>1, <1>2 DEF Linked, Delivered, Due, InOrder, Coherent, Subscribe
<1>5. ASSUME NEW t \in Subs, t # s
      PROVE  Linked(t)'
  <2>1. Untouched(t)
    BY <1>1, <1>5 DEF Subscribe, Untouched, TypeOK
  <2>2. QED
    BY <2>1, UntouchedStaysLinked DEF IInv
<1>6. QED
  BY <1>3, <1>4, <1>5 DEF IInv

LEMMA WaitStep ==
    ASSUME IInv, NEW s \in Subs, Wait(s)
    PROVE  IInv'
<1>1. TypeOK /\ Linked(s)
  BY DEF IInv
<1>2. reader'[s] = "waiting"
  BY <1>1 DEF Wait, TypeOK
<1>3. TypeOK'
  BY <1>1 DEF TypeOK, Wait, Readers
<1>4. Linked(s)'
  BY <1>1, <1>2 DEF Linked, Delivered, Due, InOrder, Coherent, Wait
<1>5. ASSUME NEW t \in Subs, t # s
      PROVE  Linked(t)'
  <2>1. Untouched(t)
    BY <1>1, <1>5 DEF Wait, Untouched, TypeOK
  <2>2. QED
    BY <2>1, UntouchedStaysLinked DEF IInv
<1>6. QED
  BY <1>3, <1>4, <1>5 DEF IInv

\* The notification is in the hand now, and its place in the order is the same.
LEMMA GetTaskStep ==
    ASSUME IInv, NEW s \in Subs, GetTask(s)
    PROVE  IInv'
<1>1. TypeOK /\ Linked(s)
  BY DEF IInv
<1>2. /\ Head(queue[s]) \in Notifications /\ Tail(queue[s]) \in Way
      /\ Len(Tail(queue[s])) <= Limit[s]
      /\ <<Head(queue[s])>> \in Way /\ Len(<<Head(queue[s])>>) = 1
  <2>1. Head(queue[s]) \in Notifications /\ Tail(queue[s]) \in Way
        /\ Len(Tail(queue[s])) = Len(queue[s]) - 1
    BY <1>1, TypesOf, HeadTailProperties DEF Way, GetTask
  <2>2. QED
    BY <1>1, <2>1, TypesOf DEF Way
<1>3. /\ queue'[s] = Tail(queue[s]) /\ hand'[s] = <<Head(queue[s])>>
      /\ received'[s] = received[s] /\ hand[s] = <<>> /\ reader[s] = "waiting"
      /\ reader'[s] = reader[s] /\ stream'[s] = stream[s] /\ owed'[s] = owed[s]
  BY <1>1 DEF GetTask, TypeOK
<1>4. TypeOK'
  BY <1>1, <1>2 DEF TypeOK, GetTask, Way, Notifications
<1>5. Linked(s)'
  <2>1. InOrder(s)' = InOrder(s)
    <3>1. InOrder(s)' = received[s] \o <<Head(queue[s])>> \o Tail(queue[s])
      BY <1>3 DEF InOrder
    <3>2. InOrder(s) = received[s] \o <<>> \o queue[s]
      BY <1>3 DEF InOrder
    <3>3. QED
      BY <1>1, <3>1, <3>2, TypesOf, TakenFromQueue DEF Way, GetTask
  <2>2. QED
    BY <1>1, <1>3, <2>1 DEF Linked, Delivered, Due, Coherent
<1>6. ASSUME NEW t \in Subs, t # s
      PROVE  Linked(t)'
  <2>1. Untouched(t)
    BY <1>1, <1>6 DEF GetTask, Untouched, TypeOK
  <2>2. QED
    BY <2>1, UntouchedStaysLinked DEF IInv
<1>7. QED
  BY <1>4, <1>5, <1>6 DEF IInv

LEMMA WakeWithItemStep ==
    ASSUME IInv, NEW s \in Subs, WakeWithItem(s)
    PROVE  IInv'
<1>1. TypeOK /\ Linked(s)
  BY DEF IInv
<1>2. /\ Len(hand[s]) = 1 /\ Head(hand[s]) \in Notifications
      /\ Append(received[s], Head(hand[s])) \in Way
  <2>1. Len(hand[s]) = 1
    BY <1>1, OneInHand DEF WakeWithItem
  <2>2. Head(hand[s]) \in Notifications
    BY <1>1, TypesOf, HeadTailProperties DEF WakeWithItem, Way
  <2>3. QED
    BY <1>1, <2>1, <2>2, TypesOf, AppendProperties DEF Way
<1>3. /\ received'[s] = Append(received[s], Head(hand[s]))
      /\ hand'[s] = <<>> /\ queue'[s] = queue[s] /\ reader'[s] = "idle"
      /\ reader[s] = "waiting" /\ stream'[s] = stream[s] /\ owed'[s] = owed[s]
  BY <1>1 DEF WakeWithItem, Give, TypeOK
<1>4. TypeOK'
  BY <1>1, <1>2, EmptySeq DEF TypeOK, WakeWithItem, Give, Way, Notifications, Readers
<1>5. Linked(s)'
  <2>1. stream[s] # "unused"
    BY <1>1, <1>3 DEF Linked, Coherent
  <2>2. InOrder(s)' = InOrder(s)
    <3>1. InOrder(s)' = Append(received[s], Head(hand[s])) \o <<>> \o queue[s]
      BY <1>3 DEF InOrder
    <3>2. /\ received[s] \in Seq(Notifications) /\ hand[s] \in Seq(Notifications)
          /\ queue[s] \in Seq(Notifications)
      BY <1>1, TypesOf DEF Way
    <3>3. received[s] \o hand[s] \o queue[s]
            = Append(received[s], Head(hand[s])) \o <<>> \o queue[s]
      <4>1. Len(hand[s]) = 1
        BY <1>2
      <4>2. QED
        <5>1. \A r, h, q \in Seq(Notifications) : Len(h) = 1 =>
                r \o h \o q = Append(r, Head(h)) \o <<>> \o q
          BY TakenFromHand
        <5>2. QED
          BY <4>1, <3>2, <5>1
    <3>4. QED
      BY <3>1, <3>3 DEF InOrder
  <2>3. QED
    BY <1>1, <1>3, <2>1, <2>2 DEF Linked, Delivered, Due, Coherent
<1>6. ASSUME NEW t \in Subs, t # s
      PROVE  Linked(t)'
  <2>1. Untouched(t)
    BY <1>1, <1>6 DEF WakeWithItem, Give, Untouched, TypeOK
  <2>2. QED
    BY <2>1, UntouchedStaysLinked DEF IInv
<1>7. QED
  BY <1>4, <1>5, <1>6 DEF IInv

LEMMA WakeClosedStep ==
    ASSUME IInv, NEW s \in Subs, WakeClosed(s)
    PROVE  IInv'
<1>1. Linked(s) /\ hand[s] = <<>> /\ reader[s] = "waiting"
  BY DEF IInv, WakeClosed
<1>2. stream[s] \notin {"unused", "open"}
  BY <1>1 DEF Linked, Coherent, WakeClosed
<1>3. CASE queue[s] # <<>>
  BY <1>1, <1>2, <1>3, GivenFromQueue DEF WakeClosed
<1>4. CASE queue[s] = <<>>
  BY <1>1, <1>2, <1>4, IterationEnds DEF WakeClosed
<1>5. QED
  BY <1>3, <1>4

\* What the get task holds is dropped; what is left is in order.
LEMMA CancelReadStep ==
    ASSUME IInv, NEW s \in Subs, CancelRead(s)
    PROVE  IInv'
<1>1. TypeOK /\ Linked(s)
  BY DEF IInv
<1>2. /\ reader[s] = "waiting" /\ reader'[s] = "cancelled" /\ hand'[s] = <<>>
      /\ queue'[s] = queue[s] /\ received'[s] = received[s] /\ owed'[s] = owed[s]
      /\ stream'[s] = IF stream[s] = "open" THEN "closed" ELSE stream[s]
  BY <1>1 DEF CancelRead, CloseStream, TypeOK
<1>3. stream[s] # "unused"
  BY <1>1, <1>2 DEF Linked, Coherent
<1>4. TypeOK'
  BY <1>1, EmptySeq DEF TypeOK, CancelRead, CloseStream, Readers, Streams
<1>5. Due(s)' = Due(s) /\ InOrder(s) = Due(s)
  BY <1>1, <1>2 DEF Due, Linked, Delivered
<1>6. Delivered(s)'
  <2>1. CASE hand[s] = <<>>
    BY <1>2, <1>5, <2>1 DEF Delivered, InOrder
  <2>2. CASE hand[s] # <<>>
    <3>1. Len(hand[s]) = 1
      BY <1>1, <2>2, OneInHand
    <3>2. received[s] \o <<>> \o queue[s] = RemoveAt(InOrder(s), Len(received[s]) + 1)
      <4>1. /\ received[s] \in Seq(Notifications) /\ hand[s] \in Seq(Notifications)
            /\ queue[s] \in Seq(Notifications)
        BY <1>1, TypesOf DEF Way
      <4>2. QED
        BY <3>1, <4>1, DroppedHand DEF InOrder
    <3>3. InOrder(s)' = received[s] \o <<>> \o queue[s]
      BY <1>2 DEF InOrder
    <3>4. QED
      BY <1>2, <1>5, <3>2, <3>3 DEF Delivered
  <2>3. QED
    BY <2>1, <2>2
<1>7. Linked(s)'
  BY <1>1, <1>2, <1>3, <1>6 DEF Linked, Coherent
<1>8. ASSUME NEW t \in Subs, t # s
      PROVE  Linked(t)'
  <2>1. Untouched(t)
    BY <1>1, <1>8 DEF CancelRead, CloseStream, Untouched, TypeOK
  <2>2. QED
    BY <2>1, UntouchedStaysLinked DEF IInv
<1>9. QED
  BY <1>4, <1>7, <1>8 DEF IInv

LEMMA CloseStep ==
    ASSUME IInv, NEW s \in Subs, Close(s)
    PROVE  IInv'
<1>1. TypeOK /\ Linked(s)
  BY DEF IInv
<1>2. stream[s] = "open" /\ stream'[s] = "closed"
  BY <1>1, TypesOf DEF Close, CloseStream, TypeOK
<1>3. TypeOK'
  BY <1>1, <1>2 DEF TypeOK, Close, CloseStream, Streams
<1>4. Linked(s)'
  BY <1>1, <1>2 DEF Linked, Delivered, Due, InOrder, Coherent, Close
<1>5. ASSUME NEW t \in Subs, t # s
      PROVE  Linked(t)'
  <2>1. Untouched(t)
    BY <1>1, <1>5 DEF Close, CloseStream, Untouched, TypeOK
  <2>2. QED
    BY <2>1, UntouchedStaysLinked DEF IInv
<1>6. QED
  BY <1>3, <1>4, <1>5 DEF IInv

LEMMA CloseBusStep ==
    ASSUME IInv, CloseBus
    PROVE  IInv'
<1>1. TypeOK
  BY DEF IInv
<1>2. PICK how \in {"closed", "failed"} :
        /\ bus' = how
        /\ stream' = [s \in Subs |-> IF s \in registered THEN how ELSE stream[s]]
  BY DEF CloseBus
<1>3. TypeOK'
  BY <1>1, <1>2 DEF TypeOK, CloseBus, Streams
<1>4. ASSUME NEW s \in Subs
      PROVE  Linked(s)'
  <2>1. CASE s \in registered
    <3>1. stream[s] = "open" /\ stream'[s] = how
      BY <1>1, <1>2, <2>1, TypesOf
    <3>2. QED
      BY <1>1, <3>1 DEF IInv, Linked, Delivered, Due, InOrder, Coherent, CloseBus
  <2>2. CASE s \notin registered
    <3>1. Untouched(s)
      BY <1>1, <1>2, <2>2 DEF CloseBus, Untouched
    <3>2. QED
      BY <3>1, UntouchedStaysLinked DEF IInv
  <2>3. QED
    BY <2>1, <2>2
<1>5. QED
  BY <1>3, <1>4 DEF IInv

\* Every matching subscription gets the notification behind what it has, or is
\* closed by it.
LEMMA PublishStep ==
    ASSUME IInv, NEW topic \in Topics, Publish(topic)
    PROVE  IInv'
<1> DEFINE n == published + 1
           matching == Matching(topic)
           lagging == {s \in matching : Full(s)}
<1>1. TypeOK /\ \A s \in Subs : Linked(s)
  BY DEF IInv
<1>2. n \in Notifications /\ published' = n /\ n \in 0..MaxPublished
  BY <1>1, BusAssumption DEF Publish, TypeOK, Notifications
<1>3. /\ queue' = [s \in Subs |-> IF s \in matching \ lagging
                                  THEN Append(queue[s], n) ELSE queue[s]]
      /\ stream' = [s \in Subs |-> IF s \in lagging THEN "overflow" ELSE stream[s]]
      /\ registered' = registered \ lagging
      /\ owed' = [s \in Subs |-> IF s \in matching THEN Append(owed[s], n) ELSE owed[s]]
      /\ UNCHANGED <<bus, hand, reader, received>>
  BY DEF Publish
<1>4. matching \subseteq registered /\ lagging \subseteq matching /\ matching \subseteq Subs
  BY <1>1 DEF Matching, TypeOK
<1>5. \A s \in matching \ lagging : Len(queue[s]) < Limit[s]
  BY <1>1, <1>4, TypesOf DEF Full
<1> HIDE DEF n, matching, lagging
<1>6. \A s \in Subs : Append(owed[s], n) \in Way /\ Append(queue[s], n) \in Way
                      /\ Len(Append(queue[s], n)) = Len(queue[s]) + 1
  BY <1>1, <1>2, TypesOf, AppendProperties DEF Way
<1>7. TypeOK'
  <2>1. /\ queue' \in [Subs -> Way] /\ owed' \in [Subs -> Way]
        /\ stream' \in [Subs -> Streams] /\ registered' \subseteq Subs
    BY <1>1, <1>3, <1>6, TypesOf DEF Streams, TypeOK
  <2>2. ASSUME NEW s \in Subs
        PROVE  Len(queue'[s]) <= Limit[s]
    <3>1. CASE s \in matching \ lagging
      BY <1>1, <1>3, <1>5, <1>6, <3>1, TypesOf
    <3>2. CASE s \notin matching \ lagging
      BY <1>1, <1>3, <3>2, TypesOf
    <3>3. QED
      BY <3>1, <3>2
  <2>3. \A s \in Subs : s \in registered' <=> stream'[s] = "open"
    BY <1>1, <1>3, <1>4, TypesOf
  <2>4. QED
    BY <1>1, <1>2, <1>3, <2>1, <2>2, <2>3 DEF TypeOK, Way, Notifications
<1>8. ASSUME NEW s \in Subs
      PROVE  Linked(s)'
  <2>1. /\ received[s] \in Seq(Notifications) /\ hand[s] \in Seq(Notifications)
        /\ queue[s] \in Seq(Notifications) /\ owed[s] \in Seq(Notifications)
    BY <1>1, TypesOf DEF Way
  <2>2. CASE s \notin matching
    <3>1. Untouched(s)
      BY <1>1, <1>3, <1>4, <2>2 DEF Untouched
    <3>2. QED
      BY <1>1, <3>1, UntouchedStaysLinked
  <2>3. CASE s \in matching
    <3>1. stream[s] = "open" /\ reader[s] \in {"idle", "waiting"}
      BY <1>1, <1>4, <2>3, TypesOf DEF Linked, Coherent, Readers
    <3>2. InOrder(s) = owed[s]
      BY <1>1, <3>1 DEF Linked, Delivered, Due
    <3>3. owed'[s] = Append(owed[s], n) /\ UNCHANGED <<hand[s], reader[s], received[s]>>
      BY <1>3, <2>3
    <3>4. CASE s \in lagging
      <4>1. queue'[s] = queue[s] /\ stream'[s] = "overflow"
        BY <1>3, <3>4
      <4>2. Due(s)' = owed[s]
        BY <1>2, <2>1, <3>3, <4>1, FrontOfAppend DEF Due
      <4>3. InOrder(s)' = InOrder(s)
        BY <3>3, <4>1 DEF InOrder
      <4>4. QED
        BY <1>1, <3>1, <3>2, <3>3, <4>1, <4>2, <4>3 DEF Linked, Delivered, Coherent
    <3>5. CASE s \notin lagging
      <4>1. queue'[s] = Append(queue[s], n) /\ stream'[s] = stream[s]
        BY <1>3, <2>3, <3>5
      <4>2. InOrder(s)' = Append(InOrder(s), n)
        <5>1. InOrder(s)' = received[s] \o hand[s] \o Append(queue[s], n)
          BY <3>3, <4>1 DEF InOrder
        <5>2. QED
          <6>1. received[s] \o hand[s] \o Append(queue[s], n)
                  = Append(received[s] \o hand[s] \o queue[s], n)
            <7>1. \A r, h, q \in Seq(Notifications) : \A m \in Notifications :
                    r \o h \o Append(q, m) = Append(r \o h \o q, m)
              BY AppendedToQueue
            <7>2. n \in Notifications
              BY <1>2
            <7>3. QED
              BY <2>1, <7>1, <7>2
          <6>2. QED
            BY <5>1, <6>1 DEF InOrder
      <4>3. Due(s)' = Append(owed[s], n)
        BY <3>1, <3>3, <4>1 DEF Due
      <4>4. QED
        BY <1>1, <3>1, <3>2, <3>3, <4>1, <4>2, <4>3 DEF Linked, Delivered, Coherent
    <3>6. QED
      BY <3>4, <3>5
  <2>4. QED
    BY <2>2, <2>3
<1>9. QED
  BY <1>7, <1>8 DEF IInv

LEMMA StepIInv == IInv /\ [Next]_vars => IInv'
<1> SUFFICES ASSUME IInv, [Next]_vars
             PROVE  IInv'
  OBVIOUS
<1>1. ASSUME NEW s \in Subs, TakeQueued(s)
      PROVE  IInv'
  <2>1. hand[s] = <<>>
    BY <1>1 DEF IInv, Linked, Coherent, TakeQueued
  <2>2. QED
    BY <1>1, <2>1, GivenFromQueue DEF TakeQueued
<1>2. ASSUME NEW s \in Subs, FindClosed(s)
      PROVE  IInv'
  <2>1. hand[s] = <<>>
    BY <1>2 DEF IInv, Linked, Coherent, FindClosed
  <2>2. QED
    BY <1>2, <2>1, IterationEnds DEF FindClosed
<1>3. CASE UNCHANGED vars
  <2>1. TypeOK'
    BY <1>3 DEF IInv, TypeOK, vars
  <2>2. ASSUME NEW s \in Subs
        PROVE  Linked(s)'
    BY <1>3, UntouchedStaysLinked DEF IInv, Untouched, vars
  <2>3. QED
    BY <2>1, <2>2 DEF IInv
<1>4. QED
  BY <1>1, <1>2, <1>3, SubscribeStep, WaitStep, GetTaskStep, WakeWithItemStep,
     WakeClosedStep, CancelReadStep, CloseStep, CloseBusStep, PublishStep DEF Next

LEMMA IInvAlways == Spec => []IInv
BY InitIInv, StepIInv, PTL DEF Spec

-----------------------------------------------------------------------------
(* Results *)

\* Type correctness, with the bounds of the queues: no subscription ever buffers
\* more than its limit, and it is registered exactly while its stream is open.
THEOREM TypeCorrect == Spec => []TypeOK
<1>1. IInv => TypeOK
  BY DEF IInv
<1>2. QED
  BY <1>1, IInvAlways, PTL

\* The bus loses, repeats and reorders nothing, for any number of subscriptions,
\* any limits and filters.
THEOREM DeliveryIsGapFree == Spec => []GapFree
<1>1. IInv => GapFree
  BY DEF IInv, Linked, Delivered, Due, GapFree
<1>2. QED
  BY <1>1, IInvAlways, PTL

\* A consumer whose iteration ended was given everything, and was told why it ended.
THEOREM EndsAreComplete == Spec => []EndedIsComplete
<1>1. ASSUME IInv, NEW s \in Subs,
             reader[s] \in {"ended", "failed", "overflow"}
      PROVE  /\ queue[s] = <<>> /\ hand[s] = <<>>
             /\ stream[s] = IF reader[s] = "ended" THEN "closed" ELSE reader[s]
  BY <1>1 DEF IInv, Linked, Coherent
<1>2. ASSUME IInv, NEW s \in Subs, reader[s] = "ended"
      PROVE  received[s] = owed[s]
  <2>1. queue[s] = <<>> /\ hand[s] = <<>> /\ stream[s] = "closed"
    BY <1>1, <1>2
  <2>2. InOrder(s) = owed[s]
    BY <1>2, <2>1 DEF IInv, Linked, Delivered, Due
  <2>3. received[s] \in Seq(Notifications)
    BY <1>2, TypesOf DEF IInv, Way
  <2>4. InOrder(s) = received[s]
    BY <2>1, <2>3, ConcatEmptySeq DEF InOrder
  <2>5. QED
    BY <2>2, <2>4
<1>3. IInv => EndedIsComplete
  BY <1>1, <1>2 DEF EndedIsComplete
<1>4. QED
  BY <1>3, IInvAlways, PTL
=============================================================================
