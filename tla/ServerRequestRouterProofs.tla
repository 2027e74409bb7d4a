----------------------- MODULE ServerRequestRouterProofs -----------------------
(***************************************************************************)
(* Proofs about ServerRequestRouter, for every number of requests and wire *)
(* ids, shared in any way, and any number of messages on the way: no       *)
(* request gets two answers, a failed dispatcher leaves nothing behind,    *)
(* and a server that reuses an id only after resolving it never meets the  *)
(* duplicate check.                                                        *)
(***************************************************************************)
EXTENDS ServerRequestRouter, TLAPS, SequenceTheorems

-----------------------------------------------------------------------------
(* The inductive invariant *)

Request(r) == [type |-> "request", of |-> r]
Resolution(r) == [type |-> "resolved", of |-> r]
RequestAt(i, r) == i \in DOMAIN inbound /\ inbound[i] = Request(r)
ResolvedAt(i, r) == i \in DOMAIN inbound /\ inbound[i] = Resolution(r)

\* A request on its way was sent once and is known to nobody yet.
Fresh ==
    /\ \A r \in Requests : \A i \in DOMAIN inbound : RequestAt(i, r) =>
          /\ server[r] # "unsent" /\ r \notin claimed
          /\ \A d \in WireIds : pending[d] # r
          /\ \A j \in DOMAIN inbound : RequestAt(j, r) => i = j
    /\ \A r \in Requests : server[r] = "unsent" =>
          r \notin claimed /\ \A d \in WireIds : pending[d] # r

\* An answer is written for a claimed entry only; AnsweredOnce does not say so.
Once ==
    /\ AnsweredOnce
    /\ \A w \in writing : w[2] \in claimed
    /\ \A r \in Requests : sent[r] > 0 => r \in claimed

Quiet ==
    /\ FailedIsQuiet
    /\ dispatcher = "failed" => closed

Resolved(q, after, before) ==
    \E k \in DOMAIN inbound : after < k /\ k < before /\ ResolvedAt(k, q)

ResolvedAfter(q, after) ==
    \E k \in DOMAIN inbound : after < k /\ ResolvedAt(k, q)

\* Between two requests with one id there is a resolution of the first, on the way
\* or dispatched; what is not open in the server is resolved on the way.
RequestsAlternate ==
    \A q, r \in Requests : \A i, j \in DOMAIN inbound :
       RequestAt(j, q) /\ RequestAt(i, r) /\ j < i /\ WireId[q] = WireId[r] =>
          Resolved(q, j, i)

PendingIsResolvedFirst ==
    \A d \in WireIds, q, r \in Requests : \A i \in DOMAIN inbound :
       RequestAt(i, r) /\ WireId[r] = d /\ pending[d] = q => Resolved(q, 0, i)

NotOpenIsResolved ==
    /\ \A q \in Requests : \A j \in DOMAIN inbound :
          RequestAt(j, q) /\ server[q] # "open" => ResolvedAfter(q, j)
    /\ \A d \in WireIds, q \in Requests : pending[d] = q =>
          /\ WireId[q] = d
          /\ server[q] # "open" => ResolvedAfter(q, 0)

Alternates ==
    polite => RequestsAlternate /\ PendingIsResolvedFirst /\ NotOpenIsResolved

IInv == TypeOK /\ Fresh /\ Once /\ Quiet /\ Alternates

-----------------------------------------------------------------------------
(* Messages on the way *)

LEMMA Shapes ==
    ASSUME NEW q, NEW r
    PROVE  /\ Request(q) # Resolution(r)
           /\ Request(q) = Request(r) => q = r
           /\ Resolution(q) = Resolution(r) => q = r
           /\ q \in Requests => Request(q) \in Messages /\ Resolution(q) \in Messages
<1>1. Request(q).type = "request" /\ Resolution(r).type = "resolved"
  BY DEF Request, Resolution
<1>2. Request(q).of = q /\ Request(r).of = r /\ Resolution(q).of = q /\ Resolution(r).of = r
  BY DEF Request, Resolution
<1>3. q \in Requests => Request(q) \in Messages /\ Resolution(q) \in Messages
  BY DEF Request, Resolution, Messages
<1>4. QED
  BY <1>1, <1>2, <1>3

LEMMA AppendedMessage ==
    ASSUME TypeOK, NEW m \in Messages, inbound' = Append(inbound, m)
    PROVE  /\ inbound' \in Seq(Messages) /\ Len(inbound) \in Nat
           /\ DOMAIN inbound = 1..Len(inbound) /\ DOMAIN inbound' = 1..(Len(inbound) + 1)
           /\ \A i \in DOMAIN inbound : inbound'[i] = inbound[i]
           /\ inbound'[Len(inbound) + 1] = m
<1>1. inbound \in Seq(Messages)
  BY DEF TypeOK
<1>2. QED
  BY <1>1, AppendProperties, LenProperties

LEMMA TakenMessage ==
    ASSUME TypeOK, inbound # <<>>, inbound' = Tail(inbound)
    PROVE  /\ inbound' \in Seq(Messages) /\ Len(inbound) \in Nat \ {0}
           /\ DOMAIN inbound = 1..Len(inbound) /\ DOMAIN inbound' = 1..(Len(inbound) - 1)
           /\ \A i \in DOMAIN inbound' : inbound'[i] = inbound[i + 1]
           /\ Head(inbound) = inbound[1]
<1>1. inbound \in Seq(Messages)
  BY DEF TypeOK
<1>2. inbound' \in Seq(Messages) /\ Len(inbound') = Len(inbound) - 1
      /\ \A i \in 1..Len(inbound') : inbound'[i] = inbound[i + 1]
  BY <1>1, HeadTailProperties
<1>3. Len(inbound) \in Nat \ {0} /\ DOMAIN inbound = 1..Len(inbound)
      /\ DOMAIN inbound' = 1..Len(inbound')
  BY <1>1, <1>2, EmptySeq, LenProperties
<1>4. QED
  BY <1>1, <1>2, <1>3

\* What is on the way stays where it is when a message follows it.
LEMMA AfterAppend ==
    ASSUME TypeOK, NEW m \in Messages, inbound' = Append(inbound, m)
    PROVE  /\ \A i, r : RequestAt(i, r)' <=>
                  RequestAt(i, r) \/ (i = Len(inbound) + 1 /\ m = Request(r))
           /\ \A i, r : ResolvedAt(i, r)' <=>
                  ResolvedAt(i, r) \/ (i = Len(inbound) + 1 /\ m = Resolution(r))
           /\ \A q, a, b : Resolved(q, a, b) => Resolved(q, a, b)'
           /\ \A q, a : ResolvedAfter(q, a) => ResolvedAfter(q, a)'
<1>1. /\ Len(inbound) \in Nat
      /\ DOMAIN inbound = 1..Len(inbound) /\ DOMAIN inbound' = 1..(Len(inbound) + 1)
      /\ \A i \in DOMAIN inbound : inbound'[i] = inbound[i]
      /\ inbound'[Len(inbound) + 1] = m
  BY AppendedMessage
<1>2. \A i : i \in DOMAIN inbound' <=> i \in DOMAIN inbound \/ i = Len(inbound) + 1
  BY <1>1
<1>3. Len(inbound) + 1 \notin DOMAIN inbound
  BY <1>1
<1>4. /\ \A i, r : RequestAt(i, r)' <=>
             RequestAt(i, r) \/ (i = Len(inbound) + 1 /\ m = Request(r))
      /\ \A i, r : ResolvedAt(i, r)' <=>
             ResolvedAt(i, r) \/ (i = Len(inbound) + 1 /\ m = Resolution(r))
  BY <1>1, <1>2, <1>3 DEF RequestAt, ResolvedAt, Request, Resolution
<1>5. \A q, a, b : Resolved(q, a, b) => Resolved(q, a, b)'
  BY <1>2, <1>4 DEF Resolved
<1>6. \A q, a : ResolvedAfter(q, a) => ResolvedAfter(q, a)'
  BY <1>2, <1>4 DEF ResolvedAfter
<1>7. QED
  BY <1>4, <1>5, <1>6

\* And one place further to the front when the head is taken.
LEMMA AfterTail ==
    ASSUME TypeOK, inbound # <<>>, inbound' = Tail(inbound)
    PROVE  /\ \A r : \A i \in Nat : RequestAt(i, r)' <=> i > 0 /\ RequestAt(i + 1, r)
           /\ \A r : \A i \in Nat : ResolvedAt(i, r)' <=> i > 0 /\ ResolvedAt(i + 1, r)
           /\ \A q : \A a, b \in Nat : Resolved(q, a + 1, b + 1) => Resolved(q, a, b)'
           /\ \A q : \A a \in Nat : ResolvedAfter(q, a + 1) => ResolvedAfter(q, a)'
           /\ \A i \in DOMAIN inbound' : i \in Nat \ {0} /\ i + 1 \in DOMAIN inbound
           /\ 1 \in DOMAIN inbound /\ Head(inbound) = inbound[1]
<1>1. /\ Len(inbound) \in Nat \ {0}
      /\ DOMAIN inbound = 1..Len(inbound) /\ DOMAIN inbound' = 1..(Len(inbound) - 1)
      /\ \A i \in DOMAIN inbound' : inbound'[i] = inbound[i + 1]
      /\ Head(inbound) = inbound[1]
  BY TakenMessage
<1>2. \A i \in Nat : i \in DOMAIN inbound' <=> i > 0 /\ i + 1 \in DOMAIN inbound
  BY <1>1
<1>3. /\ \A r : \A i \in Nat : RequestAt(i, r)' <=> i > 0 /\ RequestAt(i + 1, r)
      /\ \A r : \A i \in Nat : ResolvedAt(i, r)' <=> i > 0 /\ ResolvedAt(i + 1, r)
  BY <1>1, <1>2 DEF RequestAt, ResolvedAt, Request, Resolution
<1>4. ASSUME NEW q, NEW a \in Nat, NEW k \in DOMAIN inbound, a + 1 < k, ResolvedAt(k, q)
      PROVE  k - 1 \in DOMAIN inbound' /\ k - 1 \in Nat /\ a < k - 1 /\ ResolvedAt(k - 1, q)'
  <2>1. k \in Nat /\ k - 1 \in Nat /\ k - 1 > 0 /\ (k - 1) + 1 = k /\ a < k - 1
    BY <1>1, <1>4
  <2>2. k - 1 \in DOMAIN inbound'
    BY <1>2, <2>1, <1>4
  <2>3. ResolvedAt(k - 1, q)'
    BY <1>3, <1>4, <2>1
  <2>4. QED
    BY <2>1, <2>2, <2>3
<1>5. ASSUME NEW q, NEW a \in Nat, NEW b \in Nat, Resolved(q, a + 1, b + 1)
      PROVE  Resolved(q, a, b)'
  <2>1. PICK k \in DOMAIN inbound : a + 1 < k /\ k < b + 1 /\ ResolvedAt(k, q)
    BY <1>5 DEF Resolved
  <2>2. k - 1 \in DOMAIN inbound' /\ a < k - 1 /\ ResolvedAt(k - 1, q)'
    BY <1>4, <2>1
  <2>3. k - 1 < b
    BY <1>1, <2>1
  <2>4. QED
    BY <2>2, <2>3 DEF Resolved
<1>6. ASSUME NEW q, NEW a \in Nat, ResolvedAfter(q, a + 1)
      PROVE  ResolvedAfter(q, a)'
  BY <1>4, <1>6 DEF ResolvedAfter
<1>7. /\ \A i \in DOMAIN inbound' : i \in Nat \ {0} /\ i + 1 \in DOMAIN inbound
      /\ 1 \in DOMAIN inbound
  BY <1>1
<1>8. QED
  BY <1>1, <1>3, <1>5, <1>6, <1>7

-----------------------------------------------------------------------------
(* What a step does with the messages, and with the entries *)

\* Entries are forgotten, or nothing happens to them.
Forgets == \A d \in WireIds : pending'[d] \in {pending[d], None}

\* A step that takes nothing off stdout, and of which the server knows nothing.
Aside == UNCHANGED <<setup, wires>> /\ Forgets

LEMMA AsideAlternates ==
    ASSUME TypeOK, RouterAssumption, Alternates, Aside
    PROVE  Alternates'
<1> SUFFICES ASSUME polite'
             PROVE  (RequestsAlternate /\ PendingIsResolvedFirst /\ NotOpenIsResolved)'
  BY DEF Alternates
<1>1. RequestsAlternate /\ PendingIsResolvedFirst /\ NotOpenIsResolved
  BY DEF Alternates, Aside, setup
<1>2. inbound' = inbound /\ server' = server
  BY DEF Aside, wires
<1>3. /\ \A i, r : RequestAt(i, r)' <=> RequestAt(i, r)
      /\ \A q, a, b : Resolved(q, a, b)' <=> Resolved(q, a, b)
      /\ \A q, a : ResolvedAfter(q, a)' <=> ResolvedAfter(q, a)
  BY <1>2 DEF RequestAt, ResolvedAt, Resolved, ResolvedAfter
<1>4. \A d \in WireIds, q \in Requests : pending'[d] = q => pending[d] = q
  BY RouterAssumption DEF Aside, Forgets, RouterAssumption
<1>5. RequestsAlternate'
  BY <1>1, <1>2, <1>3 DEF RequestsAlternate
<1>6. PendingIsResolvedFirst'
  BY <1>1, <1>2, <1>3, <1>4 DEF PendingIsResolvedFirst
<1>7. NotOpenIsResolved'
  BY <1>1, <1>2, <1>3, <1>4 DEF NotOpenIsResolved
<1>8. QED
  BY <1>5, <1>6, <1>7

\* A polite server asks again with an id when the last request is resolved.
LEMMA AskAlternates ==
    ASSUME IInv, RouterAssumption, NEW r \in Requests, ServerAsks(r)
    PROVE  Alternates'
<1> SUFFICES ASSUME polite'
             PROVE  (RequestsAlternate /\ PendingIsResolvedFirst /\ NotOpenIsResolved)'
  BY DEF Alternates
<1> DEFINE n == Len(inbound) + 1
<1>1. RequestsAlternate /\ PendingIsResolvedFirst /\ NotOpenIsResolved /\ TypeOK
  BY DEF IInv, Alternates, ServerAsks, setup
<1>2. /\ inbound' = Append(inbound, Request(r)) /\ Request(r) \in Messages
      /\ pending' = pending
      /\ server' = [server EXCEPT ![r] = "open"] /\ server[r] = "unsent"
      /\ ~InServer(WireId[r], "open")
  BY Shapes DEF ServerAsks, Request, setup
<1>3. /\ \A i, q : RequestAt(i, q)' <=> RequestAt(i, q) \/ (i = n /\ q = r)
      /\ \A q, a, b : Resolved(q, a, b) => Resolved(q, a, b)'
      /\ \A q, a : ResolvedAfter(q, a) => ResolvedAfter(q, a)'
  BY <1>1, <1>2, AfterAppend, Shapes
<1>4. n \in Nat /\ \A i \in DOMAIN inbound : i \in Nat /\ i < n
  BY <1>1, <1>2, AppendedMessage
<1>5. n \in DOMAIN inbound' /\ n \notin DOMAIN inbound
      /\ \A i \in DOMAIN inbound' : i \in DOMAIN inbound \/ i = n
  BY <1>1, <1>2, AppendedMessage
<1>6. \A q, a : ResolvedAfter(q, a) => Resolved(q, a, n)
  BY <1>4 DEF ResolvedAfter, Resolved
<1>7. \A q \in Requests : WireId[q] = WireId[r] => server[q] # "open"
  BY <1>2 DEF InServer
<1> HIDE DEF n
<1>8. RequestsAlternate'
  <2> SUFFICES ASSUME NEW p \in Requests, NEW q \in Requests,
                      NEW i \in DOMAIN inbound', NEW j \in DOMAIN inbound',
                      RequestAt(j, p)', RequestAt(i, q)', j < i, WireId[p] = WireId[q]
               PROVE  Resolved(p, j, i)'
    BY DEF RequestsAlternate
  <2>1. j # n
    BY <1>4, <1>5
  <2>2. RequestAt(j, p) /\ j \in DOMAIN inbound
    BY <1>3, <1>5, <2>1
  <2>3. CASE i # n
    BY <1>1, <1>3, <1>5, <2>2, <2>3 DEF RequestsAlternate
  <2>4. CASE i = n
    <3>1. q = r
      BY <1>3, <1>5, <2>4 DEF RequestAt
    <3>2. ResolvedAfter(p, j)
      BY <1>1, <1>7, <2>2, <3>1 DEF NotOpenIsResolved
    <3>3. QED
      BY <1>3, <1>6, <2>4, <3>2
  <2>5. QED
    BY <2>3, <2>4
<1>9. PendingIsResolvedFirst'
  <2> SUFFICES ASSUME NEW d \in WireIds, NEW p \in Requests, NEW q \in Requests,
                      NEW i \in DOMAIN inbound',
                      RequestAt(i, q)', WireId[q] = d, pending[d] = p
               PROVE  Resolved(p, 0, i)'
    BY <1>2 DEF PendingIsResolvedFirst
  <2>1. CASE i # n
    BY <1>1, <1>3, <1>5, <2>1 DEF PendingIsResolvedFirst
  <2>2. CASE i = n
    <3>1. q = r
      BY <1>3, <1>5, <2>2 DEF RequestAt
    <3>2. ResolvedAfter(p, 0)
      BY <1>1, <1>7, <3>1 DEF NotOpenIsResolved
    <3>3. QED
      BY <1>3, <1>6, <2>2, <3>2
  <2>3. QED
    BY <2>1, <2>2
<1>10. NotOpenIsResolved'
  <2>1. \A q \in Requests : server'[q] # "open" => q # r /\ server[q] # "open"
    BY <1>1, <1>2 DEF TypeOK
  <2>2. \A q \in Requests : \A j \in DOMAIN inbound' :
          RequestAt(j, q)' /\ server'[q] # "open" => ResolvedAfter(q, j)'
    BY <1>1, <1>3, <1>5, <2>1 DEF NotOpenIsResolved, RequestAt
  <2>3. \A d \in WireIds, q \in Requests : pending'[d] = q =>
          WireId[q] = d /\ (server'[q] # "open" => ResolvedAfter(q, 0)')
    BY <1>1, <1>2, <1>3, <2>1 DEF NotOpenIsResolved
  <2>4. QED
    BY <2>2, <2>3 DEF NotOpenIsResolved
<1>11. QED
  BY <1>8, <1>9, <1>10

LEMMA ResolveAlternates ==
    ASSUME IInv, RouterAssumption, NEW r \in Requests, ServerResolves(r)
    PROVE  Alternates'
<1> SUFFICES ASSUME polite'
             PROVE  (RequestsAlternate /\ PendingIsResolvedFirst /\ NotOpenIsResolved)'
  BY DEF Alternates
<1> DEFINE n == Len(inbound) + 1
<1>1. RequestsAlternate /\ PendingIsResolvedFirst /\ NotOpenIsResolved /\ TypeOK
  BY DEF IInv, Alternates, ServerResolves, setup
<1>2. /\ inbound' = Append(inbound, Resolution(r)) /\ Resolution(r) \in Messages
      /\ pending' = pending
      /\ server' = [server EXCEPT ![r] = "resolved"]
  BY Shapes DEF ServerResolves, Resolution
<1>3. /\ \A i, q : RequestAt(i, q)' <=> RequestAt(i, q)
      /\ \A i : i = n => ResolvedAt(i, r)'
      /\ \A q, a : ResolvedAfter(q, a) => ResolvedAfter(q, a)'
      /\ \A q, a, b : Resolved(q, a, b) => Resolved(q, a, b)'
  <2>1. \A q : Resolution(r) # Request(q)
    BY Shapes
  <2>2. /\ \A i, q : RequestAt(i, q)' <=>
              RequestAt(i, q) \/ (i = n /\ Resolution(r) = Request(q))
        /\ \A i, q : ResolvedAt(i, q)' <=>
              ResolvedAt(i, q) \/ (i = n /\ Resolution(r) = Resolution(q))
        /\ \A q, a, b : Resolved(q, a, b) => Resolved(q, a, b)'
        /\ \A q, a : ResolvedAfter(q, a) => ResolvedAfter(q, a)'
    BY <1>1, <1>2, AfterAppend
  <2> HIDE DEF n
  <2>3. QED
    BY <2>1, <2>2
<1>4. n \in DOMAIN inbound' /\ n \in Nat /\ \A i \in DOMAIN inbound : i \in Nat /\ i < n
  BY <1>1, <1>2, AppendedMessage
<1> HIDE DEF n
<1>5. \A i \in DOMAIN inbound : ResolvedAfter(r, i)'
  BY <1>3, <1>4 DEF ResolvedAfter
<1>6. ResolvedAfter(r, 0)'
  <2>1. 0 < n
    BY <1>1, <1>2, AppendedMessage DEF n
  <2>2. QED
    BY <1>3, <1>4, <2>1 DEF ResolvedAfter
<1>7. \A q \in Requests : server'[q] # "open" => q = r \/ server[q] # "open"
  BY <1>1, <1>2 DEF TypeOK
<1>8. RequestsAlternate'
  BY <1>1, <1>3 DEF RequestsAlternate, RequestAt
<1>9. PendingIsResolvedFirst'
  BY <1>1, <1>2, <1>3 DEF PendingIsResolvedFirst, RequestAt
<1>10. NotOpenIsResolved'
  <2>1. \A q \in Requests : \A j \in DOMAIN inbound' :
          RequestAt(j, q)' /\ server'[q] # "open" => ResolvedAfter(q, j)'
    BY <1>1, <1>3, <1>5, <1>7 DEF NotOpenIsResolved, RequestAt
  <2>2. \A d \in WireIds, q \in Requests : pending'[d] = q =>
          WireId[q] = d /\ (server'[q] # "open" => ResolvedAfter(q, 0)')
    BY <1>1, <1>2, <1>3, <1>6, <1>7 DEF NotOpenIsResolved
  <2>3. QED
    BY <2>1, <2>2 DEF NotOpenIsResolved
<1>11. QED
  BY <1>8, <1>9, <1>10

\* The head is taken.  An entry that is left was there, and is not the one that the
\* head resolves; or it is the one of the request at the head.
LEMMA TakeAlternates ==
    ASSUME TypeOK, RouterAssumption, Alternates, inbound # <<>>, inbound' = Tail(inbound),
           UNCHANGED <<setup, server>>,
           \A d \in WireIds, q \in Requests : pending'[d] = q =>
              \/ pending[d] = q /\ ~ResolvedAt(1, q)
              \/ RequestAt(1, q) /\ WireId[q] = d
    PROVE  Alternates'
<1> SUFFICES ASSUME polite'
             PROVE  (RequestsAlternate /\ PendingIsResolvedFirst /\ NotOpenIsResolved)'
  BY DEF Alternates
<1>1. RequestsAlternate /\ PendingIsResolvedFirst /\ NotOpenIsResolved
  BY DEF Alternates, setup
<1>2. /\ \A r : \A i \in Nat : RequestAt(i, r)' <=> i > 0 /\ RequestAt(i + 1, r)
      /\ \A q : \A a, b \in Nat : Resolved(q, a + 1, b + 1) => Resolved(q, a, b)'
      /\ \A q : \A a \in Nat : ResolvedAfter(q, a + 1) => ResolvedAfter(q, a)'
      /\ \A i \in DOMAIN inbound' : i \in Nat \ {0} /\ i + 1 \in DOMAIN inbound
      /\ 1 \in DOMAIN inbound
  BY AfterTail
<1>3. DOMAIN inbound \subseteq Nat \ {0}
  BY TakenMessage
<1>4. RequestsAlternate'
  <2> SUFFICES ASSUME NEW p \in Requests, NEW q \in Requests,
                      NEW i \in DOMAIN inbound', NEW j \in DOMAIN inbound',
                      RequestAt(j, p)', RequestAt(i, q)', j < i, WireId[p] = WireId[q]
               PROVE  Resolved(p, j, i)'
    BY DEF RequestsAlternate
  <2>1. i \in Nat /\ j \in Nat /\ RequestAt(i + 1, q) /\ RequestAt(j + 1, p)
        /\ i + 1 \in DOMAIN inbound /\ j + 1 \in DOMAIN inbound
    BY <1>2
  <2>2. Resolved(p, j + 1, i + 1)
    BY <1>1, <2>1 DEF RequestsAlternate
  <2>3. QED
    BY <1>2, <2>1, <2>2
\* An entry that was there is resolved behind the head.
<1>5. \A q : ~ResolvedAt(1, q) =>
         /\ \A b : Resolved(q, 0, b) => Resolved(q, 1, b)
         /\ ResolvedAfter(q, 0) => ResolvedAfter(q, 1)
  <2>1. \A k \in DOMAIN inbound : k # 1 => 1 < k
    BY <1>3
  <2>2. QED
    BY <2>1 DEF Resolved, ResolvedAfter
<1>6. PendingIsResolvedFirst'
  <2> SUFFICES ASSUME NEW d \in WireIds, NEW p \in Requests, NEW q \in Requests,
                      NEW i \in DOMAIN inbound',
                      RequestAt(i, q)', WireId[q] = d, pending'[d] = p
               PROVE  Resolved(p, 0, i)'
    BY DEF PendingIsResolvedFirst
  <2>1. i \in Nat \ {0} /\ RequestAt(i + 1, q) /\ i + 1 \in DOMAIN inbound
    BY <1>2
  <2>2. Resolved(p, 1, i + 1)
    <3>1. CASE pending[d] = p /\ ~ResolvedAt(1, p)
      BY <1>1, <1>5, <2>1, <3>1 DEF PendingIsResolvedFirst
    <3>2. CASE RequestAt(1, p) /\ WireId[p] = d
      <4>1. 1 < i + 1
        BY <2>1
      <4>2. QED
        BY <1>1, <1>2, <2>1, <3>2, <4>1 DEF RequestsAlternate
    <3>3. QED
      BY <3>1, <3>2
  <2>3. 0 + 1 = 1 /\ 0 \in Nat
    OBVIOUS
  <2>4. QED
    BY <1>2, <2>1, <2>2, <2>3
<1>7. NotOpenIsResolved'
  <2>1. server' = server
    OBVIOUS
  <2>2. \A q \in Requests : \A j \in DOMAIN inbound' :
          RequestAt(j, q)' /\ server'[q] # "open" => ResolvedAfter(q, j)'
    BY <1>1, <1>2, <2>1 DEF NotOpenIsResolved
  <2>3. ASSUME NEW d \in WireIds, NEW q \in Requests, pending'[d] = q
        PROVE  WireId[q] = d /\ (server'[q] # "open" => ResolvedAfter(q, 0)')
    <3>1. WireId[q] = d
      BY <1>1, <2>3 DEF NotOpenIsResolved
    <3>2. server[q] # "open" => ResolvedAfter(q, 1)
      BY <1>1, <1>2, <1>5, <2>3 DEF NotOpenIsResolved
    <3>3. 0 + 1 = 1 /\ 0 \in Nat
      OBVIOUS
    <3>4. ResolvedAfter(q, 1) => ResolvedAfter(q, 0)'
      BY <1>2, <3>3
    <3>5. QED
      BY <2>1, <3>1, <3>2, <3>4
  <2>4. QED
    BY <2>2, <2>3 DEF NotOpenIsResolved
<1>8. QED
  BY <1>4, <1>6, <1>7

-----------------------------------------------------------------------------
(* Requests on their way are fresh *)

Entries == {pending[d] : d \in WireIds}

LEMMA AsideFresh ==
    ASSUME TypeOK, RouterAssumption, Fresh, Aside, claimed' \subseteq claimed \cup Entries
    PROVE  Fresh'
<1>1. inbound' = inbound /\ server' = server
  BY DEF Aside, wires
<1>2. \A i, r : RequestAt(i, r)' <=> RequestAt(i, r)
  BY <1>1 DEF RequestAt
<1>3. \A r \in Requests : (\A d \in WireIds : pending[d] # r) /\ r \notin claimed =>
         (\A d \in WireIds : pending'[d] # r) /\ r \notin claimed'
  BY RouterAssumption DEF RouterAssumption, Aside, Forgets, Entries
<1>4. QED
  BY <1>1, <1>2, <1>3 DEF Fresh

LEMMA AskFresh ==
    ASSUME TypeOK, Fresh, NEW r \in Requests, ServerAsks(r)
    PROVE  Fresh'
<1> DEFINE n == Len(inbound) + 1
<1>1. /\ inbound' = Append(inbound, Request(r)) /\ Request(r) \in Messages
      /\ pending' = pending /\ claimed' = claimed
      /\ server' = [server EXCEPT ![r] = "open"] /\ server[r] = "unsent"
  BY Shapes DEF ServerAsks, Request, answers
<1>2. \A i, q : RequestAt(i, q)' <=> RequestAt(i, q) \/ (i = n /\ q = r)
  BY <1>1, AfterAppend, Shapes
<1>3. \A i : i \in DOMAIN inbound' <=> i \in DOMAIN inbound \/ i = n
  BY <1>1, AppendedMessage
<1>4. \A q \in Requests : server'[q] = IF q = r THEN "open" ELSE server[q]
  BY <1>1 DEF TypeOK
<1> HIDE DEF n
<1>5. \A i : ~RequestAt(i, r)
  BY <1>1 DEF Fresh, RequestAt
<1>6. QED
  BY <1>1, <1>2, <1>3, <1>4, <1>5 DEF Fresh, RequestAt

LEMMA ResolveFresh ==
    ASSUME TypeOK, Fresh, NEW r \in Requests, ServerResolves(r)
    PROVE  Fresh'
<1>1. /\ inbound' = Append(inbound, Resolution(r)) /\ Resolution(r) \in Messages
      /\ pending' = pending /\ claimed' = claimed
      /\ server' = [server EXCEPT ![r] = "resolved"] /\ server[r] = "open"
  BY Shapes DEF ServerResolves, Resolution, answers
<1>2. \A i, q : RequestAt(i, q)' <=> RequestAt(i, q)
  BY <1>1, AfterAppend, Shapes
<1>3. \A q \in Requests : server'[q] = "unsent" <=> server[q] = "unsent"
  BY <1>1 DEF TypeOK
<1>4. QED
  BY <1>1, <1>2, <1>3 DEF Fresh, RequestAt

\* The request at the head is known from now on, and it is the only one of its kind.
LEMMA TakeFresh ==
    ASSUME TypeOK, RouterAssumption, Fresh, inbound # <<>>, inbound' = Tail(inbound),
           server' = server,
           \A d \in WireIds : \/ pending'[d] \in {pending[d], None}
                             \/ RequestAt(1, pending'[d]),
           \A q \in claimed' \ claimed : RequestAt(1, q)
    PROVE  Fresh'
<1>1. /\ \A r : \A i \in Nat : RequestAt(i, r)' <=> i > 0 /\ RequestAt(i + 1, r)
      /\ \A i \in DOMAIN inbound' : i \in Nat \ {0} /\ i + 1 \in DOMAIN inbound
      /\ 1 \in DOMAIN inbound
  BY AfterTail
<1>2. ASSUME NEW r \in Requests, NEW i \in DOMAIN inbound', RequestAt(i, r)'
      PROVE  /\ server[r] # "unsent" /\ r \notin claimed'
             /\ \A d \in WireIds : pending'[d] # r
             /\ \A j \in DOMAIN inbound' : RequestAt(j, r)' => i = j
  <2>1. i \in Nat \ {0} /\ i + 1 \in DOMAIN inbound /\ RequestAt(i + 1, r)
    BY <1>1, <1>2
  <2>2. \A j \in DOMAIN inbound : RequestAt(j, r) => i + 1 = j
    BY <2>1 DEF Fresh
  <2>3. ~RequestAt(1, r)
    BY <1>1, <2>1, <2>2
  <2>4. \A j \in DOMAIN inbound' : RequestAt(j, r)' => i = j
    BY <1>1, <2>1, <2>2
  <2>5. server[r] # "unsent" /\ r \notin claimed /\ \A d \in WireIds : pending[d] # r
    BY <2>1 DEF Fresh
  <2>6. QED
    BY <2>3, <2>4, <2>5, RouterAssumption DEF RouterAssumption
<1>3. ASSUME NEW r \in Requests, server[r] = "unsent"
      PROVE  r \notin claimed' /\ \A d \in WireIds : pending'[d] # r
  <2>1. ~RequestAt(1, r)
    BY <1>1, <1>3 DEF Fresh
  <2>2. QED
    BY <1>3, <2>1, RouterAssumption DEF RouterAssumption, Fresh
<1>4. QED
  BY <1>2, <1>3 DEF Fresh

-----------------------------------------------------------------------------
(* Answers *)

\* An entry is claimed when it had not been, and its answer is on the way.
LEMMA ClaimOnce ==
    ASSUME TypeOK, Once, NEW who, NEW r \in Requests, r \notin claimed,
           claimed' = claimed \cup {r}, writing' = writing \cup {<<who, r>>}, sent' = sent
    PROVE  Once'
<1>1. sent[r] = 0 /\ \A w \in writing : w[2] # r
  BY DEF Once, TypeOK
<1>2. <<who, r>>[2] = r
  OBVIOUS
<1>3. \A w \in writing' : w \in writing \/ w = <<who, r>>
  OBVIOUS
<1>4. /\ \A w \in writing : w[2] \in claimed
      /\ \A q \in Requests : sent[q] > 0 => q \in claimed
      /\ \A v, w \in writing : v[2] = w[2] => v = w
      /\ \A q \in Requests : sent[q] <= 1 /\ (sent[q] = 1 => \A w \in writing : w[2] # q)
  BY DEF Once, AnsweredOnce
<1>5. \A v, w \in writing' : v[2] = w[2] => v = w
  BY <1>1, <1>2, <1>3, <1>4
<1>6. \A q \in Requests : sent'[q] <= 1 /\ (sent'[q] = 1 => \A w \in writing' : w[2] # q)
  BY <1>1, <1>2, <1>3, <1>4
<1>7. \A w \in writing' : w[2] \in claimed'
  BY <1>2, <1>3, <1>4
<1>8. \A q \in Requests : sent'[q] > 0 => q \in claimed'
  BY <1>4
<1>9. QED
  BY <1>5, <1>6, <1>7, <1>8 DEF Once, AnsweredOnce

\* An answer is written, or its write ends otherwise.
LEMMA WriteOnce ==
    ASSUME TypeOK, Once, NEW who, NEW r \in Requests, <<who, r>> \in writing,
           claimed' = claimed, writing' \subseteq writing \ {<<who, r>>}, MayBeSent(r)
    PROVE  Once'
<1>1. <<who, r>>[2] = r
  OBVIOUS
<1>2. sent[r] = 0 /\ r \in claimed
  <2>1. sent[r] \in Nat /\ sent[r] <= 1 /\ sent[r] # 1
    BY <1>1 DEF Once, AnsweredOnce, TypeOK
  <2>2. QED
    BY <1>1, <2>1 DEF Once
<1>3. \A w \in writing' : w \in writing /\ w[2] # r
  BY <1>1 DEF Once, AnsweredOnce
<1>4. \A q \in Requests : sent'[q] = sent[q] \/ (q = r /\ sent'[q] = 1)
  BY <1>2 DEF MayBeSent, TypeOK
<1>5. \A q \in Requests : sent[q] \in Nat
  BY DEF TypeOK
<1>6. QED
  BY <1>2, <1>3, <1>4, <1>5 DEF Once, AnsweredOnce

LEMMA FewerOnce ==
    ASSUME Once, claimed' = claimed, sent' = sent, writing' \subseteq writing
    PROVE  Once'
BY DEF Once, AnsweredOnce

-----------------------------------------------------------------------------
(* Closing *)

LEMMA ShutLeaves ==
    ASSUME TypeOK, NEW error \in BOOLEAN, NEW left \in SUBSET writing, Shut(error, left)
    PROVE  /\ Forgets /\ \A d \in WireIds : pending'[d] = None
           /\ \A r \in Requests : task'[r] \notin Active
           /\ subscription' # "open" /\ closed' = TRUE
           /\ writing' \subseteq left
           /\ pending' \in [WireIds -> Requests \cup {None}]
           /\ task' \in [Requests -> Tasks]
           /\ subscription' \in {"none", "closed", "failed"}
           /\ terminal' \in BOOLEAN /\ transport' = "closing"
<1>1. pending' = [d \in WireIds |-> None]
  BY DEF Shut
<1>2. /\ task' \in [Requests -> Tasks]
      /\ \A r \in Requests : task'[r] \notin Active
  BY DEF Shut, TypeOK, Tasks, Active
<1>3. /\ subscription' \in {"none", "closed", "failed"}
      /\ terminal' \in BOOLEAN /\ transport' = "closing"
      /\ closed' = TRUE /\ writing' \subseteq left
  BY DEF Shut, TypeOK
<1>4. QED
  BY <1>1, <1>2, <1>3 DEF Forgets

\* The dispatcher fails with everything the router has.
LEMMA FailDispatchLeaves ==
    ASSUME TypeOK, FailDispatch
    PROVE  /\ Forgets /\ \A d \in WireIds : pending'[d] = None
           /\ Quiet' /\ writing' \subseteq writing
           /\ UNCHANGED <<setup, server, claimed, sent>>
           /\ inbound' \in Seq(Messages) => TypeOK'
<1>1. Shut(TRUE, writing) /\ dispatcher' = "failed"
      /\ UNCHANGED <<setup, server, claimed, sent, handled, offered>>
  BY DEF FailDispatch
<1>2. /\ Forgets /\ \A d \in WireIds : pending'[d] = None
      /\ \A r \in Requests : task'[r] \notin Active
      /\ subscription' # "open" /\ closed' = TRUE
      /\ writing' \subseteq writing
      /\ pending' \in [WireIds -> Requests \cup {None}]
      /\ task' \in [Requests -> Tasks]
      /\ subscription' \in {"none", "closed", "failed"}
      /\ terminal' \in BOOLEAN /\ transport' = "closing"
  BY <1>1, ShutLeaves
<1>3. inbound' \in Seq(Messages) => TypeOK'
  BY <1>1, <1>2 DEF TypeOK, setup
<1>4. Quiet'
  BY <1>2 DEF Quiet, FailedIsQuiet
<1>5. QED
  BY <1>1, <1>2, <1>3, <1>4

\* The dispatcher reads no more; what is on stdout stays there.
LEMMA LoopFailsStep ==
    ASSUME IInv, RouterAssumption, LoopFails
    PROVE  IInv'
<1>1. TypeOK /\ Fresh /\ Once /\ Alternates
  BY DEF IInv
<1>2. FailDispatch /\ inbound' = inbound
  BY DEF LoopFails
<1>3. /\ Forgets /\ Quiet' /\ writing' \subseteq writing
      /\ UNCHANGED <<setup, server, claimed, sent>>
      /\ TypeOK'
  BY <1>1, <1>2, FailDispatchLeaves DEF TypeOK
<1>4. Aside
  BY <1>2, <1>3 DEF Aside, wires
<1>5. Fresh' /\ Once' /\ Alternates'
  BY <1>1, <1>3, <1>4, AsideFresh, AsideAlternates, FewerOnce
<1>6. QED
  BY <1>3, <1>5 DEF IInv

LEMMA RouteDuplicateStep ==
    ASSUME IInv, RouterAssumption, NEW r \in Requests, RouteDuplicate(r)
    PROVE  IInv'
<1>1. TypeOK /\ Fresh /\ Once /\ Alternates
  BY DEF IInv
<1>2. FailDispatch /\ inbound # <<>> /\ inbound' = Tail(inbound)
  BY DEF RouteDuplicate
<1>3. /\ Forgets /\ \A d \in WireIds : pending'[d] = None
      /\ Quiet' /\ writing' \subseteq writing
      /\ UNCHANGED <<setup, server, claimed, sent>>
      /\ TypeOK'
  BY <1>1, <1>2, FailDispatchLeaves, TakenMessage
<1>4. Fresh'
  BY <1>1, <1>2, <1>3, TakeFresh
<1>5. Alternates'
  BY <1>1, <1>2, <1>3, TakeAlternates, RouterAssumption DEF RouterAssumption
<1>6. Once'
  BY <1>1, <1>3, FewerOnce
<1>7. QED
  BY <1>3, <1>4, <1>5, <1>6 DEF IInv

LEMMA CloseStep ==
    ASSUME IInv, RouterAssumption, Close
    PROVE  IInv'
<1>1. TypeOK /\ Fresh /\ Once /\ Alternates
  BY DEF IInv
<1>2. Shut(FALSE, writing) /\ ~closed
      /\ UNCHANGED <<setup, wires, dispatcher, claimed, sent, handled, offered>>
  BY DEF Close
<1>3. /\ Forgets
      /\ \A r \in Requests : task'[r] \notin Active
      /\ subscription' # "open" /\ closed' = TRUE
      /\ writing' \subseteq writing
      /\ pending' \in [WireIds -> Requests \cup {None}]
      /\ task' \in [Requests -> Tasks]
      /\ subscription' \in {"none", "closed", "failed"}
      /\ terminal' \in BOOLEAN /\ transport' = "closing"
  BY <1>1, <1>2, ShutLeaves
<1>4. TypeOK'
  BY <1>1, <1>2, <1>3 DEF TypeOK, setup, wires
<1>5. Fresh' /\ Once' /\ Alternates'
  BY <1>1, <1>2, <1>3, AsideFresh, AsideAlternates, FewerOnce DEF Aside
<1>6. Quiet'
  BY <1>2, <1>3 DEF IInv, Quiet, FailedIsQuiet
<1>7. QED
  BY <1>4, <1>5, <1>6 DEF IInv

-----------------------------------------------------------------------------
(* The server *)

LEMMA ServerAsksStep ==
    ASSUME IInv, RouterAssumption, NEW r \in Requests, ServerAsks(r)
    PROVE  IInv'
<1>1. TypeOK /\ Fresh /\ Once /\ Quiet
  BY DEF IInv
<1>2. inbound' \in Seq(Messages)
  <2>1. inbound' = Append(inbound, Request(r)) /\ Request(r) \in Messages
    BY Shapes DEF ServerAsks, Request
  <2>2. QED
    BY <1>1, <2>1, AppendedMessage
<1>3. TypeOK'
  BY <1>1, <1>2 DEF TypeOK, ServerAsks, setup, answers, end
<1>4. Once' /\ Quiet'
  BY <1>1 DEF ServerAsks, answers, end, Once, AnsweredOnce, Quiet, FailedIsQuiet
<1>5. QED
  BY <1>1, <1>3, <1>4, AskFresh, AskAlternates DEF IInv

LEMMA ServerResolvesStep ==
    ASSUME IInv, RouterAssumption, NEW r \in Requests, ServerResolves(r)
    PROVE  IInv'
<1>1. TypeOK /\ Fresh /\ Once /\ Quiet
  BY DEF IInv
<1>2. inbound' \in Seq(Messages)
  <2>1. inbound' = Append(inbound, Resolution(r)) /\ Resolution(r) \in Messages
    BY Shapes DEF ServerResolves, Resolution
  <2>2. QED
    BY <1>1, <2>1, AppendedMessage
<1>3. TypeOK'
  BY <1>1, <1>2 DEF TypeOK, ServerResolves, setup, answers, end
<1>4. Once' /\ Quiet'
  BY <1>1 DEF ServerResolves, answers, end, Once, AnsweredOnce, Quiet, FailedIsQuiet
<1>5. QED
  BY <1>1, <1>3, <1>4, ResolveFresh, ResolveAlternates DEF IInv

-----------------------------------------------------------------------------
(* Handlers and the application *)

\* Handlers and subscriptions come and go without a word to the server.
LEMMA ApplicationStep ==
    ASSUME IInv, RouterAssumption, SetHandler \/ Subscribe \/ Unsubscribe
    PROVE  IInv'
<1>1. TypeOK /\ Fresh /\ Once /\ Quiet /\ Alternates
  BY DEF IInv
<1>2. UNCHANGED <<setup, wires, pending, claimed, writing, sent, task, dispatcher, closed>>
  BY DEF SetHandler, Subscribe, Unsubscribe, answers, end
<1>3. TypeOK'
  <2>1. handled' \in BOOLEAN /\ subscription' \in {"none", "open", "closed", "failed"}
    BY <1>1 DEF TypeOK, SetHandler, Subscribe, Unsubscribe
  <2>2. UNCHANGED <<offered, terminal, transport>>
    BY DEF SetHandler, Subscribe, Unsubscribe, end
  <2>3. QED
    BY <1>1, <1>2, <2>1, <2>2 DEF TypeOK, setup, wires
<1>4. Quiet'
  BY <1>1 DEF Quiet, FailedIsQuiet, SetHandler, Subscribe, Unsubscribe, end
<1>5. Aside
  BY <1>2 DEF Aside, Forgets
<1>6. Fresh' /\ Once' /\ Alternates'
  BY <1>1, <1>2, <1>5, AsideFresh, AsideAlternates, FewerOnce
<1>7. QED
  BY <1>3, <1>4, <1>6 DEF IInv

\* Whoever claims the entry of an id, it was not claimed before.
LEMMA ClaimsEntry ==
    ASSUME TypeOK, Once, RouterAssumption, NEW who \in Workers, NEW d \in WireIds,
           Claim(who, d)
    PROVE  /\ Once' /\ claimed' \subseteq claimed \cup Entries
           /\ claimed' \subseteq Requests /\ writing' \subseteq Workers \X Requests
           /\ sent' = sent
<1>1. pending[d] \in Requests /\ pending[d] \notin claimed
  BY DEF Claim, Claimable, TypeOK
<1>2. Once'
  BY <1>1, ClaimOnce DEF Claim
<1>3. QED
  BY <1>1, <1>2 DEF Claim, TypeOK, Entries

LEMMA AppRepliesStep ==
    ASSUME IInv, RouterAssumption, NEW r \in Requests, AppReplies(r)
    PROVE  IInv'
<1>1. TypeOK /\ Fresh /\ Once /\ Quiet /\ Alternates
  BY DEF IInv
<1>2. WireId[r] \in WireIds /\ App \in Workers
  BY RouterAssumption DEF RouterAssumption, Workers
<1>3. UNCHANGED <<setup, wires, dispatcher, pending, task, handled, subscription, offered, end>>
  BY DEF AppReplies
<1>4. /\ Once' /\ claimed' \subseteq claimed \cup Entries
      /\ claimed' \subseteq Requests /\ writing' \subseteq Workers \X Requests /\ sent' = sent
  BY <1>1, <1>2, ClaimsEntry DEF AppReplies
<1>5. TypeOK'
  BY <1>1, <1>3, <1>4 DEF TypeOK, setup, wires, end
<1>6. Quiet'
  BY <1>1, <1>3 DEF Quiet, FailedIsQuiet, end
<1>7. Aside
  BY <1>3 DEF Aside, Forgets
<1>8. Fresh' /\ Alternates'
  BY <1>1, <1>4, <1>7, AsideFresh, AsideAlternates
<1>9. QED
  BY <1>4, <1>5, <1>6, <1>8 DEF IInv

LEMMA HandlerRepliesStep ==
    ASSUME IInv, RouterAssumption, NEW r \in Requests, HandlerReplies(r)
    PROVE  IInv'
<1>1. TypeOK /\ Fresh /\ Once /\ Quiet /\ Alternates
  BY DEF IInv
<1>2. /\ task[r] = "running" /\ dispatcher # "failed"
      /\ UNCHANGED <<setup, wires, dispatcher, pending, handled, subscription, offered, end>>
  BY <1>1 DEF HandlerReplies, Quiet, FailedIsQuiet, Active
<1>3. task' \in [Requests -> Tasks]
  BY <1>1 DEF HandlerReplies, TypeOK, Tasks
<1>4. /\ Once' /\ claimed' \subseteq claimed \cup Entries
      /\ claimed' \subseteq Requests /\ writing' \subseteq Workers \X Requests /\ sent' = sent
  <2>1. CASE Claimable(WireId[r])
    <3>1. WireId[r] \in WireIds /\ r \in Workers
      BY RouterAssumption DEF RouterAssumption, Workers
    <3>2. Claim(r, WireId[r])
      BY <2>1 DEF HandlerReplies
    <3>3. QED
      BY <1>1, <3>1, <3>2, ClaimsEntry
  <2>2. CASE ~Claimable(WireId[r])
    BY <1>1, <2>2, FewerOnce DEF HandlerReplies, answers, TypeOK
  <2>3. QED
    BY <2>1, <2>2
<1>5. TypeOK'
  BY <1>1, <1>2, <1>3, <1>4 DEF TypeOK, setup, wires, end
<1>6. Quiet'
  BY <1>2 DEF Quiet, FailedIsQuiet
<1>7. Aside
  BY <1>2 DEF Aside, Forgets
<1>8. Fresh' /\ Alternates'
  BY <1>1, <1>4, <1>7, AsideFresh, AsideAlternates
<1>9. QED
  BY <1>4, <1>5, <1>6, <1>8 DEF IInv

\* A handler that leaves the request to others.
LEMMA HandlerEndsStep ==
    ASSUME IInv, RouterAssumption, NEW r \in Requests, HandlerDeclines(r) \/ HandlerGivesUp(r)
    PROVE  IInv'
<1>1. TypeOK /\ Fresh /\ Once /\ Quiet /\ Alternates
  BY DEF IInv
<1>2. UNCHANGED <<setup, wires, dispatcher, pending, handled, subscription, answers, end>>
  BY DEF HandlerDeclines, HandlerGivesUp
<1>3. TypeOK'
  <2>1. task' \in [Requests -> Tasks]
    BY <1>1 DEF TypeOK, HandlerDeclines, HandlerGivesUp, Tasks
  <2>2. offered' \subseteq Requests
    BY <1>1 DEF TypeOK, HandlerDeclines, HandlerGivesUp, Offer
  <2>3. UNCHANGED <<claimed, writing, sent>>
    BY <1>2 DEF answers
  <2>4. QED
    BY <1>1, <1>2, <2>1, <2>2, <2>3 DEF TypeOK, setup, wires, end
<1>4. Quiet'
  BY <1>1 DEF Quiet, FailedIsQuiet, HandlerDeclines, HandlerGivesUp, Active, TypeOK, end
<1>5. Aside
  BY <1>2 DEF Aside, Forgets
<1>6. Fresh' /\ Once' /\ Alternates'
  BY <1>1, <1>2, <1>5, AsideFresh, AsideAlternates, FewerOnce DEF answers
<1>7. QED
  BY <1>3, <1>4, <1>6 DEF IInv

-----------------------------------------------------------------------------
(* Writes *)

LEMMA SentIsNumber ==
    ASSUME TypeOK, NEW r \in Requests, MayBeSent(r)
    PROVE  sent' \in [Requests -> Nat]
<1>1. sent \in [Requests -> Nat] /\ sent[r] + 1 \in Nat
  BY DEF TypeOK
<1>2. [sent EXCEPT ![r] = @ + 1] \in [Requests -> Nat]
  BY <1>1
<1>3. sent' = sent \/ sent' = [sent EXCEPT ![r] = @ + 1]
  BY DEF MayBeSent
<1>4. QED
  BY <1>1, <1>2, <1>3

LEMMA WriteStep ==
    ASSUME IInv, RouterAssumption, NEW who \in Workers, NEW r \in Requests, Write(who, r)
    PROVE  IInv'
<1>1. TypeOK /\ Fresh /\ Once /\ Quiet /\ Alternates
  BY DEF IInv
<1>2. UNCHANGED <<setup, wires, pending, claimed, handled, subscription, offered, end>>
  BY DEF Write
<1>3. TypeOK'
  BY <1>1 DEF TypeOK, Write, GoOn, Tasks, setup, wires, end
<1>4. Quiet'
  BY <1>1 DEF Quiet, FailedIsQuiet, Write, GoOn, Active, TypeOK, end
<1>5. MayBeSent(r) /\ Once'
  BY <1>1, WriteOnce DEF Write, MayBeSent
<1>6. Aside
  BY <1>2 DEF Aside, Forgets
<1>7. Fresh' /\ Alternates'
  BY <1>1, <1>2, <1>6, AsideFresh, AsideAlternates
<1>8. QED
  BY <1>3, <1>4, <1>5, <1>7 DEF IInv

\* The write of an answer fails: with it the connection, unless that is closed.
LEMMA WriteFailsStep ==
    ASSUME IInv, RouterAssumption, NEW who \in Workers, NEW r \in Requests,
           WriteFails(who, r)
    PROVE  IInv'
<1>1. TypeOK /\ Fresh /\ Once /\ Quiet /\ Alternates
  BY DEF IInv
<1>2. /\ <<who, r>> \in writing /\ MayBeSent(r)
      /\ UNCHANGED <<setup, wires, claimed, handled, offered>>
      /\ dispatcher' = IF who = Dispatcher THEN "failed" ELSE dispatcher
  BY DEF WriteFails
<1>3. sent' \in [Requests -> Nat]
  BY <1>1, <1>2, SentIsNumber
<1>4. CASE closed /\ who # Dispatcher
  <2>1. /\ task' = [q \in Requests |-> IF q = who THEN "done" ELSE task[q]]
        /\ writing' = writing \ {<<who, r>>} /\ dispatcher' = dispatcher
        /\ UNCHANGED <<pending, subscription, end>>
    BY <1>4 DEF WriteFails
  <2>2. TypeOK'
    BY <1>1, <1>2, <1>3, <2>1 DEF TypeOK, Tasks, setup, wires, end
  <2>3. Quiet'
    BY <1>1, <2>1 DEF Quiet, FailedIsQuiet, Active, end
  <2>4. Once'
    BY <1>1, <1>2, <2>1, WriteOnce
  <2>5. Fresh' /\ Alternates'
    BY <1>1, <1>2, <2>1, AsideFresh, AsideAlternates DEF Aside, Forgets
  <2>6. QED
    BY <2>2, <2>3, <2>4, <2>5 DEF IInv
<1>5. CASE ~(closed /\ who # Dispatcher)
  <2>1. Shut(TRUE, writing \ {<<who, r>>})
    BY <1>5 DEF WriteFails
  <2>2. writing \ {<<who, r>>} \in SUBSET writing
    OBVIOUS
  <2>3. /\ Forgets /\ \A d \in WireIds : pending'[d] = None
        /\ \A q \in Requests : task'[q] \notin Active
        /\ subscription' # "open" /\ closed' = TRUE
        /\ writing' \subseteq writing \ {<<who, r>>}
        /\ pending' \in [WireIds -> Requests \cup {None}]
        /\ task' \in [Requests -> Tasks]
        /\ subscription' \in {"none", "closed", "failed"}
        /\ terminal' \in BOOLEAN /\ transport' = "closing"
    BY <1>1, <2>1, <2>2, ShutLeaves
  <2>4. TypeOK'
    BY <1>1, <1>2, <1>3, <2>3 DEF TypeOK, setup, wires
  <2>5. Quiet'
    BY <2>3 DEF Quiet, FailedIsQuiet
  <2>6. Once'
    BY <1>1, <1>2, <2>3, WriteOnce
  <2>7. Fresh' /\ Alternates'
    BY <1>1, <1>2, <2>3, AsideFresh, AsideAlternates DEF Aside
  <2>8. QED
    BY <2>4, <2>5, <2>6, <2>7 DEF IInv
<1>6. QED
  BY <1>4, <1>5

LEMMA WriteEndsStep ==
    ASSUME IInv, RouterAssumption, NEW r \in Requests, WriteStops(r) \/ WriteCancelled(r)
    PROVE  IInv'
<1>1. TypeOK /\ Fresh /\ Once /\ Quiet /\ Alternates
  BY DEF IInv
<1>2. PICK who \in {App, Dispatcher} :
        <<who, r>> \in writing /\ writing' = writing \ {<<who, r>>}
  BY DEF WriteStops, WriteCancelled
<1>3. /\ MayBeSent(r) /\ dispatcher' \in {dispatcher, "stopped"}
      /\ UNCHANGED <<setup, wires, pending, claimed, task, handled, subscription, offered>>
      /\ closed' = closed /\ terminal' = terminal /\ transport' \in {transport, "closing"}
  BY DEF WriteStops, WriteCancelled, end
<1>4. sent' \in [Requests -> Nat]
  BY <1>1, <1>3, SentIsNumber
<1>5. TypeOK'
  BY <1>1, <1>2, <1>3, <1>4 DEF TypeOK, setup, wires
<1>6. Quiet'
  BY <1>1, <1>3 DEF Quiet, FailedIsQuiet
<1>7. Once'
  BY <1>1, <1>2, <1>3, WriteOnce
<1>8. Fresh' /\ Alternates'
  BY <1>1, <1>3, AsideFresh, AsideAlternates DEF Aside, Forgets
<1>9. QED
  BY <1>5, <1>6, <1>7, <1>8 DEF IInv

-----------------------------------------------------------------------------
(* The dispatcher *)

\* The request at the head becomes the entry of its id, and with the reject policy
\* the dispatcher claims it at once.
LEMMA RouteStep ==
    ASSUME IInv, RouterAssumption, NEW r \in Requests, Route(r)
    PROVE  IInv'
<1>1. TypeOK /\ Fresh /\ Once /\ Quiet /\ Alternates
  BY DEF IInv
<1>2. /\ dispatcher = "running" /\ inbound # <<>> /\ inbound' = Tail(inbound)
      /\ Head(inbound) = Request(r) /\ UNCHANGED <<setup, server>>
      /\ pending[WireId[r]] = None
      /\ pending' = [pending EXCEPT ![WireId[r]] = r]
      /\ UNCHANGED <<handled, subscription, end>>
  BY DEF Route, Receive, Request
<1>3. WireId[r] \in WireIds /\ Dispatcher \in Workers
  BY RouterAssumption DEF RouterAssumption, Workers
<1>4. inbound' \in Seq(Messages) /\ RequestAt(1, r)
  BY <1>1, <1>2, AfterTail, TakenMessage DEF RequestAt
<1>5. r \notin claimed /\ \A q \in Requests : RequestAt(1, q) => q = r
  BY <1>2, <1>1, <1>4, Shapes DEF Fresh, RequestAt
<1>6. /\ claimed' \in {claimed, claimed \cup {r}} /\ Once'
      /\ writing' \subseteq Workers \X Requests /\ sent' = sent
      /\ task' \in [Requests -> Tasks] /\ offered' \subseteq Requests
      /\ dispatcher' \in {"running", "replying"}
  <2>1. CASE handled \/ policy = "queue"
    <3>1. /\ UNCHANGED <<answers, dispatcher>>
          /\ \/ UNCHANGED offered /\ task' = [task EXCEPT ![r] = "running"]
             \/ UNCHANGED task /\ Offer(r)
      BY <2>1 DEF Route
    <3>2. claimed' = claimed /\ sent' = sent /\ writing' = writing
      BY <3>1 DEF answers
    <3>3. Once'
      BY <1>1, <3>2, FewerOnce
    <3>4. task' \in [Requests -> Tasks]
      BY <1>1, <3>1 DEF TypeOK, Tasks
    <3>5. offered' \subseteq Requests
      BY <1>1, <3>1 DEF TypeOK, Offer
    <3>6. QED
      BY <1>1, <1>2, <3>1, <3>2, <3>3, <3>4, <3>5 DEF TypeOK
  <2>2. CASE ~(handled \/ policy = "queue")
    <3>1. /\ claimed' = claimed \cup {r} /\ writing' = writing \cup {<<Dispatcher, r>>}
          /\ dispatcher' = "replying" /\ UNCHANGED <<task, offered, sent>>
      BY <2>2 DEF Route
    <3>2. Once'
      BY <1>1, <1>5, <3>1, ClaimOnce
    <3>3. QED
      BY <1>1, <1>3, <3>1, <3>2 DEF TypeOK
  <2>3. QED
    BY <2>1, <2>2
<1>7. TypeOK'
  BY <1>1, <1>2, <1>3, <1>4, <1>6 DEF TypeOK, setup, end
<1>8. Quiet'
  BY <1>6 DEF Quiet, FailedIsQuiet
<1>9. \A d \in WireIds : pending'[d] = IF d = WireId[r] THEN r ELSE pending[d]
  BY <1>1, <1>2 DEF TypeOK
<1>10. Fresh'
  BY <1>1, <1>2, <1>4, <1>6, <1>9, TakeFresh
<1>11. Alternates'
  <2>1. \A q : ~ResolvedAt(1, q)
    BY <1>4, Shapes DEF RequestAt, ResolvedAt
  <2>2. \A d \in WireIds, q \in Requests : pending'[d] = q =>
           \/ pending[d] = q /\ ~ResolvedAt(1, q)
           \/ RequestAt(1, q) /\ WireId[q] = d
    BY <1>4, <1>9, <2>1
  <2>3. QED
    BY <1>1, <1>2, <2>2, TakeAlternates
<1>12. QED
  BY <1>6, <1>7, <1>8, <1>10, <1>11 DEF IInv

\* The entry of the id is forgotten, whoever answered it or did not.
LEMMA ObserveResolutionStep ==
    ASSUME IInv, RouterAssumption, NEW r \in Requests, ObserveResolution(r)
    PROVE  IInv'
<1>1. TypeOK /\ Fresh /\ Once /\ Quiet /\ Alternates
  BY DEF IInv
<1>2. /\ dispatcher = "running" /\ inbound # <<>> /\ inbound' = Tail(inbound)
      /\ Head(inbound) = Resolution(r) /\ UNCHANGED <<setup, server>>
      /\ pending' = [pending EXCEPT ![WireId[r]] = None]
      /\ UNCHANGED <<dispatcher, task, handled, subscription, offered, answers, end>>
  BY DEF ObserveResolution, Receive, Resolution
<1>3. inbound' \in Seq(Messages) /\ ResolvedAt(1, r)
  BY <1>1, <1>2, AfterTail, TakenMessage DEF ResolvedAt
<1>4. TypeOK'
  BY <1>1, <1>2, <1>3 DEF TypeOK, setup, answers, end
<1>5. Once' /\ Quiet'
  BY <1>1, <1>2, FewerOnce DEF Quiet, FailedIsQuiet, answers
<1>6. \A d \in WireIds : pending'[d] = IF d = WireId[r] THEN None ELSE pending[d]
  BY <1>1, <1>2 DEF TypeOK
<1>7. Fresh'
  BY <1>1, <1>2, <1>6, TakeFresh DEF answers
<1>8. Alternates'
  <2>1. \A q : ResolvedAt(1, q) => q = r
    BY <1>3, Shapes DEF ResolvedAt
  <2>2. \A d \in WireIds, q \in Requests : polite /\ pending[d] = q => WireId[q] = d
    BY <1>1 DEF Alternates, NotOpenIsResolved
  <2>3. CASE polite
    <3>1. \A d \in WireIds, q \in Requests : pending'[d] = q =>
             pending[d] = q /\ ~ResolvedAt(1, q)
      BY <1>6, <2>1, <2>2, <2>3, RouterAssumption DEF RouterAssumption
    <3>2. QED
      BY <1>1, <1>2, <3>1, TakeAlternates
  <2>4. CASE ~polite
    BY <1>2, <2>4 DEF Alternates, setup
  <2>5. QED
    BY <2>3, <2>4
<1>9. QED
  BY <1>4, <1>5, <1>7, <1>8 DEF IInv

LEMMA LoopStopsStep ==
    ASSUME IInv, RouterAssumption, LoopStops
    PROVE  IInv'
<1>1. TypeOK /\ Fresh /\ Once /\ Quiet /\ Alternates
  BY DEF IInv
<1>2. /\ dispatcher' = "stopped"
      /\ UNCHANGED <<setup, wires, pending, task, handled, subscription, offered, answers, end>>
  BY DEF LoopStops
<1>3. TypeOK'
  BY <1>1, <1>2 DEF TypeOK, setup, wires, answers, end
<1>4. Quiet'
  BY <1>2 DEF Quiet, FailedIsQuiet
<1>5. Fresh' /\ Once' /\ Alternates'
  BY <1>1, <1>2, AsideFresh, AsideAlternates, FewerOnce DEF Aside, Forgets, answers
<1>6. QED
  BY <1>3, <1>4, <1>5 DEF IInv

-----------------------------------------------------------------------------
(* The invariant *)

LEMMA InitIInv == RouterAssumption /\ Init => IInv
<1> SUFFICES ASSUME RouterAssumption, Init
             PROVE  IInv
  OBVIOUS
<1>1. TypeOK
  <2>1. <<>> \in Seq(Messages)
    BY EmptySeq
  <2>2. QED
    BY <2>1 DEF Init, TypeOK, Tasks
<1>2. inbound = <<>> /\ DOMAIN inbound = {}
  BY DEF Init
<1>3. Fresh
  BY <1>2, RouterAssumption DEF Init, Fresh, RouterAssumption
<1>4. Once /\ Quiet
  BY DEF Init, Once, AnsweredOnce, Quiet, FailedIsQuiet
<1>5. Alternates
  BY <1>2, RouterAssumption DEF Init, RouterAssumption, Alternates, RequestsAlternate,
     PendingIsResolvedFirst, NotOpenIsResolved
<1>6. QED
  BY <1>1, <1>3, <1>4, <1>5 DEF IInv

LEMMA StepIInv == RouterAssumption /\ IInv /\ [Next]_vars => IInv'
<1> SUFFICES ASSUME RouterAssumption, IInv, [Next]_vars
             PROVE  IInv'
  OBVIOUS
<1>1. ASSUME NEW r \in Requests,
             \/ ServerAsks(r) \/ ServerResolves(r) \/ RouteNext(r) \/ HandlerReplies(r)
             \/ HandlerDeclines(r) \/ HandlerGivesUp(r) \/ AppReplies(r)
             \/ WriteCancelled(r) \/ WriteStops(r)
      PROVE  IInv'
  BY <1>1, ServerAsksStep, ServerResolvesStep, RouteStep, ObserveResolutionStep,
     RouteDuplicateStep, HandlerRepliesStep, HandlerEndsStep, AppRepliesStep,
     WriteEndsStep DEF RouteNext
<1>2. ASSUME NEW who \in Workers, NEW r \in Requests, Write(who, r) \/ WriteFails(who, r)
      PROVE  IInv'
  BY <1>2, WriteStep, WriteFailsStep
<1>3. CASE SetHandler \/ Subscribe \/ Unsubscribe \/ LoopFails \/ LoopStops \/ Close
  BY <1>3, ApplicationStep, LoopFailsStep, LoopStopsStep, CloseStep
<1>4. CASE UNCHANGED vars
  <2>1. TypeOK /\ Fresh /\ Once /\ Quiet /\ Alternates
    BY DEF IInv
  <2>2. TypeOK'
    BY <1>4, <2>1 DEF TypeOK, vars, setup
  <2>3. Fresh' /\ Once' /\ Alternates'
    BY <1>4, <2>1, AsideFresh, AsideAlternates, FewerOnce
       DEF vars, setup, wires, Aside, Forgets
  <2>4. Quiet'
    BY <1>4, <2>1 DEF vars, Quiet, FailedIsQuiet
  <2>5. QED
    BY <2>2, <2>3, <2>4 DEF IInv
<1>5. QED
  BY <1>1, <1>2, <1>3, <1>4 DEF Next

LEMMA IInvAlways == Spec => []IInv
BY RouterAssumption, InitIInv, StepIInv, PTL DEF Spec

-----------------------------------------------------------------------------
(* Results *)

\* Type correctness of the router between its three actors.
THEOREM TypeCorrect == Spec => []TypeOK
<1>1. IInv => TypeOK
  BY DEF IInv
<1>2. QED
  BY <1>1, IInvAlways, PTL

\* No request of the server is answered twice, however many tasks of the application,
\* handlers and late handlers of older requests try, and whichever ids they share.
THEOREM NoSecondAnswer == Spec => []AnsweredOnce
<1>1. IInv => AnsweredOnce
  BY DEF IInv, Once
<1>2. QED
  BY <1>1, IInvAlways, PTL

\* A failed dispatcher leaves no entry, no running handler and no open subscription.
THEOREM FailureCleansUp == Spec => []FailedIsQuiet
<1>1. IInv => FailedIsQuiet
  BY DEF IInv, Quiet
<1>2. QED
  BY <1>1, IInvAlways, PTL

\* A server that resolves a request before it uses the id again never fails the
\* connection by it: by the time the new request is read the old entry is gone.
THEOREM ReuseIsSafe == Spec => []NoSpuriousDuplicate
<1>1. IInv => NoSpuriousDuplicate
  <2> SUFFICES ASSUME IInv, polite, inbound # <<>>, Head(inbound).type = "request"
               PROVE  pending[WireId[Head(inbound).of]] = None
    BY DEF NoSpuriousDuplicate
  <2> DEFINE r == Head(inbound).of
             d == WireId[r]
  <2>1. TypeOK /\ Alternates /\ inbound \in Seq(Messages)
    BY DEF IInv, TypeOK
  <2>2. Head(inbound) \in Messages /\ 1 \in DOMAIN inbound /\ Head(inbound) = inbound[1]
        /\ DOMAIN inbound = 1..Len(inbound) /\ Len(inbound) \in Nat
    BY <2>1, HeadTailProperties, EmptySeq, LenProperties
  <2>3. r \in Requests /\ RequestAt(1, r) /\ d \in WireIds
    BY <2>2, RouterAssumption DEF Messages, RequestAt, Request, RouterAssumption
  <2>4. ASSUME pending[d] # None
        PROVE  FALSE
    <3>1. pending[d] \in Requests
      BY <2>1, <2>3, <2>4 DEF TypeOK
    <3>2. Resolved(pending[d], 0, 1)
      BY <2>1, <2>2, <2>3, <3>1 DEF Alternates, PendingIsResolvedFirst
    <3>3. QED
      BY <2>2, <3>2 DEF Resolved
  <2>5. QED
    BY <2>4
<1>2. QED
  BY <1>1, IInvAlways, PTL
=============================================================================
