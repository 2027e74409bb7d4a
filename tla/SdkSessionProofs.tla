--------------------------- MODULE SdkSessionProofs ---------------------------
(***************************************************************************)
(* Proofs about SdkSession, for any tasks, layers of options and numbers   *)
(* of clients, threads, turns and calls.                                   *)
(***************************************************************************)
EXTENDS SdkSession, TLAPS

States == {"unused", "initializing", "initialized", "closed", "failed"}

Records == [state : States, init : {"none", "running", "ok", "raised"},
            process : {"none", "up", "closing", "gone"},
            closed : BOOLEAN, dropped : {"no", "cancelled", "overlapped"}]

\* The variables are what their updates take them for.
Shaped ==
    /\ client \in [Clients -> Records]
    /\ DOMAIN task = Tasks
    /\ \A t \in Tasks : DOMAIN task[t] = DOMAIN Idle
    /\ DOMAIN sdk = {"current", "lock", "thread", "options", "active"}

\* A client whose close has ended, or whose handshake failed, has a closed
\* connection, and only a handshake starts a process on one.
RecordOK(r) ==
    /\ r.state = "unused" => r.process = "none"
    /\ r.state \in {"closed", "failed"} => r.closed
    /\ r.state = "failed" => r.process # "up"
    /\ r.init = "raised" => r.state = "failed"
    /\ r.process = "up" /\ r.closed => r.init = "running"

Live(c) == client[c].state # "unused" /\ ~client[c].closed

Shot(t, c) == task[t].op = "oneshot" /\ task[t].client = c

Owned(c) ==
    \/ c = sdk.current
    \/ client[c].dropped # "no"
    \/ \E t \in Tasks : Shot(t, c)

ShotPlaces == {"shotConnecting", "shotThread", "shotTurn", "shotStreaming", "shotClosing"}

\* A task in close() carries the client it closed, whatever the SDK client has by now.
TaskOK(t) ==
    /\ task[t].op = "oneshot" => task[t].at \in ShotPlaces
    /\ task[t].at \in {"closing", "gathering", "shotClosing"} =>
            \A c \in Clients : c = task[t].client => client[c].closed

IInv ==
    /\ Shaped
    /\ \A c \in Clients : RecordOK(client[c])
    /\ \A c \in Clients : Live(c) => Owned(c)
    /\ \A t \in Tasks : TaskOK(t)

-----------------------------------------------------------------------------
(* What a step has to show *)

Monotone ==
    \A c \in Clients : /\ client[c].closed => client'[c].closed
                       /\ client[c].dropped # "no" => client'[c].dropped # "no"

\* Tasks that are not in the step stay as they are.
LEMMA StepOK ==
    ASSUME IInv, Shaped', Monotone,
           \A c \in Clients : RecordOK(client'[c]),
           \A c \in Clients : Live(c)' => Live(c) \/ Owned(c)',
           \A c \in Clients : c = sdk.current /\ Live(c)' => Owned(c)',
           \A t \in Tasks : \/ task'[t] = task[t]
                            \/ /\ TaskOK(t)'
                               /\ \A c \in Clients : Shot(t, c) => Shot(t, c)' \/ client'[c].closed
    PROVE  IInv'
<1>1. \A t \in Tasks : TaskOK(t)'
  BY DEF IInv, TaskOK, Monotone
<1>2. ASSUME NEW c \in Clients, Live(c)' PROVE Owned(c)'
  <2>1. CASE ~Live(c)
    BY <1>2, <2>1
  <2>2. CASE Live(c) /\ client[c].dropped # "no"
    BY <2>2 DEF Monotone, Owned
  <2>3. CASE \E t \in Tasks : Shot(t, c)
    <3>1. PICK t \in Tasks : Shot(t, c)
      BY <2>3
    <3>2. ~client'[c].closed
      BY <1>2 DEF Live
    <3>3. Shot(t, c)'
      BY <3>1, <3>2 DEF Shot
    <3>4. QED
      BY <3>3 DEF Owned
  <2>4. QED
    BY <1>2, <2>1, <2>2, <2>3 DEF IInv, Owned
<1>3. QED
  BY <1>1, <1>2 DEF IInv

\* A step of one client alone.
LEMMA RecordStep ==
    ASSUME IInv, UNCHANGED <<sdk, task>>, NEW c \in Clients, NEW r \in Records,
           client' = [client EXCEPT ![c] = r], RecordOK(r),
           client[c].closed => r.closed, r.dropped = client[c].dropped,
           client[c].state # "unused"
    PROVE  IInv'
<1>1. /\ client'[c] = r /\ \A d \in Clients \ {c} : client'[d] = client[d]
      /\ client' \in [Clients -> Records]
  BY DEF IInv, Shaped
<1>2. Shaped'
  BY <1>1 DEF IInv, Shaped
<1>3. Monotone
  BY <1>1 DEF Monotone
<1>4. \A d \in Clients : RecordOK(client'[d]) /\ (Live(d)' => Live(d))
  BY <1>1 DEF IInv, Live
<1>5. \A d \in Clients : d = sdk.current => Owned(d)'
  BY DEF Owned
<1>6. QED
  BY <1>2, <1>3, <1>4, <1>5, StepOK

\* A task outside of the one-shot query moves on, and the SDK client keeps its client
\* unless that one has no open connection.
LEMMA TaskStep ==
    ASSUME IInv, UNCHANGED client, NEW t \in Tasks, NEW r,
           task' = [task EXCEPT ![t] = r], DOMAIN r = DOMAIN Idle, r.op # "oneshot",
           r.at \notin {"closing", "gathering", "shotClosing"},
           task[t].at \notin ShotPlaces, DOMAIN sdk' = DOMAIN sdk,
           sdk'.current = sdk.current \/ sdk.current \notin Clients \/ ~Live(sdk.current)
    PROVE  IInv'
<1>1. task'[t] = r /\ DOMAIN task' = Tasks /\ \A u \in Tasks \ {t} : task'[u] = task[u]
  BY DEF IInv, Shaped
<1>2. Shaped'
  BY <1>1 DEF IInv, Shaped, Idle
<1>3. Monotone /\ \A c \in Clients : RecordOK(client'[c]) /\ (Live(c)' <=> Live(c))
  BY DEF Monotone, IInv, Live
<1>4. \A c \in Clients : c = sdk.current /\ Live(c)' => Owned(c)'
  BY <1>3 DEF Owned
<1>5. \A c \in Clients : ~Shot(t, c)
  BY DEF Shot, IInv, TaskOK
<1>6. TaskOK(t)'
  BY <1>1 DEF TaskOK
<1>7. QED
  BY <1>1, <1>2, <1>3, <1>4, <1>5, <1>6, StepOK

-----------------------------------------------------------------------------
(* Clients *)

LEMMA ShuttingOK ==
    ASSUME NEW r \in Records
    PROVE  /\ Shutting(r) \in Records
           /\ Shutting(r).state = r.state /\ Shutting(r).init = r.init
           /\ Shutting(r).dropped = r.dropped /\ Shutting(r).closed = TRUE
           /\ Shutting(r).process # "up"
           /\ r.process = "none" => Shutting(r).process = "none"
<1> DEFINE p == IF r.process = "up" THEN "closing" ELSE r.process
<1>1. p \in {"none", "up", "closing", "gone"} /\ p # "up"
  BY DEF Records
<1>2. Shutting(r) = [[r EXCEPT !.closed = TRUE] EXCEPT !.process = p]
  BY DEF Shutting, Records
<1>3. r.process = "none" => p = "none"
  OBVIOUS
<1> HIDE DEF p
<1>4. QED
  BY <1>1, <1>2, <1>3 DEF Records

LEMMA ClosedOK ==
    ASSUME NEW r \in Records
    PROVE  /\ Closed(r) \in Records
           /\ Closed(r).state \in {"closed", "failed"}
           /\ Closed(r).state = "failed" <=> r.state = "failed"
           /\ Closed(r).init = r.init /\ Closed(r).process = r.process
           /\ Closed(r).closed = r.closed /\ Closed(r).dropped = r.dropped
BY DEF Closed, Records, States

LEMMA ClientStep ==
    ASSUME IInv, NEW c \in Clients, Handshake(c) \/ ProcessExits(c) \/ ShutdownEnds(c)
    PROVE  IInv'
<1>1. /\ UNCHANGED <<sdk, task>> /\ client[c] \in Records /\ RecordOK(client[c])
  BY DEF IInv, Shaped, Handshake, ProcessStarts, HandshakeSucceeds, HandshakeFails,
         HandshakeRaises, ProcessExits, ShutdownEnds
<1>2. CASE ProcessStarts(c)
  <2> DEFINE r == [client[c] EXCEPT !.process = "up"]
  <2>1. client' = [client EXCEPT ![c] = r]
    BY <1>2 DEF ProcessStarts
  <2>2. /\ r \in Records /\ RecordOK(r) /\ client[c].state # "unused"
        /\ client[c].closed => r.closed
        /\ r.dropped = client[c].dropped
    BY <1>1, <1>2 DEF ProcessStarts, Records, States, RecordOK
  <2> HIDE DEF r
  <2>3. QED
    BY <1>1, <2>1, <2>2, RecordStep
<1>3. CASE HandshakeSucceeds(c)
  <2> DEFINE r == [client[c] EXCEPT !.state = "initialized", !.init = "ok"]
  <2>1. client' = [client EXCEPT ![c] = r]
    BY <1>3 DEF HandshakeSucceeds
  <2>2. /\ r \in Records /\ RecordOK(r) /\ client[c].state # "unused"
        /\ client[c].closed => r.closed
        /\ r.dropped = client[c].dropped
    BY <1>1, <1>3 DEF HandshakeSucceeds, Records, States, RecordOK
  <2> HIDE DEF r
  <2>3. QED
    BY <1>1, <2>1, <2>2, RecordStep
<1>4. CASE HandshakeFails(c)
  <2> DEFINE failed == [client[c] EXCEPT !.state = "failed"]
             r == Shutting(failed)
  <2>1. client' = [client EXCEPT ![c] = r]
    BY <1>4 DEF HandshakeFails
  <2>2. failed \in Records /\ failed.state = "failed" /\ failed.dropped = client[c].dropped
    BY <1>1 DEF Records, States
  <2> HIDE DEF failed
  <2>3. /\ r \in Records /\ RecordOK(r)
        /\ client[c].closed => r.closed
        /\ r.dropped = client[c].dropped
    BY <2>2, ShuttingOK DEF RecordOK
  <2>4. client[c].state # "unused"
    BY <1>4 DEF HandshakeFails
  <2> HIDE DEF r
  <2>5. QED
    BY <1>1, <2>1, <2>3, <2>4, RecordStep
<1>5. CASE HandshakeRaises(c)
  <2> DEFINE r == [client[c] EXCEPT !.init = "raised"]
  <2>1. client' = [client EXCEPT ![c] = r]
    BY <1>5 DEF HandshakeRaises
  <2>2. /\ r \in Records /\ RecordOK(r) /\ client[c].state # "unused"
        /\ client[c].closed => r.closed
        /\ r.dropped = client[c].dropped
    BY <1>1, <1>5 DEF HandshakeRaises, Records, RecordOK
  <2> HIDE DEF r
  <2>3. QED
    BY <1>1, <2>1, <2>2, RecordStep
<1>6. CASE ProcessExits(c)
  <2> DEFINE r == [client[c] EXCEPT !.process = "gone", !.closed = TRUE]
  <2>1. client' = [client EXCEPT ![c] = r]
    BY <1>1, <1>6 DEF ProcessExits, Records
  <2>2. /\ r \in Records /\ RecordOK(r) /\ client[c].state # "unused"
        /\ client[c].closed => r.closed
        /\ r.dropped = client[c].dropped
    BY <1>1, <1>6 DEF ProcessExits, Records, RecordOK
  <2> HIDE DEF r
  <2>3. QED
    BY <1>1, <2>1, <2>2, RecordStep
<1>7. CASE ShutdownEnds(c)
  <2> DEFINE r == [client[c] EXCEPT !.process = "gone"]
  <2>1. client' = [client EXCEPT ![c] = r]
    BY <1>7 DEF ShutdownEnds
  <2>2. /\ r \in Records /\ RecordOK(r) /\ client[c].state # "unused"
        /\ client[c].closed => r.closed
        /\ r.dropped = client[c].dropped
    BY <1>1, <1>7 DEF ShutdownEnds, Records, RecordOK
  <2> HIDE DEF r
  <2>3. QED
    BY <1>1, <2>1, <2>2, RecordStep
<1>8. QED
  BY <1>2, <1>3, <1>4, <1>5, <1>6, <1>7 DEF Handshake

-----------------------------------------------------------------------------
(* Operations of the SDK client that touch no client *)

LEMMA IdleShape ==
    /\ Idle.op = "none" /\ Idle.at = "idle"
    /\ \A op : Want(op).op = op /\ Want(op).at = "want" /\ DOMAIN Want(op) = DOMAIN Idle
BY DEF Idle, Want

LEMMA AskStep ==
    ASSUME IInv, NEW t \in Tasks,
           \/ \E options \in Layers :
                \/ StartThread(t, options) \/ ForkThread(t, options)
                \/ \E thread \in Threads : ResumeThread(t, thread, options)
                \/ Query(t, options) \/ FirstQuery(t, options)
           \/ \E n \in Turns : Steer(t, n)
           \/ Interrupt(t) \/ RespondApproval(t)
    PROVE  IInv'
<1>1. UNCHANGED client /\ DOMAIN sdk' = DOMAIN sdk /\ sdk'.current = sdk.current
  BY DEF IInv, Shaped, StartThread, ForkThread, ResumeThread, BeginThread, Query, FirstQuery,
         Steer, Interrupt, RespondApproval
<1>2. PICK r : /\ Enter(t, r) /\ r.at = "want" /\ DOMAIN r = DOMAIN Idle
               /\ r.op \in {"start", "fork", "resume", "query", "first", "steer", "notice"}
  <2>1. ASSUME NEW op \in {"start", "fork", "resume"}, NEW thread, NEW options,
               BeginThread(t, op, thread, options)
        PROVE  \E r : /\ Enter(t, r) /\ r.at = "want" /\ DOMAIN r = DOMAIN Idle
                      /\ r.op = op
    <3> DEFINE r == [Want(op) EXCEPT !.thread = thread, !.options = options]
    <3>1. Enter(t, r)
      BY <2>1 DEF BeginThread
    <3>2. r.at = "want" /\ DOMAIN r = DOMAIN Idle /\ r.op = op
      BY IdleShape
    <3>3. QED
      BY <3>1, <3>2
  <2>2. ASSUME NEW options, Query(t, options)
        PROVE  \E r : /\ Enter(t, r) /\ r.at = "want" /\ DOMAIN r = DOMAIN Idle
                      /\ r.op = "query"
    <3> DEFINE r == [Want("query") EXCEPT
                        !.thread = sdk.thread, !.options = options,
                        !.layer = threads[sdk.thread].options,
                        !.sent = Merge(<<Defaults, sdk.options, options>>)]
    <3>1. Enter(t, r)
      BY <2>2 DEF Query
    <3>2. r.at = "want" /\ DOMAIN r = DOMAIN Idle /\ r.op = "query"
      BY IdleShape
    <3>3. QED
      BY <3>1, <3>2
  <2>3. ASSUME NEW options, FirstQuery(t, options)
        PROVE  \E r : /\ Enter(t, r) /\ r.at = "want" /\ DOMAIN r = DOMAIN Idle
                      /\ r.op = "first"
    <3> DEFINE r == [Want("first") EXCEPT !.options = options]
    <3>1. Enter(t, r)
      BY <2>3 DEF FirstQuery
    <3>2. r.at = "want" /\ DOMAIN r = DOMAIN Idle /\ r.op = "first"
      BY IdleShape
    <3>3. QED
      BY <3>1, <3>2
  <2>4. ASSUME NEW n, Steer(t, n)
        PROVE  \E r : /\ Enter(t, r) /\ r.at = "want" /\ DOMAIN r = DOMAIN Idle
                      /\ r.op = "steer"
    <3> DEFINE r == [Want("steer") EXCEPT !.turn = n]
    <3>1. Enter(t, r)
      BY <2>4 DEF Steer
    <3>2. r.at = "want" /\ DOMAIN r = DOMAIN Idle /\ r.op = "steer"
      BY IdleShape
    <3>3. QED
      BY <3>1, <3>2
  <2>5. ASSUME Interrupt(t) \/ RespondApproval(t)
        PROVE  \E r : /\ Enter(t, r) /\ r.at = "want" /\ DOMAIN r = DOMAIN Idle
                      /\ r.op = "notice"
    BY <2>5, IdleShape DEF Interrupt, RespondApproval
  <2>6. QED
    BY <2>1, <2>2, <2>3, <2>4, <2>5 DEF StartThread, ForkThread, ResumeThread
<1>3. task' = [task EXCEPT ![t] = r] /\ task[t].at = "idle"
  BY <1>2 DEF Enter
<1>4. QED
  BY <1>1, <1>2, <1>3, TaskStep DEF ShotPlaces

\* An operation on its way goes on or ends, without a word to the client.
LEMMA CallStep ==
    ASSUME IInv, NEW t \in Tasks,
           \/ Connected(t) \/ ThreadAnswered(t) \/ FirstThreadAnswered(t)
           \/ TurnAnswered(t) \/ SteerAnswered(t) \/ Acknowledged(t) \/ CallEnds(t)
    PROVE  IInv'
<1>1. UNCHANGED client /\ DOMAIN sdk' = DOMAIN sdk /\ sdk'.current = sdk.current
  BY DEF IInv, Shaped, Connected, ThreadAnswered, FirstThreadAnswered, TurnAnswered,
         SteerAnswered, Acknowledged, CallEnds, Activate
<1>2. task[t].at \in {"want", "calling", "connecting"} /\ task[t].op # "oneshot"
  BY DEF Connected, ThreadAnswered, FirstThreadAnswered, TurnAnswered, SteerAnswered,
         Acknowledged, CallEnds, Answerable, IInv, TaskOK, ShotPlaces
<1>3. CASE Leave(t)
  BY <1>1, <1>2, <1>3, IdleShape, TaskStep DEF Leave, ShotPlaces
<1>4. CASE Connected(t)
  <2> DEFINE r == [task[t] EXCEPT !.at = "calling"]
  <2>1. task' = [task EXCEPT ![t] = r]
    BY <1>4 DEF Connected
  <2>2. DOMAIN r = DOMAIN Idle /\ r.op # "oneshot" /\ r.at = "calling"
    BY <1>2 DEF IInv, Shaped, Idle
  <2> HIDE DEF r
  <2>3. QED
    BY <1>1, <1>2, <2>1, <2>2, TaskStep DEF ShotPlaces
<1>5. CASE FirstThreadAnswered(t)
  <2>1. PICK r : /\ task' = [task EXCEPT ![t] = r]
                 /\ DOMAIN r = DOMAIN Idle /\ r.op = "query" /\ r.at = "want"
    <3> DEFINE q == [Want("query") EXCEPT
                        !.thread = Len(threads) + 1, !.options = task[t].options,
                        !.sent = Merge(<<Defaults, None, task[t].options>>)]
    <3>1. task' = [task EXCEPT ![t] = q]
      BY <1>5 DEF FirstThreadAnswered
    <3>2. DOMAIN q = DOMAIN Idle /\ q.op = "query" /\ q.at = "want"
      BY IdleShape
    <3>3. QED
      BY <3>1, <3>2
  <2>2. QED
    BY <1>1, <1>2, <2>1, TaskStep DEF ShotPlaces
<1>6. QED
  BY <1>3, <1>4, <1>5 DEF ThreadAnswered, TurnAnswered, SteerAnswered, Acknowledged, CallEnds

\* A caller that is told of the failure drops a client that is closed by then.
LEMMA RefusedStep ==
    ASSUME IInv, NEW t \in Tasks, GetClientRefused(t) \/ ConnectFails(t)
    PROVE  IInv'
<1>1. UNCHANGED client /\ DOMAIN sdk' = DOMAIN sdk /\ Leave(t)
  BY DEF IInv, Shaped, GetClientRefused, ConnectFails, Release
<1>2. task[t].at \in {"want", "connecting"}
  BY DEF GetClientRefused, ConnectFails
<1>3. sdk'.current = sdk.current \/ sdk.current \notin Clients \/ ~Live(sdk.current)
  BY DEF IInv, Shaped, RecordOK, Live, GetClientRefused, ConnectFails, Release
<1>4. QED
  BY <1>1, <1>2, <1>3, IdleShape, TaskStep DEF Leave, ShotPlaces

\* The pumps of the turns only look at clients.
LEMMA PumpStep ==
    ASSUME IInv, NEW n \in Turns, Pump(n) \/ ServerEndsTurn(n)
    PROVE  IInv'
<1>1. UNCHANGED <<client, task>> /\ DOMAIN sdk' = DOMAIN sdk /\ sdk'.current = sdk.current
  BY DEF IInv, Shaped, Pump, PumpStarted, PumpCompleted, PumpFailed, PumpEnds, ServerEndsTurn
<1>2. QED
  BY <1>1 DEF IInv, Shaped, Live, Owned, Shot, TaskOK

-----------------------------------------------------------------------------
(* _get_client with a new client, and its cancelled caller *)

\* The lowest unused client is fresh, and belongs to whoever made it.
LEMMA FreshRecord ==
    ASSUME IInv, NEW c \in Unused, client' = Fresh(c)
    PROVE  /\ c \in Clients /\ client' \in [Clients -> Records] /\ Monotone
           /\ \A d \in Clients : RecordOK(client'[d])
           /\ \A d \in Clients \ {c} : client'[d] = client[d]
<1> DEFINE r == [client[c] EXCEPT !.state = "initializing", !.init = "running"]
<1>1. c \in Clients /\ client' = [client EXCEPT ![c] = r]
  BY DEF Fresh, Unused
<1>2. client[c] \in Records /\ client[c].state = "unused" /\ RecordOK(client[c])
  BY <1>1 DEF IInv, Shaped, Unused
<1>3. /\ r \in Records /\ RecordOK(r)
      /\ r.closed = client[c].closed /\ r.dropped = client[c].dropped
  BY <1>2 DEF Records, States, RecordOK
<1> HIDE DEF r
<1>4. client'[c] = r /\ \A d \in Clients \ {c} : client'[d] = client[d]
  BY <1>1 DEF IInv, Shaped
<1>5. client' \in [Clients -> Records]
  BY <1>1, <1>3 DEF IInv, Shaped
<1>6. QED
  BY <1>1, <1>3, <1>4, <1>5 DEF IInv, Monotone

LEMMA GetClientStep ==
    ASSUME IInv, NEW t \in Tasks, GetClient(t)
    PROVE  IInv'
<1>1. task[t].at = "want" /\ task[t].op # "oneshot"
  BY DEF GetClient, IInv, TaskOK, ShotPlaces
<1>2. ASSUME UNCHANGED <<client, sdk>>,
             task' = [task EXCEPT ![t].at = "calling", ![t].client = sdk.current]
      PROVE  IInv'
  <2> DEFINE r == [task[t] EXCEPT !.at = "calling", !.client = sdk.current]
  <2>1. task' = [task EXCEPT ![t] = r]
    BY <1>2 DEF IInv, Shaped
  <2>2. DOMAIN r = DOMAIN Idle /\ r.op # "oneshot" /\ r.at = "calling"
    BY <1>1 DEF IInv, Shaped, Idle
  <2> HIDE DEF r
  <2>3. QED
    BY <1>1, <1>2, <2>1, <2>2, TaskStep DEF ShotPlaces
<1>3. ASSUME NEW c \in Unused, sdk.current = 0, client' = Fresh(c),
             sdk' = [sdk EXCEPT !.current = c, !.lock = t],
             task' = [task EXCEPT ![t].at = "connecting", ![t].client = c]
      PROVE  IInv'
  <2> DEFINE r == [task[t] EXCEPT !.at = "connecting", !.client = c]
  <2>1. task' = [task EXCEPT ![t] = r]
    BY <1>3 DEF IInv, Shaped
  <2>2. DOMAIN r = DOMAIN Idle /\ r.op # "oneshot" /\ r.at = "connecting"
    BY <1>1 DEF IInv, Shaped, Idle
  <2> HIDE DEF r
  <2>3. /\ c \in Clients /\ client' \in [Clients -> Records] /\ Monotone
        /\ \A d \in Clients : RecordOK(client'[d])
        /\ \A d \in Clients \ {c} : client'[d] = client[d]
    BY <1>3, FreshRecord
  <2>4. task'[t] = r /\ DOMAIN task' = Tasks /\ \A u \in Tasks \ {t} : task'[u] = task[u]
    BY <2>1 DEF IInv, Shaped
  <2>5. sdk'.current = c /\ DOMAIN sdk' = DOMAIN sdk
    BY <1>3 DEF IInv, Shaped
  <2>6. Shaped'
    BY <2>2, <2>3, <2>4, <2>5 DEF IInv, Shaped, Idle
  <2>7. \A d \in Clients : Live(d)' => Live(d) \/ Owned(d)'
    BY <2>3, <2>5 DEF Live, Owned
  <2>8. sdk.current \notin Clients
    BY <1>3 DEF Clients
  <2>9. TaskOK(t)' /\ \A d \in Clients : ~Shot(t, d)
    BY <1>1, <2>2, <2>4 DEF TaskOK, Shot
  <2>10. QED
    BY <2>3, <2>4, <2>6, <2>7, <2>8, <2>9, StepOK
<1>4. QED
  BY <1>2, <1>3 DEF GetClient

LEMMA CancelConnectStep ==
    ASSUME IInv, NEW t \in Tasks, CancelConnect(t)
    PROVE  IInv'
<1> DEFINE c == task[t].client
           r == [client[c] EXCEPT !.dropped =
                     IF sdk.current = c /\ @ = "no" THEN "cancelled" ELSE @]
<1>1. /\ task[t].at = "connecting" /\ client' = [client EXCEPT ![c] = r]
      /\ sdk' = Release(t) /\ Leave(t)
  BY DEF CancelConnect
<1>2. c \in Clients => /\ r \in Records /\ RecordOK(r) /\ r.closed = client[c].closed
                       /\ r.state = client[c].state
                       /\ client[c].dropped # "no" => r.dropped # "no"
                       /\ c = sdk.current => r.dropped # "no"
  BY DEF IInv, Shaped, Records, RecordOK
<1>3. /\ client' \in [Clients -> Records]
      /\ c \in Clients => client'[c] = r
      /\ \A d \in Clients \ {c} : client'[d] = client[d]
  BY <1>1, <1>2 DEF IInv, Shaped
<1> HIDE DEF r
<1>4. /\ DOMAIN sdk' = DOMAIN sdk
      /\ sdk'.current = IF sdk.current = c THEN 0 ELSE sdk.current
  BY <1>1 DEF Release, IInv, Shaped
<1> HIDE DEF c
<1>5. task'[t] = Idle /\ DOMAIN task' = Tasks /\ \A u \in Tasks \ {t} : task'[u] = task[u]
  BY <1>1 DEF Leave, IInv, Shaped
<1>6. Shaped'
  BY <1>3, <1>4, <1>5 DEF IInv, Shaped, Idle
<1>7. Monotone /\ \A d \in Clients : RecordOK(client'[d]) /\ (Live(d)' => Live(d))
  BY <1>2, <1>3 DEF IInv, Monotone, Live
<1>8. \A d \in Clients : d = sdk.current => Owned(d)'
  BY <1>2, <1>3, <1>4 DEF Owned
<1>9. TaskOK(t)' /\ \A d \in Clients : ~Shot(t, d)
  BY <1>1, <1>5, IdleShape DEF IInv, TaskOK, Shot, ShotPlaces
<1>10. QED
  BY <1>5, <1>6, <1>7, <1>8, <1>9, StepOK

-----------------------------------------------------------------------------
(* close() of the SDK client *)

LEMMA CloseBegins ==
    ASSUME IInv, NEW t \in Tasks, Close(t)
    PROVE  IInv'
<1> DEFINE r == [Idle EXCEPT
                    !.op = "close",
                    !.at = IF sdk.current # 0 THEN "closing" ELSE "gathering",
                    !.client = sdk.current, !.turns = {n \in Turns : turn[n].registered}]
<1>1. /\ UNCHANGED sdk /\ task[t].at = "idle" /\ task' = [task EXCEPT ![t] = r]
      /\ client' = [c \in Clients |-> IF c = sdk.current THEN Shutting(client[c]) ELSE client[c]]
  BY DEF Close, Enter
<1>2. r.op = "close" /\ r.client = sdk.current /\ DOMAIN r = DOMAIN Idle
  BY DEF Idle
<1> HIDE DEF r
<1>3. task'[t] = r /\ DOMAIN task' = Tasks /\ \A u \in Tasks \ {t} : task'[u] = task[u]
  BY <1>1 DEF IInv, Shaped
<1>4. ASSUME NEW c \in Clients
      PROVE  /\ client'[c] \in Records /\ RecordOK(client'[c])
             /\ client'[c].dropped = client[c].dropped
             /\ client[c].closed => client'[c].closed
             /\ c = sdk.current => client'[c].closed
             /\ Live(c)' => Live(c)
  <2>1. client[c] \in Records /\ RecordOK(client[c])
    BY DEF IInv, Shaped
  <2>2. client'[c] = IF c = sdk.current THEN Shutting(client[c]) ELSE client[c]
    BY <1>1
  <2>3. QED
    BY <2>1, <2>2, ShuttingOK DEF RecordOK, Live
<1>5. Shaped'
  BY <1>1, <1>2, <1>3, <1>4 DEF IInv, Shaped, Idle
<1>6. Monotone
  BY <1>4 DEF Monotone
<1>7. TaskOK(t)' /\ \A c \in Clients : ~Shot(t, c)
  BY <1>1, <1>2, <1>3, <1>4 DEF IInv, TaskOK, Shot, ShotPlaces
<1>8. \A c \in Clients : c = sdk.current => Owned(c)'
  BY <1>1 DEF Owned
<1>9. QED
  BY <1>3, <1>4, <1>5, <1>6, <1>7, <1>8, StepOK

\* The end of close() drops the client of that moment: it is the one that was closed,
\* or it is marked.
LEMMA ForgetRecords ==
    ASSUME IInv, NEW e, Forget(e), \A c \in Clients : c = e => client[c].closed
    PROVE  /\ client' \in [Clients -> Records] /\ Monotone
           /\ \A c \in Clients : RecordOK(client'[c]) /\ (Live(c)' => Live(c))
           /\ \A c \in Clients : c = sdk.current /\ Live(c)' => Owned(c)'
           /\ DOMAIN sdk' = DOMAIN sdk
<1>1. ASSUME NEW c \in Clients
      PROVE  /\ client'[c] \in Records /\ RecordOK(client'[c])
             /\ client[c].closed => client'[c].closed
             /\ client[c].dropped # "no" => client'[c].dropped # "no"
             /\ Live(c)' => Live(c)
             /\ c = sdk.current => client'[c].dropped # "no" \/ client'[c].closed
  <2>1. client[c] \in Records /\ RecordOK(client[c])
    BY DEF IInv, Shaped
  <2>2. client'[c] = IF c = sdk.current /\ c # e
                     THEN [client[c] EXCEPT !.dropped = "overlapped"]
                     ELSE IF c = e /\ Down(c) THEN Closed(client[c]) ELSE client[c]
    BY DEF Forget
  <2>3. CASE c = sdk.current /\ c # e
    BY <2>1, <2>2, <2>3 DEF Records, RecordOK, Live
  <2>4. CASE c = e /\ Down(c)
    <3>1. client[c].closed /\ client[c].process # "up" /\ client'[c] = Closed(client[c])
      BY <2>2, <2>4 DEF Down
    <3>2. QED
      BY <2>1, <3>1, ClosedOK DEF RecordOK, Live
  <2>5. CASE ~(c = sdk.current /\ c # e) /\ ~(c = e /\ Down(c))
    BY <2>1, <2>2, <2>5 DEF Live
  <2>6. QED
    BY <2>3, <2>4, <2>5
<1>2. client' \in [Clients -> Records]
  BY <1>1 DEF Forget
<1>3. DOMAIN sdk' = DOMAIN sdk
  BY DEF Forget, IInv, Shaped
<1>4. QED
  BY <1>1, <1>2, <1>3 DEF Monotone, Owned, Live

LEMMA CloseEndsStep ==
    ASSUME IInv, NEW t \in Tasks, CloseReturns(t) \/ CancelClose(t)
    PROVE  IInv'
<1>1. Forget(task[t].client) /\ Leave(t) /\ task[t].at \in {"closing", "gathering"}
  BY DEF CloseReturns, CancelClose
<1>2. /\ client' \in [Clients -> Records] /\ Monotone
      /\ \A c \in Clients : RecordOK(client'[c]) /\ (Live(c)' => Live(c))
      /\ \A c \in Clients : c = sdk.current /\ Live(c)' => Owned(c)'
      /\ DOMAIN sdk' = DOMAIN sdk
  BY <1>1, ForgetRecords DEF IInv, TaskOK
<1>3. task'[t] = Idle /\ DOMAIN task' = Tasks /\ \A u \in Tasks \ {t} : task'[u] = task[u]
  BY <1>1 DEF Leave, IInv, Shaped
<1>4. Shaped'
  BY <1>2, <1>3 DEF IInv, Shaped, Idle
<1>5. TaskOK(t)' /\ \A c \in Clients : ~Shot(t, c)
  BY <1>1, <1>3, IdleShape DEF IInv, TaskOK, Shot, ShotPlaces
<1>6. QED
  BY <1>2, <1>3, <1>4, <1>5, StepOK

LEMMA CloseNothingStep ==
    ASSUME IInv, NEW t \in Tasks, CloseNothing(t)
    PROVE  IInv'
<1>1. Forget(0) /\ UNCHANGED task
  BY DEF CloseNothing
<1>2. /\ client' \in [Clients -> Records] /\ Monotone
      /\ \A c \in Clients : RecordOK(client'[c]) /\ (Live(c)' => Live(c))
      /\ \A c \in Clients : c = sdk.current /\ Live(c)' => Owned(c)'
      /\ DOMAIN sdk' = DOMAIN sdk
  BY <1>1, ForgetRecords DEF Clients
<1>3. Shaped'
  BY <1>1, <1>2 DEF IInv, Shaped
<1>4. QED
  BY <1>1, <1>2, <1>3, StepOK

\* A task goes on with a client whose connection is closed by then.
LEMMA ClosedRecordStep ==
    ASSUME IInv, UNCHANGED sdk, NEW t \in Tasks, NEW q, NEW c, NEW r,
           client' = [client EXCEPT ![c] = r], task' = [task EXCEPT ![t] = q],
           DOMAIN q = DOMAIN Idle,
           c \in Clients => r \in Records /\ RecordOK(r) /\ r.closed
                            /\ r.dropped = client[c].dropped,
           q.op = "oneshot" => q.at \in ShotPlaces,
           q.at \in {"closing", "gathering", "shotClosing"} => q.client = c,
           \A d \in Clients : Shot(t, d) => d = c
    PROVE  IInv'
<1>1. /\ client' \in [Clients -> Records]
      /\ c \in Clients => client'[c] = r
      /\ \A d \in Clients \ {c} : client'[d] = client[d]
  BY DEF IInv, Shaped
<1>2. task'[t] = q /\ DOMAIN task' = Tasks /\ \A u \in Tasks \ {t} : task'[u] = task[u]
  BY DEF IInv, Shaped
<1>3. Shaped'
  BY <1>1, <1>2 DEF IInv, Shaped, Idle
<1>4. Monotone /\ \A d \in Clients : RecordOK(client'[d]) /\ (Live(d)' => Live(d))
  BY <1>1 DEF IInv, Monotone, Live
<1>5. \A d \in Clients : d = sdk.current => Owned(d)'
  BY DEF Owned
<1>6. TaskOK(t)' /\ \A d \in Clients : Shot(t, d) => client'[d].closed
  BY <1>1, <1>2 DEF TaskOK
<1>7. QED
  BY <1>2, <1>3, <1>4, <1>5, <1>6, StepOK

\* AppServerClient.close ends, on a connection that is closed and a process that is gone.
LEMMA ClosedRecord ==
    ASSUME IInv, NEW c \in Clients, Down(c), client[c].closed
    PROVE  /\ Closed(client[c]) \in Records /\ RecordOK(Closed(client[c]))
           /\ Closed(client[c]).closed
           /\ Closed(client[c]).dropped = client[c].dropped
<1>1. client[c] \in Records /\ RecordOK(client[c]) /\ client[c].process # "up"
  BY DEF IInv, Shaped, Down
<1>2. QED
  BY <1>1, ClosedOK DEF RecordOK

LEMMA CloseGathersStep ==
    ASSUME IInv, NEW t \in Tasks, CloseGathers(t)
    PROVE  IInv'
<1> DEFINE c == task[t].client
           q == [task[t] EXCEPT !.at = "gathering"]
           r == Closed(client[c])
<1>1. /\ UNCHANGED sdk /\ task[t].at = "closing" /\ task[t].op # "oneshot" /\ Down(c)
      /\ client' = [client EXCEPT ![c] = r] /\ task' = [task EXCEPT ![t] = q]
  BY DEF CloseGathers, IInv, TaskOK, ShotPlaces
<1>2. q.op # "oneshot" /\ q.client = c /\ DOMAIN q = DOMAIN Idle
  BY <1>1 DEF IInv, Shaped, Idle
<1>3. c \in Clients => client[c].closed
  BY <1>1 DEF IInv, TaskOK
<1>4. c \in Clients => r \in Records /\ RecordOK(r) /\ r.closed
                       /\ r.dropped = client[c].dropped
  BY <1>1, <1>3, ClosedRecord
<1>5. \A d \in Clients : Shot(t, d) => d = c
  BY DEF Shot
<1> HIDE DEF c, q, r
<1>6. QED
  BY <1>1, <1>2, <1>4, <1>5, ClosedRecordStep

-----------------------------------------------------------------------------
(* The one-shot query *)

LEMMA OneShotStep ==
    ASSUME IInv, NEW t \in Tasks, OneShot(t)
    PROVE  IInv'
<1>1. PICK c \in Unused :
        /\ Enter(t, [Idle EXCEPT !.op = "oneshot", !.at = "shotConnecting", !.client = c])
        /\ client' = Fresh(c) /\ UNCHANGED sdk
  BY DEF OneShot
<1> DEFINE q == [Idle EXCEPT !.op = "oneshot", !.at = "shotConnecting", !.client = c]
<1>2. task[t].at = "idle" /\ task' = [task EXCEPT ![t] = q]
  BY <1>1 DEF Enter
<1>3. DOMAIN q = DOMAIN Idle /\ q.op = "oneshot" /\ q.at = "shotConnecting" /\ q.client = c
  BY DEF Idle
<1> HIDE DEF q
<1>4. task'[t] = q /\ DOMAIN task' = Tasks /\ \A u \in Tasks \ {t} : task'[u] = task[u]
  BY <1>2 DEF IInv, Shaped
<1>5. /\ c \in Clients /\ client' \in [Clients -> Records] /\ Monotone
      /\ \A d \in Clients : RecordOK(client'[d])
      /\ \A d \in Clients \ {c} : client'[d] = client[d]
  BY <1>1, FreshRecord
<1>6. Shaped'
  BY <1>1, <1>3, <1>4, <1>5 DEF IInv, Shaped, Idle
<1>7. Owned(c)'
  BY <1>3, <1>4 DEF Owned, Shot
<1>8. \A d \in Clients : Live(d)' => Live(d) \/ Owned(d)'
  BY <1>5, <1>7 DEF Live
<1>9. \A d \in Clients : d = sdk.current => Owned(d)'
  BY <1>1 DEF Owned
<1>10. TaskOK(t)' /\ \A d \in Clients : ~Shot(t, d)
  BY <1>2, <1>3, <1>4 DEF IInv, TaskOK, Shot, ShotPlaces
<1>11. QED
  BY <1>4, <1>5, <1>6, <1>8, <1>9, <1>10, StepOK

LEMMA ShotProceedsStep ==
    ASSUME IInv, NEW t \in Tasks, ShotProceeds(t)
    PROVE  IInv'
<1>1. PICK p \in {"shotThread", "shotTurn", "shotStreaming"} :
        task' = [task EXCEPT ![t].at = p] /\ UNCHANGED <<client, sdk>>
  BY DEF ShotProceeds
<1> DEFINE q == [task[t] EXCEPT !.at = p]
<1>2. q.op = task[t].op /\ q.client = task[t].client /\ q.at = p /\ DOMAIN q = DOMAIN Idle
  BY DEF IInv, Shaped, Idle
<1>3. task' = [task EXCEPT ![t] = q]
  BY <1>1
<1> HIDE DEF q
<1>4. task'[t] = q /\ DOMAIN task' = Tasks /\ \A u \in Tasks \ {t} : task'[u] = task[u]
  BY <1>3 DEF IInv, Shaped
<1>5. Shaped'
  BY <1>1, <1>2, <1>4 DEF IInv, Shaped, Idle
<1>6. Monotone /\ \A d \in Clients : RecordOK(client'[d]) /\ (Live(d)' => Live(d))
  BY <1>1 DEF IInv, Monotone, Live
<1>7. \A d \in Clients : d = sdk.current => Owned(d)'
  BY <1>1 DEF Owned
<1>8. TaskOK(t)' /\ \A d \in Clients : Shot(t, d) => Shot(t, d)'
  BY <1>2, <1>4 DEF TaskOK, Shot, ShotPlaces
<1>9. QED
  BY <1>4, <1>5, <1>6, <1>7, <1>8, StepOK

LEMMA ShotEndsStep ==
    ASSUME IInv, NEW t \in Tasks, ShotEnds(t) \/ ShotReturns(t)
    PROVE  IInv'
<1> DEFINE c == task[t].client
<1>1. \A d \in Clients : Shot(t, d) => d = c
  BY DEF Shot
<1>2. CASE ShotEnds(t)
  <2> DEFINE q == [task[t] EXCEPT !.at = "shotClosing"]
             r == Shutting(client[c])
  <2>1. /\ UNCHANGED sdk
        /\ client' = [client EXCEPT ![c] = r] /\ task' = [task EXCEPT ![t] = q]
    BY <1>2 DEF ShotEnds
  <2>2. q.at = "shotClosing" /\ q.client = c /\ DOMAIN q = DOMAIN Idle
    BY DEF IInv, Shaped, Idle
  <2>3. c \in Clients => client[c] \in Records /\ RecordOK(client[c])
    BY DEF IInv, Shaped
  <2>4. c \in Clients => r \in Records /\ RecordOK(r) /\ r.closed
                         /\ r.dropped = client[c].dropped
    BY <2>3, ShuttingOK DEF RecordOK
  <2> HIDE DEF c, q, r
  <2>5. QED
    BY <1>1, <2>1, <2>2, <2>4, ClosedRecordStep DEF ShotPlaces
<1>3. CASE ShotReturns(t)
  <2> DEFINE r == Closed(client[c])
  <2>1. /\ UNCHANGED sdk /\ task[t].at = "shotClosing" /\ Down(c)
        /\ client' = [client EXCEPT ![c] = r] /\ task' = [task EXCEPT ![t] = Idle]
    BY <1>3 DEF ShotReturns, Leave
  <2>2. c \in Clients => client[c].closed
    BY <2>1 DEF IInv, TaskOK
  <2>3. c \in Clients => r \in Records /\ RecordOK(r) /\ r.closed
                         /\ r.dropped = client[c].dropped
    BY <2>1, <2>2, ClosedRecord
  <2> HIDE DEF c, r
  <2>4. QED
    BY <1>1, <2>1, <2>3, IdleShape, ClosedRecordStep
<1>4. QED
  BY <1>2, <1>3

-----------------------------------------------------------------------------
(* The theorems *)

LEMMA InitIInv == Init => IInv
<1> SUFFICES ASSUME Init PROVE IInv
  OBVIOUS
<1>1. Shaped
  BY DEF Init, Shaped, Records, States, Idle
<1>2. \A c \in Clients : RecordOK(client[c]) /\ ~Live(c)
  BY DEF Init, RecordOK, Live
<1>3. \A t \in Tasks : TaskOK(t)
  BY IdleShape DEF Init, TaskOK
<1>4. QED
  BY <1>1, <1>2, <1>3 DEF IInv

LEMMA StepIInv == IInv /\ [Next]_vars => IInv'
<1> SUFFICES ASSUME IInv, [Next]_vars
             PROVE  IInv'
  OBVIOUS
<1>1. ASSUME NEW t \in Tasks, Begin(t) PROVE IInv'
  BY <1>1, AskStep, CloseBegins, CloseNothingStep, OneShotStep DEF Begin
<1>2. ASSUME NEW t \in Tasks, Proceed(t) PROVE IInv'
  <2>1. CASE GetClient(t) \/ GetClientRefused(t) \/ ConnectFails(t) \/ CancelConnect(t)
    BY <2>1, GetClientStep, RefusedStep, CancelConnectStep
  <2>2. CASE \/ Connected(t) \/ ThreadAnswered(t) \/ FirstThreadAnswered(t)
             \/ TurnAnswered(t) \/ SteerAnswered(t) \/ Acknowledged(t) \/ CallEnds(t)
    BY <2>2, CallStep
  <2>3. CASE CloseGathers(t) \/ CloseReturns(t) \/ CancelClose(t)
    BY <2>3, CloseGathersStep, CloseEndsStep
  <2>4. CASE ShotProceeds(t) \/ ShotEnds(t) \/ ShotReturns(t)
    BY <2>4, ShotProceedsStep, ShotEndsStep
  <2>5. QED
    BY <1>2, <2>1, <2>2, <2>3, <2>4 DEF Proceed
<1>3. ASSUME NEW c \in Clients, Handshake(c) \/ ProcessExits(c) \/ ShutdownEnds(c)
      PROVE  IInv'
  BY <1>3, ClientStep
<1>4. ASSUME NEW n \in Turns, Pump(n) \/ ServerEndsTurn(n) PROVE IInv'
  BY <1>4, PumpStep
<1>5. CASE UNCHANGED vars
  BY <1>5 DEF vars, IInv, Shaped, Live, Owned, Shot, TaskOK
<1>6. QED
  BY <1>1, <1>2, <1>3, <1>4, <1>5 DEF Next

LEMMA SpecIInv == Spec => []IInv
BY InitIInv, StepIInv, PTL DEF Spec

\* Whatever the tasks do and wherever they are cancelled, a process that runs belongs
\* to somebody who will take it down, but for the two ways the property names.
THEOREM ProcessesAreOwned == Spec => []EveryProcessIsOwned
<1>1. IInv => EveryProcessIsOwned
  <2> SUFFICES ASSUME IInv, NEW c \in Clients, client[c].process = "up"
               PROVE  IF client[c].closed THEN client[c].init = "running"
                      ELSE \/ c = sdk.current
                           \/ client[c].dropped # "no"
                           \/ \E t \in Tasks : task[t].op = "oneshot" /\ task[t].client = c
    BY DEF EveryProcessIsOwned
  <2>1. RecordOK(client[c]) /\ (Live(c) => Owned(c))
    BY DEF IInv
  <2>2. QED
    BY <2>1 DEF RecordOK, Live, Owned, Shot
<1>2. QED
  BY SpecIInv, <1>1, PTL

-----------------------------------------------------------------------------
(* The options of a turn *)

Sent(layer, options) == Merge(<<Defaults, layer, options>>)

Made == [options : Layers,
         sent : {ThreadKwargs(Merge(<<Defaults, options>>), kind) :
                    options \in Layers, kind \in {"start", "resume", "fork"}}]

\* The SDK client has the options its active thread was last activated with.
ActiveIsKnown ==
    sdk.thread # 0 => /\ sdk.thread \in DOMAIN threads
                      /\ sdk.options = threads[sdk.thread].options

\* What a query on its way will send is settled, whatever becomes of the threads.
PlanOK(record) ==
    /\ record.options \in Layers
    /\ record.op = "query" => record.sent = Sent(record.layer, record.options)
    /\ record.op = "resume" => record.thread \in DOMAIN threads

TurnFields == {"server", "client", "completion", "registered", "observed",
               "options", "layer", "sent"}

TurnOK(record) ==
    /\ DOMAIN record = TurnFields
    /\ record.server # "unused" => record.sent = Sent(record.layer, record.options)

LayersInv ==
    /\ threads \in Seq(Made)
    /\ ActiveIsKnown
    /\ \A t \in Tasks : PlanOK(task[t])
    /\ DOMAIN turn = Turns
    /\ \A n \in Turns : TurnOK(turn[n])

-----------------------------------------------------------------------------
(* The merge of layers, against the reference *)

LEMMA MergeOfThree ==
    ASSUME NEW a, NEW b, NEW c, NEW f \in Fields
    PROVE  Merge(<<a, b, c>>)[f] = IF Named(c)[f] # None THEN Named(c)[f]
                                   ELSE IF Named(b)[f] # None THEN Named(b)[f]
                                   ELSE Named(a)[f]
<1> DEFINE layers == <<a, b, c>>
           v == [i \in 1..Len(layers) |-> Named(layers[i])[f]]
           F(h) == [n \in 0..3 |-> IF n = 0 THEN None
                                   ELSE IF v[n] # None THEN v[n] ELSE h[n - 1]]
           two == IF v[2] # None THEN v[2] ELSE v[1]
           three == IF v[3] # None THEN v[3] ELSE two
           g == [n \in 0..3 |-> IF n = 0 THEN None ELSE IF n = 1 THEN v[1]
                                ELSE IF n = 2 THEN two ELSE three]
           result == CHOOSE h : h = F(h)
<1>1. v[1] = Named(a)[f] /\ v[2] = Named(b)[f] /\ v[3] = Named(c)[f] /\ Len(v) = 3
  OBVIOUS
<1>2. Merge(layers)[f] = LastNonNone(v)
  BY DEF Merge
<1> HIDE DEF v, layers
<1>3. g = F(g)
  <2>1. \A n \in 0..3 : g[n] = F(g)[n]
    BY SMT
  <2>2. QED
    BY <2>1, Zenon
<1>4. result = F(result)
  BY <1>3, Zenon
<1>5. LastNonNone(v) = result[3]
  BY <1>1 DEF LastNonNone
<1> HIDE DEF result
<1>6. result[3] = three
  BY <1>4, SMT
<1>7. QED
  BY <1>1, <1>2, <1>5, <1>6 DEF layers

LEMMA ChosenOfThree ==
    ASSUME NEW a, NEW b, NEW c, NEW f \in Fields
    PROVE  Chosen(f, <<a, b, c>>) = IF Named(c)[f] # None THEN Named(c)[f]
                                    ELSE IF Named(b)[f] # None THEN Named(b)[f]
                                    ELSE Named(a)[f]
<1> DEFINE layers == <<a, b, c>>
           named == {i \in DOMAIN layers : layers[i] # None /\ layers[i][f] # None}
           last == CHOOSE i \in named : \A j \in named : j <= i
<1>1. /\ layers[1] = a /\ layers[2] = b /\ layers[3] = c
      /\ DOMAIN layers = {1, 2, 3}
  OBVIOUS
<1>2. ASSUME NEW x PROVE Named(x)[f] = IF x = None THEN None ELSE x[f]
  BY DEF Named, NoOptions
<1> HIDE DEF layers
<1>3. ASSUME NEW i \in named, \A j \in named : j <= i
      PROVE  last = i
  BY <1>1, <1>3
<1>4. Chosen(f, layers) = IF named = {} THEN None ELSE layers[last][f]
  BY DEF Chosen
<1>5. \A i : i \in named <=> i \in {1, 2, 3} /\ Named(layers[i])[f] # None
  BY <1>1, <1>2
<1>6. \A i \in named : layers[i][f] = Named(layers[i])[f]
  BY <1>2
<1> HIDE DEF named, last
<1>7. CASE 3 \in named
  <2>1. last = 3
    BY <1>3, <1>5, <1>7
  <2>2. QED
    BY <1>1, <1>4, <1>5, <1>6, <1>7, <2>1 DEF layers
<1>8. CASE 3 \notin named /\ 2 \in named
  <2>1. last = 2
    BY <1>3, <1>5, <1>8
  <2>2. QED
    BY <1>1, <1>4, <1>5, <1>6, <1>8, <2>1 DEF layers
<1>9. CASE 3 \notin named /\ 2 \notin named /\ 1 \in named
  <2>1. last = 1
    BY <1>3, <1>5, <1>9
  <2>2. QED
    BY <1>1, <1>4, <1>5, <1>6, <1>9, <2>1 DEF layers
<1>10. CASE named = {}
  BY <1>1, <1>4, <1>5, <1>10 DEF layers
<1>11. QED
  BY <1>5, <1>7, <1>8, <1>9, <1>10

-----------------------------------------------------------------------------
(* What a step has to show *)

SdkKept ==
    \/ sdk'.thread = 0
    \/ sdk'.thread = sdk.thread /\ sdk'.options = sdk.options

TurnsKept ==
    /\ DOMAIN turn' = Turns
    /\ \A n \in Turns : /\ DOMAIN turn'[n] = DOMAIN turn[n]
                        /\ turn'[n].layer = turn[n].layer
                        /\ turn'[n].options = turn[n].options
                        /\ turn'[n].sent = turn[n].sent
                        /\ turn[n].server = "unused" => turn'[n].server = "unused"

LEMMA TurnsStay == ASSUME LayersInv, UNCHANGED turn PROVE TurnsKept
BY DEF LayersInv, TurnsKept

LEMMA TurnsKeptOK ==
    ASSUME LayersInv, TurnsKept
    PROVE  DOMAIN turn' = Turns /\ \A n \in Turns : TurnOK(turn'[n])
BY DEF LayersInv, TurnsKept, TurnOK

LEMMA TaskChange ==
    ASSUME IInv, LayersInv, NEW t \in Tasks, NEW r, task' = [task EXCEPT ![t] = r],
           DOMAIN threads \subseteq DOMAIN threads', PlanOK(r)
    PROVE  \A u \in Tasks : PlanOK(task[u])'
<1>1. \A u \in Tasks : task'[u] = IF u = t THEN r ELSE task[u]
  BY DEF IInv, Shaped
<1>2. \A u \in Tasks : PlanOK(task[u])
  BY DEF LayersInv
<1>3. QED
  BY <1>1, <1>2 DEF PlanOK

\* A step of one task that activates no thread.
LEMMA LayersStep ==
    ASSUME IInv, LayersInv, NEW t \in Tasks, NEW r, task' = [task EXCEPT ![t] = r],
           PlanOK(r), UNCHANGED threads, SdkKept, TurnsKept
    PROVE  LayersInv'
<1>1. \A u \in Tasks : PlanOK(task[u])'
  BY TaskChange
<1>2. ActiveIsKnown'
  BY DEF LayersInv, ActiveIsKnown, SdkKept
<1>3. QED
  BY <1>1, <1>2, TurnsKeptOK DEF LayersInv

LEMMA IdlePlan ==
    /\ PlanOK(Idle)
    /\ \A op : op \notin {"query", "resume"} => PlanOK(Want(op))
BY SessionAssumption DEF PlanOK, Idle, Want

\* A task that goes on with the request it has.
LEMMA SamePlan ==
    ASSUME IInv, LayersInv, NEW t \in Tasks, NEW at, NEW c
    PROVE  /\ PlanOK([task[t] EXCEPT !.at = at])
           /\ PlanOK([task[t] EXCEPT !.at = at, !.client = c])
<1>1. PlanOK(task[t]) /\ DOMAIN task[t] = DOMAIN Idle
  BY DEF IInv, Shaped, LayersInv
<1> DEFINE q == [task[t] EXCEPT !.at = at]
           r == [task[t] EXCEPT !.at = at, !.client = c]
<1>2. /\ q.op = task[t].op /\ q.options = task[t].options /\ q.layer = task[t].layer
      /\ q.sent = task[t].sent /\ q.thread = task[t].thread
  BY <1>1 DEF Idle
<1>3. /\ r.op = task[t].op /\ r.options = task[t].options /\ r.layer = task[t].layer
      /\ r.sent = task[t].sent /\ r.thread = task[t].thread
  BY <1>1 DEF Idle
<1>4. QED
  BY <1>1, <1>2, <1>3 DEF PlanOK

-----------------------------------------------------------------------------
(* One lemma for each group of actions *)

LEMMA BeginThreadLayers ==
    ASSUME IInv, LayersInv, NEW t \in Tasks, NEW op \in {"start", "fork", "resume"},
           NEW thread, NEW options \in Layers, BeginThread(t, op, thread, options)
    PROVE  LayersInv'
<1> DEFINE r == [Want(op) EXCEPT !.thread = thread, !.options = options]
<1>1. /\ task' = [task EXCEPT ![t] = r]
      /\ UNCHANGED <<turn, threads>> /\ sdk' = [sdk EXCEPT !.active = 0]
      /\ op = "resume" => thread \in DOMAIN threads
  BY DEF BeginThread, Enter
<1>2. r.op = op /\ r.options = options /\ r.thread = thread
  BY DEF Want, Idle
<1>3. PlanOK(r)
  BY <1>1, <1>2 DEF PlanOK
<1>4. SdkKept
  BY <1>1 DEF SdkKept, IInv, Shaped
<1> HIDE DEF r
<1>5. QED
  BY <1>1, <1>3, <1>4, TurnsStay, LayersStep

\* The active thread's options are those it was activated with, so that the merge is
\* the one of that layer.
LEMMA QueryLayers ==
    ASSUME IInv, LayersInv, NEW t \in Tasks, NEW options \in Layers, Query(t, options)
    PROVE  LayersInv'
<1> DEFINE layer == threads[sdk.thread].options
           r == [Want("query") EXCEPT
                    !.thread = sdk.thread, !.options = options, !.layer = layer,
                    !.sent = Merge(<<Defaults, sdk.options, options>>)]
<1>1. /\ task' = [task EXCEPT ![t] = r] /\ sdk.thread # 0
      /\ UNCHANGED <<turn, threads>> /\ sdk' = [sdk EXCEPT !.active = 0]
  BY DEF Query, Enter
<1>2. sdk.options = layer
  BY <1>1 DEF LayersInv, ActiveIsKnown
<1>3. /\ r.op = "query" /\ r.options = options /\ r.layer = layer
      /\ r.sent = Merge(<<Defaults, sdk.options, options>>)
  BY DEF Want, Idle
<1> HIDE DEF layer, r
<1>4. PlanOK(r)
  BY <1>2, <1>3 DEF PlanOK, Sent
<1>5. SdkKept
  BY <1>1 DEF SdkKept, IInv, Shaped
<1>6. QED
  BY <1>1, <1>4, <1>5, TurnsStay, LayersStep

LEMMA OtherBeginLayers ==
    ASSUME IInv, LayersInv, NEW t \in Tasks,
           \/ \E options \in Layers : FirstQuery(t, options)
           \/ \E n \in Turns : Steer(t, n)
           \/ Interrupt(t) \/ RespondApproval(t) \/ Close(t) \/ OneShot(t)
    PROVE  LayersInv'
<1>1. UNCHANGED <<turn, threads>> /\ SdkKept
  BY DEF FirstQuery, Steer, Interrupt, RespondApproval, Close, OneShot, SdkKept, IInv, Shaped
<1>2. PICK r : task' = [task EXCEPT ![t] = r] /\ PlanOK(r)
  <2>1. ASSUME NEW options \in Layers, FirstQuery(t, options)
        PROVE  \E r : task' = [task EXCEPT ![t] = r] /\ PlanOK(r)
    <3> DEFINE r == [Want("first") EXCEPT !.options = options]
    <3>1. task' = [task EXCEPT ![t] = r]
      BY <2>1 DEF FirstQuery, Enter
    <3>2. r.op = "first" /\ r.options = options
      BY DEF Want, Idle
    <3>3. PlanOK(r)
      BY <3>2 DEF PlanOK
    <3>4. QED
      BY <3>1, <3>3
  <2>2. ASSUME NEW n, Steer(t, n)
        PROVE  \E r : task' = [task EXCEPT ![t] = r] /\ PlanOK(r)
    <3> DEFINE r == [Want("steer") EXCEPT !.turn = n]
    <3>1. task' = [task EXCEPT ![t] = r]
      BY <2>2 DEF Steer, Enter
    <3>2. r.op = "steer" /\ r.options = None
      BY DEF Want, Idle
    <3>3. PlanOK(r)
      BY <3>2, SessionAssumption DEF PlanOK
    <3>4. QED
      BY <3>1, <3>3
  <2>3. CASE Interrupt(t) \/ RespondApproval(t)
    <3>1. task' = [task EXCEPT ![t] = Want("notice")]
      BY <2>3 DEF Interrupt, RespondApproval, Enter
    <3>2. QED
      BY <3>1, IdlePlan
  <2>4. CASE Close(t)
    <3> DEFINE streams == {n \in Turns : turn[n].registered}
               at == IF sdk.current # 0 THEN "closing" ELSE "gathering"
               r == [Idle EXCEPT !.op = "close", !.at = at, !.client = sdk.current,
                                 !.turns = streams]
    <3>1. task' = [task EXCEPT ![t] = r]
      BY <2>4 DEF Close, Enter
    <3> HIDE DEF streams, at
    <3>2. r.op = "close" /\ r.options = None
      BY DEF Idle
    <3>3. PlanOK(r)
      BY <3>2, SessionAssumption DEF PlanOK
    <3>4. QED
      BY <3>1, <3>3
  <2>5. CASE OneShot(t)
    <3>1. PICK c : Enter(t, [Idle EXCEPT !.op = "oneshot", !.at = "shotConnecting",
                                         !.client = c])
      BY <2>5 DEF OneShot
    <3> DEFINE r == [Idle EXCEPT !.op = "oneshot", !.at = "shotConnecting", !.client = c]
    <3>2. r.op = "oneshot" /\ r.options = None
      BY DEF Idle
    <3>3. PlanOK(r)
      BY <3>2, SessionAssumption DEF PlanOK
    <3>4. QED
      BY <3>1, <3>3 DEF Enter
  <2>6. QED
    BY <2>1, <2>2, <2>3, <2>4, <2>5
<1>3. QED
  BY <1>1, <1>2, TurnsStay, LayersStep

\* A step that leaves the threads and the tasks alone.
LEMMA SideStep ==
    ASSUME LayersInv, UNCHANGED <<task, threads>>, SdkKept, TurnsKept
    PROVE  LayersInv'
<1>1. ActiveIsKnown' /\ \A t \in Tasks : PlanOK(task[t])'
  BY DEF LayersInv, ActiveIsKnown, SdkKept, PlanOK
<1>2. QED
  BY <1>1, TurnsKeptOK DEF LayersInv

\* The task waits for a client, gets it or gives up.
LEMMA CallLayers ==
    ASSUME IInv, LayersInv, NEW t \in Tasks,
           \/ GetClient(t) \/ GetClientRefused(t)
           \/ Connected(t) \/ ConnectFails(t) \/ CancelConnect(t)
           \/ SteerAnswered(t) \/ Acknowledged(t) \/ CallEnds(t)
           \/ ShotProceeds(t) \/ ShotEnds(t) \/ ShotReturns(t) \/ CloseGathers(t)
    PROVE  LayersInv'
<1>1. UNCHANGED <<turn, threads>>
  BY DEF GetClient, GetClientRefused, Connected, ConnectFails, CancelConnect, SteerAnswered,
         Acknowledged, CallEnds, ShotProceeds, ShotEnds, ShotReturns, CloseGathers
<1>2. SdkKept
  BY DEF GetClient, GetClientRefused, Connected, ConnectFails, CancelConnect, SteerAnswered,
         Acknowledged, CallEnds, ShotProceeds, ShotEnds, ShotReturns, CloseGathers,
         Release, SdkKept, IInv, Shaped
<1>3. \/ \E at : task' = [task EXCEPT ![t] = [task[t] EXCEPT !.at = at]]
      \/ \E at, c : task' = [task EXCEPT ![t] = [task[t] EXCEPT !.at = at, !.client = c]]
      \/ task' = [task EXCEPT ![t] = Idle]
  <2>1. CASE GetClient(t)
    <3>1. PICK at, c : task' = [task EXCEPT ![t].at = at, ![t].client = c]
      BY <2>1 DEF GetClient
    <3>2. t \in DOMAIN task
      BY DEF IInv, Shaped
    <3>3. task' = [task EXCEPT ![t] = [task[t] EXCEPT !.at = at, !.client = c]]
      BY <3>1, <3>2
    <3>4. QED
      BY <3>3, Zenon
  <2>2. CASE Connected(t)
    BY <2>2 DEF Connected
  <2>3. CASE ShotProceeds(t)
    BY <2>3 DEF ShotProceeds
  <2>4. CASE ShotEnds(t)
    BY <2>4 DEF ShotEnds
  <2>5. CASE CloseGathers(t)
    BY <2>5 DEF CloseGathers
  <2>6. CASE \/ GetClientRefused(t) \/ ConnectFails(t) \/ CancelConnect(t) \/ SteerAnswered(t)
             \/ Acknowledged(t) \/ CallEnds(t) \/ ShotReturns(t)
    BY <2>6 DEF GetClientRefused, ConnectFails, CancelConnect, SteerAnswered, Acknowledged,
                CallEnds, ShotReturns, Leave
  <2>7. QED
    BY <2>1, <2>2, <2>3, <2>4, <2>5, <2>6
<1>4. PICK r : task' = [task EXCEPT ![t] = r] /\ PlanOK(r)
  BY <1>3, SamePlan, IdlePlan
<1>5. QED
  BY <1>1, <1>2, <1>4, TurnsStay, LayersStep

\* The thread's options are written in the step that makes it the active one.
LEMMA ActivateLayers ==
    ASSUME IInv, LayersInv, NEW t \in Tasks, NEW thread, NEW made \in Made,
           NEW r, task' = [task EXCEPT ![t] = r], PlanOK(r),
           \/ thread \in DOMAIN threads /\ threads' = [threads EXCEPT ![thread] = made]
           \/ thread = Len(threads) + 1 /\ threads' = Append(threads, made),
           sdk' = Activate(thread, made.options), UNCHANGED turn
    PROVE  LayersInv'
<1>1. threads \in Seq(Made)
  BY DEF LayersInv
<1>2. /\ threads' \in Seq(Made) /\ DOMAIN threads \subseteq DOMAIN threads'
      /\ thread \in DOMAIN threads' /\ threads'[thread] = made
  BY <1>1
<1>3. sdk'.thread = thread /\ sdk'.options = made.options
  BY DEF Activate, IInv, Shaped
<1>4. ActiveIsKnown'
  BY <1>2, <1>3 DEF ActiveIsKnown
<1>5. \A u \in Tasks : PlanOK(task[u])'
  BY <1>2, TaskChange
<1>6. QED
  BY <1>2, <1>4, <1>5, TurnsStay, TurnsKeptOK DEF LayersInv

LEMMA ThreadLayers ==
    ASSUME IInv, LayersInv, NEW t \in Tasks, ThreadAnswered(t)
    PROVE  LayersInv'
<1> DEFINE old == task[t].op = "resume"
           thread == IF old THEN task[t].thread ELSE Len(threads) + 1
           made == [options |-> task[t].options,
                    sent |-> ThreadKwargs(Merge(<<Defaults, task[t].options>>), task[t].op)]
<1>1. /\ task[t].op \in {"start", "resume", "fork"}
      /\ sdk' = Activate(thread, task[t].options)
      /\ threads' = IF old THEN [threads EXCEPT ![thread] = made] ELSE Append(threads, made)
      /\ task' = [task EXCEPT ![t] = Idle] /\ UNCHANGED turn
  BY DEF ThreadAnswered, Leave
<1>2. PlanOK(task[t])
  BY DEF LayersInv
<1>3. made \in Made /\ made.options = task[t].options
  BY <1>1, <1>2 DEF Made, PlanOK
<1>4. \/ thread \in DOMAIN threads /\ threads' = [threads EXCEPT ![thread] = made]
      \/ thread = Len(threads) + 1 /\ threads' = Append(threads, made)
  BY <1>1, <1>2 DEF PlanOK
<1> HIDE DEF thread, made
<1>5. QED
  BY <1>1, <1>3, <1>4, IdlePlan, ActivateLayers

LEMMA FirstThreadLayers ==
    ASSUME IInv, LayersInv, NEW t \in Tasks, FirstThreadAnswered(t)
    PROVE  LayersInv'
<1> DEFINE thread == Len(threads) + 1
           options == task[t].options
           kwargs == ThreadKwargs(Merge(<<Defaults, options>>), "start")
           threadMade == [options |-> None, sent |-> kwargs]
           planned == Merge(<<Defaults, None, options>>)
           r == [Want("query") EXCEPT !.thread = thread, !.options = options, !.sent = planned]
<1>1. /\ threads' = Append(threads, threadMade) /\ sdk' = Activate(thread, None)
      /\ task' = [task EXCEPT ![t] = r] /\ UNCHANGED turn
  BY DEF FirstThreadAnswered
<1>2. options \in Layers
  BY DEF LayersInv, PlanOK
<1>3. threadMade \in Made /\ threadMade.options = None
  BY <1>2, SessionAssumption DEF Made
<1>4. r.op = "query" /\ r.options = options /\ r.layer = None /\ r.sent = planned
  BY DEF Want, Idle
<1>5. PlanOK(r)
  BY <1>2, <1>4 DEF PlanOK, Sent
<1> HIDE DEF thread, threadMade, r
<1>6. QED
  BY <1>1, <1>3, <1>5, ActivateLayers DEF thread

\* The turn gets what its query settled.
LEMMA TurnLayers ==
    ASSUME IInv, LayersInv, NEW t \in Tasks, TurnAnswered(t)
    PROVE  LayersInv'
<1>1. PICK n \in Turns : turn' = [turn EXCEPT ![n] =
               [server |-> "running", client |-> task[t].client, completion |-> "pending",
                registered |-> TRUE, observed |-> FALSE, options |-> task[t].options,
                layer |-> task[t].layer, sent |-> task[t].sent]]
  BY DEF TurnAnswered
<1>2. /\ task[t].op = "query" /\ task' = [task EXCEPT ![t] = Idle] /\ UNCHANGED threads
      /\ SdkKept
  BY DEF TurnAnswered, Leave, SdkKept, IInv, Shaped
<1> DEFINE made == [server |-> "running", client |-> task[t].client, completion |-> "pending",
                    registered |-> TRUE, observed |-> FALSE, options |-> task[t].options,
                    layer |-> task[t].layer, sent |-> task[t].sent]
<1>3. PlanOK(task[t])
  BY DEF LayersInv
<1>4. TurnOK(made)
  BY <1>2, <1>3 DEF TurnOK, PlanOK, TurnFields
<1> HIDE DEF made
<1>5. DOMAIN turn' = Turns /\ \A m \in Turns : turn'[m] = IF m = n THEN made ELSE turn[m]
  BY <1>1 DEF LayersInv, made
<1>6. \A m \in Turns : TurnOK(turn'[m])
  BY <1>4, <1>5 DEF LayersInv
<1>7. \A u \in Tasks : PlanOK(task[u])'
  BY <1>2, IdlePlan, TaskChange
<1>8. ActiveIsKnown'
  BY <1>2 DEF LayersInv, ActiveIsKnown, SdkKept
<1>9. QED
  BY <1>2, <1>5, <1>6, <1>7, <1>8 DEF LayersInv

LEMMA CloseLayers ==
    ASSUME IInv, LayersInv, NEW t \in Tasks,
           CloseNothing(t) \/ CloseReturns(t) \/ CancelClose(t)
    PROVE  LayersInv'
<1>1. SdkKept /\ UNCHANGED threads
  <2>1. UNCHANGED threads /\ \E except : Forget(except)
    BY DEF CloseNothing, CloseReturns, CancelClose
  <2>2. sdk' = [sdk EXCEPT !.current = 0, !.thread = 0, !.options = None, !.active = 0]
    BY <2>1 DEF Forget
  <2>3. sdk'.thread = 0
    <3>1. DOMAIN sdk = {"current", "lock", "thread", "options", "active"}
      BY DEF IInv, Shaped
    <3>2. QED
      BY <2>2, <3>1
  <2>4. QED
    BY <2>1, <2>3 DEF SdkKept
<1>2. TurnsKept
  <2>1. DOMAIN turn = Turns /\ \A n \in Turns : DOMAIN turn[n] = TurnFields
    BY DEF LayersInv, TurnOK
  <2>2. CASE CloseNothing(t)
    BY <2>2, TurnsStay DEF CloseNothing
  <2>3. CASE CloseReturns(t)
    BY <2>1, <2>3 DEF CloseReturns, TurnsKept, TurnFields
  <2>4. CASE CancelClose(t)
    <3> DEFINE how(n) == IF /\ task[t].at = "gathering" /\ n \in task[t].turns
                            /\ turn[n].completion = "pending"
                         THEN "cancelled" ELSE turn[n].completion
    <3>1. turn' = [n \in Turns |-> [turn[n] EXCEPT !.registered = FALSE,
                                                   !.completion = how(n)]]
      BY <2>1, <2>4 DEF CancelClose, TurnFields
    <3> HIDE DEF how
    <3>2. QED
      BY <2>1, <3>1 DEF TurnsKept, TurnFields
  <2>5. QED
    BY <2>2, <2>3, <2>4
<1>3. CASE CloseNothing(t)
  BY <1>1, <1>2, <1>3, SideStep DEF CloseNothing
<1>4. CASE CloseReturns(t) \/ CancelClose(t)
  <2>1. task' = [task EXCEPT ![t] = Idle]
    BY <1>4 DEF CloseReturns, CancelClose, Leave
  <2>2. QED
    BY <1>1, <1>2, <2>1, IdlePlan, LayersStep
<1>5. QED
  BY <1>3, <1>4

LEMMA PumpLayers ==
    ASSUME IInv, LayersInv, NEW n \in Turns, Pump(n) \/ ServerEndsTurn(n)
    PROVE  LayersInv'
<1>1. UNCHANGED <<task, threads>> /\ SdkKept
  BY DEF Pump, PumpStarted, PumpCompleted, PumpFailed, PumpEnds, ServerEndsTurn,
         SdkKept, IInv, Shaped
<1>2. DOMAIN turn = Turns /\ \A m \in Turns : DOMAIN turn[m] = TurnFields
  BY DEF LayersInv, TurnOK
<1>3. CASE PumpStarted(n)
  <2>1. TurnsKept
    BY <1>2, <1>3 DEF PumpStarted, TurnsKept, TurnFields
  <2>2. QED
    BY <1>1, <2>1, SideStep
<1>4. CASE PumpCompleted(n) \/ PumpFailed(n)
  <2>1. PICK how : turn' = [turn EXCEPT ![n].completion = how, ![n].registered = FALSE]
    BY <1>4 DEF PumpCompleted, PumpFailed, PumpEnds
  <2>2. TurnsKept
    BY <1>2, <2>1 DEF TurnsKept, TurnFields
  <2>3. QED
    BY <1>1, <2>2, SideStep
<1>5. CASE ServerEndsTurn(n)
  <2>1. TurnsKept
    BY <1>2, <1>5 DEF ServerEndsTurn, TurnsKept, TurnFields
  <2>2. QED
    BY <1>1, <2>1, SideStep
<1>6. QED
  BY <1>3, <1>4, <1>5 DEF Pump

LEMMA InitLayers == Init => LayersInv
<1> SUFFICES ASSUME Init PROVE LayersInv
  OBVIOUS
<1>1. threads \in Seq(Made) /\ ActiveIsKnown
  BY DEF Init, ActiveIsKnown
<1>2. \A t \in Tasks : PlanOK(task[t])
  BY IdlePlan DEF Init
<1>3. DOMAIN turn = Turns /\ \A n \in Turns : TurnOK(turn[n])
  BY DEF Init, TurnOK, TurnFields
<1>4. QED
  BY <1>1, <1>2, <1>3 DEF LayersInv

LEMMA StepLayers == IInv /\ LayersInv /\ [Next]_vars => LayersInv'
<1> SUFFICES ASSUME IInv, LayersInv, [Next]_vars
             PROVE  LayersInv'
  OBVIOUS
<1>1. ASSUME NEW t \in Tasks, Begin(t) PROVE LayersInv'
  BY <1>1, BeginThreadLayers, QueryLayers, OtherBeginLayers, CloseLayers
     DEF Begin, StartThread, ForkThread, ResumeThread
<1>2. ASSUME NEW t \in Tasks, Proceed(t) PROVE LayersInv'
  BY <1>2, CallLayers, ThreadLayers, FirstThreadLayers, TurnLayers, CloseLayers DEF Proceed
<1>3. ASSUME NEW c \in Clients, Handshake(c) \/ ProcessExits(c) \/ ShutdownEnds(c)
      PROVE  LayersInv'
  <2>1. UNCHANGED <<sdk, task, threads, turn>>
    BY <1>3 DEF Handshake, ProcessStarts, HandshakeSucceeds, HandshakeFails, HandshakeRaises,
                ProcessExits, ShutdownEnds
  <2>2. QED
    BY <2>1, SideStep, TurnsStay DEF SdkKept
<1>4. ASSUME NEW n \in Turns, Pump(n) \/ ServerEndsTurn(n) PROVE LayersInv'
  BY <1>4, PumpLayers
<1>5. CASE UNCHANGED vars
  BY <1>5, SideStep, TurnsStay DEF vars, SdkKept
<1>6. QED
  BY <1>1, <1>2, <1>3, <1>4, <1>5 DEF Next

LEMMA SpecLayers == Spec => []LayersInv
BY InitIInv, StepIInv, InitLayers, StepLayers, PTL DEF Spec

\* Every turn runs with what the defaults, the last activation of its thread and its own
\* options say, the later before the earlier, whoever activates which thread meanwhile.
THEOREM TurnsRunWithTheirOptions == Spec => []OptionsFollowTheThread
<1>1. LayersInv => OptionsFollowTheThread
  <2> SUFFICES ASSUME LayersInv PROVE OptionsFollowTheThread
    OBVIOUS
  <2>1. ASSUME NEW n \in Turns, turn[n].server # "unused"
        PROVE  LET layers == <<Defaults, turn[n].layer, turn[n].options>>
                   policy == Chosen("sandbox_policy", layers)
                   sent == TurnKwargs(turn[n].sent)
               IN  /\ \A f \in {"model", "effort", "personality"} : sent[f] = Chosen(f, layers)
                   /\ sent["sandbox"] = IF policy # None THEN policy
                                        ELSE Chosen("sandbox_mode", layers)
    <3> DEFINE layers == <<Defaults, turn[n].layer, turn[n].options>>
               merged == Merge(layers)
    <3>1. turn[n].sent = merged
      BY <2>1 DEF LayersInv, TurnOK, Sent
    <3>2. \A f \in Fields : merged[f] = Chosen(f, layers)
      BY MergeOfThree, ChosenOfThree
    <3> HIDE DEF layers, merged
    <3>3. /\ \A f \in {"model", "effort", "personality"} :
                TurnKwargs(merged)[f] = Chosen(f, layers)
          /\ TurnKwargs(merged)["sandbox"] =
                IF Chosen("sandbox_policy", layers) # None THEN Chosen("sandbox_policy", layers)
                ELSE Chosen("sandbox_mode", layers)
      BY <3>2 DEF TurnKwargs, EffectivePolicy, PolicyOfMode, Fields
    <3>4. QED
      BY <3>1, <3>3 DEF layers
  <2>2. QED
    BY <2>1 DEF OptionsFollowTheThread
<1>2. QED
  BY SpecLayers, <1>1, PTL
=============================================================================
