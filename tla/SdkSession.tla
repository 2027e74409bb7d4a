------------------------------ MODULE SdkSession ------------------------------
(***************************************************************************)
(* CodexSDKClient, the app-server clients it makes, and the one-shot       *)
(* query (client.py, query.py), on one event loop.  Tasks of the           *)
(* application call the operations of one SDK client concurrently; every   *)
(* await is a point where the others run.                                  *)
(*                                                                         *)
(* A client is a process, the connection to it, and the initialize task,   *)
(* which runs shielded from the callers that wait for it.  Requests,       *)
(* subscriptions and the shutdown of a process are those of RpcRequests,   *)
(* NotificationBus and StdioTransport: here a call is answered, refused or *)
(* cut off, and a closed connection gets its process down.  The pump of a  *)
(* turn is TurnStream's; here it observes the start and the end of its     *)
(* turn, or the end of the connection.                                     *)
(***************************************************************************)
EXTENDS Naturals, FiniteSets, CodexOptions

CONSTANTS Tasks,        \* tasks of the application
          Defaults,     \* self.options
          Layers,       \* the options callers pass; None is one of them
          MaxClients, MaxThreads, MaxTurns, MaxCalls   \* bounds

ASSUME SessionAssumption ==
    /\ {MaxClients, MaxThreads, MaxTurns, MaxCalls} \subseteq Nat
    /\ None \in Layers

VARIABLES
    client,    \* of each app-server client: process, connection, handshake
    sdk,       \* the attributes of the SDK client
    turn,      \* of each turn: the server's side, the stream, the handle
    task,      \* of each task: the operation it is in, and where
    threads,   \* of each thread of the server: its last activation, and what it was sent
    calls      \* operations begun

vars == <<client, sdk, turn, task, threads, calls>>

Clients == 1..MaxClients
Threads == 1..MaxThreads
Turns == 1..MaxTurns

Idle == [op |-> "none", at |-> "idle", client |-> 0, thread |-> 0, turn |-> 0,
         turns |-> {}, options |-> None, layer |-> None, sent |-> None]

Init ==
    \* _HandshakeState; the initialize task; the process; is_closed; and how the SDK
    \* client came to drop a client it had not closed (a history).
    /\ client = [c \in Clients |-> [state |-> "unused", init |-> "none", process |-> "none",
                                    closed |-> FALSE, dropped |-> "no"]]
    /\ sdk = [current |-> 0, lock |-> None, thread |-> 0, options |-> None, active |-> 0]
    /\ turn = [n \in Turns |-> [server |-> "unused", client |-> 0, completion |-> "none",
                                registered |-> FALSE, observed |-> FALSE,
                                options |-> None, layer |-> None, sent |-> None]]
    /\ task = [t \in Tasks |-> Idle]
    /\ threads = <<>>
    /\ calls = 0

-----------------------------------------------------------------------------
(* One app-server client *)

Unused == {c \in Clients : client[c].state = "unused"}

\* A new AppServerClient whose initialize task is created at once.
Fresh(c) == [client EXCEPT ![c].state = "initializing", ![c].init = "running"]

\* JsonRpcConnection.close and _fail_connection: closed first, then the process.
Shutting(record) ==
    [record EXCEPT !.closed = TRUE,
                   !.process = IF @ = "up" THEN "closing" ELSE @]

Down(c) == client[c].process \notin {"up", "closing"}

\* The spawn of the handshake ends, on a connection that may be closed meanwhile.
ProcessStarts(c) ==
    /\ client[c].init = "running"
    /\ client[c].state \in {"initializing", "closed"}
    /\ client[c].process = "none"
    /\ client' = [client EXCEPT ![c].process = "up"]
    /\ UNCHANGED <<sdk, turn, task, threads, calls>>

HandshakeSucceeds(c) ==
    /\ client[c].init = "running"
    /\ client[c].state = "initializing"
    /\ client[c].process = "up" /\ ~client[c].closed
    /\ client' = [client EXCEPT ![c].state = "initialized", ![c].init = "ok"]
    /\ UNCHANGED <<sdk, turn, task, threads, calls>>

\* Mutant of HandshakeFails: the failure is raised and the connection left open.
HandshakeFailsOpen(c) ==
    /\ client[c].init = "running"
    /\ client[c].state \in {"initializing", "closed"}
    /\ client' = [client EXCEPT ![c].state = "failed"]
    /\ UNCHANGED <<sdk, turn, task, threads, calls>>

\* An error, a timeout or a closed connection: the connection is closed before
\* the error is raised.
HandshakeFails(c) ==
    /\ client[c].init = "running"
    /\ client[c].state \in {"initializing", "closed"}
    /\ client' = [client EXCEPT ![c] = Shutting([@ EXCEPT !.state = "failed"])]
    /\ UNCHANGED <<sdk, turn, task, threads, calls>>

HandshakeRaises(c) ==
    /\ client[c].init = "running"
    /\ client[c].state = "failed"
    /\ client[c].process # "closing"
    /\ client' = [client EXCEPT ![c].init = "raised"]
    /\ UNCHANGED <<sdk, turn, task, threads, calls>>

\* The process exits on its own; the dispatcher fails the connection.
ProcessExits(c) ==
    /\ client[c].process = "up"
    /\ client' = [client EXCEPT ![c].process = "gone", ![c].closed = TRUE]
    /\ UNCHANGED <<sdk, turn, task, threads, calls>>

ShutdownEnds(c) ==
    /\ client[c].process = "closing"
    /\ client' = [client EXCEPT ![c].process = "gone"]
    /\ UNCHANGED <<sdk, turn, task, threads, calls>>

\* AppServerClient.close, after the connection is closed.
Closed(record) == [record EXCEPT !.state = IF @ = "failed" THEN @ ELSE "closed"]

-----------------------------------------------------------------------------
(* What the SDK client looks at before the first await of an operation *)

Pending(n) == n # 0 /\ turn[n].registered /\ turn[n].completion = "pending"

\* _clear_finished_active_turn: a turn without a stream is kept.
ClearFinished ==
    IF sdk.active # 0 /\ turn[sdk.active].registered /\ ~Pending(sdk.active)
    THEN 0 ELSE sdk.active

\* An operation that begins with the wait for a client.
Want(op) == [Idle EXCEPT !.op = op, !.at = "want"]

Enter(t, record) ==
    /\ task[t].at = "idle"
    /\ calls < MaxCalls
    /\ calls' = calls + 1
    /\ task' = [task EXCEPT ![t] = record]

Leave(t) == task' = [task EXCEPT ![t] = Idle]

\* start_thread, resume_thread and fork_thread; _raise_if_turn_in_progress drops
\* an active turn it finds no stream for.
BeginThread(t, op, thread, options) ==
    /\ ~Pending(sdk.active)
    /\ op = "resume" => thread \in DOMAIN threads
    /\ Enter(t, [Want(op) EXCEPT !.thread = thread, !.options = options])
    /\ sdk' = [sdk EXCEPT !.active = 0]
    /\ UNCHANGED <<client, turn, threads>>

StartThread(t, options) == BeginThread(t, "start", 0, options)

ResumeThread(t, thread, options) == BeginThread(t, "resume", thread, options)

\* The source is named, or is the active thread.
ForkThread(t, options) ==
    /\ sdk.thread # 0
    /\ BeginThread(t, "fork", 0, options)

\* query on an active thread: what the turn will be sent is fixed before the first
\* await.  layer is a history: the options that thread was activated with.
Query(t, options) ==
    /\ sdk.thread # 0
    /\ ~Pending(sdk.active)
    /\ sdk' = [sdk EXCEPT !.active = 0]
    /\ Enter(t, [Want("query") EXCEPT
                    !.thread = sdk.thread, !.options = options,
                    !.layer = threads[sdk.thread].options,
                    !.sent = Merge(<<Defaults, sdk.options, options>>)])
    /\ UNCHANGED <<client, turn, threads>>

\* query without one: a thread is started first.
FirstQuery(t, options) ==
    /\ sdk.thread = 0
    /\ sdk' = [sdk EXCEPT !.active = ClearFinished]
    /\ Enter(t, [Want("first") EXCEPT !.options = options])
    /\ UNCHANGED <<client, turn, threads>>

\* steer and interrupt name their turn, or mean the active one.
Steer(t, n) ==
    /\ sdk.thread # 0
    /\ n = ClearFinished \/ turn[n].completion # "none"
    /\ Enter(t, [Want("steer") EXCEPT !.turn = n])
    /\ sdk' = [sdk EXCEPT !.active = ClearFinished]
    /\ UNCHANGED <<client, turn, threads>>

Interrupt(t) ==
    /\ sdk.thread # 0
    /\ ClearFinished # 0 \/ \E n \in Turns : turn[n].completion # "none"
    /\ Enter(t, Want("notice"))
    /\ sdk' = [sdk EXCEPT !.active = ClearFinished]
    /\ UNCHANGED <<client, turn, threads>>

\* respond_approval_request only needs a client.
RespondApproval(t) ==
    /\ Enter(t, Want("notice"))
    /\ UNCHANGED <<client, sdk, turn, threads>>

-----------------------------------------------------------------------------
(* _get_client *)

\* With the lock free: the current client if it is ready, else a new one whose
\* handshake is awaited with the lock held.
GetClient(t) ==
    /\ task[t].at = "want"
    /\ sdk.lock = None
    /\ \/ /\ sdk.current # 0
          /\ client[sdk.current].state = "initialized"
          /\ task' = [task EXCEPT ![t].at = "calling", ![t].client = sdk.current]
          /\ UNCHANGED <<client, sdk>>
       \/ \E c \in Unused :
            /\ sdk.current = 0
            /\ \A d \in Unused : c <= d
            /\ client' = Fresh(c)
            /\ sdk' = [sdk EXCEPT !.current = c, !.lock = t]
            /\ task' = [task EXCEPT ![t].at = "connecting", ![t].client = c]
    /\ UNCHANGED <<turn, threads, calls>>

\* A failed or cancelled caller leaves the lock, and drops the client it waited for.
Release(t) ==
    [sdk EXCEPT !.lock = None, !.current = IF @ = task[t].client THEN 0 ELSE @]

\* The current client was closed or has failed: initialize() raises, or fails
\* again on the closed connection, and the client is dropped.
GetClientRefused(t) ==
    /\ task[t].at = "want"
    /\ sdk.lock = None
    /\ sdk.current # 0
    /\ client[sdk.current].state \in {"closed", "failed"}
    /\ sdk' = [sdk EXCEPT !.current = 0]
    /\ Leave(t)
    /\ UNCHANGED <<client, turn, threads, calls>>

Connected(t) ==
    /\ task[t].at = "connecting"
    /\ client[task[t].client].init = "ok"
    /\ sdk' = [sdk EXCEPT !.lock = None]
    /\ task' = [task EXCEPT ![t].at = "calling"]
    /\ UNCHANGED <<client, turn, threads, calls>>

ConnectFails(t) ==
    /\ task[t].at = "connecting"
    /\ client[task[t].client].init = "raised"
    /\ sdk' = Release(t)
    /\ Leave(t)
    /\ UNCHANGED <<client, turn, threads, calls>>

\* The caller is cancelled: the handshake goes on, and nobody has the client.
CancelConnect(t) ==
    /\ task[t].at = "connecting"
    /\ sdk' = Release(t)
    /\ Leave(t)
    /\ client' = [client EXCEPT ![task[t].client].dropped =
                      IF sdk.current = task[t].client /\ @ = "no" THEN "cancelled" ELSE @]
    /\ UNCHANGED <<turn, threads, calls>>

-----------------------------------------------------------------------------
(* The call of an operation *)

Open(c) == client[c].process = "up" /\ ~client[c].closed

Answerable(t) == task[t].at = "calling" /\ Open(task[t].client)

\* Mutant of Activate: a thread activated without options keeps the previous ones.
ActivateKeepingOptions(thread, options) ==
    [sdk EXCEPT !.thread = thread, !.options = IF options = None THEN @ ELSE options,
                !.active = 0]

Activate(thread, options) ==
    [sdk EXCEPT !.thread = thread, !.options = options, !.active = 0]

\* The thread the server answers with: the resumed one or a new one.
ThreadAnswered(t) ==
    /\ Answerable(t)
    /\ task[t].op \in {"start", "resume", "fork"}
    /\ LET old == task[t].op = "resume"
           thread == IF old THEN task[t].thread ELSE Len(threads) + 1
           made == [options |-> task[t].options,
                    sent |-> ThreadKwargs(Merge(<<Defaults, task[t].options>>), task[t].op)]
       IN  /\ thread \in Threads
           /\ sdk' = Activate(thread, task[t].options)
           /\ threads' = IF old THEN [threads EXCEPT ![thread] = made]
                                ELSE Append(threads, made)
    /\ Leave(t)
    /\ UNCHANGED <<client, turn, calls>>

\* The thread of a first query is activated without options, and the query goes on.
FirstThreadAnswered(t) ==
    /\ Answerable(t)
    /\ task[t].op = "first"
    /\ Len(threads) < MaxThreads
    /\ threads' = Append(threads,
           [options |-> None,
            sent |-> ThreadKwargs(Merge(<<Defaults, task[t].options>>), "start")])
    /\ sdk' = Activate(Len(threads) + 1, None)
    /\ task' = [task EXCEPT ![t] = [Want("query") EXCEPT
                   !.thread = Len(threads) + 1, !.options = task[t].options,
                   !.sent = Merge(<<Defaults, None, task[t].options>>)]]
    /\ UNCHANGED <<client, turn, calls>>

\* turn/start is answered: the stream, its pump and its completion future are made
\* in one step.
TurnAnswered(t) ==
    /\ Answerable(t)
    /\ task[t].op = "query"
    /\ \E n \in Turns :
        /\ turn[n].server = "unused"
        /\ \A m \in Turns : turn[m].server = "unused" => n <= m
        /\ turn' = [turn EXCEPT ![n] =
               [server |-> "running", client |-> task[t].client, completion |-> "pending",
                registered |-> TRUE, observed |-> FALSE, options |-> task[t].options,
                layer |-> task[t].layer, sent |-> task[t].sent]]
        /\ sdk' = [sdk EXCEPT !.active = n]
    /\ Leave(t)
    /\ UNCHANGED <<client, threads, calls>>

\* steer writes the active turn, whatever became of it meanwhile.
SteerAnswered(t) ==
    /\ Answerable(t)
    /\ task[t].op = "steer"
    /\ sdk' = [sdk EXCEPT !.active = task[t].turn]
    /\ Leave(t)
    /\ UNCHANGED <<client, turn, threads, calls>>

Acknowledged(t) ==
    /\ Answerable(t)
    /\ task[t].op = "notice"
    /\ Leave(t)
    /\ UNCHANGED <<client, sdk, turn, threads, calls>>

\* The call is refused, cut off by the end of the connection, or cancelled; so may
\* the wait for the lock be.
CallEnds(t) ==
    /\ task[t].at \in {"want", "calling"}
    /\ Leave(t)
    /\ UNCHANGED <<client, sdk, turn, threads, calls>>

-----------------------------------------------------------------------------
(* The turns *)

ServerEndsTurn(n) ==
    /\ turn[n].server = "running"
    /\ Open(turn[n].client)
    /\ turn' = [turn EXCEPT ![n].server = "ended"]
    /\ UNCHANGED <<client, sdk, task, threads, calls>>

\* The pump observes turn/started.
PumpStarted(n) ==
    /\ turn[n].completion = "pending" /\ ~turn[n].observed
    /\ turn' = [turn EXCEPT ![n].observed = TRUE]
    /\ sdk' = [sdk EXCEPT !.active = n]
    /\ UNCHANGED <<client, task, threads, calls>>

\* The end of _pump_turn_stream: the future is done before the stream is dropped.
PumpEnds(n, how) ==
    /\ turn[n].completion = "pending"
    /\ turn' = [turn EXCEPT ![n].completion = how, ![n].registered = FALSE]
    /\ sdk' = [sdk EXCEPT !.active = IF @ = n THEN 0 ELSE @]

PumpCompleted(n) ==
    /\ turn[n].observed /\ turn[n].server = "ended"
    /\ PumpEnds(n, "result")
    /\ UNCHANGED <<client, task, threads, calls>>

\* The streams of a closed connection end; the completion may be read and lost.
PumpFailed(n) ==
    /\ turn[n].completion = "pending"
    /\ client[turn[n].client].closed
    /\ PumpEnds(n, "failed")
    /\ UNCHANGED <<client, task, threads, calls>>

-----------------------------------------------------------------------------
(* close of the SDK client: its client, then the pumps, then its attributes *)

\* The finally of close: whatever the client has by now is forgotten.
Forget(except) ==
    /\ sdk' = [sdk EXCEPT !.current = 0, !.thread = 0, !.options = None, !.active = 0]
    /\ client' = [c \in Clients |->
           IF c = sdk.current /\ c # except
           THEN [client[c] EXCEPT !.dropped = "overlapped"]
           ELSE IF c = except /\ Down(c) THEN Closed(client[c]) ELSE client[c]]

Close(t) ==
    LET streams == {n \in Turns : turn[n].registered}
    IN  /\ sdk.current # 0 \/ streams # {}
        /\ Enter(t, [Idle EXCEPT
                        !.op = "close",
                        !.at = IF sdk.current # 0 THEN "closing" ELSE "gathering",
                        !.client = sdk.current, !.turns = streams])
        /\ client' = [c \in Clients |->
               IF c = sdk.current THEN Shutting(client[c]) ELSE client[c]]
        /\ UNCHANGED <<sdk, turn, threads>>

\* Without a client and without streams nothing is awaited.
CloseNothing(t) ==
    /\ task[t].at = "idle"
    /\ calls < MaxCalls
    /\ sdk.current = 0
    /\ \A n \in Turns : ~turn[n].registered
    /\ Forget(0)
    /\ calls' = calls + 1
    /\ UNCHANGED <<turn, task, threads>>

\* The process is down: the pumps are waited for, if there are any.
CloseGathers(t) ==
    /\ task[t].at = "closing"
    /\ Down(task[t].client)
    /\ task[t].turns # {}
    /\ client' = [client EXCEPT ![task[t].client] = Closed(@)]
    /\ task' = [task EXCEPT ![t].at = "gathering"]
    /\ UNCHANGED <<sdk, turn, threads, calls>>

CloseReturns(t) ==
    /\ \/ task[t].at = "closing" /\ Down(task[t].client) /\ task[t].turns = {}
       \/ /\ task[t].at = "gathering"
          /\ \A n \in task[t].turns : turn[n].completion # "pending"
    /\ Forget(task[t].client)
    /\ turn' = [n \in Turns |-> [turn[n] EXCEPT !.registered = FALSE]]
    /\ Leave(t)
    /\ UNCHANGED <<threads, calls>>

\* Cancelled: gather() cancels the pumps it waits for, and the attributes are
\* cleared all the same.
CancelClose(t) ==
    /\ task[t].at \in {"closing", "gathering"}
    /\ Forget(task[t].client)
    /\ turn' = [n \in Turns |->
           [turn[n] EXCEPT !.registered = FALSE,
                !.completion = IF /\ task[t].at = "gathering" /\ n \in task[t].turns
                                  /\ @ = "pending" THEN "cancelled" ELSE @]]
    /\ Leave(t)
    /\ UNCHANGED <<threads, calls>>

-----------------------------------------------------------------------------
(* query(), the one-shot helper: a client of its own, closed on every way out *)

OneShot(t) ==
    \E c \in Unused :
        /\ \A d \in Unused : c <= d
        /\ Enter(t, [Idle EXCEPT !.op = "oneshot", !.at = "shotConnecting", !.client = c])
        /\ client' = Fresh(c)
        /\ UNCHANGED <<sdk, turn, threads>>

\* initialize, thread/start, turn/start, each with an await of its own.
ShotProceeds(t) ==
    /\ \/ /\ task[t].at = "shotConnecting"
          /\ client[task[t].client].init = "ok"
          /\ task' = [task EXCEPT ![t].at = "shotThread"]
       \/ /\ task[t].at = "shotThread" /\ Open(task[t].client)
          /\ task' = [task EXCEPT ![t].at = "shotTurn"]
       \/ /\ task[t].at = "shotTurn" /\ Open(task[t].client)
          /\ task' = [task EXCEPT ![t].at = "shotStreaming"]
    /\ UNCHANGED <<client, sdk, turn, threads, calls>>

\* The turn completed, a call failed, the caller was cancelled or stopped reading:
\* async with closes the client.
ShotEnds(t) ==
    /\ task[t].at \in {"shotConnecting", "shotThread", "shotTurn", "shotStreaming"}
    /\ client' = [client EXCEPT ![task[t].client] = Shutting(@)]
    /\ task' = [task EXCEPT ![t].at = "shotClosing"]
    /\ UNCHANGED <<sdk, turn, threads, calls>>

ShotReturns(t) ==
    /\ task[t].at = "shotClosing"
    /\ Down(task[t].client)
    /\ client' = [client EXCEPT ![task[t].client] = Closed(@)]
    /\ Leave(t)
    /\ UNCHANGED <<sdk, turn, threads, calls>>

-----------------------------------------------------------------------------
Begin(t) ==
    \/ \E options \in Layers :
        \/ StartThread(t, options) \/ ForkThread(t, options)
        \/ \E thread \in Threads : ResumeThread(t, thread, options)
        \/ Query(t, options) \/ FirstQuery(t, options)
    \/ \E n \in Turns : Steer(t, n)
    \/ Interrupt(t) \/ RespondApproval(t)
    \/ Close(t) \/ CloseNothing(t) \/ OneShot(t)

Proceed(t) ==
    \/ GetClient(t) \/ GetClientRefused(t)
    \/ Connected(t) \/ ConnectFails(t) \/ CancelConnect(t)
    \/ ThreadAnswered(t) \/ FirstThreadAnswered(t) \/ TurnAnswered(t)
    \/ SteerAnswered(t) \/ Acknowledged(t) \/ CallEnds(t)
    \/ CloseGathers(t) \/ CloseReturns(t) \/ CancelClose(t)
    \/ ShotProceeds(t) \/ ShotEnds(t) \/ ShotReturns(t)

Handshake(c) ==
    \/ ProcessStarts(c) \/ HandshakeSucceeds(c) \/ HandshakeFails(c) \/ HandshakeRaises(c)

Pump(n) == PumpStarted(n) \/ PumpCompleted(n) \/ PumpFailed(n)

Next ==
    \/ \E t \in Tasks : Begin(t) \/ Proceed(t)
    \/ \E c \in Clients : Handshake(c) \/ ProcessExits(c) \/ ShutdownEnds(c)
    \/ \E n \in Turns : Pump(n) \/ ServerEndsTurn(n)

Spec == Init /\ [][Next]_vars

-----------------------------------------------------------------------------
(* Properties *)

\* No app-server is left running by accident.  One that is up on an open connection
\* is the SDK client's, or that of a one-shot query still in its block; one that
\* came up on a closed connection is still in its handshake, which takes it down
\* when it fails.  The two ways in which the code does lose one are named: a caller
\* cancelled while it waits for the handshake, and a close() that ends after the
\* client it was called on was replaced.
EveryProcessIsOwned ==
    \A c \in Clients : client[c].process = "up" =>
        IF client[c].closed THEN client[c].init = "running"
        ELSE \/ c = sdk.current
             \/ client[c].dropped # "no"
             \/ \E t \in Tasks : task[t].op = "oneshot" /\ task[t].client = c

\* What precedence promises, field by field: the call, else the activation of the
\* thread, else the client's defaults.  A sandbox policy at any layer goes before
\* every sandbox mode.
Chosen(field, layers) ==
    LET named == {i \in DOMAIN layers : layers[i] # None /\ layers[i][field] # None}
    IN  IF named = {} THEN None
        ELSE layers[CHOOSE i \in named : \A j \in named : j <= i][field]

\* A turn runs with the options of the thread it runs on, as that thread was last
\* activated when query() was called, however many tasks switch threads meanwhile.
OptionsFollowTheThread ==
    \A n \in Turns : turn[n].server # "unused" =>
        LET layers == <<Defaults, turn[n].layer, turn[n].options>>
            policy == Chosen("sandbox_policy", layers)
            sent == TurnKwargs(turn[n].sent)
        IN  /\ \A f \in {"model", "effort", "personality"} : sent[f] = Chosen(f, layers)
            /\ sent["sandbox"] = IF policy # None THEN policy
                                 ELSE Chosen("sandbox_mode", layers)
=============================================================================
