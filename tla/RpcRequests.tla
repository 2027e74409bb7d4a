----------------------------- MODULE RpcRequests -----------------------------
(***************************************************************************)
(* The life of the requests of one JsonRpcConnection (rpc/connection.py):  *)
(* request() registers an id, queues for the transport's write lock,       *)
(* writes, and awaits its future, while the dispatcher delivers responses  *)
(* in the order of stdout and close(), a failed write or the end of stdout *)
(* release every waiter at once.                                           *)
(*                                                                         *)
(* Every request id stands for one task in request(): the allocator never  *)
(* hands an id out twice.  A step is what the event loop runs without      *)
(* suspending.                                                             *)
(***************************************************************************)
EXTENDS RequestRegistry

CONSTANTS Timed,        \* ids of the requests that were given a timeout
          RemoteIds,    \* ids the server may use for requests of its own
          MaxInbound,   \* bound: messages buffered on stdout
          MaxExtra,     \* bound: messages of the server that answer nothing
          Strays        \* ids of the unsolicited responses a server may send

ASSUME RpcAssumption ==
    /\ Timed \subseteq Ids
    /\ RemoteIds \subseteq Ids
    /\ Strays \subseteq Ids
    /\ MaxInbound \in Nat
    /\ MaxExtra \in Nat

VARIABLES
    registry,     \* the JsonRpcRequestRegistry
    phase,        \* where the task of each id is in request()
    outcome,      \* what request() returned or raised
    connection,   \* _closed_event and _terminal_error: open, closed or failed
    closing,      \* the transport was told to close (_close_requested)
    dispatcher,   \* the _dispatch_loop task: running or stopped
    serverUp,     \* the app-server process lives
    stalled,      \* its pipes do not close: it does not read what is in its stdin, or
                  \* it is gone and a descendant holds them open
    wire,         \* ids written to the server's stdin
    answered,     \* ids the server has answered
    inbound,      \* messages on stdout that are not dispatched yet
    extra         \* messages the server sent on its own account

vars == <<registry, phase, outcome, connection, closing, dispatcher, serverUp,
          stalled, wire, answered, inbound, extra>>

\* "unwinding" and "aborting" hold the write lock while they await the close of
\* the transport, after a cancelled and after a failed write.
Holding == {"writing", "unwinding", "aborting"}
InFlight == {"queued", "awaiting"} \cup Holding
Phases == InFlight \cup {"unused", "returned"}

Outcomes == {"none", "result", "error", "timed_out", "cancelled", "failed",
             "closed", "write_error"}

\* "garbage" is a line the dispatcher cannot route: an undecodable frame, an
\* envelope of no known shape, a server request whose id is pending already.
MessageTypes == {"result", "error", "request", "garbage"}
ResponseTypes == {"result", "error"}
Messages == [type : MessageTypes, id : Ids]

Open(id) == registry.future[id] = "open"
WriteLockFree == \A id \in Ids : phase[id] \notin Holding

Init ==
    /\ registry = EmptyRegistry
    /\ phase = [id \in Ids |-> "unused"]
    /\ outcome = [id \in Ids |-> "none"]
    /\ connection = "open"
    /\ closing = FALSE
    /\ dispatcher = "running"
    /\ serverUp = TRUE
    /\ stalled = FALSE
    /\ wire = {}
    /\ answered = {}
    /\ inbound = <<>>
    /\ extra = 0

Enter(id, p) == phase' = [phase EXCEPT ![id] = p]

Return(id, o) ==
    /\ Enter(id, "returned")
    /\ outcome' = [outcome EXCEPT ![id] = o]

\* _fail_connection, on a registry that may have been changed in the same step:
\* it returns at once when the connection is closed already.
FailConnection(r) ==
    IF connection = "open"
    THEN /\ registry' = ReleaseAll(r, "failed")
         /\ connection' = "failed"
         /\ closing' = TRUE
    ELSE /\ registry' = r
         /\ UNCHANGED <<connection, closing>>

server == <<serverUp, stalled, wire, answered, inbound, extra>>

-----------------------------------------------------------------------------
(* The tasks in request() *)

\* Mutant of Request: the closed flag is not checked again after start().
RequestUnchecked(id) ==
    /\ id = NextId(registry)
    /\ Available(registry, id)
    /\ registry' = Register(registry)
    /\ Enter(id, "queued")
    /\ UNCHANGED <<outcome, connection, closing, dispatcher, server>>

\* From the closed check to the first suspension, in the write.
Request(id) ==
    /\ connection = "open"
    /\ id = NextId(registry)
    /\ Available(registry, id)
    /\ registry' = Register(registry)
    /\ Enter(id, "queued")
    /\ UNCHANGED <<outcome, connection, closing, dispatcher, server>>

BeginWrite(id) ==
    /\ phase[id] = "queued"
    /\ WriteLockFree
    /\ ~closing
    /\ Enter(id, "writing")
    /\ wire' = wire \cup {id}
    /\ stalled' \in {stalled, TRUE}
    /\ UNCHANGED <<registry, outcome, connection, closing, dispatcher, serverUp,
                   answered, inbound, extra>>

\* _require_stdin_for_write_locked raises, on a closed transport or an exited
\* process; the transport is not closed by this.
RefuseWrite(id) ==
    /\ phase[id] = "queued"
    /\ WriteLockFree
    /\ closing \/ ~serverUp
    /\ FailConnection(Release(registry, id, "failed", "failed"))
    /\ Return(id, "write_error")
    /\ UNCHANGED <<dispatcher, server>>

EndWrite(id) ==
    /\ phase[id] = "writing"
    /\ Enter(id, "awaiting")
    /\ UNCHANGED <<registry, outcome, connection, closing, dispatcher, server>>

\* drain() raises: _close_after_write_failure, then TransportWriteError.
BreakWrite(id) ==
    /\ phase[id] = "writing"
    /\ Enter(id, "aborting")
    /\ closing' = TRUE
    /\ UNCHANGED <<registry, outcome, connection, dispatcher, server>>

AbortWrite(id) ==
    /\ phase[id] = "aborting"
    /\ FailConnection(Release(registry, id, "failed", "failed"))
    /\ Return(id, "write_error")
    /\ UNCHANGED <<dispatcher, server>>

\* A task cancelled while it queues for the lock, or while it awaits.
Cancel(id) ==
    /\ phase[id] \in {"queued", "awaiting"}
    /\ registry' = Release(registry, id, "cancelled", "cancelled")
    /\ Return(id, "cancelled")
    /\ UNCHANGED <<connection, closing, dispatcher, server>>

\* A task cancelled in the write closes the transport first: half a frame may
\* be on the wire.
CancelWrite(id) ==
    /\ phase[id] = "writing"
    /\ Enter(id, "unwinding")
    /\ closing' = TRUE
    /\ UNCHANGED <<registry, outcome, connection, dispatcher, server>>

\* The close has ended, or the task was cancelled while it awaited it, then also
\* after a failed write.
UnwindWrite(id) ==
    /\ phase[id] \in {"unwinding", "aborting"}
    /\ registry' = Release(registry, id, "cancelled", "cancelled")
    /\ Return(id, "cancelled")
    /\ UNCHANGED <<connection, closing, dispatcher, server>>

\* The waiter is woken some iterations of the loop after its future is settled.
Resume(id) ==
    /\ phase[id] = "awaiting"
    /\ ~Open(id)
    /\ Return(id, registry.future[id])
    /\ UNCHANGED <<registry, connection, closing, dispatcher, server>>

\* Mutants of Timeout: the timeout is raised although a response was accepted; and
\* the timer only fires for a request that is settled already.
TimeoutAlwaysRaises(id) ==
    /\ phase[id] = "awaiting"
    /\ id \in Timed
    /\ registry' = Release(registry, id, "timed_out", "cancelled")
    /\ Return(id, "timed_out")
    /\ UNCHANGED <<connection, closing, dispatcher, server>>

TimeoutOfSettled(id) ==
    /\ ~Open(id)
    /\ TimeoutAlwaysRaises(id)

\* The timer may fire in that window too: then the settled future wins.
Timeout(id) ==
    /\ phase[id] = "awaiting"
    /\ id \in Timed
    /\ registry' = Release(registry, id, "timed_out", "cancelled")
    /\ Return(id, IF IsPending(registry, id) THEN "timed_out"
                                             ELSE registry.future[id])
    /\ UNCHANGED <<connection, closing, dispatcher, server>>

-----------------------------------------------------------------------------
(* The app-server *)

Send(m) ==
    /\ serverUp
    /\ Len(inbound) < MaxInbound
    /\ inbound' = Append(inbound, m)

Answer(id) ==
    /\ id \in wire \ answered
    /\ \E type \in ResponseTypes : Send([type |-> type, id |-> id])
    /\ answered' = answered \cup {id}
    /\ UNCHANGED <<registry, phase, outcome, connection, closing, dispatcher,
                   serverUp, stalled, wire, extra>>

\* A request of the server, a response it owes to nobody, or garbage.
SendExtra ==
    /\ extra < MaxExtra
    /\ \/ \E id \in RemoteIds, type \in {"request", "garbage"} :
            Send([type |-> type, id |-> id])
       \/ \E id \in Strays : Send([type |-> "result", id |-> id])
    /\ extra' = extra + 1
    /\ UNCHANGED <<registry, phase, outcome, connection, closing, dispatcher,
                   serverUp, stalled, wire, answered>>

ServerExit ==
    /\ serverUp
    /\ serverUp' = FALSE
    /\ stalled' \in BOOLEAN
    /\ UNCHANGED <<registry, phase, outcome, connection, closing, dispatcher,
                   wire, answered, inbound, extra>>

\* The server reads its stdin, or the last descendant lets go of the pipes.
Unstall ==
    /\ stalled
    /\ stalled' = FALSE
    /\ UNCHANGED <<registry, phase, outcome, connection, closing, dispatcher,
                   serverUp, wire, answered, inbound, extra>>

-----------------------------------------------------------------------------
(* The dispatcher *)

Receive(m) ==
    /\ dispatcher = "running"
    /\ inbound # <<>>
    /\ m = Head(inbound)
    /\ inbound' = Tail(inbound)
    /\ UNCHANGED <<phase, outcome, serverUp, stalled, wire, answered, extra>>

DispatchResponse(m) ==
    /\ Receive(m)
    /\ m.type \in ResponseTypes
    /\ IsPending(registry, m.id)
    /\ registry' = Release(registry, m.id, "completed", m.type)
    /\ UNCHANGED <<connection, closing, dispatcher>>

\* Mutant of DispatchLateResponse: LateResponseError is fatal like the others.
DispatchLateResponseFatally(m) ==
    /\ Receive(m)
    /\ m.type \in ResponseTypes
    /\ ~IsPending(registry, m.id)
    /\ IsFinalized(registry, m.id)
    /\ FinalizedStatus(registry, m.id) # "completed"
    /\ FailConnection(registry)
    /\ dispatcher' = "stopped"

\* LateResponseError is logged and the loop goes on.
DispatchLateResponse(m) ==
    /\ Receive(m)
    /\ m.type \in ResponseTypes
    /\ ~IsPending(registry, m.id)
    /\ IsFinalized(registry, m.id)
    /\ FinalizedStatus(registry, m.id) # "completed"
    /\ UNCHANGED <<registry, connection, closing, dispatcher>>

\* UnknownResponseIdError and DuplicateResponseError end the loop: _fail_dispatch.
DispatchBadResponse(m) ==
    /\ Receive(m)
    /\ m.type \in ResponseTypes
    /\ ~IsPending(registry, m.id)
    /\ IsFinalized(registry, m.id) =>
            FinalizedStatus(registry, m.id) = "completed"
    /\ FailConnection(registry)
    /\ dispatcher' = "stopped"

\* Any other error of reading or routing a message ends the loop too.
DispatchGarbage(m) ==
    /\ Receive(m)
    /\ m.type = "garbage"
    /\ FailConnection(registry)
    /\ dispatcher' = "stopped"

\* The local allocator moves past the ids of the server; the request itself
\* goes to the server-request router.
DispatchRequest(m) ==
    /\ Receive(m)
    /\ m.type = "request"
    /\ registry' = Observe(registry, m.id)
    /\ UNCHANGED <<connection, closing, dispatcher>>

\* Mutant of DispatchEof: the end of stdout passes for a clean end whenever the
\* transport was told to close.
DispatchEofQuietly ==
    /\ dispatcher = "running"
    /\ ~serverUp
    /\ inbound = <<>> \/ closing
    /\ IF closing THEN UNCHANGED <<registry, connection, closing>>
                  ELSE FailConnection(registry)
    /\ dispatcher' = "stopped"
    /\ UNCHANGED <<phase, outcome, server>>

\* _dispatch_loop at the end of stdout: _fail_dispatch, unless stop() came first,
\* when the connection is closed already.  A closed transport forgets its process
\* with what it had still buffered.
DispatchEof ==
    /\ dispatcher = "running"
    /\ ~serverUp
    /\ inbound = <<>> \/ closing
    /\ FailConnection(registry)
    /\ dispatcher' = "stopped"
    /\ UNCHANGED <<phase, outcome, server>>

Dispatch ==
    \E type \in MessageTypes, id \in Ids :
        LET m == [type |-> type, id |-> id]
        IN  \/ DispatchResponse(m)
            \/ DispatchLateResponse(m)
            \/ DispatchBadResponse(m)
            \/ DispatchGarbage(m)
            \/ DispatchRequest(m)

-----------------------------------------------------------------------------
\* close(), up to its first suspension in the close of the transport.
Close ==
    /\ connection = "open"
    /\ registry' = ReleaseAll(registry, "closed")
    /\ connection' = "closed"
    /\ closing' = TRUE
    /\ UNCHANGED <<phase, outcome, dispatcher, server>>

Next ==
    \/ \E id \in Ids :
        \/ Request(id) \/ BeginWrite(id) \/ RefuseWrite(id) \/ EndWrite(id)
        \/ BreakWrite(id) \/ AbortWrite(id) \/ Cancel(id) \/ CancelWrite(id)
        \/ UnwindWrite(id) \/ Resume(id) \/ Timeout(id) \/ Answer(id)
    \/ SendExtra \/ ServerExit \/ Unstall \/ Dispatch \/ DispatchEof \/ Close

\* What the event loop and the operating system owe the program: a task that can
\* run runs and an armed timer fires; and, unless the pipes are stalled, a close of
\* the transport ends, with the process gone (it is killed if need be), stdout ends
\* with the process and a write with its pipe.  Nobody owes it that a stalled pipe
\* gets going: the transport kills the process only once stdin has closed.
Fairness ==
    /\ \A id \in Ids :
        /\ WF_vars(BeginWrite(id) \/ RefuseWrite(id))
        /\ WF_vars(~stalled /\ (closing \/ ~serverUp) /\ (EndWrite(id) \/ BreakWrite(id)))
        /\ WF_vars(~stalled /\ (AbortWrite(id) \/ UnwindWrite(id)))
        /\ WF_vars(Resume(id))
        /\ WF_vars(Timeout(id))
    /\ WF_vars(Dispatch \/ (~stalled /\ DispatchEof))
    /\ WF_vars(~stalled /\ closing /\ ServerExit)

Spec == Init /\ [][Next]_vars

FairSpec == Spec /\ Fairness

-----------------------------------------------------------------------------
TypeOK ==
    /\ registry \in Registries
    /\ phase \in [Ids -> Phases]
    /\ outcome \in [Ids -> Outcomes]
    /\ connection \in {"open", "closed", "failed"}
    /\ closing \in BOOLEAN
    /\ dispatcher \in {"running", "stopped"}
    /\ serverUp \in BOOLEAN
    /\ stalled \in BOOLEAN
    /\ wire \subseteq Ids
    /\ answered \subseteq Ids
    /\ inbound \in Seq(Messages)
    /\ extra \in Nat

\* No task waits for a future that nobody will settle: the futures that are
\* open are exactly those the registry can still find, each of them once.
NoOrphanWaiter == WaitersAreKnown(registry)

\* The finalized history tells how each of its requests really ended: whether a
\* response counts as late or as duplicate depends on it.
HistoryIsTrue == HistoryIsAccurate(registry)

\* The check of the closed flag and the registration are one step, so close()
\* and _fail_connection leave no request behind.
ClosedReleasesAll == connection # "open" => registry.pending = <<>>

\* What request() reports agrees with what the registry did with the request: a
\* timeout is never reported for a response that was accepted, and a result is
\* never reported for a request that was released otherwise.
OutcomeIsTrue ==
    \A id \in Ids :
        /\ phase[id] = "returned" <=> outcome[id] # "none"
        /\ phase[id] = "returned" => ~Open(id)
        /\ phase[id] = "unused" <=> registry.future[id] = "none"
        /\ outcome[id] = "timed_out" => registry.future[id] = "cancelled"
        /\ outcome[id] \in {"result", "error", "failed", "closed"}
                => registry.future[id] = outcome[id]

\* _ensure_request_id_available never refuses an id of the allocator, whatever
\* ids the server uses for its own requests.
NextIdIsFree == FreshIdsAreFree(registry)

\* The dispatcher takes a response to a request that was released by its timeout or
\* its caller's cancellation.
LateResponse(id) ==
    /\ connection = "open"
    /\ inbound # <<>>
    /\ inbound' = Tail(inbound)
    /\ Head(inbound).type \in ResponseTypes
    /\ Head(inbound).id = id
    /\ registry.future[id] = "cancelled"

\* It leaves the connection usable (tests/test_app_server_client.py,
\* test_late_response_after_timeout_is_logged_and_connection_stays_usable).
LateResponseIsHarmless ==
    [][\A id \in Ids : LateResponse(id) => connection' = "open"]_vars

\* It does so as long as the history has the request, whatever else was released
\* since and however it was: the entry still tells a late response from a bad one.
RememberedIsHarmless ==
    [][\A id \in Ids :
        LateResponse(id) /\ IsFinalized(registry, id) => connection' = "open"]_vars


\* A cancelled or failed write closes the transport without telling the connection;
\* the end of stdout does tell it, unless the pipes stay stalled for ever.
ClosingIsNoticed ==
    \/ []<>(closing => connection # "open")
    \/ <>[](stalled /\ connection = "open")

\* A request with a timeout returns once it is written, whatever the server does.
TimedRequestsReturn ==
    \A id \in Timed : phase[id] = "awaiting" ~> phase[id] = "returned"

\* What a caller of request() is promised, without registry, wire or dispatcher.
Promise == INSTANCE RequestOutcome
    WITH Requests <- Ids,
         accepting <- (connection = "open"),
         fate <- [id \in Ids |-> registry.future[id]],
         report <- outcome

\* The connection keeps that promise.
KeepsPromise == Promise!Spec
=============================================================================
