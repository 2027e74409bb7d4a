-------------------------- MODULE ServerRequestRouter --------------------------
(***************************************************************************)
(* JsonRpcServerRequestRouter (rpc/router.py) between the dispatcher, the  *)
(* handlers, and an application that reads the requests no handler took.   *)
(* An entry of _pending_requests is kept under the wire id the server      *)
(* chose until the server says serverRequest/resolved; an answer claims    *)
(* the entry first and is written afterwards.                              *)
(*                                                                         *)
(* The stream of a subscription is the one of NotificationBus, unbounded;  *)
(* here it is only the set of the requests it was given.                   *)
(***************************************************************************)
EXTENDS Naturals, Sequences

CONSTANTS Requests,      \* requests the server may send
          WireIds,       \* request ids on the wire
          WireId,        \* the id each request is sent with
          Matched,       \* those the filter of the subscription matches
          None,          \* no request
          App,           \* the application
          Dispatcher,    \* the dispatch loop
          MaxInbound     \* bound: messages buffered on stdout

ASSUME RouterAssumption ==
    /\ WireId \in [Requests -> WireIds]
    /\ Matched \subseteq Requests
    /\ None \notin Requests /\ App \notin Requests /\ Dispatcher \notin Requests
    /\ MaxInbound \in Nat

VARIABLES
    policy,        \* unhandled_policy, chosen once: queue or reject
    polite,        \* the server reuses an id only after resolving it, chosen once
    server,        \* each request in the server: unsent, open or resolved
    inbound,       \* requests and resolutions on stdout, not dispatched yet
    dispatcher,    \* running, replying (to an unhandled request), stopped, failed
    pending,       \* _pending_requests
    claimed,       \* the entries that are marked responded
    task,          \* the handler task of each request
    writing,       \* <<who, entry>>: answers claimed and not yet written
    sent,          \* answers written to each entry
    handled,       \* a handler for the method, or a fallback, is installed
    subscription,  \* none, open, or how its stream was closed
    offered,       \* requests the application was given
    closed,        \* _closed
    terminal,      \* _terminal_error is set
    transport      \* open, or closing

setup == <<policy, polite>>

vars == <<setup, server, inbound, dispatcher, pending, claimed, task, writing, sent,
          handled, subscription, offered, closed, terminal, transport>>

Workers == Requests \cup {App, Dispatcher}
Messages == [type : {"request", "resolved"}, of : Requests]
Tasks == {"none", "running", "replying", "declined", "gave_up", "done", "cancelled"}
Active == {"running", "replying"}

Init ==
    /\ policy \in {"queue", "reject"}
    /\ polite \in BOOLEAN
    /\ server = [r \in Requests |-> "unsent"]
    /\ inbound = <<>>
    /\ dispatcher = "running"
    /\ pending = [id \in WireIds |-> None]
    /\ claimed = {}
    /\ task = [r \in Requests |-> "none"]
    /\ writing = {}
    /\ sent = [r \in Requests |-> 0]
    /\ handled = FALSE
    /\ subscription = "none"
    /\ offered = {}
    /\ closed = FALSE
    /\ terminal = FALSE
    /\ transport = "open"

wires == <<server, inbound>>
answers == <<claimed, writing, sent>>
end == <<closed, terminal, transport>>

-----------------------------------------------------------------------------
(* The app-server *)

InServer(id, status) == \E r \in Requests : WireId[r] = id /\ server[r] = status

ServerAsks(r) ==
    /\ server[r] = "unsent"
    /\ polite => ~InServer(WireId[r], "open")
    /\ Len(inbound) < MaxInbound
    /\ server' = [server EXCEPT ![r] = "open"]
    /\ inbound' = Append(inbound, [type |-> "request", of |-> r])
    /\ UNCHANGED <<setup, dispatcher, pending, task, handled, subscription, offered,
                   answers, end>>

\* With an answer or without one: the turn may have been interrupted.
ServerResolves(r) ==
    /\ server[r] = "open"
    /\ Len(inbound) < MaxInbound
    /\ server' = [server EXCEPT ![r] = "resolved"]
    /\ inbound' = Append(inbound, [type |-> "resolved", of |-> r])
    /\ UNCHANGED <<setup, dispatcher, pending, task, handled, subscription, offered,
                   answers, end>>

-----------------------------------------------------------------------------
(* The application: handlers and the subscription *)

\* register_handler, remove_handler and set_fallback_handler
SetHandler ==
    /\ handled' = ~handled
    /\ UNCHANGED <<setup, wires, dispatcher, pending, task, subscription, offered, answers, end>>

Subscribe ==
    /\ subscription = "none"
    /\ subscription' = IF ~closed THEN "open" ELSE IF terminal THEN "failed" ELSE "closed"
    /\ UNCHANGED <<setup, wires, dispatcher, pending, task, handled, offered, answers, end>>

Unsubscribe ==
    /\ subscription = "open"
    /\ subscription' = "closed"
    /\ UNCHANGED <<setup, wires, dispatcher, pending, task, handled, offered, answers, end>>

-----------------------------------------------------------------------------
(* Answers *)

\* Mutant of Claimable: the responded flag is not looked at.
ClaimableAgain(id) == pending[id] # None

Claimable(id) == pending[id] \notin claimed \cup {None}

\* _send_response, up to the write.
Claim(who, id) ==
    /\ Claimable(id)
    /\ claimed' = claimed \cup {pending[id]}
    /\ writing' = writing \cup {<<who, pending[id]>>}
    /\ UNCHANGED sent

\* Whoever wrote goes on: a handler is done, the dispatcher reads again.
GoOn(who) ==
    /\ task' = [r \in Requests |-> IF r = who THEN "done" ELSE task[r]]
    /\ dispatcher' = IF who = Dispatcher THEN "running" ELSE dispatcher

Write(who, r) ==
    /\ <<who, r>> \in writing
    /\ transport = "open"
    /\ sent' = [sent EXCEPT ![r] = @ + 1]
    /\ writing' = writing \ {<<who, r>>}
    /\ GoOn(who)
    /\ UNCHANGED <<setup, wires, pending, claimed, handled, subscription, offered, end>>

\* Mutant of Shut: a router that is closed already is left alone.
ShutOnce(error, stillWriting) ==
    /\ closed' = TRUE
    /\ terminal' = (terminal \/ error)
    /\ transport' = "closing"
    /\ pending' = IF closed THEN pending ELSE [id \in WireIds |-> None]
    /\ task' = [r \in Requests |-> IF ~closed /\ task[r] \in Active THEN "cancelled"
                                                                   ELSE task[r]]
    /\ writing' = stillWriting
    /\ subscription' = IF subscription # "open" THEN subscription
                       ELSE IF error THEN "failed" ELSE "closed"

\* close(), in the step that also marks the connection and closes the transport.
\* Handlers are cancelled, the answers they were writing are lost.
Shut(error, stillWriting) ==
    /\ closed' = TRUE
    /\ terminal' = (terminal \/ error)
    /\ transport' = "closing"
    /\ pending' = [id \in WireIds |-> None]
    /\ task' = [r \in Requests |-> IF task[r] \in Active THEN "cancelled" ELSE task[r]]
    /\ writing' = {w \in stillWriting : w[1] \notin Requests}
    /\ subscription' = IF subscription # "open" THEN subscription
                       ELSE IF error THEN "failed" ELSE "closed"

\* A write that did not end well: the server has the answer or has it not.
MayBeSent(r) == sent' \in {sent, [sent EXCEPT ![r] = @ + 1]}

\* A write fails: _send_server_request_response fails the connection, unless it
\* is closed.  The dispatcher fails with it, by the exception that comes through.
WriteFails(who, r) ==
    /\ <<who, r>> \in writing
    /\ IF closed /\ who # Dispatcher
       THEN /\ task' = [q \in Requests |-> IF q = who THEN "done" ELSE task[q]]
            /\ writing' = writing \ {<<who, r>>}
            /\ UNCHANGED <<pending, subscription, end>>
       ELSE Shut(TRUE, writing \ {<<who, r>>})
    /\ dispatcher' = IF who = Dispatcher THEN "failed" ELSE dispatcher
    /\ MayBeSent(r)
    /\ UNCHANGED <<setup, wires, claimed, handled, offered>>

\* The dispatcher's own write fails after stop(): the loop just ends.
WriteStops(r) ==
    /\ <<Dispatcher, r>> \in writing
    /\ closed
    /\ writing' = writing \ {<<Dispatcher, r>>}
    /\ dispatcher' = "stopped"
    /\ MayBeSent(r)
    /\ UNCHANGED <<setup, wires, pending, claimed, task, handled, subscription, offered, end>>

\* A task of the application is cancelled in the write: the transport closes and
\* the connection does not know it yet.
WriteCancelled(r) ==
    /\ <<App, r>> \in writing
    /\ writing' = writing \ {<<App, r>>}
    /\ transport' = "closing"
    /\ MayBeSent(r)
    /\ UNCHANGED <<setup, wires, dispatcher, pending, claimed, task, handled,
                   subscription, offered, closed, terminal>>

\* respond or reject by the application, for a request it was given; the router
\* only knows the id.
AppReplies(r) ==
    /\ ~closed
    /\ r \in offered
    /\ Claim(App, WireId[r])
    /\ UNCHANGED <<setup, wires, dispatcher, pending, task, handled, subscription, offered, end>>

\* Mutant of HandlerReplies: the handler raises and no error is sent for it.
HandlerRepliesSilently(r) ==
    /\ task[r] = "running"
    /\ task' = [task EXCEPT ![r] = "done"]
    /\ UNCHANGED <<setup, wires, dispatcher, pending, handled, subscription, offered, answers, end>>

\* A result or an error of the handler.  It is dropped when the request was
\* resolved or answered meanwhile.
HandlerReplies(r) ==
    /\ task[r] = "running"
    /\ IF Claimable(WireId[r])
       THEN /\ Claim(r, WireId[r])
            /\ task' = [task EXCEPT ![r] = "replying"]
       ELSE /\ task' = [task EXCEPT ![r] = "done"]
            /\ UNCHANGED answers
    /\ UNCHANGED <<setup, wires, dispatcher, pending, handled, subscription, offered, end>>

Offer(r) ==
    offered' = IF subscription = "open" /\ r \in Matched THEN offered \cup {r} ELSE offered

\* SERVER_REQUEST_NOT_HANDLED: the request goes to the subscription, or is
\* rejected like one with no handler.
HandlerDeclines(r) ==
    /\ policy = "queue"
    /\ task[r] = "running"
    /\ task' = [task EXCEPT ![r] = "declined"]
    /\ Offer(r)
    /\ UNCHANGED <<setup, wires, dispatcher, pending, handled, subscription, answers, end>>

\* A handler that ends itself with CancelledError, as one does whose own inner task was
\* cancelled: nobody answers the request, which stays pending.
HandlerGivesUp(r) ==
    /\ task[r] = "running"
    /\ task' = [task EXCEPT ![r] = "gave_up"]
    /\ UNCHANGED <<setup, wires, dispatcher, pending, handled, subscription, offered, answers, end>>

-----------------------------------------------------------------------------
(* The dispatcher *)

Receive(type, r) ==
    /\ dispatcher = "running"
    /\ inbound # <<>>
    /\ Head(inbound) = [type |-> type, of |-> r]
    /\ inbound' = Tail(inbound)
    /\ UNCHANGED <<setup, server>>

\* Mutant of Route: the dispatcher awaits the handler instead of its own task.
RouteInline(r) ==
    /\ Receive("request", r)
    /\ pending[WireId[r]] = None
    /\ pending' = [pending EXCEPT ![WireId[r]] = r]
    /\ \/ /\ handled
          /\ task' = [task EXCEPT ![r] = "running"]
          /\ dispatcher' = "replying"
          /\ UNCHANGED <<offered, answers>>
       \/ /\ ~handled
          /\ Offer(r)
          /\ UNCHANGED <<dispatcher, task, answers>>
    /\ UNCHANGED <<handled, subscription, end>>

\* route_request; a closed router routes on, for the loop may still be reading.
Route(r) ==
    /\ Receive("request", r)
    /\ pending[WireId[r]] = None
    /\ pending' = [pending EXCEPT ![WireId[r]] = r]
    /\ \/ /\ handled
          /\ task' = [task EXCEPT ![r] = "running"]
          /\ UNCHANGED <<dispatcher, offered, answers>>
       \/ /\ ~handled /\ policy = "queue"
          /\ Offer(r)
          /\ UNCHANGED <<dispatcher, task, answers>>
       \/ /\ ~handled /\ policy = "reject"
          /\ claimed' = claimed \cup {r}
          /\ writing' = writing \cup {<<Dispatcher, r>>}
          /\ dispatcher' = "replying"
          /\ UNCHANGED <<task, offered, sent>>
    /\ UNCHANGED <<handled, subscription, end>>

\* Mutant of ObserveResolution: only answered requests are forgotten.
ObserveResolutionOfAnswered(r) ==
    /\ Receive("resolved", r)
    /\ pending' = [pending EXCEPT ![WireId[r]] = IF @ \in claimed THEN None ELSE @]
    /\ UNCHANGED <<dispatcher, task, handled, subscription, offered, answers, end>>

\* observe_resolution_notification
ObserveResolution(r) ==
    /\ Receive("resolved", r)
    /\ pending' = [pending EXCEPT ![WireId[r]] = None]
    /\ UNCHANGED <<dispatcher, task, handled, subscription, offered, answers, end>>

\* _fail_dispatch, with everything it closes.
FailDispatch ==
    /\ Shut(TRUE, writing)
    /\ dispatcher' = "failed"
    /\ UNCHANGED <<setup, server, claimed, sent, handled, offered>>

\* DuplicateServerRequestIdError
RouteDuplicate(r) ==
    /\ dispatcher = "running"
    /\ inbound # <<>>
    /\ Head(inbound) = [type |-> "request", of |-> r]
    /\ inbound' = Tail(inbound)
    /\ pending[WireId[r]] # None
    /\ FailDispatch

\* The end of stdout, or garbage on it.
LoopFails ==
    /\ dispatcher = "running"
    /\ FailDispatch
    /\ UNCHANGED inbound

\* The same after stop(): nothing is closed again.
LoopStops ==
    /\ dispatcher = "running"
    /\ closed
    /\ dispatcher' = "stopped"
    /\ UNCHANGED <<setup, wires, pending, task, handled, subscription, offered, answers, end>>

-----------------------------------------------------------------------------
\* close() of the connection.
Close ==
    /\ ~closed
    /\ Shut(FALSE, writing)
    /\ UNCHANGED <<setup, wires, dispatcher, claimed, sent, handled, offered>>

RouteNext(r) == Route(r) \/ ObserveResolution(r) \/ RouteDuplicate(r)

Next ==
    \/ \E r \in Requests :
        \/ ServerAsks(r) \/ ServerResolves(r) \/ RouteNext(r)
        \/ HandlerReplies(r) \/ HandlerDeclines(r) \/ HandlerGivesUp(r)
        \/ AppReplies(r) \/ WriteCancelled(r) \/ WriteStops(r)
    \/ \E who \in Workers, r \in Requests : Write(who, r) \/ WriteFails(who, r)
    \/ SetHandler \/ Subscribe \/ Unsubscribe
    \/ LoopFails \/ LoopStops \/ Close

Spec == Init /\ [][Next]_vars

\* The event loop runs the dispatch task.  That stdout ends is owed by nobody, not
\* even once the transport is told to close.
Fairness == WF_vars(\E r \in Requests : RouteNext(r))

FairSpec == Spec /\ Fairness

\* Handlers end, and a server that reads lets writes finish.
AnswersAreWritten ==
    /\ \A r \in Requests : WF_vars(HandlerReplies(r) \/ HandlerDeclines(r) \/ HandlerGivesUp(r))
    /\ WF_vars(\E who \in Workers, r \in Requests : Write(who, r) \/ WriteFails(who, r))

-----------------------------------------------------------------------------
TypeOK ==
    /\ policy \in {"queue", "reject"}
    /\ polite \in BOOLEAN
    /\ server \in [Requests -> {"unsent", "open", "resolved"}]
    /\ inbound \in Seq(Messages)
    /\ dispatcher \in {"running", "replying", "stopped", "failed"}
    /\ pending \in [WireIds -> Requests \cup {None}]
    /\ claimed \subseteq Requests
    /\ task \in [Requests -> Tasks]
    /\ writing \subseteq Workers \X Requests
    /\ sent \in [Requests -> Nat]
    /\ handled \in BOOLEAN
    /\ subscription \in {"none", "open", "closed", "failed"}
    /\ offered \subseteq Requests
    /\ closed \in BOOLEAN
    /\ terminal \in BOOLEAN
    /\ transport \in {"open", "closing"}

\* The server never gets two answers to one request, although a handler, a late
\* handler of an older request with the same id, the dispatcher and any number
\* of tasks of the application may try to answer it.
AnsweredOnce ==
    \A r \in Requests :
        /\ sent[r] <= 1
        /\ \A v, w \in writing : v[2] = w[2] => v = w
        /\ sent[r] = 1 => \A w \in writing : w[2] # r

\* When the dispatcher has failed nothing of the router is left: no entry, no
\* running handler, no open subscription, even if the router had been closed
\* before and went on routing.
FailedIsQuiet ==
    dispatcher = "failed" =>
        /\ \A id \in WireIds : pending[id] = None
        /\ \A r \in Requests : task[r] \notin Active
        /\ subscription # "open"

\* A server that reuses an id only after it has resolved it never meets the
\* duplicate check, whatever became of the answers.
NoSpuriousDuplicate ==
    (polite /\ dispatcher = "running" /\ inbound # <<>>) =>
        LET m == Head(inbound)
        IN  m.type = "request" => pending[WireId[m.of]] = None

Buffered(r) == \E i \in DOMAIN inbound : inbound[i] = [type |-> "request", of |-> r]

\* With the queue policy the dispatcher reads on while handlers run and answers
\* wait for a server that does not read.
DispatcherNeverBlocks ==
    \A r \in Requests :
        (policy = "queue" /\ Buffered(r))
            ~> (~Buffered(r) \/ dispatcher \in {"stopped", "failed"})

\* A server whose request went to a handler is not left waiting, if handlers end and
\* writes end: the request is answered, unless the handler declined or gave up, the
\* server took it back or the transport was told to close.
HandledIsAnswered ==
    AnswersAreWritten =>
        \A r \in Requests :
            task[r] = "running"
                ~> \/ sent[r] = 1
                   \/ task[r] \in {"declined", "gave_up"}
                   \/ server[r] = "resolved"
                   \/ transport = "closing"
=============================================================================
