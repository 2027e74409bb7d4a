------------------------------ MODULE TurnTraffic ------------------------------
(***************************************************************************)
(* Which subscriptions a message of the server reaches (rpc/router.py) and *)
(* which event of a turn it becomes (protocol/registries.py,               *)
(* protocol/adapters.py, with the models and registries of generated/).    *)
(* A message has a method and params, a function on the members that are   *)
(* present, empty if it is no object.  Of a nested thread or turn only the *)
(* id matters, and the items of a completed turn, a member of their own.   *)
(* Of the methods of the registries, those are here that the adapters tell *)
(* apart and one of every other shape.                                     *)
(***************************************************************************)
EXTENDS TurnAggregation

Member(params, name) == IF name \in DOMAIN params THEN params[name] ELSE None

FirstOf(a, b) == IF a # None THEN a ELSE b

\* The extractions on raw params: a direct id, else that of a nested object.
ThreadOf(params) == FirstOf(Member(params, "threadId"), Member(params, "thread"))
TurnOf(params) == FirstOf(Member(params, "turnId"), Member(params, "turn"))

\* What a subscription asks for; None is anything.
Filter(method, thread, turn) == [method |-> method, thread |-> thread, turn |-> turn]

NotificationMatches(filter, message) ==
    /\ filter.method \in {None, message.method}
    /\ filter.thread \in {None, ThreadOf(message.params)}
    /\ filter.turn \in {None, TurnOf(message.params)}

\* Server requests have direct ids only.
RequestMatches(filter, request) ==
    /\ filter.method \in {None, request.method}
    /\ filter.thread \in {None, Member(request.params, "threadId")}
    /\ filter.turn \in {None, Member(request.params, "turnId")}

-----------------------------------------------------------------------------
(* The registries: the methods they know, and what their models require *)

DeltaMember == {"threadId", "turnId", "itemId", "delta"}
TurnMember == {"threadId", "turn"}
ItemMember == {"threadId", "turnId", "item"}
UsageMember == {"threadId", "turnId", "tokenUsage"}
StatusMember == {"threadId", "status"}

Deltas == UNION {DeltaMethods[k] : k \in Texts}

Notifications ==
    [m \in Deltas \cup
           {"turn/started", "turn/completed", "item/started", "item/completed", "thread/started",
            "thread/tokenUsage/updated", "thread/status/changed", "turn/diff/updated"} |->
        CASE m \in Deltas -> DeltaMember
          [] m \in {"turn/started", "turn/completed"} -> TurnMember
          [] m \in {"item/started", "item/completed"} -> ItemMember
          [] m = "thread/tokenUsage/updated" -> UsageMember
          [] m = "thread/status/changed" -> StatusMember
          [] m = "thread/started" -> {"thread"}
          [] m = "turn/diff/updated" -> {"threadId", "turnId", "diff"}]

Approvals == {"item/commandExecution/requestApproval",
              "item/fileChange/requestApproval", "item/permissions/requestApproval"}

Requests ==
    [m \in Approvals \cup {"item/tool/requestUserInput"} |->
        CASE m = "item/permissions/requestApproval" -> {"threadId", "itemId", "permissions"}
          [] m = "item/tool/requestUserInput" -> {"threadId", "questions"}
          [] OTHER -> {"threadId", "itemId"}]

\* A method the registry does not know is passed on raw; params that its model
\* refuses are an error.
Parse(registry, message) ==
    CASE message.method \notin DOMAIN registry -> "raw"
      [] message.method \in DOMAIN registry ->
            IF registry[message.method] \subseteq DOMAIN message.params
            THEN "typed" ELSE "refused"

-----------------------------------------------------------------------------
(* The adapters *)

NoEvent == [kind |-> "none"]
Refused == [kind |-> "refused"]

\* The event of a typed notification about the turn at hand.
EventOf(message) ==
    LET p == message.params
        m == message.method
    IN  CASE m = "turn/started" -> [kind |-> "started"]
          [] m = "turn/completed" -> [kind |-> "completed", items |-> p["items"]]
          [] m = "thread/tokenUsage/updated" -> [kind |-> "usage", usage |-> p["tokenUsage"]]
          [] m = "item/started" -> [kind |-> "item_started", item |-> p["item"]]
          [] m = "item/completed" -> [kind |-> "item_completed", item |-> p["item"]]
          [] m \in UNION {DeltaMethods[k] : k \in {"agent", "command", "reasoning"}} ->
                [kind |-> "delta", of |-> CHOOSE k \in Texts : m \in DeltaMethods[k],
                 item |-> p["itemId"], text |-> p["delta"]]
          [] OTHER -> [kind |-> "raw", method |-> m, params |-> p]

\* adapt_turn_notification: the status of the thread is of interest to every turn.
AdaptTurnNotification(message, target) ==
    LET nested == message.method \in {"turn/started", "turn/completed"}
        about == IF nested THEN Member(message.params, "turn") ELSE TurnOf(message.params)
    IN  CASE Parse(Notifications, message) = "refused" -> Refused
          [] Parse(Notifications, message) = "raw" ->
                IF TurnOf(message.params) # target THEN NoEvent
                ELSE [kind |-> "raw", method |-> message.method, params |-> message.params]
          [] Parse(Notifications, message) = "typed" ->
                IF message.method = "thread/status/changed" THEN [kind |-> "status"]
                ELSE IF about # target THEN NoEvent ELSE EventOf(message)

\* adapt_turn_server_request: an approval is typed, any other request raw.
AdaptTurnServerRequest(request, target) ==
    LET direct == Member(request.params, "turnId")
        about == IF request.method \in Approvals THEN direct ELSE TurnOf(request.params)
    IN  CASE Parse(Requests, request) = "refused" -> Refused
          [] Parse(Requests, request) # "refused" /\ about # target -> NoEvent
          [] Parse(Requests, request) # "refused" /\ about = target ->
                [kind |-> IF request.method \in Approvals THEN "approval" ELSE "request"]
=============================================================================
