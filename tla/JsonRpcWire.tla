----------------------------- MODULE JsonRpcWire -----------------------------
(***************************************************************************)
(* What one line of the wire means (rpc/jsonrpc.py, errors.py,             *)
(* approvals.py, protocol/registries.py).  A payload is the JSON object of *)
(* a line, a function on the members that are present; Junk is a value of  *)
(* the wrong type wherever it stands, a line that is no JSON object        *)
(* included.  The message of an error is the set of the phrases the client *)
(* looks for in it, its data whether a mark of overload is anywhere in it. *)
(***************************************************************************)
EXTENDS Integers, SequencesExt

CONSTANTS None, Junk

Null == <<"null">>   \* the id null: the only id that no request can be found by

Has(p, members) == members \subseteq DOMAIN p

\* The code of an error must be an integer that is no boolean, its message a string.
IsErrorObject(error) == error # Junk /\ error.code # Junk /\ error.message # Junk

IsEnvelope(p) ==
    /\ p # Junk
    /\ Has(p, {"jsonrpc"}) => p.jsonrpc = "2.0"
    /\ Has(p, {"id"}) => p.id # Junk
    /\ IF Has(p, {"method"})
       THEN p.method # Junk /\ DOMAIN p \cap {"result", "error"} = {}
       ELSE /\ Has(p, {"id"})
            /\ Has(p, {"result"}) # Has(p, {"error"})
            /\ Has(p, {"error"}) => IsErrorObject(p.error)

Kind(p) ==
    CASE ~IsEnvelope(p) -> "malformed"
      [] IsEnvelope(p) /\ Has(p, {"method", "id"}) -> "request"
      [] IsEnvelope(p) /\ Has(p, {"method"}) /\ ~Has(p, {"id"}) -> "notification"
      [] IsEnvelope(p) /\ Has(p, {"result"}) -> "success_response"
      [] IsEnvelope(p) /\ Has(p, {"error"}) -> "error_response"

\* What is written: the version is left out.
RequestLine(id, method, params) == [id |-> id, method |-> method, params |-> params]
NotificationLine(method, params) == [method |-> method, params |-> params]
ResultLine(id, result) == [id |-> id, result |-> result]
ErrorLine(id, code, message) ==
    [id |-> id, error |-> [code |-> code, message |-> message, data |-> FALSE]]

-----------------------------------------------------------------------------
(* Errors *)

OverloadCode == -32001
ServerErrorMin == -32099
ServerErrorMax == -32000

IsOverload(error) ==
    \/ error.code = OverloadCode
    \/ error.message \cap {"overload", "retry later"} # {}
    \/ error.data

SaysRetryBudget(message) ==
    message \cap {"retry budget", "retry limit", "too many failed attempts"} # {}

ServerError(error) ==
    CASE error.message = {"not initialized"} -> "NotInitialized"
      [] error.message = {"already initialized"} -> "AlreadyInitialized"
      [] OTHER -> IF ~IsOverload(error) THEN "Server"
                  ELSE IF SaysRetryBudget(error.message) THEN "RetryBudgetExceeded"
                  ELSE "RetryableOverload"

\* The classes of JsonRpcError: what an error that the server answered becomes.
ErrorTypes ==
    {"Parse", "InvalidRequest", "MethodNotFound", "InvalidParams", "Internal", "JsonRpc",
     "Server", "NotInitialized", "AlreadyInitialized", "RetryableOverload",
     "RetryBudgetExceeded"}

MapJsonRpcError(error) ==
    CASE error.code = -32700 -> "Parse"
      [] error.code = -32600 -> "InvalidRequest"
      [] error.code = -32601 -> "MethodNotFound"
      [] error.code = -32602 -> "InvalidParams"
      [] error.code = -32603 -> "Internal"
      [] error.code \in ServerErrorMin .. ServerErrorMax -> ServerError(error)
      [] OTHER -> "JsonRpc"

\* A result that the model of its request refuses is an error of the client's own.
ValidateResponse(result) == IF result = Junk THEN "ResponseValidation" ELSE "ok"

-----------------------------------------------------------------------------
(* Approvals *)

ApprovalMethods == {"item/commandExecution/requestApproval",
                    "item/fileChange/requestApproval", "item/permissions/requestApproval"}

\* An approval is typed when the registry knows its method and its params are
\* valid; the registry refuses the params, or it is no approval at all.
AdaptApproval(p) ==
    CASE p.method \notin ApprovalMethods -> None
      [] p.method \in ApprovalMethods /\ p.params = Junk -> "refused"
      [] p.method \in ApprovalMethods /\ p.params # Junk -> p.method

\* A decision has a decision or permissions, and a scope only with permissions.
IsApprovalDecision(d) ==
    /\ (d.decision = None) # (d.permissions = None)
    /\ d.scope # None => d.permissions # None

\* accept, accept_for_session, decline and cancel; and grant_permissions.
Decide(decision) == [decision |-> decision, permissions |-> None, scope |-> None]
GrantPermissions(permissions, scope) ==
    [decision |-> None, permissions |-> permissions, scope |-> scope]

AsWireResult(d) ==
    IF d.permissions # None THEN <<"permissions", d.permissions, d.scope>>
                            ELSE <<"decision", d.decision>>

\* What the handler of approvals makes of a request: the line that answers it, or
\* None when it is left to the subscriptions.  The application's handler may also
\* raise or return something that is no decision; whether the decision is of the
\* kind that this request takes is nobody's question.
HandleApproval(p, decision) ==
    CASE AdaptApproval(p) = "refused" -> ErrorLine(p.id, -32603, {})
      [] AdaptApproval(p) = None -> None
      [] AdaptApproval(p) \in ApprovalMethods ->
            IF decision \in {None, Junk} THEN None
            ELSE ResultLine(p.id, AsWireResult(decision))
=============================================================================
