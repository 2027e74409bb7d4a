---------------------------- MODULE FakeAppServer ----------------------------
(***************************************************************************)
(* FakeAppServer (testing/fake_app_server.py): the process that plays a    *)
(* script of expectations and messages on its stdin and stdout.  Its       *)
(* stdout is a pipe of bytes: a byte is <<the line it is of, which of its  *)
(* bytes>>, a newline <<line, 0>>.  Delays are left to the scheduler.      *)
(***************************************************************************)
EXTENDS JsonRpcWire

CONSTANTS Scripts, Anything   \* Anything: what an expectation does not mention

VARIABLES
    script,    \* the normalised actions
    done,      \* how many of them have run
    aliases,   \* envelopes by name: every name there is, or the id of a request
    lastClientRequest, lastServerRequest,
    exit,      \* None, or the exit status of the process
    stdin,     \* the lines the client has written and nobody has read
    written,   \* history: the lines written to stdout, <<payload, length>>
    pipe,      \* the bytes of stdout nobody has read
    lost       \* history: how many bytes never got out of a killed process

server == <<script, done, aliases, lastClientRequest, lastServerRequest, exit, written, lost>>

\* The steps of a script.
ExpectRequest(method, id, params, saveAs) ==
    [action |-> "expect_request", method |-> method, id |-> id, params |-> params,
     saveAs |-> saveAs]
ExpectNotification(method, params) ==
    [action |-> "expect_notification", method |-> method, params |-> params, saveAs |-> None]
ExpectResponse(ref, result) ==
    [action |-> "expect_response", ref |-> ref, result |-> result, saveAs |-> None]
SendResponse(ref, member, value) ==
    [action |-> "send_response", ref |-> ref, member |-> member, value |-> value, length |-> 1]
SendNotification(method, length) ==
    [action |-> "send_notification", method |-> method, length |-> length]
SendServerRequest(id, method, params, saveAs) ==
    [action |-> "send_server_request", id |-> id, method |-> method, params |-> params,
     saveAs |-> saveAs, length |-> 1]
EmitRaw(line, length) == [action |-> "emit_raw", line |-> line, length |-> length]
CloseWith(code) == [action |-> "close", code |-> code]

\* What is checked of the steps before a script is played.
NormalizeAction(step) ==
    /\ step.action \in {"expect_request", "expect_notification", "send_notification",
                        "send_server_request"} => step.method # Junk
    /\ step.action = "send_response" => step.member \in {"result", "error"}
    /\ step.action = "send_server_request" => step.id \notin {Junk, Null}
    /\ step.action = "close" => step.code \in Int

\* The steps that write a line say how many bytes it has, an empty line none.
ASSUME ScriptAssumption ==
    \A s \in Scripts :
        /\ s \in Seq({s[n] : n \in DOMAIN s})
        /\ \A n \in DOMAIN s :
              /\ NormalizeAction(s[n])
              /\ s[n].action \in {"send_response", "send_notification", "send_server_request",
                                  "emit_raw"} => s[n].length \in Nat

ServerInit ==
    /\ script \in Scripts
    /\ done = 0
    /\ aliases = <<>>
    /\ lastClientRequest = None /\ lastServerRequest = None
    /\ exit = None
    /\ stdin = <<>>
    /\ written = <<>> /\ pipe = <<>> /\ lost = 0

-----------------------------------------------------------------------------

Due(action) == exit = None /\ done < Len(script) /\ script[done + 1].action = action
Step == script[done + 1]

Matches(actual, expected) == expected \in {Anything, actual}
Params(p) == IF Has(p, {"params"}) THEN p.params ELSE None

Bytes(n, length) == [k \in 1 .. length + 1 |-> <<n, IF k > length THEN 0 ELSE k>>]

Remembered(envelope, names) ==
    [name \in DOMAIN aliases \cup (names \ {None}) |->
        IF name \in names THEN envelope ELSE aliases[name]]

Advance == done' = done + 1 /\ UNCHANGED <<script, exit, lost>>

Exits(code) ==
    /\ exit' = code
    /\ UNCHANGED <<script, done, aliases, lastClientRequest, lastServerRequest, stdin, written,
                   pipe, lost>>

Writes(payload, length) ==
    /\ written' = Append(written, <<payload, length>>)
    /\ pipe' = pipe \o Bytes(Len(written) + 1, length)
    /\ UNCHANGED stdin

\* An expectation reads a line and is met, or the script ends in an error.
Expects(action, met(_), remember) ==
    /\ Due(action)
    /\ stdin # <<>>
    /\ IF met(Head(stdin))
       THEN /\ stdin' = Tail(stdin)
            /\ Advance
            /\ remember
            /\ UNCHANGED <<lastServerRequest, written, pipe>>
       ELSE Exits(1)

IsExpectedRequest(p) ==
    /\ Has(p, {"method", "id"})
    /\ p.method = Step.method
    /\ Matches(p.id, Step.id)
    /\ Matches(Params(p), Step.params)

ServeExpectRequest ==
    Expects("expect_request", IsExpectedRequest,
            /\ lastClientRequest' = Head(stdin)
            /\ aliases' = Remembered(Head(stdin), {"last_client_request", Step.saveAs}))

IsExpectedNotification(p) ==
    /\ Has(p, {"method"}) /\ ~Has(p, {"id"})
    /\ p.method = Step.method
    /\ Matches(Params(p), Step.params)

ServeExpectNotification ==
    Expects("expect_notification", IsExpectedNotification,
            aliases' = Remembered(Head(stdin), {Step.saveAs}) /\ UNCHANGED lastClientRequest)

\* The request an answer is about: the one a name stands for, or the last.
Referred(ref, last) ==
    IF ref = None THEN last ELSE IF ref \in DOMAIN aliases THEN aliases[ref] ELSE None

IsExpectedResponse(p) ==
    LET request == Referred(Step.ref, lastServerRequest)
    IN  /\ request # None
        /\ Has(p, {"id"}) /\ ~Has(p, {"method"})
        /\ p.id = request.id
        /\ IF Step.result = Anything THEN Has(p, {"result"}) \/ Has(p, {"error"})
                                ELSE Has(p, {"result"}) /\ p.result = Step.result

ServeExpectResponse ==
    Expects("expect_response", IsExpectedResponse,
            aliases' = Remembered(Head(stdin), {Step.saveAs}) /\ UNCHANGED lastClientRequest)

\* Nothing came in time, or stdin ended.
ExpectationFails ==
    /\ \E action \in {"expect_request", "expect_notification", "expect_response"} : Due(action)
    /\ stdin = <<>>
    /\ Exits(1)

ServeSendResponse ==
    /\ Due("send_response")
    /\ LET request == Referred(Step.ref, lastClientRequest)
       IN  IF request = None \/ ~Has(request, {"id"}) \/ request.id = Null
           THEN Exits(1)
           ELSE /\ Writes(IF Step.member = "result" THEN ResultLine(request.id, Step.value)
                          ELSE [id |-> request.id, error |-> Step.value], Step.length)
                /\ Advance
                /\ UNCHANGED <<aliases, lastClientRequest, lastServerRequest>>

ServeSendNotification ==
    /\ Due("send_notification")
    /\ Writes(NotificationLine(Step.method, None), Step.length)
    /\ Advance
    /\ UNCHANGED <<aliases, lastClientRequest, lastServerRequest>>

\* The request is known by its id too when that is a string.
ServeSendServerRequest ==
    /\ Due("send_server_request")
    /\ LET request == RequestLine(Step.id, Step.method, Step.params)
       IN  /\ Writes(request, Step.length)
           /\ lastServerRequest' = request
           /\ aliases' = Remembered(request,
                  {"last_server_request", Step.saveAs,
                   IF Step.id[1] = "str" THEN Step.id[2] ELSE None})
    /\ Advance
    /\ UNCHANGED lastClientRequest

ServeEmitRaw ==
    /\ Due("emit_raw")
    /\ Writes(Step.line, Step.length)
    /\ Advance
    /\ UNCHANGED <<aliases, lastClientRequest, lastServerRequest>>

ServeClose == Due("close") /\ Exits(Step.code)

ScriptEnds == exit = None /\ done = Len(script) /\ Exits(0)

\* The process is killed; of the last line, what is not out yet may be lost.
Killed ==
    /\ exit = None
    /\ \E k \in 0 .. Len(pipe) :
          /\ \A i \in Len(pipe) - k + 1 .. Len(pipe) : pipe[i][1] = Len(written)
          /\ pipe' = SubSeq(pipe, 1, Len(pipe) - k)
          /\ lost' = k
    /\ exit' = -9
    /\ UNCHANGED <<script, done, aliases, lastClientRequest, lastServerRequest, stdin, written>>

ServerNext ==
    \/ ServeExpectRequest \/ ServeExpectNotification \/ ServeExpectResponse
    \/ ExpectationFails
    \/ ServeSendResponse \/ ServeSendNotification \/ ServeSendServerRequest
    \/ ServeEmitRaw \/ ServeClose \/ ScriptEnds \/ Killed
=============================================================================
