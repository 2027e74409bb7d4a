--------------------------- MODULE WireConversation ---------------------------
(***************************************************************************)
(* A conversation over the wire: the scripted server of FakeAppServer, and *)
(* the client that reads its stdout in chunks (transport/stdio.py), makes  *)
(* frames and envelopes of them, gives answers to the callers and errors   *)
(* their types (errors.py), answers approvals (approvals.py, client.py),   *)
(* and repeats what an overloaded server turned away (retry.py).           *)
(*                                                                         *)
(* Ids, histories and timeouts of requests are RpcRequests' subject; here  *)
(* a client's ids are integers in order, a script's server requests have   *)
(* strings, and callers wait for as long as it takes.                      *)
(***************************************************************************)
EXTENDS FakeAppServer, FiniteSets

CONSTANTS Callers,
          Method,          \* of each caller, what it requests
          MaxAttempts,     \* OverloadRetryPolicy.max_attempts
          ReadChunkBytes, MaxFrameBytes,
          Decisions        \* what the handler of approvals may come back with

\* How a connection ends.
Endings == {"partial", "exit", "clean", "malformed", "oversize", "unexpected", "closed"}

ASSUME WireAssumption ==
    /\ None \notin Callers \cup Endings \cup Int
    /\ MaxAttempts \in Nat \ {0}
    /\ ReadChunkBytes \in Nat \ {0} /\ MaxFrameBytes \in Nat \ {0}
    /\ \A d \in Decisions : d \in {None, Junk} \/ IsApprovalDecision(d)

VARIABLES
    buffer, eof,   \* what the transport has read of stdout
    delivered,     \* history: the frames it made, by the line they are
    ended,         \* None, or how the connection ended
    calls,         \* history: the requests written, by whom; None, a notification
    caller,        \* of each caller: how it stands
    approvals      \* server requests whose handler has not come back

client == <<buffer, eof, delivered, ended, calls, caller, approvals>>
wireVars == <<server, stdin, pipe, client>>

WireInit ==
    /\ ServerInit
    /\ buffer = <<>> /\ eof = FALSE
    /\ delivered = <<>>
    /\ ended = None
    /\ calls = <<>>
    /\ caller = [c \in Callers |-> "idle"]
    /\ approvals = {}

-----------------------------------------------------------------------------
(* Callers: retry_on_overload around one request *)

Attempts(c) == Cardinality({n \in DOMAIN calls : calls[n] = c})

Attempt(c) ==
    /\ calls' = Append(calls, c)
    /\ caller' = [caller EXCEPT ![c] = "waiting"]
    /\ stdin' = Append(stdin, RequestLine(<<"int", Len(calls) + 1>>, Method[c], None))
    /\ UNCHANGED <<server, pipe, buffer, eof, delivered, ended, approvals>>

\* The first attempt, and the next one after the delay.
Call(c) == ended = None /\ caller[c] = "idle" /\ Attempt(c)
Retry(c) == ended = None /\ caller[c] = "sleeping" /\ Attempt(c)

\* A client may announce itself first.
Initialized ==
    /\ ended = None /\ calls = <<>>
    /\ calls' = <<None>>
    /\ stdin' = Append(stdin, NotificationLine("initialized", None))
    /\ UNCHANGED <<server, pipe, buffer, eof, delivered, ended, caller, approvals>>

RetryFindsItClosed(c) ==
    /\ ended # None /\ caller[c] = "sleeping"
    /\ caller' = [caller EXCEPT ![c] = "closed"]
    /\ UNCHANGED <<server, stdin, pipe, buffer, eof, delivered, ended, calls, approvals>>

\* Mutant: the error of a spent budget is caught as the overload it is a kind of.
AfterErrorAnyOverload(c, type) ==
    CASE type \in {"RetryableOverload", "RetryBudgetExceeded"} ->
            IF Attempts(c) >= MaxAttempts THEN "RetryBudgetExceeded" ELSE "sleeping"
      [] OTHER -> type

\* What a caller makes of an error, by its type; only an overload that says
\* nothing of a budget is retried, and only until the attempts are used up.
AfterError(c, type) ==
    CASE type = "RetryBudgetExceeded" -> type
      [] type = "RetryableOverload" ->
            IF Attempts(c) >= MaxAttempts THEN "RetryBudgetExceeded" ELSE "sleeping"
      [] OTHER -> type

Answered(c, p) ==
    IF Has(p, {"result"}) THEN ValidateResponse(p.result)
                          ELSE AfterError(c, MapJsonRpcError(p.error))

-----------------------------------------------------------------------------
(* The transport and the dispatcher *)

Newline(bytes) == {i \in DOMAIN bytes : bytes[i][2] = 0}

\* The connection ends: who waits is told, and the process loses its stdin.
Ends(how) ==
    /\ ended' = how
    /\ caller' = [c \in Callers |-> IF caller[c] = "waiting" THEN "closed" ELSE caller[c]]
    /\ approvals' = {}

\* What a frame, here with its newline, holds: the payload of the line it is, or
\* nothing that can be read.
Decoded(frame) ==
    IF \E n \in DOMAIN written : frame = Bytes(n, written[n][2]) THEN frame[1][1] ELSE 0

Payload(n) == IF n = 0 THEN Junk ELSE written[n][1]

\* A response is for the caller whose last request has its id; one with the id of an
\* answered request is late, one with the id of none ends the connection.
DispatchResponse(p) ==
    LET asked == {n \in DOMAIN calls : calls[n] # None /\ p.id = <<"int", n>>}
    IN  /\ IF asked = {} THEN Ends("unexpected")
           ELSE LET n == CHOOSE m \in asked : TRUE
                    c == calls[n]
                    waits == caller[c] = "waiting" /\ \A m \in DOMAIN calls :
                                                          m > n => calls[m] # c
                IN  /\ caller' = [caller EXCEPT ![c] = IF waits THEN Answered(c, p) ELSE @]
                    /\ UNCHANGED <<ended, approvals>>

Dispatch(p) ==
    CASE Kind(p) = "malformed" -> Ends("malformed")
      [] Kind(p) = "notification" -> UNCHANGED <<ended, caller, approvals>>
      [] Kind(p) = "request" ->
            approvals' = approvals \cup {p} /\ UNCHANGED <<ended, caller>>
      [] Kind(p) \in {"success_response", "error_response"} -> DispatchResponse(p)

\* Mutant: what came after the first frame of a chunk is thrown away.
ReadFrameDropsRest ==
    /\ ended = None
    /\ Newline(buffer) # {}
    /\ LET newline == CHOOSE i \in Newline(buffer) : \A j \in Newline(buffer) : i <= j
           n == Decoded(SubSeq(buffer, 1, newline))
       IN  /\ buffer' = <<>>
           /\ delivered' = Append(delivered, n)
           /\ Dispatch(Payload(n))
    /\ UNCHANGED <<server, stdin, pipe, eof, calls>>

ReadFrame ==
    /\ ended = None
    /\ Newline(buffer) # {}
    /\ LET newline == CHOOSE i \in Newline(buffer) : \A j \in Newline(buffer) : i <= j
           n == Decoded(SubSeq(buffer, 1, newline))
       IN  /\ buffer' = SubSeq(buffer, newline + 1, Len(buffer))
           /\ delivered' = Append(delivered, n)
           /\ Dispatch(Payload(n))
    /\ UNCHANGED <<server, stdin, pipe, eof, calls>>

\* Mutant: a frame as long as the limit is too long.
ReadChunkAtLimit ==
    /\ ended = None
    /\ Newline(buffer) = {} /\ ~eof
    /\ \E k \in 1 .. ReadChunkBytes :
          /\ k <= Len(pipe)
          /\ buffer' = buffer \o SubSeq(pipe, 1, k)
          /\ pipe' = SubSeq(pipe, k + 1, Len(pipe))
    /\ IF Len(buffer') >= MaxFrameBytes THEN Ends("oversize")
                                       ELSE UNCHANGED <<ended, caller, approvals>>
    /\ UNCHANGED <<server, stdin, eof, delivered, calls>>

\* A read returns what the pipe has, up to a chunk.  The limit is on the whole
\* buffer, the newline that may have come with the chunk notwithstanding.
ReadChunk ==
    /\ ended = None
    /\ Newline(buffer) = {} /\ ~eof
    /\ \E k \in 1 .. ReadChunkBytes :
          /\ k <= Len(pipe)
          /\ buffer' = buffer \o SubSeq(pipe, 1, k)
          /\ pipe' = SubSeq(pipe, k + 1, Len(pipe))
    /\ IF Len(buffer') > MaxFrameBytes THEN Ends("oversize")
                                      ELSE UNCHANGED <<ended, caller, approvals>>
    /\ UNCHANGED <<server, stdin, eof, delivered, calls>>

ReadEof ==
    /\ ended = None
    /\ Newline(buffer) = {} /\ ~eof
    /\ pipe = <<>> /\ exit # None
    /\ eof' = TRUE
    /\ UNCHANGED <<server, stdin, pipe, buffer, delivered, ended, calls, caller, approvals>>

ReadEnd ==
    /\ ended = None
    /\ Newline(buffer) = {} /\ eof
    /\ Ends(IF buffer # <<>> THEN "partial" ELSE IF exit # 0 THEN "exit" ELSE "clean")
    /\ UNCHANGED <<server, stdin, pipe, buffer, eof, delivered, calls>>

CloseConnection ==
    /\ ended = None
    /\ Ends("closed")
    /\ UNCHANGED <<server, stdin, pipe, buffer, eof, delivered, calls>>

\* The handler of approvals comes back.
Approve(p) ==
    /\ p \in approvals
    /\ approvals' = approvals \ {p}
    /\ \E decision \in Decisions :
          LET answer == HandleApproval(p, decision)
          IN  stdin' = IF answer = None THEN stdin ELSE Append(stdin, answer)
    /\ UNCHANGED <<server, pipe, buffer, eof, delivered, ended, calls, caller>>

WireNext ==
    \/ \E c \in Callers : Call(c) \/ Retry(c) \/ RetryFindsItClosed(c)
    \/ Initialized
    \/ ReadFrame \/ ReadChunk \/ ReadEof \/ ReadEnd \/ CloseConnection
    \/ \E p \in approvals : Approve(p)
    \/ ServerNext /\ UNCHANGED client

WireSpec == WireInit /\ [][WireNext]_wireVars

-----------------------------------------------------------------------------
(* Properties *)

AllBytes == FlattenSeq([n \in DOMAIN written |-> Bytes(n, written[n][2])])

\* However the pipe cuts the stream into chunks, frames are the lines the server
\* wrote, each once and in their order, and no byte is lost between the frames, the
\* buffer and the pipe but those that never left a killed process.
FramesAreLines ==
    /\ \A i \in DOMAIN delivered : delivered[i] = i
    /\ FlattenSeq([i \in DOMAIN delivered |-> Bytes(i, written[i][2])]) \o buffer \o pipe
          = SubSeq(AllBytes, 1, Len(AllBytes) - lost)

\* What a connection says of its end is what happened to it: a partial frame is
\* reported only when a line was cut, the exit of the process or a clean end, as its
\* status says, only between frames and after everything that got out was delivered,
\* and the limit on frames only for a line within a chunk of it.
EndIsTruthful ==
    /\ ended = "partial" => lost > 0
    /\ ended \in {"exit", "clean"} =>
          /\ buffer = <<>>
          /\ Len(delivered) = Len(written) - (IF lost > 0 THEN 1 ELSE 0)
          /\ (ended = "clean") = (exit = 0)
    /\ ended = "malformed" => ~IsEnvelope(Payload(Last(delivered)))
    /\ ended = "oversize" =>
          written[Len(delivered) + 1][2] + ReadChunkBytes > MaxFrameBytes

\* The answer to the n-th request, the first of its id that was delivered.
Answers(n) ==
    {i \in DOMAIN delivered : /\ Kind(written[i][1]) \in {"success_response", "error_response"}
                              /\ written[i][1].id = <<"int", n>>}
Answer(n) == written[CHOOSE i \in Answers(n) : \A j \in Answers(n) : i <= j][1]

Mine(c) == {n \in DOMAIN calls : calls[n] = c}
LastOf(c) == CHOOSE n \in Mine(c) : \A m \in Mine(c) : m <= n

\* An overload that does not speak of a spent budget.
TurnedAway(n) ==
    /\ Answers(n) # {} /\ Has(Answer(n), {"error"})
    /\ MapJsonRpcError(Answer(n).error) = "RetryableOverload"

\* A caller is told what the answer to its last request was.
ToldTheResult(c) ==
    /\ Answers(LastOf(c)) # {} /\ Has(Answer(LastOf(c)), {"result"})
    /\ (caller[c] = "ok") = (Answer(LastOf(c)).result # Junk)

ToldTheError(c) ==
    /\ Answers(LastOf(c)) # {} /\ Has(Answer(LastOf(c)), {"error"})
    /\ caller[c] = MapJsonRpcError(Answer(LastOf(c)).error)

\* A request is repeated only after the server answered the one before it with an
\* overload that does not speak of a spent budget, never more often than the policy
\* allows and never after it was refused in any other way.  The caller is told what
\* the answer to its last request was, a result, one its model refuses, or an error
\* of just that type, and not that of another caller or of an earlier attempt.
RetriesAreEarned ==
    \A c \in Callers :
        /\ Cardinality(Mine(c)) <= MaxAttempts
        /\ \A n \in Mine(c) : n # LastOf(c) => TurnedAway(n)
        /\ caller[c] \in {"ok", "ResponseValidation"} => ToldTheResult(c)
        /\ caller[c] \in ErrorTypes =>
              \/ ToldTheError(c) /\ caller[c] # "RetryableOverload"
              \/ /\ caller[c] = "RetryBudgetExceeded"
                 /\ Cardinality(Mine(c)) = MaxAttempts /\ TurnedAway(LastOf(c))
=============================================================================
