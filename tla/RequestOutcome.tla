---------------------------- MODULE RequestOutcome ----------------------------
(***************************************************************************)
(* What JsonRpcConnection.request() promises its callers: every request    *)
(* meets exactly one fate; when the connection stops accepting requests it *)
(* decides the fate of all that are open in the same step; and what a      *)
(* caller is told is the fate of its request, unless the caller gave up or *)
(* could not write.                                                        *)
(***************************************************************************)
CONSTANT Requests

VARIABLES
    accepting,  \* the connection accepts requests
    fate,       \* what became of each request
    report      \* what its caller was told

vars == <<accepting, fate, report>>

Answers == {"result", "error"}
Ends == {"failed", "closed"}

Init ==
    /\ accepting = TRUE
    /\ fate = [r \in Requests |-> "none"]
    /\ report = [r \in Requests |-> "none"]

\* The fate of r is decided now, unless it was before.
Decide(f, r, what) == IF f[r] = "open" THEN [f EXCEPT ![r] = what] ELSE f

EndAll(f, what) == [r \in Requests |-> IF f[r] = "open" THEN what ELSE f[r]]

Tell(r, what) ==
    /\ report[r] = "none"
    /\ fate[r] # "none"
    /\ report' = [report EXCEPT ![r] = what]

Start(r) ==
    /\ accepting
    /\ fate[r] = "none"
    /\ fate' = [fate EXCEPT ![r] = "open"]
    /\ UNCHANGED <<accepting, report>>

Answered(r) ==
    /\ fate[r] = "open"
    /\ \E what \in Answers : fate' = [fate EXCEPT ![r] = what]
    /\ UNCHANGED <<accepting, report>>

Reported(r) ==
    /\ fate[r] # "open"
    /\ Tell(r, fate[r])
    /\ UNCHANGED <<accepting, fate>>

\* Only a request that was still open times out.
TimedOut(r) ==
    /\ fate[r] = "open"
    /\ Tell(r, "timed_out")
    /\ fate' = [fate EXCEPT ![r] = "cancelled"]
    /\ UNCHANGED accepting

\* A cancelled caller is told so, even if an answer had come in.
GivenUp(r) ==
    /\ Tell(r, "cancelled")
    /\ fate' = Decide(fate, r, "cancelled")
    /\ UNCHANGED accepting

\* A failed write ends the connection.
Unwritten(r) ==
    /\ Tell(r, "write_error")
    /\ fate' = EndAll(fate, "failed")
    /\ accepting' = FALSE

Stop ==
    /\ accepting
    /\ accepting' = FALSE
    /\ \E what \in Ends : fate' = EndAll(fate, what)
    /\ UNCHANGED report

Next ==
    \/ \E r \in Requests :
        \/ Start(r) \/ Answered(r) \/ Reported(r)
        \/ TimedOut(r) \/ GivenUp(r) \/ Unwritten(r)
    \/ Stop

Spec == Init /\ [][Next]_vars
=============================================================================
