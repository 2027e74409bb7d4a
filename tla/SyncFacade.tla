------------------------------ MODULE SyncFacade ------------------------------
(***************************************************************************)
(* SyncCodexSDKClient (sync_client.py): threads that call, read the events *)
(* of a turn and close, and the private thread whose event loop runs the   *)
(* async client for them.  A job is a coroutine handed to the loop: posted *)
(* (call_soon_threadsafe), created (a task that has not run yet), running, *)
(* and then done, cancelled, or lost with a loop that was closed under it. *)
(* What the job does inside the async client is SdkSession's subject.      *)
(***************************************************************************)
EXTENDS Integers, Sequences, FiniteSets

CONSTANTS Threads, NoJob,
          Handlers,    \* what the approval handler may do: "answers", "calls"
          MaxJobs      \* bound: jobs handed to the loop

ASSUME FacadeAssumption ==
    /\ MaxJobs \in Nat /\ NoJob \notin Nat
    /\ Handlers \subseteq {"answers", "calls"} /\ Handlers # {}

VARIABLES
    handler,   \* what it does
    closed,    \* SyncCodexSDKClient._closed
    stopped,   \* _AsyncLoopThreadRunner._stopped
    loop,      \* running, stopping, draining, closed
    blocked,   \* the loop's thread waits for its own loop
    ready,     \* the callbacks of the loop, first come first served
    jobs,      \* of each job, its kind, who waits for it, and its state
    thread     \* of each thread: where it is, and the job it waits for

vars == <<handler, closed, stopped, loop, blocked, ready, jobs, thread>>

\* A callback that posts the n-th job is n, the first step of its task -n.
Stop == 0
FirstStep(n) == -n

Init ==
    /\ handler \in Handlers
    /\ closed = FALSE /\ stopped = FALSE
    /\ loop = "running" /\ blocked = FALSE
    /\ ready = <<>> /\ jobs = <<>>
    /\ thread = [t \in Threads |-> [at |-> "idle", job |-> NoJob]]

At(t, where, job) == thread' = [thread EXCEPT ![t] = [at |-> where, job |-> job]]

-----------------------------------------------------------------------------
(* The threads of the application *)

\* The jobs handed over, or about to be.
Handed == Len(jobs) + Cardinality({t \in Threads : thread[t].at \in {"call", "iterate", "close"}})

\* run() and submit(): the runner is found open; the job is posted later.
Begin(t, kind) ==
    /\ thread[t].at = "idle" /\ Handed < MaxJobs
    /\ ~stopped
    /\ At(t, kind, NoJob)
    /\ UNCHANGED <<handler, closed, stopped, loop, blocked, ready, jobs>>

\* The job is posted, unless the loop was closed since; then the call raises, and
\* a close goes on to stop the runner.  Late: a close had begun.
Post(t) ==
    /\ thread[t].at \in {"call", "iterate", "close"}
    /\ IF loop = "closed"
       THEN /\ At(t, IF thread[t].at = "close" THEN "stop" ELSE "idle", NoJob)
            /\ UNCHANGED <<ready, jobs>>
       ELSE /\ jobs' = Append(jobs, [kind |-> thread[t].at, by |-> t, state |-> "posted",
                                     told |-> FALSE, late |-> closed])
            /\ ready' = Append(ready, Len(jobs'))
            /\ At(t, "waiting", Len(jobs'))
    /\ UNCHANGED <<handler, closed, stopped, loop, blocked>>

\* future.result(), or the end of the events in the queue of the iterator.
Return(t) ==
    /\ thread[t].at = "waiting"
    /\ LET job == jobs[thread[t].job]
       IN  /\ job.told
           /\ At(t, IF job.kind = "close" THEN "stop" ELSE "idle", NoJob)
    /\ UNCHANGED <<handler, closed, stopped, loop, blocked, ready, jobs>>

\* The reader gives its iterator up: the pump is cancelled and not waited for.
Abandon(t) ==
    /\ thread[t].at = "waiting"
    /\ LET n == thread[t].job
       IN  /\ jobs[n].kind = "iterate"
           /\ jobs' = [jobs EXCEPT ![n].state = IF @ \in {"created", "running"}
                                                THEN "cancelled" ELSE @]
    /\ At(t, "idle", NoJob)
    /\ UNCHANGED <<handler, closed, stopped, loop, blocked, ready>>

\* close(): only the first goes on.  Under the GIL the check of the flag and its
\* setting are one step.
BeginClose(t) ==
    /\ thread[t].at = "idle" /\ Handed < MaxJobs
    /\ ~closed
    /\ closed' = TRUE
    /\ At(t, IF stopped THEN "stop" ELSE "close", NoJob)
    /\ UNCHANGED <<handler, stopped, loop, blocked, ready, jobs>>

\* Mutant: stop() sets its flag and joins, and nobody tells the loop.
StopRunnerSilently(t) ==
    /\ thread[t].at = "stop"
    /\ stopped' = TRUE
    /\ At(t, IF stopped THEN "idle" ELSE "joining", NoJob)
    /\ UNCHANGED <<handler, closed, loop, blocked, ready, jobs>>

\* stop(): the loop is told, and its thread joined.
StopRunner(t) ==
    /\ thread[t].at = "stop"
    /\ stopped' = TRUE
    /\ ready' = IF stopped THEN ready ELSE Append(ready, Stop)
    /\ At(t, IF stopped THEN "idle" ELSE "joining", NoJob)
    /\ UNCHANGED <<handler, closed, loop, blocked, jobs>>

Joined(t) ==
    /\ thread[t].at = "joining"
    /\ loop = "closed"
    /\ At(t, "idle", NoJob)
    /\ UNCHANGED <<handler, closed, stopped, loop, blocked, ready, jobs>>

-----------------------------------------------------------------------------
(* The thread of the loop *)

\* The loop goes on with the job of number n, which ends in a state.  Its caller is
\* told, but the reader of an iterator only by the pump itself, once that has run.
Ended(n, state) ==
    jobs' = [jobs EXCEPT ![n].state = state,
                         ![n].told = @ \/ jobs[n].kind # "iterate" \/ jobs[n].state = "running"]

\* The next callback makes a task of a job, takes the first step of a task that was
\* not cancelled before it, or stops the loop, which ends its current round.
RunCallback ==
    /\ loop # "closed" /\ ~blocked
    /\ ready # <<>>
    /\ LET n == Head(ready)
       IN  \/ /\ n = Stop
              /\ loop' = "stopping"
              /\ ready' = Tail(ready)
              /\ UNCHANGED jobs
           \/ /\ n > 0
              /\ ready' = Append(Tail(ready), FirstStep(n))
              /\ jobs' = [jobs EXCEPT ![n].state = "created"]
              /\ UNCHANGED loop
           \/ /\ n < 0
              /\ ready' = Tail(ready)
              /\ jobs' = [jobs EXCEPT ![-n].state = IF @ = "created" THEN "running" ELSE @]
              /\ UNCHANGED loop
    /\ UNCHANGED <<handler, closed, stopped, blocked, thread>>

Finish(n) ==
    /\ loop \in {"running", "draining"} /\ ~blocked
    /\ jobs[n].state = "running"
    /\ Ended(n, "done")
    /\ UNCHANGED <<handler, closed, stopped, loop, blocked, ready, thread>>

\* The server asks for an approval while a turn runs.  The handler is a plain
\* function called on the loop's thread: one that calls the client waits there for
\* a job that only this thread could run.
AskHandler(n) ==
    /\ loop = "running" /\ ~blocked
    /\ jobs[n].state = "running" /\ jobs[n].kind # "close"
    /\ handler = "calls" /\ ~stopped
    /\ blocked' = TRUE
    /\ UNCHANGED <<handler, closed, stopped, loop, ready, jobs, thread>>

\* Mutant: the tasks that are left are not cancelled.
BeginDrainOnly ==
    /\ loop = "stopping"
    /\ loop' = "draining"
    /\ UNCHANGED <<handler, closed, stopped, blocked, ready, jobs, thread>>

\* run_forever() returns, and every task there is is cancelled.
BeginDrain ==
    /\ loop = "stopping"
    /\ loop' = "draining"
    /\ jobs' = [n \in DOMAIN jobs |->
                  CASE jobs[n].state = "created" ->
                          [jobs[n] EXCEPT !.state = "cancelled", !.told = jobs[n].kind # "iterate"]
                    [] jobs[n].state = "running" ->
                          [jobs[n] EXCEPT !.state = "cancelled", !.told = TRUE]
                    [] OTHER -> jobs[n]]
    /\ UNCHANGED <<handler, closed, stopped, blocked, ready, thread>>

\* What was posted since, and perhaps begun, goes with the loop.
CloseLoop ==
    /\ loop = "draining"
    /\ loop' = "closed"
    /\ jobs' = [n \in DOMAIN jobs |->
                  IF jobs[n].state \in {"posted", "created", "running"}
                  THEN [jobs[n] EXCEPT !.state = "lost"] ELSE jobs[n]]
    /\ UNCHANGED <<handler, closed, stopped, blocked, ready, thread>>

LoopNext ==
    \/ RunCallback
    \/ \E n \in DOMAIN jobs : Finish(n) \/ AskHandler(n)
    \/ BeginDrain \/ CloseLoop

Next ==
    \/ \E t \in Threads :
          \/ \E kind \in {"call", "iterate"} : Begin(t, kind)
          \/ Post(t) \/ Return(t) \/ Abandon(t) \/ BeginClose(t) \/ StopRunner(t) \/ Joined(t)
    \/ LoopNext

Spec == Init /\ [][Next]_vars

\* The threads and the loop go on.  That a server answers is not assumed, nor that a
\* reader stays, nor that the async close() ends: it may wait for ever for a server
\* that does not read its stdin (CloseEnds of StdioTransport).
FairSpec ==
    /\ Spec
    /\ WF_vars(RunCallback) /\ WF_vars(BeginDrain) /\ WF_vars(CloseLoop)
    /\ \A t \in Threads :
          WF_vars(Post(t) \/ Return(t) \/ StopRunner(t) \/ Joined(t))

-----------------------------------------------------------------------------
(* Properties *)

\* The async close() that a thread has handed over.
ClosingRuns == \E n \in DOMAIN jobs : jobs[n].kind = "close" /\ jobs[n].state = "running"

\* close() leaves nobody waiting who was there before it, once the async close() has
\* ended: it returns itself, and every call and every reader whose job had been handed
\* over when it began returns too, answered or not, by what the loop's thread does with
\* its tasks before it ends.  Unless the approval handler called the client: then
\* nothing returns.
CloseReleases ==
    \/ \A t \in Threads :
          (closed /\ thread[t].at # "idle") ~>
              \/ thread[t].at = "idle"
              \/ blocked
              \/ \E n \in DOMAIN jobs : jobs[n].by = t /\ jobs[n].late /\ jobs[n].kind # "close"
    \/ <>[]ClosingRuns

\* A job that nobody is told about, its task lost with the loop or cancelled before
\* the pump could run, was handed over after a close() had begun.
OnlyLateJobsAreLost ==
    \A n \in DOMAIN jobs :
        jobs[n].state \in {"lost", "cancelled"} /\ ~jobs[n].told /\ thread[jobs[n].by].job = n =>
            jobs[n].late /\ jobs[n].kind # "close"
=============================================================================
