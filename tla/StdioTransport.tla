----------------------------- MODULE StdioTransport -----------------------------
(***************************************************************************)
(* The life of the app-server process under StdioTransport                 *)
(* (transport/stdio.py): start() launches it and probes for an early exit, *)
(* close() shuts it down by a ladder of ever harder signals, in one task   *)
(* that all its callers share and that outlives a caller's cancellation.   *)
(*                                                                         *)
(* Processes are numbered in the order of their launch.  One start() runs  *)
(* at a time (the _start_lock of the connection); a close task is named    *)
(* after the caller that made it.                                          *)
(*                                                                         *)
(* Only the waits for the process to exit have a deadline.  Closing stdin  *)
(* waits until the server has read what is left in it, and the drain of    *)
(* stderr until its last holder lets go of it: neither the server nor a    *)
(* process it has spawned owes that to anyone.                             *)
(***************************************************************************)
EXTENDS Naturals

CONSTANTS Closers,       \* calls of close()
          NoCloser,
          MaxLaunches,   \* bound: processes launched
          Overlap        \* close() may be called while a process is spawned

ASSUME TransportAssumption ==
    /\ NoCloser \notin Closers
    /\ MaxLaunches \in Nat
    /\ Overlap \in BOOLEAN

VARIABLES
    alive,      \* processes that run
    launched,   \* processes launched so far
    owned,      \* _process, 0 for None
    requested,  \* _close_requested
    launch,     \* where start() is: idle, spawning, probing or cleaning up
    discarded,  \* the process a failed start() is getting rid of, or 0
    stdinOf,      \* of each process: open, unread (data in it that the server does not
                \* read), stuck (closed with such data) or closed
    held,       \* processes that are gone, whose pipes a descendant holds open
    abandoned,  \* history: processes of a start() cancelled while it cleaned up
    closeTask,  \* _close_task: the caller that made it
    work,       \* of each close task: where _close_impl is
    target,     \* the process it closes
    closer,     \* each call of close()
    awaited,    \* the close task it awaits
    due         \* history: the newest process the call has to account for

vars == <<alive, launched, owned, requested, launch, discarded, stdinOf, held,
          abandoned, closeTask, work, target, closer, awaited, due>>

Processes == 1..MaxLaunches
Rungs == {"closing_stdin", "stdin_closed", "terminated", "killed", "draining"}
Works == Rungs \cup {"none", "done", "raised"}
Stdins == {"open", "unread", "stuck", "closed"}
Calls == {"idle", "waiting", "returned", "raised", "cancelled"}

IsRunning == owned \in alive
Finished(t) == work[t] \in {"done", "raised"}

\* stdin.close(), and whether wait_closed() has to wait: what is left in the pipe is
\* flushed when it is read, or dropped with the last holder of the other end.
Shut == [open |-> "closed", unread |-> "stuck", stuck |-> "stuck", closed |-> "closed"]
IsClosing(p) == stdinOf[p] \in {"stuck", "closed"}
StdinWaits(p) == stdinOf[p] = "stuck" /\ p \in alive \cup held

Init ==
    /\ alive = {}
    /\ launched = 0
    /\ owned = 0
    /\ requested = FALSE
    /\ launch = "idle"
    /\ discarded = 0
    /\ stdinOf = [p \in Processes |-> "open"]
    /\ held = {}
    /\ abandoned = {}
    /\ closeTask = NoCloser
    /\ work = [c \in Closers |-> "none"]
    /\ target = [c \in Closers |-> 0]
    /\ closer = [c \in Closers |-> "idle"]
    /\ awaited = [c \in Closers |-> NoCloser]
    /\ due = [c \in Closers |-> 0]

closing == <<closeTask, work, target, closer, awaited, due>>
pipes == <<stdinOf, held>>

-----------------------------------------------------------------------------
(* start() *)

\* It awaits a close that is under way, whose error it raises.  Only a transport
\* with no running process launches another.
Start ==
    /\ launch = "idle"
    /\ launched < MaxLaunches
    /\ closeTask # NoCloser => work[closeTask] = "done"
    /\ ~IsRunning
    /\ launch' = "spawning"
    /\ requested' = FALSE
    /\ UNCHANGED <<alive, launched, owned, discarded, pipes, abandoned, closing>>

\* No such program, no such directory, startup timeout, cancellation.
SpawnFails ==
    /\ launch = "spawning"
    /\ launch' = "idle"
    /\ UNCHANGED <<alive, launched, owned, requested, discarded, pipes, abandoned, closing>>

\* Launching takes the event loop many turns: who was woken before has run.
Spawn ==
    /\ launch = "spawning"
    /\ \A c \in Closers : closer[c] = "waiting" => ~Finished(awaited[c])
    /\ launched' = launched + 1
    /\ alive' = alive \cup {launched'}
    /\ owned' = launched'
    /\ launch' = "probing"
    /\ UNCHANGED <<requested, discarded, pipes, abandoned, closing>>

ProbeSucceeds ==
    /\ launch = "probing"
    /\ launched \in alive
    /\ launch' = "idle"
    /\ UNCHANGED <<alive, launched, owned, requested, discarded, pipes, abandoned, closing>>

\* The process has exited, or start() is cancelled while it waits for that: it lets go
\* of the process, unless a close() already has, and closes its stdin, unless a close()
\* is about to; then the kill follows at once.
ProbeFails ==
    /\ launch = "probing"
    /\ discarded' = owned
    /\ owned' = 0
    /\ requested' = FALSE
    /\ \/ /\ owned = 0
          /\ launch' = "idle"
          /\ UNCHANGED stdinOf
       \/ /\ owned # 0
          /\ launch' = IF IsClosing(owned) THEN "reaping" ELSE "cleaning"
          /\ stdinOf' = [stdinOf EXCEPT ![owned] = Shut[@]]
    /\ UNCHANGED <<alive, launched, held, abandoned, closing>>

\* SIGKILL, once stdin is closed.
KillDiscarded ==
    /\ launch = "cleaning"
    /\ ~StdinWaits(discarded)
    /\ launch' = "reaping"
    /\ UNCHANGED <<alive, launched, owned, requested, discarded, pipes, abandoned, closing>>

\* The process is gone and its stderr at an end.
Discarded ==
    /\ launch = "reaping"
    /\ discarded \notin alive \cup held
    /\ launch' = "idle"
    /\ discarded' = 0
    /\ UNCHANGED <<alive, launched, owned, requested, pipes, abandoned, closing>>

\* start() is cancelled once more, before the kill or while it waits for its effect:
\* nobody owns the process, and nobody waits for it.
CancelCleanup ==
    /\ launch \in {"cleaning", "reaping"}
    /\ launch' = "idle"
    /\ discarded' = 0
    /\ abandoned' = abandoned \cup {discarded}
    /\ UNCHANGED <<alive, launched, owned, requested, pipes, closing>>

-----------------------------------------------------------------------------
(* The server and its pipes *)

\* Its descendants may hold the pipes open.
ProcessExits(p) ==
    /\ p \in alive
    /\ alive' = alive \ {p}
    /\ held' \in {held, held \cup {p}}
    /\ UNCHANGED <<launched, owned, requested, launch, discarded, stdinOf, abandoned, closing>>

DescendantExits(p) ==
    /\ p \in held
    /\ held' = held \ {p}
    /\ UNCHANGED <<alive, launched, owned, requested, launch, discarded, stdinOf, abandoned,
                   closing>>

\* write_stdin_envelope() while the server does not read: its data stays in the pipe.
WriteUnread ==
    /\ launch = "idle" /\ IsRunning /\ ~requested
    /\ stdinOf[owned] = "open"
    /\ stdinOf' = [stdinOf EXCEPT ![owned] = "unread"]
    /\ UNCHANGED <<alive, launched, owned, requested, launch, discarded, held, abandoned,
                   closing>>

ServerReads(p) ==
    /\ p \in alive
    /\ \/ stdinOf[p] = "unread" /\ stdinOf' = [stdinOf EXCEPT ![p] = "open"]
       \/ stdinOf[p] = "stuck" /\ stdinOf' = [stdinOf EXCEPT ![p] = "closed"]
    /\ UNCHANGED <<alive, launched, owned, requested, launch, discarded, held, abandoned,
                   closing>>

-----------------------------------------------------------------------------
(* close() *)

\* The close task that c makes for the owned process: it closes stdin, unless that is
\* closing already, and waits for it.
ClimbFor(c) ==
    /\ closeTask' = c
    /\ requested' = TRUE
    /\ work' = [work EXCEPT ![c] =
                   IF IsClosing(owned) THEN "stdin_closed" ELSE "closing_stdin"]
    /\ stdinOf' = [stdinOf EXCEPT ![owned] = Shut[@]]
    /\ target' = [target EXCEPT ![c] = owned]
    /\ closer' = [closer EXCEPT ![c] = "waiting"]
    /\ awaited' = [awaited EXCEPT ![c] = c]

NothingToClose(c) ==
    /\ closer' = [closer EXCEPT ![c] = "returned"]
    /\ UNCHANGED <<closeTask, requested, work, stdinOf, target, awaited>>

\* Mutant of Close: every call makes a close task of its own.
CloseAlone(c) ==
    /\ closer[c] = "idle"
    /\ launch = "spawning" => Overlap
    /\ due' = [due EXCEPT ![c] = IF launch = "spawning" THEN launched + 1 ELSE launched]
    /\ IF owned = 0 THEN NothingToClose(c) ELSE ClimbFor(c)
    /\ UNCHANGED <<alive, launched, owned, launch, discarded, held, abandoned>>

Close(c) ==
    /\ closer[c] = "idle"
    /\ launch = "spawning" => Overlap
    /\ due' = [due EXCEPT ![c] = IF launch = "spawning" THEN launched + 1 ELSE launched]
    /\ \/ closeTask = NoCloser /\ owned = 0 /\ NothingToClose(c)
       \/ closeTask = NoCloser /\ owned # 0 /\ ClimbFor(c)
       \/ /\ closeTask # NoCloser
          /\ closer' = [closer EXCEPT ![c] = "waiting"]
          /\ awaited' = [awaited EXCEPT ![c] = closeTask]
          /\ UNCHANGED <<closeTask, requested, work, stdinOf, target>>
    /\ UNCHANGED <<alive, launched, owned, launch, discarded, held, abandoned>>

\* The finally clause: a finished task is forgotten by whoever awaited it.
Leave(c, how) ==
    /\ closer' = [closer EXCEPT ![c] = how]
    /\ closeTask' = IF closeTask = awaited[c] /\ Finished(awaited[c])
                    THEN NoCloser ELSE closeTask
    /\ UNCHANGED <<alive, launched, owned, requested, launch, discarded, pipes, abandoned,
                   work, target, awaited, due>>

\* Mutant of Return: the error of the shared task is swallowed.
ReturnQuietly(c) ==
    /\ closer[c] = "waiting"
    /\ Finished(awaited[c])
    /\ Leave(c, "returned")

Return(c) ==
    /\ closer[c] = "waiting"
    /\ Finished(awaited[c])
    /\ Leave(c, IF work[awaited[c]] = "done" THEN "returned" ELSE "raised")

\* A cancelled caller leaves the shielded task running, and in _close_task.
CancelClose(c) ==
    /\ closer[c] = "waiting"
    /\ Leave(c, "cancelled")

-----------------------------------------------------------------------------
(* _close_impl *)

outside == <<alive, launched, requested, launch, discarded, pipes, abandoned, closeTask,
             target, closer, awaited, due>>

\* wait_closed() returns.
StdinClosed(t) ==
    /\ work[t] = "closing_stdin"
    /\ ~StdinWaits(target[t])
    /\ work' = [work EXCEPT ![t] = "stdin_closed"]
    /\ UNCHANGED <<owned, outside>>

\* A rung of the ladder timed out with the process alive: SIGTERM, then SIGKILL.
Escalate(t) ==
    /\ target[t] \in alive
    /\ \/ /\ work[t] = "stdin_closed"
          /\ work' = [work EXCEPT ![t] = "terminated"]
       \/ /\ work[t] = "terminated"
          /\ work' = [work EXCEPT ![t] = "killed"]
    /\ UNCHANGED <<owned, outside>>

\* Mutants of GiveUp: a process that survives is forgotten; the last wait has no
\* timeout.
GiveUpAndForget(t) ==
    /\ work[t] = "killed"
    /\ target[t] \in alive
    /\ work' = [work EXCEPT ![t] = "raised"]
    /\ owned' = IF owned = target[t] THEN 0 ELSE owned
    /\ UNCHANGED outside

GiveUpNever(t) ==
    /\ work[t] = "killed"
    /\ target[t] \notin alive
    /\ work' = [work EXCEPT ![t] = "draining"]
    /\ UNCHANGED <<owned, outside>>

\* ShutdownTimeoutError: the transport keeps the process.
GiveUp(t) ==
    /\ work[t] = "killed"
    /\ target[t] \in alive
    /\ work' = [work EXCEPT ![t] = "raised"]
    /\ UNCHANGED <<owned, outside>>

Reap(t) ==
    /\ work[t] \in {"stdin_closed", "terminated", "killed"}
    /\ target[t] \notin alive
    /\ work' = [work EXCEPT ![t] = "draining"]
    /\ UNCHANGED <<owned, outside>>

\* The task that reads stderr has ended, or raised an error of its own (a line beyond
\* the limit of the reader), which close() raises; the process is forgotten either way.
Drain(t) ==
    /\ work[t] = "draining"
    /\ target[t] \notin held
    /\ \E end \in {"done", "raised"} : work' = [work EXCEPT ![t] = end]
    /\ owned' = IF owned = target[t] THEN 0 ELSE owned
    /\ UNCHANGED outside

Next ==
    \/ Start \/ SpawnFails \/ Spawn \/ ProbeSucceeds \/ ProbeFails
    \/ KillDiscarded \/ Discarded \/ CancelCleanup \/ WriteUnread
    \/ \E p \in Processes : ProcessExits(p) \/ DescendantExits(p) \/ ServerReads(p)
    \/ \E c \in Closers :
        \/ Close(c) \/ Return(c) \/ CancelClose(c)
        \/ StdinClosed(c) \/ Escalate(c) \/ GiveUp(c) \/ Reap(c) \/ Drain(c)

Spec == Init /\ [][Next]_vars

\* Timers fire and tasks run; nothing is asked of the process, of its descendants or
\* of who reads its stdin.
Fairness ==
    \A c \in Closers :
        /\ WF_vars(StdinClosed(c) \/ Escalate(c) \/ GiveUp(c) \/ Reap(c) \/ Drain(c))
        /\ WF_vars(Return(c))

FairSpec == Spec /\ Fairness

-----------------------------------------------------------------------------
TypeOK ==
    /\ alive \subseteq Processes
    /\ launched \in 0..MaxLaunches
    /\ owned \in 0..MaxLaunches
    /\ requested \in BOOLEAN
    /\ launch \in {"idle", "spawning", "probing", "cleaning", "reaping"}
    /\ discarded \in 0..MaxLaunches
    /\ stdinOf \in [Processes -> Stdins]
    /\ held \subseteq Processes
    /\ abandoned \subseteq Processes
    /\ closeTask \in Closers \cup {NoCloser}
    /\ work \in [Closers -> Works]
    /\ target \in [Closers -> 0..MaxLaunches]
    /\ closer \in [Closers -> Calls]
    /\ awaited \in [Closers -> Closers \cup {NoCloser}]
    /\ due \in [Closers -> 0..MaxLaunches]

\* close() terminates the subprocess and waits for its cleanup: when it returns
\* without an error, no process that was started or being started when it was
\* called is left, but for one that a failed start() is killing itself, or was when
\* it was cancelled again; unless another caller was cancelled, whose finished task
\* stands for the next close.
ClosedMeansGone ==
    (\A d \in Closers : closer[d] # "cancelled") =>
        \A c \in Closers : closer[c] = "returned" =>
            \A p \in alive : p <= due[c] => p \in {discarded} \cup abandoned

\* A running process is lost in one way only: start() is cancelled while it cleans up
\* after a probe that failed.  Every other one the transport owns, or a failed start()
\* is killing it.
NoLostProcess == alive \subseteq {owned, discarded} \cup abandoned

\* One ladder at a time, however many callers close() has.
ClosesOnce ==
    \A s, t \in Closers : work[s] \in Rungs /\ work[t] \in Rungs => s = t

\* The waits of a close task that no timeout bounds: for the server to read the rest of
\* its stdin, and for the last holder of its stderr.
Blocked(t) ==
    \/ work[t] = "closing_stdin" /\ StdinWaits(target[t])
    \/ work[t] = "draining" /\ target[t] \in held

\* close() comes back, even if the process ignores every signal; what can keep it for
\* ever is an open stdin that nobody reads, or an open stderr, and nothing else.
CloseEnds ==
    \A c \in Closers :
        \/ []<>(closer[c] # "waiting")
        \/ <>[](closer[c] = "waiting" /\ Blocked(awaited[c]))
=============================================================================
