---------------------------- MODULE TransportProofs ----------------------------
(***************************************************************************)
(* Proofs about the two halves of the transport.                           *)
(*                                                                         *)
(* The process (StdioTransport), for every number of callers of close()    *)
(* and of launches: no running process is lost but by a start() that is    *)
(* cancelled in its own clean-up, one shutdown ladder runs at a time, and, *)
(* as long as close() is not called while a process is spawned, what       *)
(* close() returns from is gone.                                           *)
(*                                                                         *)
(* The stream (WireConversation), for every script of the server, chunk    *)
(* size, limit on frames, set of callers and number of attempts: frames    *)
(* are the lines that were written, the end is told as it was, and a       *)
(* caller is told the answer to its own last request.  What is said of a   *)
(* stream of any length is shown by induction on the number of its lines.  *)
(***************************************************************************)
EXTENDS StdioTransport, WireConversation, SequenceTheorems, FiniteSetTheorems,
        WellFoundedInduction, TLAPS

-----------------------------------------------------------------------------
(* The process: the inductive invariant *)

\* start() owns at most what it launches: a process is spawned only when none runs,
\* and discarded only by the clean-up of the start() that launched it.
Launching ==
    /\ launch = "spawning" => owned \notin alive /\ launched < MaxLaunches
    /\ launch \notin {"cleaning", "reaping"} => discarded = 0
    /\ launch \in {"cleaning", "reaping"} => discarded # 0

\* The one close task that climbs is the one that callers join.
Climbing ==
    /\ \A t \in Closers : work[t] \in Rungs => closeTask = t
    /\ closeTask # NoCloser => work[closeTask] # "none"
    /\ \A c \in Closers : closer[c] = "idle" => work[c] = "none"

\* The process of a task that drains its stderr is gone for good: no process is
\* launched under its number again.
Drained ==
    /\ owned <= launched
    /\ \A t \in Closers : target[t] <= launched
    /\ \A t \in Closers : work[t] = "draining" => target[t] \notin alive

IInv == TypeOK /\ NoLostProcess /\ Launching /\ Climbing /\ Drained

-----------------------------------------------------------------------------
(* What close() has to account for, when it does not overlap a spawn *)

\* A failed start() has the process in hand, or had when it was cancelled again.
Excused == {discarded} \cup abandoned

NoneCancelled == \A d \in Closers : closer[d] # "cancelled"

\* Of what was launched when c called, only this is left.
OnlyLeft(c, left) == \A p \in alive : p <= due[c] => p \in left

\* A caller answers for nothing that is launched later; while it waits the task it
\* awaits has a process to bring down, or has done so.
AccountFor(c) ==
    /\ due[c] <= launched
    /\ closer[c] = "returned" => OnlyLeft(c, Excused)
    /\ closer[c] = "waiting" =>
          /\ awaited[c] \in Closers /\ work[awaited[c]] # "none"
          /\ work[awaited[c]] \in Rungs => OnlyLeft(c, {target[awaited[c]]} \cup Excused)
          /\ work[awaited[c]] = "done" => OnlyLeft(c, Excused)

Accounts == \A c \in Closers : AccountFor(c)

\* The task that a caller would join now.
Joinable ==
    closeTask # NoCloser =>
        /\ \E c \in Closers : closer[c] = "waiting" /\ awaited[c] = closeTask
        /\ work[closeTask] \in Rungs => alive \subseteq {target[closeTask]} \cup Excused
        /\ work[closeTask] = "done" => alive \subseteq Excused
        /\ launch = "spawning" => work[closeTask] = "done"

GoneInv == NoneCancelled => Accounts /\ Joinable

-----------------------------------------------------------------------------
(* Processes and ladders *)

LEMMA InitIInv == TransportAssumption /\ Init => IInv
<1> SUFFICES ASSUME TransportAssumption, Init
             PROVE  IInv
  OBVIOUS
<1>1. 0 \in 0..MaxLaunches
  BY DEF TransportAssumption
<1>2. TypeOK
  BY <1>1 DEF Init, TypeOK, Works, Calls, Stdins
<1>3. NoLostProcess /\ Launching /\ Climbing /\ Drained
  BY DEF Init, NoLostProcess, Launching, Climbing, Drained, Rungs
<1>4. QED
  BY <1>2, <1>3 DEF IInv

\* What start() does, and the server, leaves the callers of close() alone.
StartStep ==
    \/ Start \/ SpawnFails \/ ProbeSucceeds \/ ProbeFails
    \/ KillDiscarded \/ Discarded \/ CancelCleanup \/ WriteUnread
    \/ \E p \in Processes : ProcessExits(p) \/ DescendantExits(p) \/ ServerReads(p)

LEMMA ShutIsStdin == \A s \in Stdins : Shut[s] \in Stdins
BY DEF Shut, Stdins

LEMMA StartDrained ==
    ASSUME TransportAssumption, TypeOK, Drained, UNCHANGED closing,
           \/ /\ launched' = launched /\ alive' \subseteq alive
              /\ owned' \in {owned, 0}
           \/ /\ launched' = launched + 1 /\ alive' = alive \cup {launched + 1}
              /\ owned' = launched + 1
    PROVE  Drained'
<1>1. launched \in Nat /\ owned \in Nat /\ \A t \in Closers : target[t] \in Nat
  BY TransportAssumption DEF TypeOK, TransportAssumption
<1>2. /\ owned' <= launched'
      /\ \A t \in Closers : target'[t] <= launched'
  BY <1>1 DEF Drained, closing
<1>3. \A t \in Closers : work[t] = "draining" => target[t] \notin alive'
  BY <1>1 DEF Drained
<1>4. QED
  BY <1>2, <1>3 DEF Drained, closing

LEMMA StartSteps ==
    ASSUME TransportAssumption, IInv, StartStep \/ Spawn
    PROVE  IInv'
<1>1. UNCHANGED closing
  BY DEF StartStep, Start, SpawnFails, Spawn, ProbeSucceeds, ProbeFails, KillDiscarded,
         Discarded, CancelCleanup, WriteUnread, ProcessExits, DescendantExits, ServerReads
<1>2. Climbing' /\ Drained'
  <2>1. TypeOK /\ Climbing /\ Drained
    BY DEF IInv
  <2>2. \/ /\ launched' = launched /\ alive' \subseteq alive
           /\ owned' \in {owned, 0}
        \/ /\ launched' = launched + 1 /\ alive' = alive \cup {launched + 1}
           /\ owned' = launched + 1
    BY DEF StartStep, Start, SpawnFails, Spawn, ProbeSucceeds, ProbeFails, KillDiscarded,
           Discarded, CancelCleanup, WriteUnread, ProcessExits, DescendantExits, ServerReads
  <2>3. QED
    BY <1>1, <2>1, <2>2, StartDrained DEF Climbing, closing
<1>3. TypeOK /\ NoLostProcess /\ Launching
  BY DEF IInv
<1>4. CASE Start
  BY <1>1, <1>2, <1>3, <1>4
     DEF Start, IInv, TypeOK, NoLostProcess, Launching, IsRunning, closing, pipes
<1>5. CASE SpawnFails
  BY <1>1, <1>2, <1>3, <1>5
     DEF SpawnFails, IInv, TypeOK, NoLostProcess, Launching, closing, pipes
<1>6. CASE Spawn
  <2>1. /\ launched' = launched + 1 /\ owned' = launched + 1 /\ alive' = alive \cup {launched + 1}
        /\ launch' = "probing" /\ discarded' = 0 /\ requested' = requested
        /\ UNCHANGED <<pipes, abandoned>>
    BY <1>3, <1>6 DEF Spawn, Launching
  <2>2. alive \subseteq abandoned /\ launched + 1 \in Processes
    BY <1>3, <1>6, TransportAssumption
       DEF Spawn, Launching, NoLostProcess, TypeOK, Processes, TransportAssumption
  <2>3. TypeOK'
    BY <1>1, <1>3, <2>1, <2>2 DEF TypeOK, Processes, closing, pipes
  <2>4. QED
    BY <1>2, <2>1, <2>2, <2>3 DEF IInv, NoLostProcess, Launching
<1>7. CASE ProbeSucceeds
  BY <1>1, <1>2, <1>3, <1>7
     DEF ProbeSucceeds, IInv, TypeOK, NoLostProcess, Launching, closing, pipes
<1>8. CASE ProbeFails
  <2>1. /\ discarded' = owned /\ owned' = 0 /\ requested' = FALSE
        /\ UNCHANGED <<alive, launched, held, abandoned>>
    BY <1>8 DEF ProbeFails
  <2>2. stdinOf' \in [Processes -> Stdins]
    <3>1. CASE UNCHANGED stdinOf
      BY <1>3, <3>1 DEF TypeOK
    <3>2. CASE owned # 0 /\ stdinOf' = [stdinOf EXCEPT ![owned] = Shut[@]]
      BY <1>3, <3>2, ShutIsStdin, TransportAssumption
         DEF TypeOK, Processes, TransportAssumption
    <3>3. QED
      BY <1>8, <3>1, <3>2 DEF ProbeFails
  <2>3. /\ launch' \in {"idle", "cleaning", "reaping"}
        /\ launch' = "idle" <=> owned = 0
    BY <1>8 DEF ProbeFails
  <2>4. TypeOK'
    <3>1. /\ owned' \in 0..MaxLaunches /\ discarded' \in 0..MaxLaunches
          /\ launch' \in {"idle", "spawning", "probing", "cleaning", "reaping"}
      BY <1>3, <2>1, <2>3, TransportAssumption DEF TypeOK, TransportAssumption
    <3>2. requested' \in BOOLEAN
      BY <2>1
    <3>3. QED
      BY <1>1, <1>3, <2>1, <2>2, <3>1, <3>2 DEF TypeOK, closing
  <2>5. NoLostProcess'
    <3>1. discarded = 0 /\ 0 \notin alive
      BY <1>3, <1>8 DEF ProbeFails, Launching, TypeOK, Processes
    <3>2. QED
      BY <1>3, <2>1, <3>1 DEF NoLostProcess
  <2>6. QED
    BY <1>2, <2>1, <2>3, <2>4, <2>5 DEF IInv, Launching
<1>9. CASE KillDiscarded
  BY <1>1, <1>2, <1>3, <1>9
     DEF KillDiscarded, IInv, TypeOK, NoLostProcess, Launching, closing, pipes
<1>10. CASE Discarded
  BY <1>1, <1>2, <1>3, <1>10, TransportAssumption
     DEF Discarded, IInv, TypeOK, NoLostProcess, Launching, closing, pipes,
         TransportAssumption
<1>11. CASE CancelCleanup
  <2>1. /\ launch' = "idle" /\ discarded' = 0 /\ abandoned' = abandoned \cup {discarded}
        /\ UNCHANGED <<alive, launched, owned, requested, pipes>>
    BY <1>11 DEF CancelCleanup
  <2>2. discarded \in Processes
    BY <1>3, <1>11, TransportAssumption
       DEF CancelCleanup, TypeOK, Launching, Processes, TransportAssumption
  <2>3. TypeOK'
    BY <1>1, <1>3, <2>1, <2>2, TransportAssumption
       DEF TypeOK, closing, pipes, TransportAssumption
  <2>4. QED
    BY <1>2, <1>3, <2>1, <2>3 DEF IInv, NoLostProcess, Launching
<1>12. CASE \E p \in Processes : ProcessExits(p)
  BY <1>1, <1>2, <1>3, <1>12 DEF ProcessExits, IInv, TypeOK, NoLostProcess, Launching, closing
<1>13. CASE \E p \in Processes : DescendantExits(p)
  BY <1>1, <1>2, <1>3, <1>13
     DEF DescendantExits, IInv, TypeOK, NoLostProcess, Launching, closing
<1>14. CASE WriteUnread \/ \E p \in Processes : ServerReads(p)
  <2>1. UNCHANGED <<alive, launched, owned, requested, launch, discarded, held, abandoned>>
    BY <1>14 DEF WriteUnread, ServerReads
  <2>2. stdinOf' \in [Processes -> Stdins]
    BY <1>3, <1>14 DEF WriteUnread, ServerReads, TypeOK, Stdins
  <2>3. QED
    BY <1>1, <1>2, <1>3, <2>1, <2>2 DEF IInv, TypeOK, NoLostProcess, Launching, closing
<1>15. QED
  BY <1>4, <1>5, <1>6, <1>7, <1>8, <1>9, <1>10, <1>11, <1>12, <1>13, <1>14 DEF StartStep

\* The three cases of a call, as they change the state of the callers.
FindsNothing(c) ==
    /\ closeTask = NoCloser /\ owned = 0
    /\ closer' = [closer EXCEPT ![c] = "returned"]
    /\ UNCHANGED <<closeTask, requested, work, stdinOf, target, awaited>>

Climbs(c) ==
    /\ closeTask = NoCloser /\ owned \in Processes
    /\ closeTask' = c /\ requested' = TRUE
    /\ work' = [work EXCEPT ![c] = work'[c]]
    /\ work'[c] \in {"closing_stdin", "stdin_closed"}
    /\ stdinOf' = [stdinOf EXCEPT ![owned] = Shut[@]]
    /\ target' = [target EXCEPT ![c] = owned]
    /\ closer' = [closer EXCEPT ![c] = "waiting"]
    /\ awaited' = [awaited EXCEPT ![c] = c]

Joins(c) ==
    /\ closeTask \in Closers
    /\ closer' = [closer EXCEPT ![c] = "waiting"]
    /\ awaited' = [awaited EXCEPT ![c] = closeTask]
    /\ UNCHANGED <<closeTask, requested, work, stdinOf, target>>

LEMMA CloseCases ==
    ASSUME TransportAssumption, TypeOK, NEW c \in Closers, Close(c)
    PROVE  FindsNothing(c) \/ Climbs(c) \/ Joins(c)
<1>1. CASE closeTask = NoCloser /\ owned = 0 /\ NothingToClose(c)
  BY <1>1 DEF NothingToClose, FindsNothing
<1>2. CASE closeTask = NoCloser /\ owned # 0 /\ ClimbFor(c)
  <2>1. owned \in Processes
    BY <1>2, TransportAssumption DEF TypeOK, Processes, TransportAssumption
  <2>2. /\ work' = [work EXCEPT ![c] = work'[c]]
        /\ work'[c] \in {"closing_stdin", "stdin_closed"}
    BY <1>2 DEF ClimbFor, TypeOK
  <2>3. QED
    BY <1>2, <2>1, <2>2 DEF ClimbFor, Climbs
<1>3. CASE /\ closeTask # NoCloser
           /\ closer' = [closer EXCEPT ![c] = "waiting"]
           /\ awaited' = [awaited EXCEPT ![c] = closeTask]
           /\ UNCHANGED <<closeTask, requested, work, stdinOf, target>>
  BY <1>3 DEF Joins, TypeOK
<1>4. QED
  BY <1>1, <1>2, <1>3 DEF Close

LEMMA CloseStep ==
    ASSUME TransportAssumption, IInv, NEW c \in Closers, Close(c)
    PROVE  IInv'
<1>1. TypeOK /\ NoLostProcess /\ Launching /\ Climbing /\ Drained
  BY DEF IInv
<1>2. /\ UNCHANGED <<alive, launched, owned, launch, discarded, held, abandoned>>
      /\ closer[c] = "idle"
      /\ FindsNothing(c) \/ Climbs(c) \/ Joins(c)
  BY <1>1, CloseCases DEF Close
<1>3. due' \in [Closers -> 0..MaxLaunches]
  BY <1>1, TransportAssumption DEF Close, TypeOK, Launching, TransportAssumption
<1>4. TypeOK'
  <2>1. /\ closeTask' \in Closers \cup {NoCloser} /\ requested' \in BOOLEAN
        /\ closer' \in [Closers -> Calls]
    BY <1>1, <1>2 DEF TypeOK, Calls, FindsNothing, Climbs, Joins
  <2>2. /\ target' \in [Closers -> 0..MaxLaunches]
        /\ awaited' \in [Closers -> Closers \cup {NoCloser}]
    BY <1>1, <1>2 DEF TypeOK, FindsNothing, Climbs, Joins
  <2>3. stdinOf' \in [Processes -> Stdins]
    BY <1>1, <1>2, ShutIsStdin DEF TypeOK, FindsNothing, Climbs, Joins
  <2>4. work' \in [Closers -> Works]
    <3>1. CASE UNCHANGED work
      BY <1>1, <3>1 DEF TypeOK
    <3>2. CASE Climbs(c)
      BY <1>1, <3>2 DEF TypeOK, Climbs, Works, Rungs
    <3>3. QED
      BY <1>2, <3>1, <3>2 DEF FindsNothing, Joins
  <2>5. QED
    BY <1>1, <1>2, <1>3, <2>1, <2>2, <2>3, <2>4 DEF TypeOK
<1>5. NoLostProcess' /\ Launching'
  BY <1>1, <1>2 DEF NoLostProcess, Launching
<1>6. Climbing'
  BY <1>1, <1>2, TransportAssumption
     DEF Climbing, TypeOK, TransportAssumption, Rungs, FindsNothing, Climbs, Joins
<1>7. Drained'
  <2>1. \A t \in Closers : target'[t] \in {target[t], owned}
    BY <1>1, <1>2 DEF TypeOK, FindsNothing, Climbs, Joins
  <2>2. \A t \in Closers : work'[t] = "draining" => work[t] = "draining" /\ target'[t] = target[t]
    BY <1>1, <1>2 DEF TypeOK, FindsNothing, Climbs, Joins
  <2>3. QED
    BY <1>1, <1>2, <2>1, <2>2 DEF Drained
<1>8. QED
  BY <1>4, <1>5, <1>6, <1>7 DEF IInv

LEMMA LeaveStep ==
    ASSUME TransportAssumption, IInv, NEW c \in Closers, Return(c) \/ CancelClose(c)
    PROVE  IInv'
<1>1. TypeOK /\ NoLostProcess /\ Launching /\ Climbing /\ Drained
  BY DEF IInv
<1>2. /\ UNCHANGED <<alive, launched, owned, requested, launch, discarded, pipes, abandoned,
                     work, target, awaited, due>>
      /\ closeTask' \in {closeTask, NoCloser}
      /\ closeTask' # closeTask => closeTask = awaited[c] /\ Finished(awaited[c])
  BY DEF Return, CancelClose, Leave
<1>3. closer' = [closer EXCEPT ![c] = closer'[c]]
      /\ closer'[c] \in {"returned", "raised", "cancelled"}
  BY <1>1 DEF Return, CancelClose, Leave, TypeOK
<1>4. TypeOK'
  BY <1>1, <1>2, <1>3 DEF TypeOK, Calls, pipes
<1>5. NoLostProcess' /\ Launching'
  BY <1>1, <1>2 DEF NoLostProcess, Launching
<1>6. Climbing'
  BY <1>1, <1>2, <1>3 DEF Climbing, Finished, Rungs, TypeOK
<1>7. Drained'
  BY <1>1, <1>2 DEF Drained
<1>8. QED
  BY <1>4, <1>5, <1>6, <1>7 DEF IInv

LadderStep(t) == StdinClosed(t) \/ Escalate(t) \/ GiveUp(t) \/ Reap(t) \/ Drain(t)

LEMMA LadderSteps ==
    ASSUME TransportAssumption, IInv, NEW t \in Closers, LadderStep(t)
    PROVE  /\ IInv'
           /\ UNCHANGED outside /\ work[t] \in Rungs
           /\ work' = [work EXCEPT ![t] = work'[t]] /\ work'[t] # "none"
           /\ work'[t] = "done" => target[t] \notin alive
<1>1. TypeOK /\ NoLostProcess /\ Launching /\ Climbing /\ Drained
  BY DEF IInv
<1>2. /\ UNCHANGED outside /\ work[t] \in Rungs
      /\ work' = [work EXCEPT ![t] = work'[t]] /\ work'[t] \in Works \ {"none"}
      /\ owned' = owned \/ (owned' = 0 /\ owned \notin alive)
      /\ work'[t] \in {"draining", "done"} => target[t] \notin alive
  <2>1. CASE StdinClosed(t)
    BY <1>1, <2>1 DEF StdinClosed, Rungs, Works, TypeOK, outside
  <2>2. CASE Escalate(t)
    BY <1>1, <2>2 DEF Escalate, Rungs, Works, TypeOK, outside
  <2>3. CASE GiveUp(t)
    BY <1>1, <2>3 DEF GiveUp, Rungs, Works, TypeOK, outside
  <2>4. CASE Reap(t)
    BY <1>1, <2>4 DEF Reap, Rungs, Works, TypeOK, outside
  <2>5. CASE Drain(t)
    <3>1. target[t] \notin alive
      BY <1>1, <2>5 DEF Drain, Drained
    <3>2. QED
      BY <1>1, <2>5, <3>1 DEF Drain, Rungs, Works, TypeOK, outside
  <2>6. QED
    BY <2>1, <2>2, <2>3, <2>4, <2>5 DEF LadderStep
<1>3. TypeOK'
  BY <1>1, <1>2, TransportAssumption DEF TypeOK, outside, pipes, TransportAssumption
<1>4. NoLostProcess' /\ Launching'
  BY <1>1, <1>2, TransportAssumption
     DEF NoLostProcess, Launching, TypeOK, Processes, outside, pipes, TransportAssumption
<1>5. Climbing'
  BY <1>1, <1>2 DEF Climbing, TypeOK, Rungs, Works, outside
<1>6. Drained'
  <2>1. owned' <= launched' /\ UNCHANGED <<launched, alive, target>>
    BY <1>1, <1>2, TransportAssumption DEF Drained, TypeOK, outside, TransportAssumption
  <2>2. QED
    BY <1>1, <1>2, <2>1 DEF Drained, TypeOK
<1>7. QED
  BY <1>2, <1>3, <1>4, <1>5, <1>6 DEF IInv

LEMMA StepIInv == TransportAssumption /\ IInv /\ [Next]_vars => IInv'
<1> SUFFICES ASSUME TransportAssumption, IInv, [Next]_vars
             PROVE  IInv'
  OBVIOUS
<1>1. CASE UNCHANGED vars
  BY <1>1 DEF IInv, TypeOK, NoLostProcess, Launching, Climbing, Drained, vars
<1>2. QED
  BY <1>1, StartSteps, CloseStep, LeaveStep, LadderSteps DEF Next, StartStep, LadderStep

LEMMA IInvAlways == Spec => []IInv
BY TransportAssumption, InitIInv, StepIInv, PTL DEF Spec

-----------------------------------------------------------------------------
(* Callers *)

LEMMA InitGone == TransportAssumption /\ Init => GoneInv
BY DEF TransportAssumption, Init, GoneInv, Accounts, AccountFor, Joinable, OnlyLeft

\* No more processes, the same callers: what was accounted for stays so.
LEMMA FewerProcesses ==
    ASSUME TransportAssumption, IInv, GoneInv,
           alive' \subseteq alive, launched' = launched, UNCHANGED closing,
           alive' \cap Excused \subseteq Excused',
           launch' = "spawning" =>
              launch = "spawning" \/ closeTask = NoCloser \/ work[closeTask] = "done"
    PROVE  GoneInv'
<1> SUFFICES ASSUME NoneCancelled'
             PROVE  Accounts' /\ Joinable'
  BY DEF GoneInv
<1>1. Accounts /\ Joinable
  BY DEF NoneCancelled, GoneInv, closing
<1>2. \A q : \A c \in Closers : OnlyLeft(c, {q} \cup Excused) => OnlyLeft(c, {q} \cup Excused)'
  BY DEF OnlyLeft, closing
<1>3. \A c \in Closers : OnlyLeft(c, Excused) => OnlyLeft(c, Excused)'
  BY DEF OnlyLeft, closing
<1>4. Accounts'
  BY <1>1, <1>2, <1>3 DEF Accounts, AccountFor, closing
<1>5. Joinable'
  BY <1>1 DEF Joinable, closing
<1>6. QED
  BY <1>4, <1>5

\* Whoever waits for a finished task has been woken by now, so nobody can join it.
LEMMA SpawnGone ==
    ASSUME TransportAssumption, IInv, GoneInv, Spawn
    PROVE  GoneInv'
<1> SUFFICES ASSUME NoneCancelled'
             PROVE  Accounts' /\ Joinable'
  BY DEF GoneInv
<1>1. Accounts /\ Joinable /\ UNCHANGED closing
  BY DEF NoneCancelled, GoneInv, closing, Spawn
<1>2. launched' = launched + 1 /\ alive' = alive \cup {launched + 1} /\ Excused' = Excused
  BY DEF Spawn, Excused
<1>3. closeTask = NoCloser
  <2>1. ASSUME closeTask # NoCloser
        PROVE  FALSE
    <3>1. work[closeTask] = "done"
      BY <1>1, <2>1 DEF Joinable, Spawn
    <3>2. PICK c \in Closers : closer[c] = "waiting" /\ awaited[c] = closeTask
      BY <1>1, <2>1 DEF Joinable
    <3>3. QED
      BY <3>1, <3>2 DEF Spawn, Finished
  <2>2. QED
    BY <2>1
<1>4. \A c \in Closers : due[c] \in Nat /\ launched \in Nat /\ ~(launched + 1 <= due[c])
  <2>1. launched \in Nat /\ \A c \in Closers : due[c] \in Nat
    BY TransportAssumption DEF IInv, TypeOK, TransportAssumption
  <2>2. \A c \in Closers : due[c] <= launched
    BY <1>1 DEF Accounts, AccountFor
  <2>3. QED
    BY <2>1, <2>2
<1>5. \A q : \A c \in Closers : OnlyLeft(c, {q} \cup Excused) => OnlyLeft(c, {q} \cup Excused)'
  BY <1>1, <1>2, <1>4 DEF OnlyLeft, closing
<1>6. \A c \in Closers : OnlyLeft(c, Excused) => OnlyLeft(c, Excused)'
  BY <1>1, <1>2, <1>4 DEF OnlyLeft, closing
<1>7. \A c \in Closers : due'[c] <= launched'
  BY <1>1, <1>2, <1>4 DEF Accounts, AccountFor, closing
<1>8. Accounts'
  BY <1>1, <1>5, <1>6, <1>7 DEF Accounts, AccountFor, closing
<1>9. Joinable'
  BY <1>1, <1>3 DEF Joinable, closing
<1>10. QED
  BY <1>8, <1>9

LEMMA StartStepsGone ==
    ASSUME TransportAssumption, IInv, GoneInv, StartStep
    PROVE  GoneInv'
<1>1. UNCHANGED closing /\ launched' = launched /\ alive' \subseteq alive
  BY DEF StartStep, Start, SpawnFails, ProbeSucceeds, ProbeFails, KillDiscarded, Discarded,
         CancelCleanup, WriteUnread, ProcessExits, DescendantExits, ServerReads
<1>2. launch' = "spawning" =>
         launch = "spawning" \/ closeTask = NoCloser \/ work[closeTask] = "done"
  BY DEF StartStep, Start, SpawnFails, ProbeSucceeds, ProbeFails, KillDiscarded, Discarded,
         CancelCleanup, WriteUnread, ProcessExits, DescendantExits, ServerReads
<1>3. alive' \cap Excused \subseteq Excused'
  <2>1. 0 \notin alive
    BY DEF IInv, TypeOK, Processes
  <2>2. CASE ProbeFails
    BY <2>1, <2>2 DEF ProbeFails, IInv, Launching, Excused
  <2>3. CASE Discarded
    BY <2>3 DEF Discarded, Excused
  <2>4. CASE CancelCleanup
    BY <2>4 DEF CancelCleanup, Excused
  <2>5. CASE ~(ProbeFails \/ Discarded \/ CancelCleanup)
    BY <2>5 DEF StartStep, Start, SpawnFails, ProbeSucceeds, KillDiscarded, WriteUnread,
                ProcessExits, DescendantExits, ServerReads, Excused
  <2>6. QED
    BY <2>2, <2>3, <2>4, <2>5
<1>4. QED
  BY <1>1, <1>2, <1>3, FewerProcesses

\* A call finds nothing to do, starts a ladder for the process that is owned, or joins
\* the one that climbs.
LEMMA CloseGone ==
    ASSUME TransportAssumption, Overlap = FALSE, IInv, GoneInv, NEW c \in Closers, Close(c)
    PROVE  GoneInv'
<1> SUFFICES ASSUME NoneCancelled'
             PROVE  Accounts' /\ Joinable'
  BY DEF GoneInv
<1>1. TypeOK /\ NoLostProcess /\ Climbing
  BY DEF IInv
<1>0. FindsNothing(c) \/ Climbs(c) \/ Joins(c)
  BY <1>1, CloseCases
<1>2. /\ closer[c] = "idle" /\ launch # "spawning"
      /\ due' = [due EXCEPT ![c] = launched]
      /\ UNCHANGED <<alive, launched, owned, launch, discarded, abandoned, Excused>>
  BY DEF Close, Excused
<1>3. /\ closer' = [closer EXCEPT ![c] = closer'[c]]
      /\ awaited' = [awaited EXCEPT ![c] = awaited'[c]]
      /\ work' = [work EXCEPT ![c] = work'[c]] /\ target' = [target EXCEPT ![c] = target'[c]]
      /\ closer'[c] \in {"returned", "waiting"}
  BY <1>0, <1>1 DEF TypeOK, FindsNothing, Climbs, Joins
<1>4. NoneCancelled /\ Accounts /\ Joinable
  BY <1>1, <1>2, <1>3 DEF NoneCancelled, GoneInv, TypeOK
<1>5. work[c] = "none" /\ closeTask # c
  BY <1>1, <1>2 DEF Climbing, TypeOK
\* The others keep their accounts: the task they await is not c.
<1>6. ASSUME NEW d \in Closers, d # c
      PROVE  AccountFor(d)'
  <2>1. AccountFor(d) /\ UNCHANGED <<closer[d], awaited[d], due[d], launched, Excused>>
    BY <1>1, <1>2, <1>3, <1>4, <1>6 DEF TypeOK, Accounts
  <2>2. \A S : OnlyLeft(d, S) <=> \A p \in alive' : p <= due'[d] => p \in S
    BY <1>2, <2>1 DEF OnlyLeft
  <2>3. closer[d] = "waiting" => UNCHANGED <<work[awaited[d]], target[awaited[d]]>>
    BY <1>1, <1>3, <1>5, <2>1 DEF TypeOK, AccountFor
  <2>4. QED
    BY <2>1, <2>2, <2>3 DEF AccountFor, OnlyLeft
<1>7. due'[c] = launched' /\ launched' <= launched'
  BY <1>1, <1>2, TransportAssumption DEF TypeOK, TransportAssumption
<1>8. 0 \notin alive
  BY <1>1 DEF TypeOK, Processes
<1>9. CASE closeTask = NoCloser /\ owned = 0 /\ closer'[c] = "returned" /\ closeTask' = closeTask
  <2>1. alive' \subseteq Excused'
    BY <1>1, <1>2, <1>8, <1>9 DEF NoLostProcess, Excused
  <2>2. AccountFor(c)'
    BY <1>7, <1>9, <2>1 DEF AccountFor, OnlyLeft
  <2>3. QED
    BY <1>6, <1>9, <2>2 DEF Accounts, Joinable
<1>10. CASE /\ closeTask' = c /\ work'[c] \in {"closing_stdin", "stdin_closed"} /\ target'[c] = owned
            /\ closer'[c] = "waiting" /\ awaited'[c] = c
  <2>1. alive' \subseteq {target'[c]} \cup Excused'
    BY <1>1, <1>2, <1>10 DEF NoLostProcess, Excused
  <2>2. AccountFor(c)'
    BY <1>7, <1>10, <2>1 DEF AccountFor, OnlyLeft
  <2>3. QED
    BY <1>2, <1>6, <1>10, <2>1, <2>2 DEF Accounts, Joinable
<1>11. CASE /\ closeTask # NoCloser /\ closer'[c] = "waiting" /\ awaited'[c] = closeTask
            /\ UNCHANGED <<closeTask, work, target>>
  <2>1. closeTask \in Closers /\ work[closeTask] # "none"
    BY <1>1, <1>11 DEF TypeOK, Climbing
  <2>2. /\ work'[closeTask] \in Rungs => alive' \subseteq {target'[closeTask]} \cup Excused'
        /\ work'[closeTask] = "done" => alive' \subseteq Excused'
    BY <1>2, <1>4, <1>11 DEF Joinable
  <2>3. AccountFor(c)'
    BY <1>7, <1>11, <2>1, <2>2 DEF AccountFor, OnlyLeft
  <2>4. QED
    BY <1>2, <1>6, <1>11, <2>2, <2>3 DEF Accounts, Joinable
<1>12. \/ closeTask = NoCloser /\ owned = 0 /\ closer'[c] = "returned" /\ closeTask' = closeTask
       \/ /\ closeTask' = c /\ work'[c] \in {"closing_stdin", "stdin_closed"} /\ target'[c] = owned
          /\ closer'[c] = "waiting" /\ awaited'[c] = c
       \/ /\ closeTask # NoCloser /\ closer'[c] = "waiting" /\ awaited'[c] = closeTask
          /\ UNCHANGED <<closeTask, work, target>>
  BY <1>0, <1>1, TransportAssumption
     DEF TypeOK, TransportAssumption, FindsNothing, Climbs, Joins
<1>13. QED
  BY <1>9, <1>10, <1>11, <1>12

\* Nobody is cancelled, so the first caller that returns from a finished task forgets
\* it; a task that can be joined still has a caller that waits for it.
LEMMA LeaveGone ==
    ASSUME TransportAssumption, IInv, GoneInv, NEW c \in Closers, Return(c) \/ CancelClose(c)
    PROVE  GoneInv'
<1> SUFFICES ASSUME NoneCancelled'
             PROVE  Accounts' /\ Joinable'
  BY DEF GoneInv
<1>1. TypeOK
  BY DEF IInv
<1>2. closer[c] = "waiting" /\ Finished(awaited[c])
      /\ closer'[c] \in {"returned", "raised"}
      /\ (closer'[c] = "returned" => work[awaited[c]] = "done")
  BY <1>1 DEF Return, CancelClose, Leave, NoneCancelled, TypeOK
<1>3. /\ UNCHANGED <<alive, launched, launch, Excused, work, target, awaited, due>>
      /\ closer' = [closer EXCEPT ![c] = closer'[c]]
      /\ closeTask' = IF closeTask = awaited[c] THEN NoCloser ELSE closeTask
  BY <1>1, <1>2 DEF Return, CancelClose, Leave, TypeOK, Excused, pipes
<1>4. NoneCancelled /\ Accounts /\ Joinable
  BY <1>1, <1>2, <1>3 DEF NoneCancelled, GoneInv, TypeOK
<1>5. ASSUME NEW d \in Closers
      PROVE  AccountFor(d)'
  <2>1. AccountFor(d) /\ AccountFor(c)
    BY <1>4 DEF Accounts
  <2>2. \A S : OnlyLeft(d, S) <=> \A p \in alive' : p <= due'[d] => p \in S
    BY <1>3 DEF OnlyLeft
  <2>3. CASE d = c
    BY <1>2, <1>3, <2>1, <2>2, <2>3 DEF AccountFor, OnlyLeft
  <2>4. CASE d # c
    <3>1. closer'[d] = closer[d]
      BY <1>1, <1>3, <2>4 DEF TypeOK
    <3>2. QED
      BY <1>3, <2>1, <2>2, <3>1 DEF AccountFor, OnlyLeft
  <2>5. QED
    BY <2>3, <2>4
<1>6. Joinable'
  <2>1. SUFFICES ASSUME closeTask' # NoCloser
                 PROVE  Joinable'
    BY DEF Joinable
  <2>2. closeTask' = closeTask /\ closeTask # awaited[c]
    BY <1>3, <2>1
  <2>3. PICK d \in Closers : closer[d] = "waiting" /\ awaited[d] = closeTask
    BY <1>4, <2>1, <2>2 DEF Joinable
  <2>4. closer'[d] = "waiting" /\ awaited'[d] = closeTask'
    BY <1>1, <1>3, <2>2, <2>3 DEF TypeOK
  <2>5. QED
    BY <1>3, <1>4, <2>1, <2>2, <2>4 DEF Joinable
<1>7. QED
  BY <1>5, <1>6 DEF Accounts

\* The ladder ends in "done" only once its process is gone.
LEMMA LadderGone ==
    ASSUME TransportAssumption, IInv, GoneInv,
           NEW t \in Closers, LadderStep(t)
    PROVE  GoneInv'
<1> SUFFICES ASSUME NoneCancelled'
             PROVE  Accounts' /\ Joinable'
  BY DEF GoneInv
<1>1. TypeOK /\ Climbing
  BY DEF IInv
<1>2. /\ UNCHANGED <<outside, Excused>> /\ work[t] \in Rungs
      /\ work' = [work EXCEPT ![t] = work'[t]] /\ work'[t] # "none"
      /\ work'[t] = "done" => target[t] \notin alive
  BY LadderSteps DEF outside, Excused
<1>3. NoneCancelled /\ Accounts /\ Joinable /\ closeTask = t
  BY <1>1, <1>2 DEF NoneCancelled, GoneInv, Climbing, outside
<1>4. work'[t] # "none" /\ \A s \in Closers : s # t => work'[s] = work[s]
  BY <1>1, <1>2 DEF TypeOK
<1>5. ASSUME NEW d \in Closers
      PROVE  AccountFor(d)'
  <2>1. AccountFor(d) /\ UNCHANGED <<outside, Excused>>
    BY <1>2, <1>3 DEF Accounts
  <2>2. \A S : OnlyLeft(d, S) <=> \A p \in alive' : p <= due'[d] => p \in S
    BY <2>1 DEF OnlyLeft, outside
  <2>3. closer[d] = "waiting" => awaited[d] \in Closers
    BY <2>1 DEF AccountFor
  <2>4. CASE closer[d] = "waiting" /\ awaited[d] = t
    BY <1>2, <2>1, <2>2, <2>4 DEF AccountFor, OnlyLeft, outside
  <2>5. CASE closer[d] = "waiting" /\ awaited[d] # t
    <3>1. work'[awaited[d]] = work[awaited[d]]
      BY <1>4, <2>3, <2>5
    <3>2. QED
      BY <2>1, <2>2, <2>5, <3>1 DEF AccountFor, OnlyLeft, outside
  <2>6. CASE closer[d] # "waiting"
    BY <2>1, <2>2, <2>6 DEF AccountFor, OnlyLeft, outside
  <2>7. QED
    BY <2>4, <2>5, <2>6
<1>6. Joinable'
  BY <1>1, <1>2, <1>3, TransportAssumption
     DEF Joinable, Rungs, outside, TransportAssumption
<1>7. QED
  BY <1>5, <1>6 DEF Accounts

LEMMA StepGone ==
    TransportAssumption /\ Overlap = FALSE /\ IInv /\ GoneInv /\ [Next]_vars => GoneInv'
<1> SUFFICES ASSUME TransportAssumption, Overlap = FALSE, IInv, GoneInv, [Next]_vars
             PROVE  GoneInv'
  OBVIOUS
<1>1. CASE UNCHANGED vars
  BY <1>1 DEF GoneInv, NoneCancelled, Accounts, AccountFor, OnlyLeft, Joinable, Finished,
              Excused, vars
<1>2. CASE \E c \in Closers : Close(c)
  BY <1>2, CloseGone
<1>3. QED
  BY <1>1, <1>2, StartStepsGone, SpawnGone, LeaveGone, LadderGone
     DEF Next, StartStep, LadderStep

-----------------------------------------------------------------------------
(* The theorems *)

\* Every variable keeps its type.
THEOREM TypeCorrect == Spec => []TypeOK
BY IInvAlways, PTL DEF IInv

\* A running process is owned by the transport, or a failed start() is killing it; it is
\* lost in one way only, a start() that is cancelled in that clean-up.
THEOREM NoProcessIsLost == Spec => []NoLostProcess
BY IInvAlways, PTL DEF IInv

\* However many callers close() has, one ladder of signals runs at a time.
THEOREM OneLadder == Spec => []ClosesOnce
<1>1. IInv => ClosesOnce
  BY DEF IInv, Climbing, ClosesOnce
<1>2. QED
  BY <1>1, IInvAlways, PTL

\* Where close() is never called while a process is spawned, and no caller of it is
\* cancelled, a call that returns has accounted for every process launched before it.
THEOREM ClosedIsGone ==
    ASSUME Overlap = FALSE
    PROVE  Spec => []ClosedMeansGone
<1>1. IInv /\ GoneInv => ClosedMeansGone
  BY DEF GoneInv, Accounts, AccountFor, OnlyLeft, ClosedMeansGone, NoneCancelled, Excused
<1>2. Init => IInv /\ GoneInv
  BY TransportAssumption, InitIInv, InitGone
<1>3. IInv /\ GoneInv /\ [Next]_vars => (IInv /\ GoneInv)'
  BY TransportAssumption, StepIInv, StepGone
<1>4. QED
  BY <1>1, <1>2, <1>3, PTL DEF Spec

-----------------------------------------------------------------------------
(* The stream: induction, and what FlattenSeq makes of a sequence of sequences *)

\* The order of the naturals is well-founded.
LEMMA NatOrder == \E R : IsWellFoundedOn(R, Nat) /\ \A i, j \in Nat : i < j => <<i, j>> \in R
<1>1. IsWellFoundedOn(OpToRel(<, Nat), Nat)
  BY NatLessThanWellFounded
<1>2. \A i, j \in Nat : i < j => <<i, j>> \in OpToRel(<, Nat)
  BY DEF OpToRel
<1>3. QED
  BY <1>1, <1>2

\* A set that holds 0, and with a number the next one, has them all.
LEMMA SetInduction ==
    ASSUME NEW S, 0 \in S, \A n \in Nat : n \in S => n + 1 \in S
    PROVE  Nat \subseteq S
<1> DEFINE T == Nat \ S
<1>1. SUFFICES ASSUME T # {} PROVE FALSE
  OBVIOUS
<1>2. PICK R : IsWellFoundedOn(R, Nat) /\ \A i, j \in Nat : i < j => <<i, j>> \in R
  BY NatOrder
<1>3. IsWellFoundedOn(R, Nat)
  BY <1>2
<1>4. T \subseteq Nat
  OBVIOUS
<1>5. \E x \in T : \A y \in T : ~ (<<y, x>> \in R)
  <2> HIDE DEF T
  <2>1. QED
    BY <1>1, <1>3, <1>4, WFMin
<1>6. PICK x \in T : \A y \in T : ~ (<<y, x>> \in R)
  BY <1>5
<1>7. x - 1 \in Nat /\ x - 1 < x /\ x = (x - 1) + 1
  OBVIOUS
<1>8. x - 1 \in T
  BY <1>7
<1>9. QED
  BY <1>2, <1>6, <1>7, <1>8

\* Numbers have a least one among them.
LEMMA LeastOf ==
    ASSUME NEW T \in SUBSET Nat, T # {}
    PROVE  \E x \in T : \A y \in T : x <= y
<1>1. PICK R : IsWellFoundedOn(R, Nat) /\ \A i, j \in Nat : i < j => <<i, j>> \in R
  BY NatOrder
<1>2. IsWellFoundedOn(R, Nat)
  BY <1>1
<1>3. \E x \in T : \A y \in T : ~ (<<y, x>> \in R)
  BY <1>2, WFMin
<1>4. PICK x \in T : \A y \in T : ~ (<<y, x>> \in R)
  BY <1>3
<1>5. ASSUME NEW y \in T PROVE x <= y
  <2>1. x \in Nat /\ y \in Nat
    OBVIOUS
  <2>2. ~ (y < x)
    BY <1>1, <1>4, <2>1
  <2>3. QED
    BY <2>1, <2>2
<1>6. QED
  BY <1>5

\* The concatenations of the beginnings of ss, up to its n-th member.
IsFlattening(g, ss, n) ==
    g = [i \in 1..n |-> IF i = 1 THEN ss[1] ELSE g[i - 1] \o ss[i]]

LEMMA FlatteningExists ==
    ASSUME NEW B, NEW ss \in Seq(Seq(B))
    PROVE  \E g : IsFlattening(g, ss, Len(ss)) /\ \A i \in 1..Len(ss) : g[i] \in Seq(B)
<1> DEFINE S == {n \in Nat : n <= Len(ss) =>
                    \E g : IsFlattening(g, ss, n) /\ \A i \in 1..n : g[i] \in Seq(B)}
<1>1. 0 \in S
  <2>1. IsFlattening([i \in 1..0 |-> <<>>], ss, 0)
    BY DEF IsFlattening
  <2>2. QED
    BY <2>1
<1>2. ASSUME NEW n \in Nat, n \in S PROVE n + 1 \in S
  <2>1. SUFFICES ASSUME n + 1 <= Len(ss)
                 PROVE  \E g : IsFlattening(g, ss, n + 1) /\ \A i \in 1..n + 1 : g[i] \in Seq(B)
    OBVIOUS
  <2>2. PICK g : IsFlattening(g, ss, n) /\ \A i \in 1..n : g[i] \in Seq(B)
    BY <1>2, <2>1
  <2> DEFINE h == [i \in 1..n + 1 |-> IF i <= n THEN g[i]
                                     ELSE IF n = 0 THEN ss[1] ELSE g[n] \o ss[n + 1]]
  <2>3. \A i \in 1..n : g[i] = IF i = 1 THEN ss[1] ELSE g[i - 1] \o ss[i]
    BY <2>2 DEF IsFlattening
  <2>4. \A i \in 1..n + 1 : h[i] = IF i = 1 THEN ss[1] ELSE h[i - 1] \o ss[i]
    BY <2>3
  <2>5. IsFlattening(h, ss, n + 1)
    BY <2>4 DEF IsFlattening
  <2>6. ss[n + 1] \in Seq(B) /\ ss[1] \in Seq(B)
    BY <2>1
  <2>7. \A i \in 1..n + 1 : h[i] \in Seq(B)
    BY <2>2, <2>6
  <2>8. QED
    BY <2>5, <2>7
<1>3. Nat \subseteq S
  <2> HIDE DEF S
  <2>1. QED
    BY <1>1, <1>2, SetInduction
<1>4. QED
  BY <1>3

LEMMA FlatteningUnique ==
    ASSUME NEW ss, NEW n \in Nat, NEW m \in Nat, n <= m, NEW g, NEW h,
           IsFlattening(g, ss, n), IsFlattening(h, ss, m)
    PROVE  \A i \in 1..n : g[i] = h[i]
<1> DEFINE S == {i \in Nat : i \in 1..n => g[i] = h[i]}
<1>1. 0 \in S
  OBVIOUS
<1>2. ASSUME NEW i \in Nat, i \in S PROVE i + 1 \in S
  <2>1. CASE i + 1 \notin 1..n
    BY <2>1
  <2>2. CASE i = 0 /\ 1 \in 1..n
    BY <2>2 DEF IsFlattening
  <2>3. CASE i # 0 /\ i + 1 \in 1..n
    <3>1. /\ \A j \in 1..n : g[j] = IF j = 1 THEN ss[1] ELSE g[j - 1] \o ss[j]
          /\ \A j \in 1..m : h[j] = IF j = 1 THEN ss[1] ELSE h[j - 1] \o ss[j]
      BY DEF IsFlattening
    <3>2. i \in 1..n /\ i + 1 # 1 /\ (i + 1) - 1 = i /\ i + 1 \in 1..m
      BY <2>3
    <3>3. g[i + 1] = g[i] \o ss[i + 1] /\ h[i + 1] = h[i] \o ss[i + 1]
      <4> HIDE DEF S
      <4>1. QED
        BY <2>3, <3>1, <3>2
    <3>4. g[i] = h[i]
      BY <1>2, <3>2
    <3>5. g[i + 1] = h[i + 1]
      BY <3>3, <3>4
    <3>6. QED
      BY <3>5
  <2>4. QED
    BY <2>1, <2>2, <2>3
<1>3. Nat \subseteq S
  <2> HIDE DEF S
  <2>1. QED
    BY <1>1, <1>2, SetInduction
<1>4. QED
  BY <1>3

LEMMA FlattenIs ==
    ASSUME NEW B, NEW ss \in Seq(Seq(B)), Len(ss) # 0, NEW g, IsFlattening(g, ss, Len(ss))
    PROVE  FlattenSeq(ss) = g[Len(ss)]
<1> DEFINE f == CHOOSE f : f = [i \in 1..Len(ss) |-> IF i = 1 THEN ss[i] ELSE f[i - 1] \o ss[i]]
<1>1. FlattenSeq(ss) = f[Len(ss)]
  BY DEF FlattenSeq
<1>2. g = [i \in 1..Len(ss) |-> IF i = 1 THEN ss[i] ELSE g[i - 1] \o ss[i]]
  BY DEF IsFlattening
<1>3. f = [i \in 1..Len(ss) |-> IF i = 1 THEN ss[i] ELSE f[i - 1] \o ss[i]]
  BY <1>2
<1>4. IsFlattening(f, ss, Len(ss))
  <2> HIDE DEF f
  <2>1. QED
    BY <1>3 DEF IsFlattening
<1>5. Len(ss) \in Nat /\ Len(ss) \in 1..Len(ss)
  OBVIOUS
<1>6. QED
  <2> HIDE DEF f
  <2>1. QED
    BY <1>1, <1>4, <1>5, FlatteningUnique

LEMMA FlattenType ==
    ASSUME NEW B, NEW ss \in Seq(Seq(B))
    PROVE  FlattenSeq(ss) \in Seq(B)
<1>1. CASE Len(ss) = 0
  BY <1>1 DEF FlattenSeq
<1>2. CASE Len(ss) # 0
  BY <1>2, FlatteningExists, FlattenIs
<1>3. QED
  BY <1>1, <1>2

LEMMA FlattenAppend ==
    ASSUME NEW B, NEW ss \in Seq(Seq(B)), NEW s \in Seq(B)
    PROVE  FlattenSeq(Append(ss, s)) = FlattenSeq(ss) \o s
<1> DEFINE tt == Append(ss, s)
           n == Len(ss)
<1>1. n \in Nat /\ tt \in Seq(Seq(B)) /\ Len(tt) = n + 1 /\ tt[n + 1] = s
      /\ \A i \in 1..n : tt[i] = ss[i]
  OBVIOUS
<1>2. PICK g : IsFlattening(g, tt, n + 1) /\ \A i \in 1..n + 1 : g[i] \in Seq(B)
  BY <1>1, FlatteningExists
<1>3. FlattenSeq(tt) = g[n + 1]
  <2> HIDE DEF tt, n
  <2>1. Len(tt) # 0 /\ IsFlattening(g, tt, Len(tt))
    BY <1>1, <1>2
  <2>2. QED
    BY <1>1, <2>1, FlattenIs
<1>4. CASE n = 0
  <2>1. g[1] = s
    BY <1>1, <1>2, <1>4 DEF IsFlattening
  <2>2. FlattenSeq(ss) = <<>>
    BY <1>4 DEF FlattenSeq
  <2>3. QED
    BY <1>3, <1>4, <2>1, <2>2
<1>5. CASE n # 0
  <2>1. g[n + 1] = g[n] \o s
    <3> HIDE DEF tt, n
    <3>1. \A i \in 1..n + 1 : g[i] = IF i = 1 THEN tt[1] ELSE g[i - 1] \o tt[i]
      BY <1>2 DEF IsFlattening
    <3>2. n + 1 \in 1..n + 1 /\ n + 1 # 1 /\ (n + 1) - 1 = n
      BY <1>1, <1>5
    <3>3. QED
      BY <1>1, <3>1, <3>2
  <2>2. PICK h : IsFlattening(h, ss, n)
    BY FlatteningExists
  <2>3. FlattenSeq(ss) = h[n]
    BY <1>5, <2>2, FlattenIs
  <2>4. IsFlattening(h, tt, n)
    <3> HIDE DEF tt
    <3>1. h = [i \in 1..n |-> IF i = 1 THEN ss[1] ELSE h[i - 1] \o ss[i]]
      BY <2>2 DEF IsFlattening
    <3>2. h = [i \in 1..n |-> IF i = 1 THEN tt[1] ELSE h[i - 1] \o tt[i]]
      BY <1>1, <1>5, <3>1
    <3>3. QED
      BY <3>2 DEF IsFlattening
  <2>5. h[n] = g[n]
    <3> HIDE DEF tt
    <3>1. \A i \in 1..n : h[i] = g[i]
      BY <1>1, <1>2, <2>4, FlatteningUnique
    <3>2. QED
      BY <1>1, <1>5, <3>1
  <2>6. QED
    BY <1>3, <2>1, <2>3, <2>5
<1>6. QED
  BY <1>4, <1>5
-----------------------------------------------------------------------------
(* What the server wrote, as bytes *)

Byte == Nat \X Nat

\* The bytes of the first k lines.
Lines(lines, k) == FlattenSeq([n \in 1..k |-> Bytes(n, lines[n][2])])

HaveLengths(lines, k) == \A n \in 1..k : lines[n][2] \in Nat

\* Two stretches of the stream, one after the other.
LEMMA Joining ==
    ASSUME NEW a \in Seq(Byte), NEW b \in Seq(Byte)
    PROVE  /\ a \o b \in Seq(Byte) /\ Len(a) \in Nat /\ Len(b) \in Nat
           /\ Len(a \o b) = Len(a) + Len(b)
           /\ \A m \in 1..Len(a) : (a \o b)[m] = a[m]
           /\ \A m \in 1..Len(b) : (a \o b)[Len(a) + m] = b[m]
BY ConcatProperties

LEMMA Regroup ==
    ASSUME NEW a \in Seq(Byte), NEW b \in Seq(Byte), NEW c \in Seq(Byte)
    PROVE  (a \o b) \o c = a \o (b \o c)
BY ConcatAssociative

LEMMA BytesType ==
    ASSUME NEW n \in Nat, NEW length \in Nat
    PROVE  /\ Bytes(n, length) \in Seq(Byte)
           /\ Len(Bytes(n, length)) = length + 1
           /\ \A j \in 1..length + 1 : Bytes(n, length)[j] = <<n, IF j > length THEN 0 ELSE j>>
<1>1. Bytes(n, length) \in [1..length + 1 -> Byte]
  BY DEF Bytes, Byte
<1>2. QED
  BY <1>1 DEF Bytes

LEMMA NoLines == \A lines : Lines(lines, 0) = <<>>
BY DEF Lines, FlattenSeq

LEMMA LineType ==
    ASSUME NEW lines, NEW k \in Nat, HaveLengths(lines, k), NEW n \in 1..k
    PROVE  /\ Bytes(n, lines[n][2]) \in Seq(Byte)
           /\ Len(Bytes(n, lines[n][2])) = lines[n][2] + 1
           /\ lines[n][2] \in Nat
           /\ \A j \in 1..Len(Bytes(n, lines[n][2])) : Bytes(n, lines[n][2])[j][1] = n
<1>1. n \in Nat /\ lines[n][2] \in Nat
  BY DEF HaveLengths
<1> DEFINE b == Bytes(n, lines[n][2])
<1>2. /\ b \in Seq(Byte) /\ Len(b) = lines[n][2] + 1
      /\ \A j \in 1..lines[n][2] + 1 : b[j] = <<n, IF j > lines[n][2] THEN 0 ELSE j>>
  BY <1>1, BytesType
<1> HIDE DEF b
<1>3. \A j \in 1..Len(b) : b[j][1] = n
  BY <1>1, <1>2
<1>4. QED
  BY <1>1, <1>2, <1>3 DEF b

LEMMA LinesAreSeqs ==
    ASSUME NEW lines, NEW k \in Nat, HaveLengths(lines, k)
    PROVE  [n \in 1..k |-> Bytes(n, lines[n][2])] \in Seq(Seq(Byte))
<1>1. \A n \in 1..k : Bytes(n, lines[n][2]) \in Seq(Byte)
  BY LineType
<1>2. QED
  BY <1>1

LEMMA LinesType ==
    ASSUME NEW lines, NEW k \in Nat, HaveLengths(lines, k)
    PROVE  Lines(lines, k) \in Seq(Byte)
BY LinesAreSeqs, FlattenType DEF Lines

LEMMA NextLine ==
    ASSUME NEW lines, NEW k \in Nat, HaveLengths(lines, k + 1)
    PROVE  Lines(lines, k + 1) = Lines(lines, k) \o Bytes(k + 1, lines[k + 1][2])
<1> DEFINE ss == [n \in 1..k |-> Bytes(n, lines[n][2])]
           tt == [n \in 1..k + 1 |-> Bytes(n, lines[n][2])]
           b == Bytes(k + 1, lines[k + 1][2])
<1>1. HaveLengths(lines, k)
  BY DEF HaveLengths
<1>2. ss \in Seq(Seq(Byte)) /\ tt \in Seq(Seq(Byte))
  <2>1. ss \in Seq(Seq(Byte))
    BY <1>1, LinesAreSeqs
  <2>2. tt \in Seq(Seq(Byte))
    BY LinesAreSeqs
  <2>3. QED
    BY <2>1, <2>2
<1>3. b \in Seq(Byte)
  BY LineType
<1>4. Len(ss) = k /\ Len(tt) = k + 1 /\ tt[k + 1] = b /\ \A i \in 1..k : tt[i] = ss[i]
  OBVIOUS
<1>5. tt = Append(ss, b)
  <2> HIDE DEF ss, tt, b
  <2>1. Append(ss, b) \in Seq(Seq(Byte)) /\ Len(Append(ss, b)) = k + 1
        /\ Append(ss, b)[k + 1] = b /\ \A i \in 1..k : Append(ss, b)[i] = ss[i]
    BY <1>2, <1>3, <1>4
  <2>2. \A i \in 1..k + 1 : Append(ss, b)[i] = tt[i]
    BY <1>4, <2>1
  <2>3. QED
    BY <1>2, <1>4, <2>1, <2>2, SeqEqual
<1>6. FlattenSeq(tt) = FlattenSeq(ss) \o b
  <2> HIDE DEF ss, tt, b
  <2>1. QED
    BY <1>2, <1>3, <1>5, FlattenAppend
<1>7. QED
  BY <1>6 DEF Lines

\* Fewer lines are a beginning of more, and a shorter one; a byte says its line.
LEMMA LinesGrow ==
    ASSUME NEW lines, NEW i \in Nat, NEW k \in Nat, i <= k, HaveLengths(lines, k)
    PROVE  /\ Len(Lines(lines, i)) <= Len(Lines(lines, k))
           /\ i < k => Len(Lines(lines, i)) < Len(Lines(lines, k))
           /\ \A j \in 1..Len(Lines(lines, i)) : Lines(lines, k)[j] = Lines(lines, i)[j]
<1> DEFINE Good(n) == 
        /\ Len(Lines(lines, i)) <= Len(Lines(lines, n))
        /\ i < n => Len(Lines(lines, i)) < Len(Lines(lines, n))
        /\ \A j \in 1..Len(Lines(lines, i)) : Lines(lines, n)[j] = Lines(lines, i)[j]
    S == {n \in Nat : i <= n /\ n <= k => Good(n)}
<1>1. ASSUME NEW n \in 0..k PROVE Lines(lines, n) \in Seq(Byte)
  <2>1. n \in Nat /\ HaveLengths(lines, n)
    BY DEF HaveLengths
  <2>2. QED
    BY <2>1, LinesType
<1>2. Lines(lines, i) \in Seq(Byte) /\ Good(i)
  <2>1. Lines(lines, i) \in Seq(Byte)
    BY <1>1
  <2>2. QED
    BY <2>1
<1>3. 0 \in S
  BY <1>2
<1>4. ASSUME NEW n \in Nat, n \in S PROVE n + 1 \in S
  <2>1. SUFFICES ASSUME i <= n + 1, n + 1 <= k, i # n + 1
                 PROVE  Good(n + 1)
    BY <1>2
  <2>2. Good(n)
    BY <1>4, <2>1
  <2>3. HaveLengths(lines, n + 1)
    BY <2>1 DEF HaveLengths
  <2> DEFINE b == Bytes(n + 1, lines[n + 1][2])
  <2>4. Lines(lines, n + 1) = Lines(lines, n) \o b
    BY <2>3, NextLine
  <2>5. b \in Seq(Byte) /\ Len(b) > 0
    <3>1. n + 1 \in Nat /\ n + 1 \in 1..n + 1
      OBVIOUS
    <3>2. /\ b \in Seq(Byte) /\ Len(b) = lines[n + 1][2] + 1
          /\ lines[n + 1][2] \in Nat
      BY <2>3, <3>1, LineType
    <3> HIDE DEF b
    <3>3. QED
      BY <3>2
  <2>6. Lines(lines, n) \in Seq(Byte)
    BY <1>1, <2>1
  <2> HIDE DEF b
  <2>7. QED
    BY <1>2, <2>1, <2>2, <2>4, <2>5, <2>6
<1>5. Nat \subseteq S
  <2> HIDE DEF S
  <2>1. QED
    BY <1>3, <1>4, SetInduction
<1>6. QED
  BY <1>5

LEMMA ByteOfLine ==
    ASSUME NEW lines, NEW k \in Nat, HaveLengths(lines, k),
           NEW j \in 1..Len(Lines(lines, k))
    PROVE  Lines(lines, k)[j][1] \in 1..k
<1> DEFINE S == {n \in Nat : n <= k => \A m \in 1..Len(Lines(lines, n)) :
                                         Lines(lines, n)[m][1] \in 1..n}
<1>1. 0 \in S
  BY NoLines
<1>2. ASSUME NEW n \in Nat, n \in S PROVE n + 1 \in S
  <2>1. SUFFICES ASSUME n + 1 <= k, NEW m \in 1..Len(Lines(lines, n + 1))
                 PROVE  Lines(lines, n + 1)[m][1] \in 1..n + 1
    OBVIOUS
  <2>2. HaveLengths(lines, n + 1) /\ HaveLengths(lines, n)
    BY <2>1 DEF HaveLengths
  <2> DEFINE b == Bytes(n + 1, lines[n + 1][2])
  <2>3. Lines(lines, n + 1) = Lines(lines, n) \o b
    BY <2>2, NextLine
  <2>5. b \in Seq(Byte) /\ \A l \in 1..Len(b) : b[l][1] = n + 1
    BY <2>2, LineType
  <2>6. Lines(lines, n) \in Seq(Byte)
    BY <2>2, LinesType
  <2>7. \A l \in 1..Len(Lines(lines, n)) : Lines(lines, n)[l][1] \in 1..n
    BY <1>2, <2>1
  <2> HIDE DEF b, S
  <2>8. Lines(lines, n + 1)[m] = IF m <= Len(Lines(lines, n)) THEN Lines(lines, n)[m]
                                 ELSE b[m - Len(Lines(lines, n))]
    BY <2>1, <2>3, <2>5, <2>6
  <2>9. Len(Lines(lines, n + 1)) = Len(Lines(lines, n)) + Len(b)
    BY <2>3, <2>5, <2>6
  <2>10. CASE m <= Len(Lines(lines, n))
    BY <2>6, <2>7, <2>8, <2>10
  <2>11. CASE m > Len(Lines(lines, n))
    <3> DEFINE earlier == Lines(lines, n)
    <3>1. Len(earlier) \in Nat /\ Len(b) \in Nat /\ m \in 1..Len(earlier) + Len(b)
      BY <2>5, <2>6, <2>9
    <3> HIDE DEF earlier
    <3>2. m - Len(earlier) \in 1..Len(b)
      BY <2>11, <3>1 DEF earlier
    <3>3. QED
      BY <2>5, <2>8, <2>11, <3>2 DEF earlier
  <2>12. QED
    BY <2>6, <2>10, <2>11
<1>3. Nat \subseteq S
  <2> HIDE DEF S
  <2>1. QED
    BY <1>1, <1>2, SetInduction
<1>4. QED
  BY <1>3
-----------------------------------------------------------------------------
(* What of the stream is still to come, when the first d lines were read *)

LEMMA RestIsNextLine ==
    ASSUME NEW lines, NEW k \in Nat, HaveLengths(lines, k), NEW d \in 0..k,
           NEW rest \in Seq(Byte), rest # <<>>,
           NEW end \in 0..Len(Lines(lines, k)),
           Lines(lines, d) \o rest = SubSeq(Lines(lines, k), 1, end)
    PROVE  /\ d < k
           /\ Len(Lines(lines, d)) + Len(rest) = end
           /\ \A j \in 1..Len(rest) : j <= lines[d + 1][2] + 1 =>
                 rest[j] = Bytes(d + 1, lines[d + 1][2])[j]
<1> DEFINE all == Lines(lines, k)
           read == Lines(lines, d)
<1>1. all \in Seq(Byte) /\ HaveLengths(lines, d)
  BY LinesType DEF HaveLengths
<1>2. read \in Seq(Byte)
  BY <1>1, LinesType
<1>3. SubSeq(all, 1, end) \in Seq(Byte) /\ Len(SubSeq(all, 1, end)) = end
      /\ \A j \in 1..end : SubSeq(all, 1, end)[j] = all[j]
  <2>1. end \in 0..Len(all)
    OBVIOUS
  <2> HIDE DEF all
  <2>2. QED
    BY <1>1, <2>1
<1>4. /\ Len(read) + Len(rest) = end
      /\ \A j \in 1..Len(rest) : rest[j] = all[Len(read) + j]
  <2> HIDE DEF all, read
  <2>1. QED
    BY <1>1, <1>2, <1>3 DEF all, read
<1>5. Len(rest) \in Nat \ {0}
  OBVIOUS
<1>6. d < k
  BY <1>1, <1>2, <1>4, <1>5
<1>7. d + 1 \in Nat /\ d + 1 <= k /\ d + 1 \in 1..k /\ HaveLengths(lines, d + 1)
  BY <1>6 DEF HaveLengths
<1> DEFINE b == Bytes(d + 1, lines[d + 1][2])
<1>8. Lines(lines, d + 1) = read \o b
  BY <1>7, NextLine
<1>9. b \in Seq(Byte) /\ Len(b) = lines[d + 1][2] + 1 /\ lines[d + 1][2] \in Nat
  BY <1>7, LineType
<1>10. \A j \in 1..Len(Lines(lines, d + 1)) : all[j] = Lines(lines, d + 1)[j]
  BY <1>7, LinesGrow
<1>11. ASSUME NEW j \in 1..Len(rest), j <= Len(b)
       PROVE  rest[j] = b[j]
  <2> HIDE DEF all, read, b
  <2>0. j \in Nat /\ j >= 1 /\ Len(read) \in Nat /\ Len(b) \in Nat
    BY <1>2, <1>9, <1>11
  <2>1. Len(read \o b) = Len(read) + Len(b) /\ (read \o b)[Len(read) + j] = b[j]
    <3>1. /\ Len(read \o b) = Len(read) + Len(b)
          /\ \A i \in 1..Len(read) + Len(b) :
                (read \o b)[i] = IF i <= Len(read) THEN read[i] ELSE b[i - Len(read)]
      BY <1>2, <1>9, ConcatProperties
    <3>2. Len(read) + j \in 1..Len(read) + Len(b) /\ ~ (Len(read) + j <= Len(read))
          /\ (Len(read) + j) - Len(read) = j
      BY <1>11, <2>0
    <3>3. QED
      BY <3>1, <3>2
  <2>2. Len(read) + j \in 1..Len(read \o b)
    BY <1>11, <2>0, <2>1
  <2>3. QED
    BY <1>4, <1>8, <1>10, <2>1, <2>2
<1>12. QED
  BY <1>4, <1>6, <1>9, <1>11
-----------------------------------------------------------------------------
(* The inductive invariant of the stream *)

StreamType ==
    /\ script \in Scripts /\ done \in Nat
    /\ written \in Seq({written[n] : n \in DOMAIN written})
    /\ HaveLengths(written, Len(written))
    /\ buffer \in Seq(Byte) /\ pipe \in Seq(Byte) /\ lost \in Nat
    /\ delivered \in Seq(Nat) /\ Len(delivered) <= Len(written)

\* Bytes are lost of the last line only, and only when the process was killed.
CutShort ==
    /\ exit = None => lost = 0
    /\ lost > 0 => Len(written) > 0 /\ lost <= written[Len(written)][2] + 1

\* The end of stdout is read when the process is gone and the pipe empty, and the
\* client speaks of it only then; a frame is malformed when it was delivered, one is
\* too long when its line was written.
HowItEnded ==
    /\ eof => pipe = <<>> /\ exit # None
    /\ ended \in {"partial", "exit", "clean"} => exit # None
    /\ ended = "malformed" => delivered # <<>>
    /\ ended = "oversize" => Len(delivered) < Len(written)

StreamInv == StreamType /\ CutShort /\ HowItEnded /\ FramesAreLines /\ EndIsTruthful

\* FramesAreLines says of the bytes that they are read, buffered or in the pipe.
IsStream(lines, k, d, rest, missing) ==
    Lines(lines, d) \o rest = SubSeq(Lines(lines, k), 1, Len(Lines(lines, k)) - missing)

LEMMA ReadIsLines ==
    ASSUME NEW lines, NEW read, NEW d, DOMAIN read = 1..d
    PROVE  FlattenSeq([i \in DOMAIN read |-> Bytes(i, lines[i][2])]) = Lines(lines, d)
BY DEF Lines

LEMMA AllIsLines == DOMAIN written = 1..Len(written) => AllBytes = Lines(written, Len(written))
BY DEF AllBytes, Lines

LEMMA StreamFacts ==
    ASSUME StreamInv
    PROVE  /\ Len(written) \in Nat /\ DOMAIN written = 1..Len(written)
           /\ Len(delivered) \in 0..Len(written) /\ DOMAIN delivered = 1..Len(delivered)
           /\ IsStream(written, Len(written), Len(delivered), buffer \o pipe, lost)
           /\ Lines(written, Len(written)) \in Seq(Byte)
           /\ buffer \o pipe \in Seq(Byte)
<1>1. /\ Len(written) \in Nat /\ DOMAIN written = 1..Len(written)
      /\ Len(delivered) \in 0..Len(written) /\ DOMAIN delivered = 1..Len(delivered)
      /\ HaveLengths(written, Len(written))
      /\ buffer \in Seq(Byte) /\ pipe \in Seq(Byte)
  BY DEF StreamInv, StreamType
<1>2. HaveLengths(written, Len(delivered))
  BY <1>1 DEF HaveLengths
<1>3. Lines(written, Len(delivered)) \in Seq(Byte)
  BY <1>1, <1>2, LinesType
<1>4. Lines(written, Len(delivered)) \o buffer \o pipe
         = SubSeq(AllBytes, 1, Len(AllBytes) - lost)
  BY <1>1, ReadIsLines DEF StreamInv, FramesAreLines
<1>5. IsStream(written, Len(written), Len(delivered), buffer \o pipe, lost)
  BY <1>1, <1>3, <1>4, AllIsLines, Regroup DEF IsStream
<1>6. QED
  BY <1>1, <1>5, LinesType

\* What was lost is within the last line.
LEMMA LostFits ==
    ASSUME StreamInv
    PROVE  /\ lost \in 0..Len(Lines(written, Len(written)))
           /\ lost > 0 => /\ Len(written) > 0
                          /\ Len(Lines(written, Len(written) - 1))
                                <= Len(Lines(written, Len(written))) - lost
<1> DEFINE k == Len(written)
<1>1. k \in Nat /\ lost \in Nat /\ HaveLengths(written, k) /\ Lines(written, k) \in Seq(Byte)
  BY StreamFacts DEF StreamInv, StreamType
<1>2. CASE lost = 0
  BY <1>1, <1>2
<1>3. CASE lost > 0
  <2>1. k > 0 /\ lost <= written[k][2] + 1
    BY <1>3 DEF StreamInv, CutShort
  <2>2. PICK j \in Nat : k = j + 1 /\ j = k - 1
    <3>1. k - 1 \in Nat /\ k = (k - 1) + 1
      BY <1>1, <2>1
    <3>2. QED
      BY <3>1
  <2> HIDE DEF k
  <2>3. HaveLengths(written, j + 1) /\ HaveLengths(written, j) /\ k \in 1..k
    BY <1>1, <2>2 DEF HaveLengths
  <2>4. Lines(written, k) = Lines(written, j) \o Bytes(k, written[k][2])
    BY <2>2, <2>3, NextLine
  <2>5. /\ Bytes(k, written[k][2]) \in Seq(Byte)
        /\ Len(Bytes(k, written[k][2])) = written[k][2] + 1
        /\ written[k][2] \in Nat
    BY <1>1, <2>3, LineType
  <2>6. Lines(written, j) \in Seq(Byte)
    BY <2>3, LinesType
  <2>7. Len(Lines(written, k)) = Len(Lines(written, j)) + written[k][2] + 1
    <3>1. Len(Lines(written, k)) = Len(Lines(written, j)) + Len(Bytes(k, written[k][2]))
      <4> DEFINE earlier == Lines(written, j)
                 line == Bytes(k, written[k][2])
      <4>1. earlier \in Seq(Byte) /\ line \in Seq(Byte) /\ Lines(written, k) = earlier \o line
        BY <2>4, <2>5, <2>6
      <4> HIDE DEF earlier, line
      <4>2. Len(earlier \o line) = Len(earlier) + Len(line)
        BY <4>1, Joining
      <4>3. QED
        BY <4>1, <4>2 DEF earlier, line
    <3>2. Len(Lines(written, j)) \in Nat
      BY <2>6
    <3>3. QED
      BY <2>5, <3>1, <3>2
  <2>8. Len(Lines(written, j)) \in Nat
    BY <2>6
  <2>9. QED
    BY <1>1, <1>3, <2>1, <2>2, <2>5, <2>7, <2>8 DEF k
<1>4. QED
  BY <1>1, <1>2, <1>3

\* Of what is still to come, the first bytes are those of the next line.
LEMMA NextInBuffer ==
    ASSUME StreamInv, buffer \o pipe # <<>>
    PROVE  /\ Len(delivered) + 1 \in 1..Len(written)
           /\ \A j \in 1..Len(buffer) : j <= written[Len(delivered) + 1][2] + 1 =>
                 buffer[j] = <<Len(delivered) + 1,
                               IF j > written[Len(delivered) + 1][2] THEN 0 ELSE j>>
<1> DEFINE k == Len(written)
           d == Len(delivered)
           rest == buffer \o pipe
<1>1. /\ k \in Nat /\ d \in 0..k /\ HaveLengths(written, k)
      /\ rest \in Seq(Byte) /\ Lines(written, k) \in Seq(Byte)
      /\ buffer \in Seq(Byte) /\ pipe \in Seq(Byte)
  BY StreamFacts DEF StreamInv, StreamType
<1>2. Len(Lines(written, k)) - lost \in 0..Len(Lines(written, k))
  BY <1>1, LostFits
<1>3. Lines(written, d) \o rest = SubSeq(Lines(written, k), 1, Len(Lines(written, k)) - lost)
  BY StreamFacts DEF IsStream
<1>4. /\ d < k
      /\ \A j \in 1..Len(rest) : j <= written[d + 1][2] + 1 =>
            rest[j] = Bytes(d + 1, written[d + 1][2])[j]
  <2> DEFINE end == Len(Lines(written, k)) - lost
  <2>1. rest # <<>> /\ end \in 0..Len(Lines(written, k))
    BY <1>2
  <2>2. Lines(written, d) \o rest = SubSeq(Lines(written, k), 1, end)
    BY <1>3
  <2> HIDE DEF k, d, rest, end
  <2>3. k \in Nat /\ d \in 0..k /\ HaveLengths(written, k) /\ rest \in Seq(Byte)
    BY <1>1
  <2>4. /\ d < k
        /\ Len(Lines(written, d)) + Len(rest) = end
        /\ \A j \in 1..Len(rest) : j <= written[d + 1][2] + 1 =>
              rest[j] = Bytes(d + 1, written[d + 1][2])[j]
    BY <2>1, <2>2, <2>3, RestIsNextLine, SMTT(20)
  <2>5. QED
    BY <2>4
<1>5. d + 1 \in 1..k /\ d + 1 \in Nat /\ written[d + 1][2] \in Nat
  BY <1>1, <1>4 DEF HaveLengths
<1>6. \A j \in 1..written[d + 1][2] + 1 :
         Bytes(d + 1, written[d + 1][2])[j] = <<d + 1, IF j > written[d + 1][2] THEN 0 ELSE j>>
  BY <1>5, BytesType
<1>7. Len(buffer) <= Len(rest) /\ \A j \in 1..Len(buffer) : rest[j] = buffer[j]
  BY <1>1
<1>8. ASSUME NEW j \in 1..Len(buffer), j <= written[d + 1][2] + 1
      PROVE  buffer[j] = <<d + 1, IF j > written[d + 1][2] THEN 0 ELSE j>>
  <2>1. j \in 1..Len(rest) /\ j \in 1..written[d + 1][2] + 1
    BY <1>1, <1>5, <1>7, <1>8
  <2> HIDE DEF rest
  <2>2. QED
    BY <1>4, <1>6, <1>7, <1>8, <2>1
<1>9. QED
  BY <1>5, <1>8

\* Without a newline the buffer holds less than the next line.
LEMMA NoFrameYet ==
    ASSUME StreamInv, buffer # <<>>, Newline(buffer) = {}
    PROVE  /\ Len(delivered) + 1 \in 1..Len(written)
           /\ Len(buffer) <= written[Len(delivered) + 1][2]
<1>1. buffer \in Seq(Byte) /\ pipe \in Seq(Byte) /\ HaveLengths(written, Len(written))
  BY DEF StreamInv, StreamType
<1>2. buffer \o pipe # <<>>
  BY <1>1
<1> DEFINE n == Len(delivered) + 1
<1>3. /\ n \in 1..Len(written)
      /\ \A j \in 1..Len(buffer) : j <= written[n][2] + 1 =>
            buffer[j] = <<n, IF j > written[n][2] THEN 0 ELSE j>>
  BY <1>2, NextInBuffer
<1>4. written[n][2] \in Nat
  BY <1>1, <1>3 DEF HaveLengths
<1>5. SUFFICES ASSUME Len(buffer) >= written[n][2] + 1 PROVE FALSE
  <2> HIDE DEF n
  <2>1. Len(buffer) \in Nat
    BY <1>1
  <2>2. QED
    BY <1>3, <1>4, <2>1 DEF n
<1>6. written[n][2] + 1 \in 1..Len(buffer)
  BY <1>1, <1>4, <1>5
<1> HIDE DEF n
<1>7. buffer[written[n][2] + 1] = <<n, 0>>
  BY <1>3, <1>4, <1>6
<1>8. written[n][2] + 1 \in Newline(buffer)
  BY <1>1, <1>6, <1>7 DEF Newline
<1>9. QED
  BY <1>8

\* With one, it begins with the next line, all of it.
LEMMA FrameIsLine ==
    ASSUME StreamInv, NEW newline \in Newline(buffer),
           \A j \in Newline(buffer) : newline <= j
    PROVE  LET n == Len(delivered) + 1
               frame == SubSeq(buffer, 1, newline)
           IN  /\ n \in 1..Len(written)
               /\ newline = written[n][2] + 1 /\ newline \in 1..Len(buffer)
               /\ frame = Bytes(n, written[n][2])
               /\ Decoded(frame) = n
<1> DEFINE n == Len(delivered) + 1
           length == written[n][2]
<1>1. /\ buffer \in Seq(Byte) /\ pipe \in Seq(Byte) /\ HaveLengths(written, Len(written))
      /\ newline \in 1..Len(buffer) /\ buffer[newline][2] = 0
      /\ DOMAIN written = 1..Len(written) /\ Len(written) \in Nat
  BY StreamFacts DEF StreamInv, StreamType, Newline
<1>2. buffer \o pipe # <<>>
  BY <1>1
<1>3. /\ n \in 1..Len(written)
      /\ \A j \in 1..Len(buffer) : j <= length + 1 =>
            buffer[j] = <<n, IF j > length THEN 0 ELSE j>>
  BY <1>2, NextInBuffer
<1> HIDE DEF n
<1>4. length \in Nat
  BY <1>1, <1>3 DEF HaveLengths
<1> HIDE DEF length
<1>5. newline > length
  <2>1. SUFFICES ASSUME newline <= length PROVE FALSE
    BY <1>1, <1>4
  <2>2. buffer[newline] = <<n, newline>>
    BY <1>1, <1>3, <1>4, <2>1
  <2>3. QED
    BY <1>1, <2>2
<1>6. length + 1 \in 1..Len(buffer) /\ buffer[length + 1] = <<n, 0>>
  BY <1>1, <1>3, <1>4, <1>5
<1>7. length + 1 \in Newline(buffer)
  BY <1>1, <1>6 DEF Newline
<1>8. newline = length + 1
  BY <1>1, <1>4, <1>5, <1>7
<1> DEFINE frame == SubSeq(buffer, 1, newline)
           line == Bytes(n, length)
<1>9. /\ frame \in Seq(Byte) /\ Len(frame) = newline
      /\ \A j \in 1..newline : frame[j] = buffer[j]
  <2>1. \A i \in 1..newline : buffer[i] \in Byte
    BY <1>1
  <2>2. newline \in Int /\ 1 \in Int /\ 1 <= newline /\ newline - 1 + 1 = newline
    BY <1>1
  <2>3. /\ SubSeq(buffer, 1, newline) \in Seq(Byte)
        /\ Len(SubSeq(buffer, 1, newline)) = newline - 1 + 1
        /\ \A i \in 1..newline - 1 + 1 : SubSeq(buffer, 1, newline)[i] = buffer[1 + i - 1]
    BY <2>1, <2>2, SubSeqProperties
  <2>4. QED
    BY <2>2, <2>3
<1>10. /\ line \in Seq(Byte) /\ Len(line) = newline
       /\ \A j \in 1..newline : line[j] = <<n, IF j > length THEN 0 ELSE j>>
  <2>1. n \in Nat
    BY <1>1, <1>3
  <2>2. /\ line \in Seq(Byte) /\ Len(line) = length + 1
        /\ \A j \in 1..length + 1 : line[j] = <<n, IF j > length THEN 0 ELSE j>>
    BY <1>4, <2>1, BytesType
  <2>3. QED
    BY <1>8, <2>2
<1> HIDE DEF frame, line
<1>11. ASSUME NEW j \in 1..newline PROVE frame[j] = line[j]
  <2>1. j \in 1..Len(buffer) /\ j <= length + 1
    BY <1>1, <1>4, <1>8
  <2>2. QED
    BY <1>3, <1>9, <1>10, <2>1
<1>12. frame = line
  BY <1>9, <1>10, <1>11, SeqEqual
<1>13. frame[1][1] = n
  BY <1>1, <1>4, <1>8, <1>10, <1>12
<1>14. Decoded(frame) = n
  BY <1>1, <1>3, <1>12, <1>13 DEF Decoded, line, length
<1>15. QED
  BY <1>1, <1>3, <1>8, <1>12, <1>14 DEF n, length, frame, line
-----------------------------------------------------------------------------
(* What the actions do to the stream *)

\* What is left alone by everything but the server's writes and the client's reads.
LEMMA QuietSteps ==
    ASSUME StreamInv,
           UNCHANGED <<script, written, pipe, lost, buffer, eof, delivered>>, done' \in Nat,
           exit' = exit \/ exit = None,
           ended' = ended \/ ended' \in {"closed", "unexpected"}
    PROVE  StreamInv'
<1>1. StreamType'
  BY DEF StreamInv, StreamType, HaveLengths
<1>2. CutShort'
  BY DEF StreamInv, CutShort
<1>3. HowItEnded'
  BY DEF StreamInv, HowItEnded
<1>4. FramesAreLines'
  BY DEF StreamInv, FramesAreLines, AllBytes
<1>5. EndIsTruthful'
  BY DEF StreamInv, HowItEnded, EndIsTruthful, Payload
<1>6. QED
  BY <1>1, <1>2, <1>3, <1>4, <1>5 DEF StreamInv

LEMMA StreamInit == WireAssumption /\ WireInit => StreamInv
<1> SUFFICES ASSUME WireAssumption, WireInit
             PROVE  StreamInv
  OBVIOUS
<1>1. StreamType
  BY DEF WireInit, ServerInit, StreamType, HaveLengths
<1>2. CutShort
  BY DEF WireInit, ServerInit, CutShort
<1>3. HowItEnded
  BY DEF WireInit, HowItEnded, WireAssumption, Endings
<1>4. FramesAreLines
  <2>1. buffer = <<>> /\ pipe = <<>> /\ lost = 0 /\ delivered = <<>> /\ written = <<>>
    BY DEF WireInit, ServerInit
  <2>3. Lines(written, 0) = <<>> /\ Len(written) = 0
    BY <2>1, NoLines
  <2>5. DOMAIN written = 1..0 /\ DOMAIN delivered = 1..0 /\ HaveLengths(written, 0)
        /\ buffer \in Seq(Byte) /\ pipe \in Seq(Byte)
    BY <2>1 DEF HaveLengths
  <2>6. FlattenSeq([i \in DOMAIN delivered |-> Bytes(i, written[i][2])]) \o buffer \o pipe
          = SubSeq(AllBytes, 1, Len(AllBytes) - lost)
    <3>1. FlattenSeq([i \in DOMAIN delivered |-> Bytes(i, written[i][2])]) = <<>>
      BY <2>3, <2>5, ReadIsLines
    <3>2. AllBytes = <<>>
      BY <2>1, <2>3, <2>5, AllIsLines
    <3>3. <<>> \o <<>> \o <<>> = SubSeq(<<>>, 1, Len(<<>>) - 0)
      OBVIOUS
    <3>4. QED
      BY <2>1, <3>1, <3>2, <3>3
  <2>7. \A i \in DOMAIN delivered : delivered[i] = i
    BY <2>5
  <2>8. QED
    BY <2>6, <2>7 DEF FramesAreLines
<1>5. EndIsTruthful
  BY DEF WireInit, EndIsTruthful, WireAssumption, Endings
<1>6. QED
  BY <1>1, <1>2, <1>3, <1>4, <1>5 DEF StreamInv

\* The server writes a line.
LEMMA WritesStep ==
    ASSUME StreamInv, NEW payload, NEW length \in Nat, Writes(payload, length), Advance,
           exit = None, UNCHANGED client
    PROVE  StreamInv'
<1> DEFINE k == Len(written)
           d == Len(delivered)
           b == Bytes(k + 1, length)
<1>1. /\ k \in Nat /\ d \in 0..k /\ DOMAIN written = 1..k /\ DOMAIN delivered = 1..d
      /\ HaveLengths(written, k) /\ buffer \in Seq(Byte) /\ pipe \in Seq(Byte)
      /\ written \in Seq({written[n] : n \in DOMAIN written})
  BY StreamFacts DEF StreamInv, StreamType
<1>2. written' = Append(written, <<payload, length>>) /\ pipe' = pipe \o b
  BY DEF Writes
<1>3. lost = 0 /\ lost' = 0
  BY DEF StreamInv, CutShort, Advance
<1>4. b \in Seq(Byte)
  <2>1. k + 1 \in Nat
    BY <1>1
  <2> HIDE DEF k
  <2>2. QED
    BY <2>1, BytesType
<1>5. /\ Len(written') = k + 1 /\ DOMAIN written' = 1..k + 1
      /\ \A n \in 1..k : written'[n] = written[n]
      /\ written'[k + 1] = <<payload, length>>
  <2> DEFINE S == {written[n] : n \in DOMAIN written} \cup {<<payload, length>>}
  <2>1. written \in Seq(S) /\ <<payload, length>> \in S
    BY <1>1
  <2> HIDE DEF S
  <2>2. QED
    BY <1>1, <1>2, <2>1, AppendProperties, LenProperties
<1>6. HaveLengths(written', k + 1)
  <2>1. \A n \in 1..k : written'[n][2] \in Nat
    BY <1>1, <1>5 DEF HaveLengths
  <2>2. written'[k + 1][2] \in Nat
    BY <1>5
  <2>3. \A n \in 1..k + 1 : n \in 1..k \/ n = k + 1
    BY <1>1
  <2> HIDE DEF k
  <2>4. QED
    BY <2>1, <2>2, <2>3 DEF HaveLengths
<1>7. written' \in Seq({written'[n] : n \in DOMAIN written'})
  <2>1. written' = [n \in 1..k + 1 |-> written'[n]]
    BY <1>2, <1>5
  <2> DEFINE S == {written'[m] : m \in DOMAIN written'}
  <2>2. \A n \in 1..k + 1 : written'[n] \in S
    BY <1>5
  <2> HIDE DEF S, k
  <2>3. written' \in [1..k + 1 -> S] /\ k + 1 \in Nat
    BY <1>1, <2>1, <2>2
  <2>4. written' \in Seq(S)
    BY <2>3
  <2>5. QED
    BY <2>4 DEF S
<1>8. UNCHANGED <<script, exit, lost, buffer, eof, delivered, ended>> /\ done' = done + 1
  BY DEF Advance, client
<1>9. pipe' \in Seq(Byte)
  BY <1>1, <1>2, <1>4
<1>10. StreamType'
  BY <1>1, <1>5, <1>6, <1>7, <1>8, <1>9 DEF StreamInv, StreamType
<1>11. CutShort' /\ HowItEnded'
  BY <1>1, <1>3, <1>5, <1>8 DEF StreamInv, CutShort, HowItEnded
<1>12. \A n \in 0..k : Lines(written', n) = Lines(written, n)
  <2>1. \A n \in 0..k : [i \in 1..n |-> Bytes(i, written'[i][2])]
                          = [i \in 1..n |-> Bytes(i, written[i][2])]
    <3>1. \A n \in 0..k : \A i \in 1..n : i \in 1..k
      BY <1>1
    <3>2. \A i \in 1..k : Bytes(i, written'[i][2]) = Bytes(i, written[i][2])
      BY <1>5
    <3> HIDE DEF k
    <3>3. QED
      BY <3>1, <3>2
  <2>2. QED
    BY <2>1 DEF Lines
<1>13. Lines(written', k + 1) = Lines(written, k) \o b
  <2>1. Lines(written', k + 1) = Lines(written', k) \o Bytes(k + 1, written'[k + 1][2])
    BY <1>1, <1>6, NextLine
  <2>2. written'[k + 1][2] = length /\ Lines(written', k) = Lines(written, k)
    BY <1>1, <1>5, <1>12
  <2>3. QED
    BY <2>1, <2>2
<1>14. Lines(written', d) \o buffer \o pipe'
         = SubSeq(Lines(written', k + 1), 1, Len(Lines(written', k + 1)) - 0)
  <2>1. Lines(written, k) \in Seq(Byte) /\ Lines(written, d) \in Seq(Byte)
    <3>1. HaveLengths(written, d)
      BY <1>1 DEF HaveLengths
    <3>2. QED
      BY <1>1, <3>1, LinesType
  <2>2. Lines(written, d) \o (buffer \o pipe) = Lines(written, k)
    <3>1. Lines(written, d) \o (buffer \o pipe)
            = SubSeq(Lines(written, k), 1, Len(Lines(written, k)) - 0)
      BY <1>3, StreamFacts DEF IsStream
    <3>2. QED
      BY <2>1, <3>1, SubSeqFull
  <2> HIDE DEF b
  <2>3. buffer \in Seq(Byte) /\ pipe \in Seq(Byte)
    BY <1>1
  <2>4. (Lines(written, d) \o buffer) \o (pipe \o b)
           = (Lines(written, d) \o (buffer \o pipe)) \o b
    <3> DEFINE a == Lines(written, d)
    <3>1. a \in Seq(Byte) /\ b \in Seq(Byte)
      BY <1>4, <2>1
    <3> HIDE DEF a
    <3>2. (a \o buffer) \o (pipe \o b) = (a \o (buffer \o pipe)) \o b
      BY <2>3, <3>1
    <3>3. QED
      BY <3>2 DEF a
  <2>5. Lines(written', d) \o buffer \o pipe' = Lines(written', k + 1)
    BY <1>1, <1>2, <1>12, <1>13, <2>2, <2>4
  <2>6. Lines(written', k + 1) \in Seq(Byte)
    BY <1>1, <1>6, LinesType
  <2>7. SubSeq(Lines(written', k + 1), 1, Len(Lines(written', k + 1)) - 0)
          = Lines(written', k + 1)
    BY <2>6, SubSeqFull
  <2>8. QED
    BY <2>5, <2>7
<1>15. FramesAreLines'
  <2>1. FlattenSeq([i \in DOMAIN delivered |-> Bytes(i, written'[i][2])]) = Lines(written', d)
    BY <1>1, ReadIsLines
  <2>2. AllBytes' = Lines(written', k + 1)
    BY <1>5 DEF AllBytes, Lines
  <2> HIDE DEF k, d, b
  <2>3. FlattenSeq([i \in DOMAIN delivered |-> Bytes(i, written'[i][2])]) \o buffer \o pipe'
          = SubSeq(AllBytes', 1, Len(AllBytes') - 0)
    BY <1>14, <2>1, <2>2
  <2>4. \A i \in DOMAIN delivered : delivered[i] = i
    BY DEF StreamInv, FramesAreLines
  <2>5. QED
    BY <1>3, <1>8, <2>3, <2>4 DEF FramesAreLines
<1>16. EndIsTruthful'
  <2>1. ended \notin {"partial", "exit", "clean"}
    BY DEF StreamInv, HowItEnded
  <2>2. ASSUME ended = "malformed" PROVE ~ IsEnvelope(Payload(Last(delivered))')
    <3>1. d \in 1..k /\ Last(delivered) = delivered[d] /\ delivered[d] = d
      <4>1. delivered # <<>> /\ delivered \in Seq(Nat)
        BY <2>2 DEF StreamInv, StreamType, HowItEnded
      <4>2. d # 0
        BY <4>1
      <4>3. d \in DOMAIN delivered /\ d \in 1..k
        BY <1>1, <4>2
      <4>4. \A i \in DOMAIN delivered : delivered[i] = i
        BY DEF StreamInv, FramesAreLines
      <4>5. QED
        BY <4>3, <4>4 DEF Last
    <3>2. Payload(Last(delivered))' = Payload(Last(delivered))
      BY <1>5, <1>8, <3>1 DEF Payload, Last
    <3>3. QED
      BY <2>2, <3>2 DEF StreamInv, EndIsTruthful
  <2>3. ASSUME ended = "oversize"
        PROVE  written'[d + 1][2] + ReadChunkBytes > MaxFrameBytes
    <3>1. d + 1 \in 1..k
      BY <1>1, <2>3 DEF StreamInv, HowItEnded
    <3>2. QED
      BY <1>5, <2>3, <3>1 DEF StreamInv, EndIsTruthful
  <2>4. QED
    BY <1>8, <2>1, <2>2, <2>3 DEF EndIsTruthful
<1>17. QED
  BY <1>10, <1>11, <1>15, <1>16 DEF StreamInv

\* What a read of the client leaves alone.
LEMMA WrittenKept ==
    ASSUME StreamInv, UNCHANGED <<script, done, written, lost, exit>>
    PROVE  /\ script' \in Scripts /\ done' \in Nat
           /\ written' \in Seq({written'[n] : n \in DOMAIN written'})
           /\ HaveLengths(written', Len(written')) /\ lost' \in Nat
           /\ CutShort'
           /\ AllBytes' = Lines(written, Len(written))
           /\ DOMAIN written = 1..Len(written) /\ Len(written) \in Nat
<1>1. DOMAIN written = 1..Len(written) /\ Len(written) \in Nat
  BY StreamFacts
<1>2. AllBytes' = Lines(written, Len(written))
  BY <1>1, AllIsLines DEF AllBytes
<1>3. CutShort'
  BY DEF StreamInv, CutShort
<1>4. QED
  BY <1>1, <1>2, <1>3 DEF StreamInv, StreamType, HaveLengths

LEMMA ReadChunkStep ==
    ASSUME WireAssumption, StreamInv, ReadChunk
    PROVE  StreamInv'
<1> DEFINE d == Len(delivered)
<1>1. PICK k \in 1..ReadChunkBytes :
         /\ k <= Len(pipe)
         /\ buffer' = buffer \o SubSeq(pipe, 1, k)
         /\ pipe' = SubSeq(pipe, k + 1, Len(pipe))
  BY DEF ReadChunk
<1>2. /\ ended = None /\ Newline(buffer) = {} /\ ~ eof
      /\ UNCHANGED <<script, done, written, lost, exit, eof, delivered>>
      /\ ended' # ended => ended' = "oversize" /\ Len(buffer') > MaxFrameBytes
  BY DEF ReadChunk, Ends, server
<1>3. buffer \in Seq(Byte) /\ pipe \in Seq(Byte) /\ ReadChunkBytes \in Nat /\ MaxFrameBytes \in Nat
  BY DEF StreamInv, StreamType, WireAssumption
<1>4. /\ SubSeq(pipe, 1, k) \in Seq(Byte) /\ Len(SubSeq(pipe, 1, k)) = k
      /\ pipe' \in Seq(Byte)
      /\ SubSeq(pipe, 1, k) \o pipe' = pipe
  <2>1. SubSeq(pipe, 1, k) \in Seq(Byte) /\ Len(SubSeq(pipe, 1, k)) = k
    BY <1>1, <1>3
  <2>2. SubSeq(pipe, k + 1, Len(pipe)) \in Seq(Byte)
    BY <1>1, <1>3
  <2>3. /\ 1 \in 1..Len(pipe) + 1 /\ k \in 1 - 1..Len(pipe) /\ Len(pipe) \in k..Len(pipe)
    BY <1>1, <1>3
  <2>4. SubSeq(pipe, 1, k) \o SubSeq(pipe, k + 1, Len(pipe)) = SubSeq(pipe, 1, Len(pipe))
    BY <1>3, <2>3, ConcatAdjacentSubSeq
  <2>5. SubSeq(pipe, 1, Len(pipe)) = pipe
    BY <1>3, SubSeqFull
  <2>6. QED
    BY <1>1, <2>1, <2>2, <2>4, <2>5
<1>5. buffer' \in Seq(Byte) /\ Len(buffer') = Len(buffer) + k
  BY <1>1, <1>3, <1>4
<1>6. buffer' \o pipe' = buffer \o pipe
  <2> DEFINE chunk == SubSeq(pipe, 1, k)
  <2>1. chunk \in Seq(Byte) /\ buffer' = buffer \o chunk /\ chunk \o pipe' = pipe
    BY <1>1, <1>4
  <2> HIDE DEF chunk
  <2>2. (buffer \o chunk) \o pipe' = buffer \o (chunk \o pipe')
    <3>1. buffer \in Seq(Byte) /\ pipe' \in Seq(Byte)
      BY <1>3, <1>4
    <3>2. \A s \in Seq(Byte) : (buffer \o chunk) \o s = buffer \o (chunk \o s)
      BY <2>1, <3>1
    <3>3. QED
      BY <3>1, <3>2
  <2>3. QED
    BY <2>1, <2>2
<1>7. StreamType' /\ CutShort'
  <2>1. /\ written' \in Seq({written'[n] : n \in DOMAIN written'})
        /\ HaveLengths(written', Len(written')) /\ lost' \in Nat /\ CutShort'
        /\ script' \in Scripts /\ done' \in Nat
    BY <1>2, WrittenKept
  <2>2. delivered' \in Seq(Nat) /\ Len(delivered') <= Len(written')
    BY <1>2 DEF StreamInv, StreamType
  <2>3. QED
    BY <1>4, <1>5, <2>1, <2>2 DEF StreamType
<1>8. d + 1 \in 1..Len(written) /\ (buffer # <<>> => Len(buffer) <= written[d + 1][2])
      /\ written[d + 1][2] \in Nat
  <2>1. buffer \o pipe # <<>>
    BY <1>1, <1>3
  <2>2. d + 1 \in 1..Len(written)
    BY <2>1, NextInBuffer
  <2>3. buffer # <<>> => Len(buffer) <= written[d + 1][2]
    BY <1>2, NoFrameYet
  <2>4. QED
    BY <2>2, <2>3 DEF StreamInv, StreamType, HaveLengths
<1>9. HowItEnded'
  <2>1. d < Len(written)
    BY <1>8, StreamFacts
  <2>2. eof' = FALSE \/ ~ eof'
    BY <1>2
  <2>3. QED
    BY <1>2, <2>1, <2>2 DEF HowItEnded, WireAssumption, Endings
<1>10. FramesAreLines'
  <2>1. FlattenSeq([i \in DOMAIN delivered |-> Bytes(i, written[i][2])]) = Lines(written, d)
    BY StreamFacts, ReadIsLines
  <2>2. AllBytes' = Lines(written, Len(written))
    BY <1>2, WrittenKept
  <2>3. Lines(written, d) \o (buffer \o pipe)
          = SubSeq(Lines(written, Len(written)), 1, Len(Lines(written, Len(written))) - lost)
    BY StreamFacts DEF IsStream
  <2>4. Lines(written, d) \in Seq(Byte)
    <3>1. HaveLengths(written, d) /\ d \in Nat
      BY StreamFacts DEF HaveLengths, StreamInv, StreamType
    <3>2. QED
      BY <3>1, LinesType
  <2>5. Lines(written, d) \o buffer' \o pipe' = Lines(written, d) \o (buffer' \o pipe')
    BY <1>4, <1>5, <2>4, Regroup
  <2>6. \A i \in DOMAIN delivered : delivered[i] = i
    BY DEF StreamInv, FramesAreLines
  <2>7. QED
    BY <1>2, <1>6, <2>1, <2>2, <2>3, <2>5, <2>6 DEF FramesAreLines
<1>11. EndIsTruthful'
  <2>1. ASSUME ended' = "oversize"
        PROVE  written'[d + 1][2] + ReadChunkBytes > MaxFrameBytes
    <3>1. Len(buffer') > MaxFrameBytes
      BY <1>2, <2>1 DEF WireAssumption, Endings
    <3>2. Len(buffer) <= written[d + 1][2] /\ Len(buffer) \in Nat
      BY <1>3, <1>8
    <3>3. QED
      BY <1>1, <1>2, <1>3, <1>5, <1>8, <3>1, <3>2
  <2>2. ended' \notin {"partial", "exit", "clean", "malformed"}
    BY <1>2 DEF WireAssumption, Endings
  <2>3. QED
    BY <1>2, <2>1, <2>2 DEF EndIsTruthful
<1>12. QED
  BY <1>7, <1>9, <1>10, <1>11 DEF StreamInv

LEMMA ReadEofStep == ASSUME StreamInv, ReadEof PROVE StreamInv'
<1>1. UNCHANGED <<server, stdin, pipe, buffer, delivered, ended>> /\ pipe = <<>> /\ exit # None
  BY DEF ReadEof
<1>2. StreamType' /\ CutShort' /\ HowItEnded'
  BY <1>1 DEF server, StreamInv, StreamType, HaveLengths, CutShort, HowItEnded
<1>3. FramesAreLines'
  BY <1>1 DEF server, StreamInv, FramesAreLines, AllBytes
<1>4. EndIsTruthful'
  BY <1>1 DEF server, StreamInv, EndIsTruthful, Payload
<1>5. QED
  BY <1>2, <1>3, <1>4 DEF StreamInv

\* Of the last line what is not out yet is lost.
LEMMA KilledStep == ASSUME WireAssumption, StreamInv, Killed, UNCHANGED client PROVE StreamInv'
<1> DEFINE k == Len(written)
           d == Len(delivered)
           all == Lines(written, k)
<1>1. PICK cut \in 0..Len(pipe) :
         /\ \A i \in Len(pipe) - cut + 1..Len(pipe) : pipe[i][1] = k
         /\ pipe' = SubSeq(pipe, 1, Len(pipe) - cut)
         /\ lost' = cut
  BY DEF Killed
<1>2. /\ exit = None /\ exit' = -9 /\ exit' # None /\ lost = 0
      /\ UNCHANGED <<script, done, written, buffer, eof, delivered, ended>>
  BY DEF Killed, client, StreamInv, CutShort, WireAssumption
<1>3. /\ buffer \in Seq(Byte) /\ pipe \in Seq(Byte) /\ all \in Seq(Byte)
      /\ k \in Nat /\ d \in 0..k /\ DOMAIN written = 1..k /\ HaveLengths(written, k)
      /\ DOMAIN delivered = 1..d
  BY StreamFacts DEF StreamInv, StreamType
<1>4. Lines(written, d) \in Seq(Byte)
  <2>1. HaveLengths(written, d) /\ d \in Nat
    BY <1>3 DEF HaveLengths
  <2>2. QED
    BY <2>1, LinesType
<1>5. /\ pipe' \in Seq(Byte) /\ Len(pipe') = Len(pipe) - cut
      /\ \A i \in 1..Len(pipe) - cut : pipe'[i] = pipe[i]
  BY <1>1, <1>3
<1> DEFINE before == Lines(written, d) \o buffer
<1>6. before \in Seq(Byte) /\ before \o pipe = all
  <2>1. Lines(written, d) \o (buffer \o pipe) = SubSeq(all, 1, Len(all) - 0)
    BY <1>2, StreamFacts DEF IsStream
  <2> HIDE DEF all, d, k
  <2>2. SubSeq(all, 1, Len(all) - 0) = all
    BY <1>3, SubSeqFull
  <2>3. (Lines(written, d) \o buffer) \o pipe = Lines(written, d) \o (buffer \o pipe)
    BY <1>3, <1>4, Regroup
  <2>4. Lines(written, d) \o buffer \in Seq(Byte)
    BY <1>3, <1>4, Joining
  <2>5. QED
    BY <2>1, <2>2, <2>3, <2>4
<1> HIDE DEF before, k, d, all
<1>7. Len(all) = Len(before) + Len(pipe) /\ Len(before) \in Nat /\ Len(pipe) \in Nat
  BY <1>3, <1>6
<1>8. before \o pipe' = SubSeq(all, 1, Len(all) - cut)
  <2>1. before \o pipe' \in Seq(Byte) /\ Len(before \o pipe') = Len(all) - cut
    <3>1. before \o pipe' \in Seq(Byte) /\ Len(before \o pipe') = Len(before) + Len(pipe')
      BY <1>5, <1>6, Joining
    <3>2. cut \in Int /\ Len(pipe') = Len(pipe) - cut
      BY <1>1, <1>5
    <3> DEFINE both == before \o pipe'
    <3>3. both \in Seq(Byte) /\ Len(both) = Len(before) + Len(pipe')
      BY <3>1
    <3> HIDE DEF both
    <3>4. Len(both) = Len(all) - cut
      BY <1>7, <3>2, <3>3
    <3>5. QED
      BY <3>3, <3>4 DEF both
  <2>2. /\ SubSeq(all, 1, Len(all) - cut) \in Seq(Byte)
        /\ Len(SubSeq(all, 1, Len(all) - cut)) = Len(all) - cut
        /\ \A i \in 1..Len(all) - cut : SubSeq(all, 1, Len(all) - cut)[i] = all[i]
    BY <1>1, <1>3, <1>7
  <2>3. \A i \in 1..Len(all) - cut : (before \o pipe')[i] = all[i]
    BY <1>1, <1>5, <1>6, <1>7
  <2>4. QED
    BY <2>1, <2>2, <2>3, SeqEqual
<1>9. cut > 0 => k > 0 /\ cut <= written[k][2] + 1
  <2>1. SUFFICES ASSUME cut > 0 PROVE k > 0 /\ cut <= written[k][2] + 1
    OBVIOUS
  <2>2. Len(all) # 0
    BY <1>1, <1>7, <2>1
  <2>3. k # 0
    BY <2>2, NoLines DEF all
  <2>4. PICK j \in Nat : k = j + 1
    <3>1. k - 1 \in Nat /\ k = (k - 1) + 1
      BY <1>3, <2>3
    <3>2. QED
      BY <3>1
  <2>5. HaveLengths(written, j + 1) /\ HaveLengths(written, j) /\ k \in 1..k
    BY <1>3, <2>4 DEF HaveLengths
  <2> DEFINE line == Bytes(k, written[k][2])
             earlier == Lines(written, j)
  <2>6. all = earlier \o line /\ earlier \in Seq(Byte)
    BY <2>4, <2>5, NextLine, LinesType DEF all
  <2>7. line \in Seq(Byte) /\ Len(line) = written[k][2] + 1 /\ written[k][2] \in Nat
    BY <1>3, <2>5, LineType
  <2>8. \A m \in 1..Len(earlier) : earlier[m][1] \in 1..j
    BY <2>5, ByteOfLine
  <2> HIDE DEF line, earlier
  <2>9. Len(all) = Len(earlier) + Len(line) /\ Len(earlier) \in Nat /\ Len(line) \in Nat
        /\ \A m \in 1..Len(earlier) : all[m] = earlier[m]
    <3>1. /\ Len(earlier \o line) = Len(earlier) + Len(line)
          /\ Len(earlier) \in Nat /\ Len(line) \in Nat
          /\ \A m \in 1..Len(earlier) : (earlier \o line)[m] = earlier[m]
      BY <2>6, <2>7, Joining
    <3>2. QED
      BY <2>6, <3>1
  <2>10. SUFFICES ASSUME cut > Len(line) PROVE FALSE
    <3>1. cut <= Len(line) => cut <= written[k][2] + 1
      BY <2>7
    <3>2. k > 0
      BY <2>4
    <3>3. cut \in Nat /\ Len(line) \in Nat
      BY <1>1, <1>7, <2>9
    <3>4. QED
      BY <3>1, <3>2, <3>3
  <2>11. Len(all) - cut + 1 \in 1..Len(earlier) /\ Len(pipe) - cut + 1 \in 1..Len(pipe)
    BY <1>1, <1>7, <2>1, <2>9, <2>10
  <2>12. all[Len(all) - cut + 1] = pipe[Len(pipe) - cut + 1]
    <3>1. Len(all) - cut + 1 = Len(before) + (Len(pipe) - cut + 1)
      BY <1>1, <1>7
    <3>2. (before \o pipe)[Len(before) + (Len(pipe) - cut + 1)] = pipe[Len(pipe) - cut + 1]
      <4> DEFINE m == Len(before) + (Len(pipe) - cut + 1)
      <4>1. \A i \in 1..Len(before) + Len(pipe) : (before \o pipe)[i] =
               IF i <= Len(before) THEN before[i] ELSE pipe[i - Len(before)]
        BY <1>3, <1>6, ConcatProperties
      <4>2. /\ m \in 1..Len(before) + Len(pipe) /\ ~ (m <= Len(before))
            /\ m - Len(before) = Len(pipe) - cut + 1
        BY <1>1, <1>7, <2>11
      <4>3. QED
        BY <4>1, <4>2
    <3>3. QED
      BY <1>6, <3>1, <3>2
  <2>13. pipe[Len(pipe) - cut + 1][1] = k
    BY <1>1, <1>7, <2>1
  <2>14. all[Len(all) - cut + 1][1] \in 1..j
    BY <2>8, <2>9, <2>11
  <2>15. QED
    BY <2>4, <2>12, <2>13, <2>14
<1>10. StreamType'
  <2>1. lost' \in Nat
    BY <1>1
  <2>2. QED
    BY <1>2, <1>5, <2>1 DEF StreamInv, StreamType, HaveLengths
<1>11. CutShort'
  BY <1>1, <1>2, <1>9 DEF CutShort, k
<1>12. HowItEnded' /\ EndIsTruthful'
  <2>1. ended \notin {"partial", "exit", "clean"} /\ ~ eof
    BY <1>2 DEF StreamInv, HowItEnded
  <2>2. HowItEnded'
    BY <1>2, <2>1 DEF StreamInv, HowItEnded
  <2>3. EndIsTruthful'
    BY <1>2, <2>1 DEF StreamInv, EndIsTruthful, Payload
  <2>4. QED
    BY <2>2, <2>3
<1>13. FramesAreLines'
  <2>1. FlattenSeq([i \in DOMAIN delivered |-> Bytes(i, written[i][2])]) = Lines(written, d)
    BY <1>3, ReadIsLines
  <2>2. AllBytes' = all
    BY <1>2, <1>3, AllIsLines DEF AllBytes, all, k
  <2>3. \A i \in DOMAIN delivered : delivered[i] = i
    BY DEF StreamInv, FramesAreLines
  <2>4. QED
    BY <1>1, <1>2, <1>8, <2>1, <2>2, <2>3 DEF FramesAreLines, before
<1>14. QED
  BY <1>10, <1>11, <1>12, <1>13 DEF StreamInv

\* Kind tells envelopes apart.
LEMMA KindOf ==
    ASSUME NEW p
    PROVE  /\ Kind(p) = "malformed" <=> ~ IsEnvelope(p)
           /\ Kind(p) \in {"malformed", "request", "notification", "success_response",
                           "error_response"}
           /\ Kind(p) = "success_response" => Has(p, {"result"})
           /\ Kind(p) = "error_response" => Has(p, {"error"}) /\ ~ Has(p, {"result"})
<1>1. CASE ~ IsEnvelope(p)
  BY <1>1 DEF Kind
<1>2. CASE IsEnvelope(p) /\ Has(p, {"method", "id"})
  <2>1. ~ Has(p, {"result"}) /\ ~ Has(p, {"error"})
    BY <1>2 DEF IsEnvelope, Has
  <2>2. Has(p, {"method"}) /\ Has(p, {"id"})
    BY <1>2 DEF Has
  <2>3. QED
    BY <1>2, <2>1, <2>2 DEF Kind
<1>3. CASE IsEnvelope(p) /\ Has(p, {"method"}) /\ ~ Has(p, {"id"})
  <2>1. ~ Has(p, {"result"}) /\ ~ Has(p, {"error"}) /\ ~ Has(p, {"method", "id"})
    BY <1>3 DEF IsEnvelope, Has
  <2>2. QED
    BY <1>3, <2>1 DEF Kind
<1>4. CASE IsEnvelope(p) /\ ~ Has(p, {"method"})
  <2>1. Has(p, {"result"}) # Has(p, {"error"}) /\ ~ Has(p, {"method", "id"})
    BY <1>4 DEF IsEnvelope, Has
  <2>2. CASE Has(p, {"result"})
    BY <1>4, <2>1, <2>2 DEF Kind
  <2>3. CASE ~ Has(p, {"result"})
    <3>1. Has(p, {"error"})
      BY <2>1, <2>3 DEF Has
    <3>2. Kind(p) = "error_response"
      BY <1>4, <2>1, <2>3, <3>1 DEF Kind
    <3>3. QED
      BY <1>4, <2>3, <3>1, <3>2
  <2>4. QED
    BY <2>2, <2>3
<1>5. Has(p, {"method", "id"}) <=> Has(p, {"method"}) /\ Has(p, {"id"})
  BY DEF Has
<1>6. QED
  BY <1>1, <1>2, <1>3, <1>4, <1>5

LEMMA DispatchEnds ==
    ASSUME NEW p, Dispatch(p)
    PROVE  \/ ended' = ended
           \/ ended' = "unexpected"
           \/ ended' = "malformed" /\ ~ IsEnvelope(p)
<1>1. CASE Kind(p) = "malformed"
  BY <1>1, KindOf DEF Dispatch, Ends
<1>2. CASE Kind(p) \in {"notification", "request"}
  BY <1>2 DEF Dispatch
<1>3. CASE Kind(p) \in {"success_response", "error_response"}
  BY <1>3 DEF Dispatch, DispatchResponse, Ends
<1>4. QED
  BY <1>1, <1>2, <1>3, KindOf

\* The frame that is read is the next line, whole.
LEMMA ReadFrameIs ==
    ASSUME StreamInv, ReadFrame
    PROVE  LET n == Len(delivered) + 1
           IN  /\ n \in 1..Len(written)
               /\ buffer = Bytes(n, written[n][2]) \o buffer' /\ buffer' \in Seq(Byte)
               /\ delivered' = Append(delivered, n)
               /\ Dispatch(written[n][1])
               /\ UNCHANGED <<script, done, written, lost, exit, pipe, eof, calls>>
               /\ ended = None
<1> DEFINE n == Len(delivered) + 1
           newline == CHOOSE i \in Newline(buffer) : \A j \in Newline(buffer) : i <= j
<1>1. /\ ended = None /\ Newline(buffer) # {}
      /\ buffer' = SubSeq(buffer, newline + 1, Len(buffer))
      /\ delivered' = Append(delivered, Decoded(SubSeq(buffer, 1, newline)))
      /\ Dispatch(Payload(Decoded(SubSeq(buffer, 1, newline))))
      /\ UNCHANGED <<script, done, written, lost, exit, pipe, eof, calls>>
  BY DEF ReadFrame, server
<1>2. buffer \in Seq(Byte)
  BY DEF StreamInv, StreamType
<1>3. newline \in Newline(buffer) /\ \A j \in Newline(buffer) : newline <= j
  <2>1. Newline(buffer) \subseteq Nat
    BY <1>2 DEF Newline
  <2>2. \E i \in Newline(buffer) : \A j \in Newline(buffer) : i <= j
    BY <1>1, <2>1, LeastOf
  <2>3. QED
    BY <2>2
<1> HIDE DEF newline
<1>4. /\ n \in 1..Len(written)
      /\ newline = written[n][2] + 1 /\ newline \in 1..Len(buffer)
      /\ SubSeq(buffer, 1, newline) = Bytes(n, written[n][2])
      /\ Decoded(SubSeq(buffer, 1, newline)) = n
  BY <1>3, FrameIsLine
<1>5. Payload(n) = written[n][1]
  BY <1>4 DEF Payload
<1>6. buffer' \in Seq(Byte) /\ SubSeq(buffer, 1, newline) \o buffer' = buffer
  <2>1. SubSeq(buffer, newline + 1, Len(buffer)) \in Seq(Byte)
    BY <1>2, <1>4
  <2>2. /\ 1 \in 1..Len(buffer) + 1 /\ newline \in 1 - 1..Len(buffer)
        /\ Len(buffer) \in newline..Len(buffer)
    BY <1>2, <1>4
  <2>3. SubSeq(buffer, 1, newline) \o SubSeq(buffer, newline + 1, Len(buffer))
          = SubSeq(buffer, 1, Len(buffer))
    BY <1>2, <2>2, ConcatAdjacentSubSeq
  <2>4. SubSeq(buffer, 1, Len(buffer)) = buffer
    BY <1>2, SubSeqFull
  <2>5. QED
    BY <1>1, <2>1, <2>3, <2>4
<1>7. QED
  BY <1>1, <1>4, <1>5, <1>6

LEMMA ReadFrameStep ==
    ASSUME WireAssumption, StreamInv, ReadFrame
    PROVE  StreamInv'
<1> DEFINE d == Len(delivered)
           line == Bytes(d + 1, written[d + 1][2])
<1>1. /\ d + 1 \in 1..Len(written)
      /\ buffer = line \o buffer' /\ buffer' \in Seq(Byte)
      /\ delivered' = Append(delivered, d + 1)
      /\ Dispatch(written[d + 1][1])
      /\ UNCHANGED <<script, done, written, lost, exit, pipe, eof>>
      /\ ended = None
  BY ReadFrameIs
<1>2. /\ pipe \in Seq(Byte) /\ d \in Nat /\ DOMAIN delivered = 1..d
      /\ DOMAIN written = 1..Len(written) /\ Len(written) \in Nat
      /\ HaveLengths(written, Len(written)) /\ delivered \in Seq(Nat)
  BY StreamFacts DEF StreamInv, StreamType
<1>3. /\ delivered' \in Seq(Nat) /\ Len(delivered') = d + 1 /\ DOMAIN delivered' = 1..d + 1
      /\ delivered'[d + 1] = d + 1 /\ \A i \in 1..d : delivered'[i] = delivered[i]
  BY <1>1, <1>2
<1>4. StreamType' /\ CutShort'
  <2>1. /\ written' \in Seq({written'[n] : n \in DOMAIN written'})
        /\ HaveLengths(written', Len(written')) /\ lost' \in Nat /\ CutShort'
        /\ script' \in Scripts /\ done' \in Nat
    BY <1>1, WrittenKept
  <2>2. pipe' \in Seq(Byte) /\ Len(delivered') <= Len(written')
    BY <1>1, <1>2, <1>3
  <2>3. QED
    BY <1>1, <1>3, <2>1, <2>2 DEF StreamType
<1>5. /\ ended' \in {None, "unexpected", "malformed"}
      /\ ended' = "malformed" => ~ IsEnvelope(written[d + 1][1])
  <2>1. \/ ended' = ended
        \/ ended' = "unexpected"
        \/ ended' = "malformed" /\ ~ IsEnvelope(written[d + 1][1])
    BY <1>1, DispatchEnds
  <2>2. QED
    BY <1>1, <2>1 DEF WireAssumption, Endings
<1>6. HowItEnded'
  <2>1. delivered' # <<>>
    BY <1>3, <1>2
  <2>2. ended' \notin {"partial", "exit", "clean", "oversize"}
    BY <1>5 DEF WireAssumption, Endings
  <2>3. QED
    BY <1>1, <2>1, <2>2 DEF StreamInv, HowItEnded
<1>7. EndIsTruthful'
  <2>1. ended' \notin {"partial", "exit", "clean", "oversize"}
    BY <1>5 DEF WireAssumption, Endings
  <2>2. Payload(Last(delivered))' = written[d + 1][1]
    BY <1>1, <1>2, <1>3 DEF Payload, Last
  <2>3. QED
    BY <1>5, <2>1, <2>2 DEF EndIsTruthful
<1>8. FramesAreLines'
  <2>1. FlattenSeq([i \in DOMAIN delivered' |-> Bytes(i, written'[i][2])])
          = Lines(written, d + 1)
    <3>1. FlattenSeq([i \in DOMAIN delivered' |-> Bytes(i, written[i][2])])
            = Lines(written, d + 1)
      BY <1>3, ReadIsLines
    <3>2. written' = written
      BY <1>1
    <3>3. QED
      BY <3>1, <3>2
  <2>2. AllBytes' = Lines(written, Len(written))
    BY <1>1, WrittenKept
  <2>3. Lines(written, d) \o (buffer \o pipe)
          = SubSeq(Lines(written, Len(written)), 1, Len(Lines(written, Len(written))) - lost)
    BY StreamFacts DEF IsStream
  <2>4. HaveLengths(written, d + 1) /\ HaveLengths(written, d)
    BY <1>1, <1>2 DEF HaveLengths
  <2>5. Lines(written, d + 1) = Lines(written, d) \o line
    BY <1>2, <2>4, NextLine
  <2>6. Lines(written, d) \in Seq(Byte) /\ line \in Seq(Byte)
    BY <1>1, <1>2, <2>4, LinesType, LineType
  <2>7. ((Lines(written, d) \o line) \o buffer') \o pipe
          = Lines(written, d) \o ((line \o buffer') \o pipe)
    <3> DEFINE a == Lines(written, d)
               b == buffer'
    <3>1. a \in Seq(Byte) /\ line \in Seq(Byte) /\ b \in Seq(Byte) /\ pipe \in Seq(Byte)
      BY <1>1, <1>2, <2>6
    <3> HIDE DEF a, b, line
    <3>2. ((a \o line) \o b) \o pipe = a \o ((line \o b) \o pipe)
      BY <3>1
    <3>3. QED
      BY <3>2 DEF a, b
  <2>8. \A i \in DOMAIN delivered' : delivered'[i] = i
    <3>1. \A i \in DOMAIN delivered : delivered[i] = i
      BY DEF StreamInv, FramesAreLines
    <3>2. QED
      BY <1>2, <1>3, <3>1
  <2> HIDE DEF d, line
  <2>9. Lines(written, d + 1) \o buffer' \o pipe
          = SubSeq(Lines(written, Len(written)), 1, Len(Lines(written, Len(written))) - lost)
    BY <1>1, <2>3, <2>5, <2>7
  <2>10. QED
    BY <1>1, <2>1, <2>2, <2>8, <2>9 DEF FramesAreLines
<1>9. QED
  BY <1>4, <1>6, <1>7, <1>8 DEF StreamInv

LEMMA ReadEndStep ==
    ASSUME WireAssumption, StreamInv, ReadEnd
    PROVE  StreamInv'
<1> DEFINE d == Len(delivered)
           k == Len(written)
<1>1. /\ ended = None /\ Newline(buffer) = {} /\ eof
      /\ ended' = IF buffer # <<>> THEN "partial" ELSE IF exit # 0 THEN "exit" ELSE "clean"
      /\ UNCHANGED <<server, stdin, pipe, buffer, eof, delivered, calls>>
  BY DEF ReadEnd, Ends
<1>2. StreamType' /\ CutShort' /\ HowItEnded'
  BY <1>1 DEF server, StreamInv, StreamType, HaveLengths, CutShort, HowItEnded
<1>3. FramesAreLines'
  BY <1>1 DEF server, StreamInv, FramesAreLines, AllBytes
<1>4. /\ pipe = <<>> /\ buffer \in Seq(Byte) /\ k \in Nat /\ d \in 0..k
      /\ HaveLengths(written, k) /\ Lines(written, k) \in Seq(Byte)
      /\ lost \in 0..Len(Lines(written, k))
  BY <1>1, StreamFacts, LostFits DEF StreamInv, StreamType, HowItEnded
<1>5. Lines(written, d) \in Seq(Byte)
  <2>1. HaveLengths(written, d)
    BY <1>4 DEF HaveLengths
  <2>2. QED
    BY <1>4, <2>1, LinesType
<1>6. Len(Lines(written, d)) + Len(buffer) = Len(Lines(written, k)) - lost
  <2>1. Lines(written, d) \o (buffer \o pipe)
          = SubSeq(Lines(written, k), 1, Len(Lines(written, k)) - lost)
    BY StreamFacts DEF IsStream
  <2> HIDE DEF d, k
  <2>2. buffer \o pipe = buffer
    BY <1>4
  <2>3. Len(Lines(written, d) \o buffer) = Len(Lines(written, d)) + Len(buffer)
    BY <1>4, <1>5, Joining
  <2>4. Len(SubSeq(Lines(written, k), 1, Len(Lines(written, k)) - lost))
          = Len(Lines(written, k)) - lost
    BY <1>4
  <2>5. QED
    BY <2>1, <2>2, <2>3, <2>4
<1>7. Len(Lines(written, d)) \in Nat /\ Len(Lines(written, k)) \in Nat /\ Len(buffer) \in Nat
  BY <1>4, <1>5
<1>8. ASSUME buffer # <<>> PROVE lost > 0
  <2>1. d + 1 \in 1..k /\ Len(buffer) <= written[d + 1][2]
    BY <1>1, <1>8, NoFrameYet
  <2>2. HaveLengths(written, d + 1) /\ d + 1 \in 1..d + 1 /\ d + 1 \in Nat /\ d + 1 <= k
    BY <1>4, <2>1 DEF HaveLengths
  <2>3. Lines(written, d + 1) = Lines(written, d) \o Bytes(d + 1, written[d + 1][2])
    BY <1>4, <2>2, NextLine
  <2>4. /\ Bytes(d + 1, written[d + 1][2]) \in Seq(Byte)
        /\ Len(Bytes(d + 1, written[d + 1][2])) = written[d + 1][2] + 1
        /\ written[d + 1][2] \in Nat
    BY <2>2, LineType
  <2>5. Len(Lines(written, d + 1)) = Len(Lines(written, d)) + Len(Bytes(d + 1, written[d + 1][2]))
    BY <1>5, <2>3, <2>4, Joining
  <2>6. Len(Lines(written, d + 1)) <= Len(Lines(written, k))
    BY <1>4, <2>2, LinesGrow
  <2>7. Len(Lines(written, d + 1)) > Len(Lines(written, d)) + Len(buffer)
    <3> HIDE DEF d, k
    <3>1. QED
      BY <1>7, <2>1, <2>4, <2>5
  <2> HIDE DEF d, k
  <2>8. Len(Lines(written, k)) > Len(Lines(written, d)) + Len(buffer)
    BY <1>7, <2>4, <2>5, <2>6, <2>7
  <2>9. QED
    BY <1>4, <1>6, <1>7, <2>8
<1>9. ASSUME buffer = <<>> PROVE d = k - (IF lost > 0 THEN 1 ELSE 0)
  <2>1. Len(buffer) = 0
    BY <1>9
  <2>2. Len(Lines(written, d)) = Len(Lines(written, k)) - lost
    <3> HIDE DEF d, k
    <3>1. QED
      BY <1>4, <1>6, <1>7, <2>1
  <2>3. CASE lost = 0
    <3>1. d \in Nat /\ d <= k
      BY <1>4
    <3>2. d < k => Len(Lines(written, d)) < Len(Lines(written, k))
      BY <1>4, <3>1, LinesGrow
    <3> HIDE DEF d, k
    <3>3. QED
      BY <1>4, <1>7, <2>2, <2>3, <3>1, <3>2
  <2>4. CASE lost # 0
    <3>1. lost > 0 /\ k > 0 /\ Len(Lines(written, k - 1)) <= Len(Lines(written, k)) - lost
      BY <1>4, <2>4, LostFits
    <3>2. k - 1 \in Nat /\ d \in Nat /\ HaveLengths(written, k - 1) /\ k # d
      <4>1. k - 1 \in Nat /\ d \in Nat
        BY <1>4, <3>1
      <4>2. HaveLengths(written, k - 1)
        BY <1>4, <3>1 DEF HaveLengths
      <4>3. k # d
        <5> HIDE DEF d, k
        <5>1. QED
          BY <1>4, <1>7, <2>2, <3>1
      <4>4. QED
        BY <4>1, <4>2, <4>3
    <3>3. ASSUME d < k - 1 PROVE FALSE
      <4>1. Len(Lines(written, d)) < Len(Lines(written, k - 1))
        BY <3>2, <3>3, LinesGrow
      <4>2. Len(Lines(written, k - 1)) \in Nat
        BY <3>2, LinesType, LenProperties
      <4> HIDE DEF d, k
      <4>3. QED
        BY <1>4, <1>7, <2>2, <3>1, <4>1, <4>2
    <3> HIDE DEF d, k
    <3>4. QED
      BY <1>4, <2>4, <3>1, <3>2, <3>3
  <2>5. QED
    BY <2>3, <2>4
<1>10. EndIsTruthful'
  <2>1. CASE buffer # <<>>
    BY <1>1, <1>8, <2>1 DEF server, EndIsTruthful
  <2>2. CASE buffer = <<>>
    <3>1. ended' = IF exit # 0 THEN "exit" ELSE "clean"
      BY <1>1, <2>2
    <3>2. Len(delivered') = Len(written') - (IF lost' > 0 THEN 1 ELSE 0)
      BY <1>1, <1>9, <2>2 DEF server
    <3>3. buffer' = <<>> /\ exit' = exit
      BY <1>1, <2>2 DEF server
    <3>4. QED
      BY <3>1, <3>2, <3>3 DEF EndIsTruthful
  <2>3. QED
    BY <2>1, <2>2
<1>11. QED
  BY <1>2, <1>3, <1>10 DEF StreamInv

LEMMA StepLength ==
    ASSUME ScriptAssumption, StreamInv,
           \E action \in {"send_response", "send_notification", "send_server_request",
                          "emit_raw"} : Due(action)
    PROVE  Step.length \in Nat
<1>1. script \in Scripts /\ done \in Nat /\ done < Len(script)
      /\ Step.action \in {"send_response", "send_notification", "send_server_request", "emit_raw"}
  BY DEF StreamInv, StreamType, Due, Step
<1>2. script \in Seq({script[n] : n \in DOMAIN script})
  BY <1>1 DEF ScriptAssumption
<1>3. done + 1 \in DOMAIN script
  BY <1>1, <1>2
<1>4. QED
  BY <1>1, <1>3 DEF ScriptAssumption, Step

LEMMA ServerStep ==
    ASSUME ScriptAssumption, WireAssumption, StreamInv, ServerNext, UNCHANGED client
    PROVE  StreamInv'
<1> USE DEF client
<1>1. CASE ServeExpectRequest \/ ServeExpectNotification \/ ServeExpectResponse
  <2>1. /\ exit = None
        /\ UNCHANGED <<script, written, pipe, lost, buffer, eof, delivered, ended>>
        /\ done' \in {done, done + 1}
    BY <1>1 DEF ServeExpectRequest, ServeExpectNotification, ServeExpectResponse, Expects, Due,
                Advance, Exits
  <2>2. QED
    BY <2>1, QuietSteps DEF StreamInv, StreamType
<1>2. CASE ExpectationFails \/ ServeClose \/ ScriptEnds
  <2>1. /\ exit = None
        /\ UNCHANGED <<script, done, written, pipe, lost, buffer, eof, delivered, ended>>
    BY <1>2 DEF ExpectationFails, ServeClose, ScriptEnds, Due, Exits
  <2>2. QED
    BY <2>1, QuietSteps DEF StreamInv, StreamType
<1>3. CASE ServeSendResponse
  <2>1. Due("send_response") /\ exit = None
    BY <1>3 DEF ServeSendResponse, Due
  <2>2. Step.length \in Nat
    BY <2>1, StepLength
  <2>3. CASE \E code : Exits(code)
    <3>1. UNCHANGED <<script, done, written, pipe, lost, buffer, eof, delivered, ended>>
      BY <2>3 DEF Exits
    <3>2. QED
      BY <2>1, <3>1, QuietSteps DEF StreamInv, StreamType
  <2>4. CASE \E payload : Writes(payload, Step.length) /\ Advance
    BY <2>1, <2>2, <2>4, WritesStep
  <2>5. QED
    BY <1>3, <2>3, <2>4 DEF ServeSendResponse
<1>4. CASE ServeSendNotification \/ ServeSendServerRequest \/ ServeEmitRaw
  <2>1. /\ \E action \in {"send_notification", "send_server_request", "emit_raw"} : Due(action)
        /\ \E payload : Writes(payload, Step.length) /\ Advance
    BY <1>4 DEF ServeSendNotification, ServeSendServerRequest, ServeEmitRaw
  <2>2. Step.length \in Nat /\ exit = None
    BY <2>1, StepLength DEF Due
  <2>3. QED
    BY <2>1, <2>2, WritesStep
<1>5. CASE Killed
  BY <1>5, KilledStep
<1>6. QED
  BY <1>1, <1>2, <1>3, <1>4, <1>5 DEF ServerNext

LEMMA StreamNext ==
    ASSUME ScriptAssumption, WireAssumption, StreamInv, [WireNext]_wireVars
    PROVE  StreamInv'
<1>1. ASSUME NEW c \in Callers, Call(c) \/ Retry(c) \/ RetryFindsItClosed(c)
      PROVE  StreamInv'
  <2>1. UNCHANGED <<server, pipe, buffer, eof, delivered, ended>>
    BY <1>1 DEF Call, Retry, Attempt, RetryFindsItClosed
  <2>2. QED
    BY <2>1, QuietSteps DEF server, StreamInv, StreamType
<1>2. CASE Initialized
  <2>1. UNCHANGED <<server, pipe, buffer, eof, delivered, ended>>
    BY <1>2 DEF Initialized
  <2>2. QED
    BY <2>1, QuietSteps DEF server, StreamInv, StreamType
<1>3. CASE ReadFrame
  BY <1>3, ReadFrameStep
<1>4. CASE ReadChunk
  BY <1>4, ReadChunkStep
<1>5. CASE ReadEof
  BY <1>5, ReadEofStep
<1>6. CASE ReadEnd
  BY <1>6, ReadEndStep
<1>7. CASE CloseConnection
  <2>1. UNCHANGED <<server, pipe, buffer, eof, delivered>> /\ ended' = "closed"
    BY <1>7 DEF CloseConnection, Ends
  <2>2. QED
    BY <2>1, QuietSteps DEF server, StreamInv, StreamType
<1>8. ASSUME NEW p \in approvals, Approve(p)
      PROVE  StreamInv'
  <2>1. UNCHANGED <<server, pipe, buffer, eof, delivered, ended>>
    BY <1>8 DEF Approve
  <2>2. QED
    BY <2>1, QuietSteps DEF server, StreamInv, StreamType
<1>9. CASE ServerNext /\ UNCHANGED client
  BY <1>9, ServerStep
<1>10. CASE UNCHANGED wireVars
  <2>1. UNCHANGED <<server, pipe, buffer, eof, delivered, ended>>
    BY <1>10 DEF wireVars, client
  <2>2. QED
    BY <2>1, QuietSteps DEF server, StreamInv, StreamType
<1>11. QED
  BY <1>1, <1>2, <1>3, <1>4, <1>5, <1>6, <1>7, <1>8, <1>9, <1>10 DEF WireNext

LEMMA StreamInvariant == WireSpec => []StreamInv
<1>1. WireInit => StreamInv
  BY StreamInit, WireAssumption
<1>2. StreamInv /\ [WireNext]_wireVars => StreamInv'
  BY StreamNext, ScriptAssumption, WireAssumption
<1>3. QED
  BY <1>1, <1>2, PTL DEF WireSpec
-----------------------------------------------------------------------------
(* The inductive invariant of the callers *)

\* How a caller stands before it has its answer, or after one that is no error of
\* the server's.
Standings == {"idle", "waiting", "sleeping", "closed", "ok", "ResponseValidation"}

CallerType ==
    /\ calls \in Seq(Callers \cup {None})
    /\ caller \in [Callers -> Standings \cup ErrorTypes]

IsResponse(p) == Kind(p) \in {"success_response", "error_response"}

\* As long as the connection goes on, every answer was to a request.
AnswersAreToCalls ==
    ended = None =>
        \A i \in DOMAIN delivered : IsResponse(written[i][1]) =>
            \E n \in DOMAIN calls : calls[n] # None /\ written[i][1].id = <<"int", n>>

\* Where a caller stands is where its last request stands.
Stands(c) ==
    /\ Cardinality(Mine(c)) <= MaxAttempts
    /\ \A n \in Mine(c) : n # LastOf(c) => TurnedAway(n)
    /\ (caller[c] = "idle") = (Mine(c) = {})
    /\ caller[c] = "waiting" => Answers(LastOf(c)) = {}
    /\ caller[c] = "closed" => ended # None
    /\ caller[c] = "sleeping" => TurnedAway(LastOf(c)) /\ Cardinality(Mine(c)) < MaxAttempts
    /\ caller[c] \in {"ok", "ResponseValidation"} => ToldTheResult(c)
    /\ caller[c] \in ErrorTypes =>
          \/ ToldTheError(c) /\ caller[c] # "RetryableOverload"
          \/ /\ caller[c] = "RetryBudgetExceeded"
             /\ Cardinality(Mine(c)) = MaxAttempts /\ TurnedAway(LastOf(c))

CallersInv == CallerType /\ AnswersAreToCalls /\ \A c \in Callers : Stands(c)

ConversationInv == StreamInv /\ CallersInv

-----------------------------------------------------------------------------
(* The requests of a caller *)

LEMMA GreatestOf ==
    ASSUME NEW k \in Nat, NEW T \in SUBSET (1..k), T # {}
    PROVE  \E x \in T : \A y \in T : y <= x
<1> DEFINE S == {k - x : x \in T}
<1>1. S \in SUBSET Nat /\ S # {}
  <2>1. \A x \in T : k - x \in Nat
    OBVIOUS
  <2>2. QED
    BY <2>1
<1>2. PICK s \in S : \A r \in S : s <= r
  <2> HIDE DEF S
  <2>1. QED
    BY <1>1, LeastOf
<1>3. PICK x \in T : s = k - x
  BY <1>2
<1>4. ASSUME NEW y \in T PROVE y <= x
  <2>1. s <= k - y
    BY <1>2
  <2>2. QED
    BY <1>3, <2>1
<1>5. QED
  BY <1>4

LEMMA GreatestIs ==
    ASSUME NEW T \in SUBSET Nat, NEW x \in T, \A y \in T : y <= x
    PROVE  (CHOOSE n \in T : \A m \in T : m <= n) = x
<1> DEFINE z == CHOOSE n \in T : \A m \in T : m <= n
<1>1. z \in T /\ \A m \in T : m <= z
  OBVIOUS
<1> HIDE DEF z
<1>2. z <= x /\ x <= z /\ x \in Nat /\ z \in Nat
  BY <1>1
<1>3. z = x
  BY <1>2
<1>4. QED
  BY <1>3 DEF z

LEMMA LastOfMine ==
    ASSUME CallerType, NEW c \in Callers
    PROVE  /\ Mine(c) \in SUBSET (1..Len(calls)) /\ IsFiniteSet(Mine(c))
           /\ Len(calls) \in Nat /\ DOMAIN calls = 1..Len(calls)
           /\ Mine(c) # {} => LastOf(c) \in Mine(c) /\ \A m \in Mine(c) : m <= LastOf(c)
<1>1. Len(calls) \in Nat /\ DOMAIN calls = 1..Len(calls)
  BY DEF CallerType
<1>2. Mine(c) \in SUBSET (1..Len(calls))
  BY <1>1 DEF Mine
<1>3. IsFiniteSet(Mine(c))
  <2>1. IsFiniteSet(1..Len(calls))
    BY <1>1, FS_Interval
  <2>2. QED
    BY <1>2, <2>1, FS_Subset
<1>4. ASSUME Mine(c) # {} PROVE LastOf(c) \in Mine(c) /\ \A m \in Mine(c) : m <= LastOf(c)
  <2>1. \E x \in Mine(c) : \A y \in Mine(c) : y <= x
    BY <1>1, <1>2, <1>4, GreatestOf
  <2>2. QED
    BY <2>1 DEF LastOf
<1>5. QED
  BY <1>1, <1>2, <1>3, <1>4

\* A caller that is not told anything stands where it stood.
LEMMA StandsKept ==
    ASSUME CallerType, NEW c \in Callers, Stands(c), Mine(c)' = Mine(c),
           \A n \in Mine(c) : Answers(n) # {} => Answers(n)' # {} /\ Answer(n)' = Answer(n),
           ended' = ended \/ ended' # None,
           \/ caller'[c] = caller[c] /\ (caller[c] = "waiting" =>
                                            Answers(LastOf(c))' = {})
           \/ caller[c] = "waiting" /\ caller'[c] = "closed" /\ ended' # None
    PROVE  Stands(c)'
<1>1. LastOf(c)' = LastOf(c)
  BY DEF LastOf
<1>2. \A n \in Mine(c) : TurnedAway(n) => TurnedAway(n)'
  BY DEF TurnedAway
<1>3. QED
  BY <1>1, <1>2, LastOfMine DEF Stands, ToldTheResult, ToldTheError, ErrorTypes

\* The client's steps and the server's leave what was delivered as it was.
LEMMA SameAnswers ==
    ASSUME StreamInv, delivered' = delivered,
           \A i \in 1..Len(written) : written'[i] = written[i]
    PROVE  /\ \A n : Answers(n)' = Answers(n)
           /\ \A n : Answers(n) # {} => Answer(n)' = Answer(n)
           /\ \A i \in DOMAIN delivered : written'[i] = written[i]
<1>1. \A i \in DOMAIN delivered : i \in 1..Len(written)
  BY StreamFacts
<1>2. \A n : Answers(n)' = Answers(n)
  BY <1>1 DEF Answers
<1>3. ASSUME NEW n, Answers(n) # {} PROVE Answer(n)' = Answer(n)
  <2> DEFINE first == CHOOSE i \in Answers(n) : \A j \in Answers(n) : i <= j
  <2>1. Answers(n) \in SUBSET Nat
    BY StreamFacts DEF Answers
  <2>2. first \in Answers(n)
    BY <1>3, <2>1, LeastOf
  <2>3. first \in DOMAIN delivered
    BY <2>2 DEF Answers
  <2>4. QED
    BY <1>1, <1>2, <2>3 DEF Answer
<1>4. QED
  BY <1>1, <1>2, <1>3

\* Nothing is told and nothing requested.
LEMMA CallersKept ==
    ASSUME ConversationInv, UNCHANGED <<calls, delivered>>,
           \A i \in 1..Len(written) : written'[i] = written[i],
           \/ ended' = ended /\ caller' = caller
           \/ /\ ended' \in Endings
              /\ caller' = [c \in Callers |-> IF caller[c] = "waiting" THEN "closed" ELSE caller[c]],
           None \notin Endings
    PROVE  CallersInv'
<1>1. CallerType'
  BY DEF ConversationInv, CallersInv, CallerType, Standings
<1>2. AnswersAreToCalls'
  <2>1. \A i \in DOMAIN delivered : written'[i] = written[i]
    BY SameAnswers DEF ConversationInv
  <2>2. QED
    BY <2>1 DEF ConversationInv, CallersInv, AnswersAreToCalls
<1>3. ASSUME NEW c \in Callers PROVE Stands(c)'
  <2>1. /\ Mine(c)' = Mine(c) /\ LastOf(c)' = LastOf(c)
        /\ \A n : Answers(n)' = Answers(n)
        /\ \A n : Answers(n) # {} => Answer(n)' = Answer(n)
    BY SameAnswers DEF ConversationInv, Mine, LastOf
  <2>2. CallerType /\ Stands(c)
    BY DEF ConversationInv, CallersInv
  <2>3. Answers(LastOf(c))' = Answers(LastOf(c))
    BY <2>1
  <2>4. caller[c] = "waiting" => Answers(LastOf(c)) = {}
    BY <2>2 DEF Stands
  <2>5. ended' = ended \/ ended' # None
    OBVIOUS
  <2>6. \/ caller'[c] = caller[c] /\ (caller[c] = "waiting" => Answers(LastOf(c))' = {})
        \/ caller[c] = "waiting" /\ caller'[c] = "closed" /\ ended' # None
    BY <2>3, <2>4
  <2>7. QED
    BY <2>1, <2>2, <2>5, <2>6, StandsKept
<1>4. QED
  BY <1>1, <1>2, <1>3 DEF CallersInv

LEMMA CallersInit == WireAssumption /\ WireInit => CallersInv
<1> SUFFICES ASSUME WireAssumption, WireInit PROVE CallersInv
  OBVIOUS
<1>1. calls = <<>> /\ delivered = <<>> /\ caller = [c \in Callers |-> "idle"] /\ ended = None
  BY DEF WireInit
<1>2. CallerType /\ AnswersAreToCalls
  BY <1>1 DEF CallerType, AnswersAreToCalls, Standings
<1>3. ASSUME NEW c \in Callers PROVE Stands(c)
  <2>1. Mine(c) = {}
    BY <1>1 DEF Mine
  <2>2. Cardinality(Mine(c)) = 0
    BY <2>1, FS_EmptySet
  <2>3. QED
    BY <1>1, <2>1, <2>2 DEF Stands, WireAssumption, ErrorTypes
<1>4. QED
  BY <1>2, <1>3 DEF CallersInv

\* A first attempt, or the next one after an overload.
LEMMA AttemptStep ==
    ASSUME WireAssumption, ConversationInv, NEW c \in Callers, Call(c) \/ Retry(c)
    PROVE  CallersInv'
<1> DEFINE k == Len(calls) + 1
<1>1. /\ ended = None /\ caller[c] \in {"idle", "sleeping"}
      /\ calls' = Append(calls, c) /\ caller' = [caller EXCEPT ![c] = "waiting"]
      /\ UNCHANGED <<written, delivered, ended>>
  BY DEF Call, Retry, Attempt, server
<1>2. /\ calls \in Seq(Callers \cup {None}) /\ caller \in [Callers -> Standings \cup ErrorTypes]
      /\ Len(calls) \in Nat /\ DOMAIN calls = 1..Len(calls) /\ None \notin Callers
  BY LastOfMine DEF ConversationInv, CallersInv, CallerType, WireAssumption
<1>3. /\ Len(calls') = k /\ DOMAIN calls' = 1..k /\ calls'[k] = c
      /\ \A n \in 1..Len(calls) : calls'[n] = calls[n]
      /\ calls' \in Seq(Callers \cup {None})
  BY <1>1, <1>2, AppendProperties
<1>4. CallerType'
  BY <1>1, <1>2, <1>3 DEF CallerType, Standings
<1>5. /\ \A n : Answers(n)' = Answers(n)
      /\ \A n : Answers(n) # {} => Answer(n)' = Answer(n)
  BY <1>1, SameAnswers DEF ConversationInv
<1>6. AnswersAreToCalls'
  BY <1>1, <1>2, <1>3 DEF ConversationInv, CallersInv, AnswersAreToCalls
<1>7. ASSUME NEW b \in Callers, b # c PROVE Stands(b)'
  <2>1. Mine(b)' = Mine(b) /\ caller'[b] = caller[b]
    BY <1>1, <1>2, <1>3, <1>7 DEF Mine
  <2>2. LastOf(b)' = LastOf(b)
    BY <2>1 DEF LastOf
  <2>3. CallerType /\ Stands(b)
    BY DEF ConversationInv, CallersInv
  <2>4. caller[b] = "waiting" => Answers(LastOf(b))' = {}
    BY <1>5, <2>2, <2>3 DEF Stands
  <2>5. QED
    BY <1>1, <1>5, <2>1, <2>3, <2>4, StandsKept
<1>8. Stands(c)'
  <2>1. CallerType /\ Stands(c)
    BY DEF ConversationInv, CallersInv
  <2>2. Mine(c)' = Mine(c) \cup {k} /\ k \notin Mine(c)
    BY <1>2, <1>3 DEF Mine
  <2>3. Mine(c) \in SUBSET (1..Len(calls)) /\ IsFiniteSet(Mine(c))
    BY <2>1, LastOfMine
  <2>4. LastOf(c)' = k
    <3>1. Mine(c) \cup {k} \in SUBSET Nat /\ \A y \in Mine(c) \cup {k} : y <= k
      BY <1>2, <2>3
    <3>2. (CHOOSE n \in Mine(c) \cup {k} : \A m \in Mine(c) \cup {k} : m <= n) = k
      BY <3>1, GreatestIs
    <3>3. QED
      BY <2>2, <3>2 DEF LastOf
  <2>5. Cardinality(Mine(c)') = Cardinality(Mine(c)) + 1 /\ Cardinality(Mine(c)) \in Nat
    BY <2>2, <2>3, FS_AddElement, FS_CardinalityType
  <2>6. Answers(k) = {}
    <3>1. SUFFICES ASSUME NEW i \in Answers(k) PROVE FALSE
      OBVIOUS
    <3>2. i \in DOMAIN delivered /\ IsResponse(written[i][1]) /\ written[i][1].id = <<"int", k>>
      BY DEF Answers, IsResponse
    <3>3. PICK n \in DOMAIN calls : written[i][1].id = <<"int", n>>
      BY <1>1, <3>2 DEF ConversationInv, CallersInv, AnswersAreToCalls
    <3>4. n = k
      BY <3>2, <3>3
    <3>5. QED
      BY <1>2, <3>3, <3>4
  <2>7. Cardinality(Mine(c)) < MaxAttempts
    <3>1. CASE caller[c] = "idle"
      BY <2>1, <3>1, FS_EmptySet DEF Stands, WireAssumption
    <3>2. CASE caller[c] = "sleeping"
      BY <2>1, <3>2 DEF Stands
    <3>3. QED
      BY <1>1, <3>1, <3>2
  <2>8. \A n \in Mine(c) : TurnedAway(n)
    BY <1>1, <2>1 DEF Stands
  <2>9. \A n \in Mine(c) : TurnedAway(n)'
    BY <1>5, <2>8 DEF TurnedAway
  <2>10. caller'[c] = "waiting" /\ Answers(LastOf(c))' = {}
    BY <1>1, <1>2, <1>5, <2>4, <2>6
  <2>11. Cardinality(Mine(c)') <= MaxAttempts /\ Mine(c)' # {}
    BY <2>2, <2>5, <2>7 DEF WireAssumption
  <2>12. \A n \in Mine(c)' : n # LastOf(c)' => TurnedAway(n)'
    BY <2>2, <2>4, <2>9
  <2>13. QED
    BY <2>10, <2>11, <2>12 DEF Stands, ErrorTypes
<1>9. QED
  BY <1>4, <1>6, <1>7, <1>8 DEF CallersInv

LEMMA InitializedStep ==
    ASSUME WireAssumption, ConversationInv, Initialized
    PROVE  CallersInv'
<1>1. /\ ended = None /\ calls = <<>> /\ calls' = <<None>>
      /\ UNCHANGED <<written, delivered, ended, caller>>
  BY DEF Initialized, server
<1>2. CallerType'
  BY <1>1 DEF ConversationInv, CallersInv, CallerType
<1>3. AnswersAreToCalls'
  BY <1>1 DEF ConversationInv, CallersInv, AnswersAreToCalls
<1>4. ASSUME NEW c \in Callers PROVE Stands(c)'
  <2>1. CallerType /\ Stands(c)
    BY DEF ConversationInv, CallersInv
  <2>2. Mine(c) = {} /\ Mine(c)' = {}
    BY <1>1 DEF Mine, WireAssumption
  <2>3. caller[c] # "waiting"
    BY <2>1, <2>2 DEF Stands
  <2>4. QED
    BY <1>1, <2>1, <2>2, <2>3, StandsKept
<1>5. QED
  BY <1>2, <1>3, <1>4 DEF CallersInv

LEMMA RetryFindsItClosedStep ==
    ASSUME ConversationInv, NEW c \in Callers, RetryFindsItClosed(c)
    PROVE  CallersInv'
<1>1. /\ ended # None /\ caller[c] = "sleeping" /\ caller' = [caller EXCEPT ![c] = "closed"]
      /\ UNCHANGED <<written, delivered, ended, calls>>
  BY DEF RetryFindsItClosed, server
<1>2. CallerType /\ AnswersAreToCalls
  BY DEF ConversationInv, CallersInv
<1>3. CallerType'
  BY <1>1, <1>2 DEF CallerType, Standings
<1>4. AnswersAreToCalls'
  BY <1>1, <1>2 DEF AnswersAreToCalls
<1>5. ASSUME NEW b \in Callers PROVE Stands(b)'
  <2>1. /\ Mine(b)' = Mine(b) /\ LastOf(b)' = LastOf(b) /\ Stands(b)
        /\ \A n : Answers(n)' = Answers(n) /\ Answer(n)' = Answer(n)
    BY <1>1 DEF ConversationInv, CallersInv, Mine, LastOf, Answers, Answer
  <2>2. \A n : TurnedAway(n)' = TurnedAway(n)
    BY <2>1 DEF TurnedAway
  <2>3. CASE b # c
    <3>1. caller'[b] = caller[b]
      BY <1>1, <1>2, <2>3 DEF CallerType
    <3>2. caller[b] = "waiting" => Answers(LastOf(b))' = {}
      BY <2>1 DEF Stands
    <3>3. QED
      BY <1>1, <1>2, <2>1, <3>1, <3>2, StandsKept
  <2>4. CASE b = c
    <3>1. caller'[b] = "closed" /\ caller[b] = "sleeping"
      BY <1>1, <1>2, <2>4 DEF CallerType
    <3>2. QED
      BY <1>1, <2>1, <2>2, <3>1 DEF Stands, ErrorTypes
  <2>5. QED
    BY <2>3, <2>4
<1>6. QED
  BY <1>3, <1>4, <1>5 DEF CallersInv

-----------------------------------------------------------------------------
(* An answer arrives *)

\* What one more frame adds to the answers.
LEMMA OneMoreAnswer ==
    ASSUME StreamInv, ReadFrame, NEW n
    PROVE  LET p == written[Len(delivered) + 1][1]
               here == IsResponse(p) /\ p.id = <<"int", n>>
           IN  /\ Answers(n)' = Answers(n) \cup (IF here THEN {Len(delivered) + 1} ELSE {})
               /\ Answers(n) # {} => Answer(n)' = Answer(n)
               /\ here /\ Answers(n) = {} => Answer(n)' = p
<1> DEFINE d == Len(delivered)
           p == written[d + 1][1]
           here == IsResponse(p) /\ p.id = <<"int", n>>
           new == IF here THEN {d + 1} ELSE {}
<1>1. delivered' = Append(delivered, d + 1) /\ UNCHANGED written
  BY ReadFrameIs
<1>2. d \in Nat /\ DOMAIN delivered = 1..d /\ DOMAIN delivered' = 1..d + 1
  BY <1>1, StreamFacts DEF StreamInv, StreamType
<1>3. Answers(n) \in SUBSET (1..d)
  BY <1>2 DEF Answers
<1>4. Answers(n)' = Answers(n) \cup new
  BY <1>1, <1>2 DEF Answers, IsResponse
<1>5. ASSUME Answers(n) # {} PROVE Answer(n)' = Answer(n)
  <2> DEFINE first == CHOOSE i \in Answers(n) : \A j \in Answers(n) : i <= j
             next == CHOOSE i \in Answers(n)' : \A j \in Answers(n)' : i <= j
  <2>1. first \in Answers(n) /\ \A j \in Answers(n) : first <= j
    <3>1. Answers(n) \in SUBSET Nat
      BY <1>2, <1>3
    <3>2. \E i \in Answers(n) : \A j \in Answers(n) : i <= j
      BY <1>5, <3>1, LeastOf
    <3>3. QED
      BY <3>2
  <2> HIDE DEF first
  <2>2. first \in Answers(n)' /\ \A j \in Answers(n)' : first <= j
    BY <1>2, <1>3, <1>4, <2>1
  <2>3. next \in Answers(n)' /\ \A j \in Answers(n)' : next <= j
    BY <2>2
  <2> HIDE DEF next
  <2>4. next = first
    BY <1>2, <1>3, <1>4, <2>1, <2>2, <2>3
  <2>5. QED
    BY <1>1, <2>4 DEF Answer, first, next
<1>6. ASSUME here, Answers(n) = {} PROVE Answer(n)' = p
  <2>1. Answers(n)' = {d + 1}
    BY <1>4, <1>6
  <2>2. (CHOOSE i \in Answers(n)' : \A j \in Answers(n)' : i <= j) = d + 1
    BY <1>2, <2>1
  <2>3. QED
    BY <1>1, <2>2 DEF Answer
<1>7. QED
  BY <1>4, <1>5, <1>6

\* What an error is mapped to is a class of errors.
LEMMA ErrorsHaveTypes == \A error : MapJsonRpcError(error) \in ErrorTypes
BY DEF MapJsonRpcError, ServerError, ErrorTypes


\* What the dispatcher makes of a frame, by its kind.
LEMMA Dispatched ==
    ASSUME NEW p, Dispatch(p), CallerType
    PROVE  \/ Kind(p) = "malformed" /\ Ends("malformed")
           \/ ~ IsResponse(p) /\ UNCHANGED <<ended, caller>>
           \/ /\ IsResponse(p) /\ Ends("unexpected")
              /\ \A n \in DOMAIN calls : calls[n] # None => p.id # <<"int", n>>
           \/ \E n \in DOMAIN calls :
                 /\ IsResponse(p) /\ p.id = <<"int", n>> /\ calls[n] \in Callers
                 /\ caller' = [caller EXCEPT ![calls[n]] =
                       IF caller[calls[n]] = "waiting" /\ \A m \in DOMAIN calls :
                                                              m > n => calls[m] # calls[n]
                       THEN Answered(calls[n], p) ELSE @]
                 /\ UNCHANGED ended
<1>1. CASE Kind(p) = "malformed"
  BY <1>1 DEF Dispatch
<1>2. CASE Kind(p) \in {"notification", "request"}
  BY <1>2 DEF Dispatch, IsResponse
<1>3. CASE IsResponse(p)
  <2> DEFINE asked == {n \in DOMAIN calls : calls[n] # None /\ p.id = <<"int", n>>}
             n == CHOOSE m \in asked : TRUE
  <2>1. Kind(p) \in {"success_response", "error_response"}
    BY <1>3 DEF IsResponse
  <2>2. CASE asked = {}
    <3>1. Ends("unexpected")
      BY <2>1, <2>2 DEF Dispatch, DispatchResponse, Ends
    <3>2. QED
      BY <1>3, <2>2, <3>1
  <2>3. CASE asked # {}
    <3>1. n \in asked
      BY <2>3
    <3>2. /\ caller' = [caller EXCEPT ![calls[n]] =
                 IF caller[calls[n]] = "waiting" /\ \A m \in DOMAIN calls :
                                                        m > n => calls[m] # calls[n]
                 THEN Answered(calls[n], p) ELSE @]
          /\ UNCHANGED ended
      BY <2>1, <2>3 DEF Dispatch, DispatchResponse
    <3>3. n \in DOMAIN calls /\ calls[n] # None /\ p.id = <<"int", n>>
      BY <3>1
    <3> HIDE DEF n, asked
    <3>4. calls[n] \in Callers
      BY <3>3 DEF CallerType
    <3>5. QED
      BY <1>3, <3>2, <3>3, <3>4
  <2>4. QED
    BY <2>2, <2>3
<1>4. QED
  BY <1>1, <1>2, <1>3, KindOf DEF IsResponse

\* What a caller that waits is told of the answer to its last request.
LEMMA ToldByAnswer ==
    ASSUME WireAssumption, CallerType, NEW c \in Callers, NEW p, Stands(c), Mine(c) # {},
           Mine(c)' = Mine(c), IsResponse(p),
           Answers(LastOf(c))' # {}, Answer(LastOf(c))' = p,
           \A n \in Mine(c) : n # LastOf(c) /\ Answers(n) # {} =>
              Answers(n)' # {} /\ Answer(n)' = Answer(n),
           caller'[c] = Answered(c, p)
    PROVE  Stands(c)' /\ caller'[c] \in Standings \cup ErrorTypes
<1> DEFINE type == MapJsonRpcError(p.error)
<1>1. LastOf(c)' = LastOf(c)
  BY DEF LastOf
<1>2. \A n \in Mine(c) : n # LastOf(c) => TurnedAway(n)'
  BY DEF TurnedAway, Stands
<1>3. Cardinality(Mine(c)) <= MaxAttempts /\ Cardinality(Mine(c)) \in Nat
  BY LastOfMine, FS_CardinalityType DEF Stands
<1>4. Attempts(c) = Cardinality(Mine(c))
  BY DEF Attempts, Mine
<1>5. CASE Has(p, {"result"})
  <2>1. caller'[c] = ValidateResponse(p.result)
    BY <1>5 DEF Answered
  <2>2. caller'[c] \in {"ok", "ResponseValidation"} /\ (caller'[c] = "ok") = (p.result # Junk)
    BY <2>1 DEF ValidateResponse
  <2>3. ToldTheResult(c)'
    BY <1>1, <1>5, <2>2 DEF ToldTheResult
  <2>4. QED
    BY <1>1, <1>2, <1>3, <2>2, <2>3 DEF Stands, Standings, ErrorTypes
<1>6. CASE ~ Has(p, {"result"})
  <2>1. Has(p, {"error"}) /\ caller'[c] = AfterError(c, type)
    BY <1>6, KindOf DEF Answered, IsResponse
  <2>2. type \in ErrorTypes
    BY ErrorsHaveTypes
  <2>3. type = "RetryableOverload" => TurnedAway(LastOf(c))'
    BY <1>1, <2>1 DEF TurnedAway
  <2>4. caller'[c] = type => ToldTheError(c)'
    BY <1>1, <2>1 DEF ToldTheError
  <2>5. Cardinality(Mine(c)') = Cardinality(Mine(c)) /\ MaxAttempts \in Nat
    BY DEF WireAssumption
  <2> HIDE DEF type
  <2>6. CASE type = "RetryableOverload" /\ Cardinality(Mine(c)) < MaxAttempts
    <3>1. caller'[c] = "sleeping"
      BY <1>3, <1>4, <2>1, <2>5, <2>6 DEF AfterError
    <3>2. QED
      BY <1>1, <1>2, <1>3, <2>3, <2>5, <2>6, <3>1 DEF Stands, Standings, ErrorTypes
  <2>7. CASE type = "RetryableOverload" /\ ~ (Cardinality(Mine(c)) < MaxAttempts)
    <3>1. caller'[c] = "RetryBudgetExceeded" /\ Cardinality(Mine(c)) = MaxAttempts
      BY <1>3, <1>4, <2>1, <2>5, <2>7 DEF AfterError
    <3>2. QED
      BY <1>1, <1>2, <1>3, <2>3, <2>5, <2>7, <3>1 DEF Stands, Standings, ErrorTypes
  <2>8. CASE type # "RetryableOverload"
    <3>1. caller'[c] = type
      BY <2>1, <2>8 DEF AfterError
    <3>2. QED
      BY <1>1, <1>2, <1>3, <2>2, <2>4, <2>5, <2>8, <3>1 DEF Stands, Standings, ErrorTypes
  <2>9. QED
    BY <2>6, <2>7, <2>8
<1>7. QED
  BY <1>5, <1>6


LEMMA CallersReadFrame ==
    ASSUME WireAssumption, ConversationInv, ReadFrame
    PROVE  CallersInv'
<1> DEFINE d == Len(delivered)
           p == written[d + 1][1]
<1>1. /\ delivered' = Append(delivered, d + 1) /\ Dispatch(p)
      /\ UNCHANGED <<written, calls>> /\ ended = None
  BY ReadFrameIs DEF ConversationInv
<1>2. /\ StreamInv /\ CallerType /\ AnswersAreToCalls /\ d \in Nat
      /\ DOMAIN delivered = 1..d /\ DOMAIN delivered' = 1..d + 1
  BY <1>1, StreamFacts DEF ConversationInv, CallersInv, StreamInv, StreamType
<1>3. /\ \A c : Mine(c)' = Mine(c)
      /\ \A c : LastOf(c)' = LastOf(c)
  BY <1>1 DEF Mine, LastOf
<1>4. \A n : Answers(n) # {} => Answers(n)' # {} /\ Answer(n)' = Answer(n)
  <2>1. SUFFICES ASSUME NEW n, Answers(n) # {}
                 PROVE  Answers(n)' # {} /\ Answer(n)' = Answer(n)
    OBVIOUS
  <2>2. Answers(n) \subseteq Answers(n)' /\ Answer(n)' = Answer(n)
    BY <1>2, <2>1, OneMoreAnswer
  <2>3. QED
    BY <2>1, <2>2
<1>5. \A n : ~ (IsResponse(p) /\ p.id = <<"int", n>>) => Answers(n)' = Answers(n)
  BY <1>2, OneMoreAnswer
<1>6. \A n : IsResponse(p) /\ p.id = <<"int", n>> =>
         Answers(n)' # {} /\ (Answers(n) = {} => Answer(n)' = p)
  <2>1. SUFFICES ASSUME NEW n, IsResponse(p), p.id = <<"int", n>>
                 PROVE  Answers(n)' # {} /\ (Answers(n) = {} => Answer(n)' = p)
    OBVIOUS
  <2>2. d + 1 \in Answers(n)' /\ (Answers(n) = {} => Answer(n)' = p)
    BY <1>2, <2>1, OneMoreAnswer
  <2>3. QED
    BY <2>2
<1>7. \A c \in Callers : Stands(c)
  BY DEF ConversationInv, CallersInv
<1> HIDE DEF p
\* The callers that are told nothing, or that the connection ended.
<1>8. ASSUME NEW c \in Callers, ended' = ended \/ ended' # None,
             \/ caller'[c] = caller[c] /\ (caller[c] = "waiting" => Answers(LastOf(c))' = {})
             \/ caller[c] = "waiting" /\ caller'[c] = "closed" /\ ended' # None
      PROVE  Stands(c)'
  BY <1>2, <1>3, <1>4, <1>7, <1>8, StandsKept
<1>9. ASSUME NEW c \in Callers, caller[c] = "waiting"
      PROVE  LastOf(c) \in Mine(c) /\ LastOf(c) \in DOMAIN calls /\ Answers(LastOf(c)) = {}
             /\ calls[LastOf(c)] = c /\ Mine(c) # {}
  <2>1. Mine(c) # {} /\ Answers(LastOf(c)) = {}
    BY <1>7, <1>9 DEF Stands
  <2>2. LastOf(c) \in Mine(c)
    BY <1>2, <2>1, LastOfMine
  <2>3. QED
    BY <2>1, <2>2 DEF Mine
<1>10. ASSUME NEW how \in Endings, Ends(how)
       PROVE  CallersInv'
  <2>1. ended' = how /\ how # None
        /\ caller' = [c \in Callers |-> IF caller[c] = "waiting" THEN "closed" ELSE caller[c]]
    BY <1>10 DEF Ends, WireAssumption
  <2>2. CallerType'
    BY <1>1, <1>2, <2>1 DEF CallerType, Standings
  <2>3. AnswersAreToCalls'
    BY <2>1 DEF AnswersAreToCalls
  <2>4. ASSUME NEW c \in Callers PROVE Stands(c)'
    BY <1>8, <2>1
  <2>5. QED
    BY <2>2, <2>3, <2>4 DEF CallersInv
<1>11. CASE ~ IsResponse(p) /\ UNCHANGED <<ended, caller>>
  <2>1. CallerType'
    BY <1>1, <1>2, <1>11 DEF CallerType
  <2>2. AnswersAreToCalls'
    BY <1>1, <1>2, <1>11 DEF AnswersAreToCalls, p
  <2>3. ASSUME NEW c \in Callers PROVE Stands(c)'
    <3>1. caller[c] = "waiting" => Answers(LastOf(c))' = {}
      BY <1>3, <1>5, <1>9, <1>11
    <3>2. QED
      BY <1>8, <1>11, <3>1
  <2>4. QED
    BY <2>1, <2>2, <2>3 DEF CallersInv
<1>12. ASSUME NEW n \in DOMAIN calls, IsResponse(p), p.id = <<"int", n>>, calls[n] \in Callers,
              caller' = [caller EXCEPT ![calls[n]] =
                 IF caller[calls[n]] = "waiting" /\ \A m \in DOMAIN calls :
                                                        m > n => calls[m] # calls[n]
                 THEN Answered(calls[n], p) ELSE @],
              UNCHANGED ended
       PROVE  CallersInv'
  <2>0. PICK c \in Callers : c = calls[n]
    BY <1>12
  <2> DEFINE waits == caller[c] = "waiting" /\ \A m \in DOMAIN calls : m > n => calls[m] # c
  <2>1. c \in Callers /\ n \in Mine(c) /\ c # None
    BY <1>12, <2>0 DEF Mine, WireAssumption
  <2>2. AnswersAreToCalls'
    <3>1. \A i \in 1..d : IsResponse(written[i][1]) =>
             \E m \in DOMAIN calls : calls[m] # None /\ written[i][1].id = <<"int", m>>
      BY <1>1, <1>2 DEF AnswersAreToCalls
    <3>2. \E m \in DOMAIN calls : calls[m] # None /\ p.id = <<"int", m>>
      BY <1>12, <2>0, <2>1
    <3>3. \A i \in 1..d + 1 : i \in 1..d \/ i = d + 1
      BY <1>2
    <3> HIDE DEF d
    <3>4. QED
      BY <1>1, <1>2, <3>1, <3>2, <3>3 DEF AnswersAreToCalls, p
  <2>3. \A m : m # n => Answers(m)' = Answers(m)
    <3>1. SUFFICES ASSUME NEW m, m # n PROVE p.id # <<"int", m>>
      BY <1>5
    <3>2. QED
      BY <1>12, <3>1
  <2>4. \A b \in Callers : caller'[b] = IF b = c /\ waits THEN Answered(c, p) ELSE caller[b]
    BY <1>2, <1>12, <2>0, <2>1 DEF CallerType
  <2>5. ASSUME NEW b \in Callers, ~ (b = c /\ waits) PROVE Stands(b)'
    <3>1. caller'[b] = caller[b]
      BY <2>4, <2>5
    <3>2. caller[b] = "waiting" => LastOf(b) # n
      <4>1. SUFFICES ASSUME caller[b] = "waiting", LastOf(b) = n PROVE FALSE
        OBVIOUS
      <4>2. b = c
        BY <1>9, <2>0, <4>1
      <4>3. \A m \in Mine(c) : m <= n
        BY <1>2, <1>9, <2>1, <4>1, <4>2, LastOfMine
      <4>4. \A m \in DOMAIN calls : m > n => calls[m] # c
        <5>1. \A m \in DOMAIN calls : m \in Nat
          BY <1>2 DEF CallerType
        <5>2. QED
          BY <4>3, <5>1 DEF Mine
      <4>5. QED
        BY <2>5, <4>1, <4>2, <4>4
    <3>3. caller[b] = "waiting" => Answers(LastOf(b))' = {}
      BY <1>3, <1>9, <2>3, <3>2
    <3>4. QED
      BY <1>8, <1>12, <3>1, <3>3
  <2>6. ASSUME waits
        PROVE  Stands(c)' /\ caller'[c] \in Standings \cup ErrorTypes
    <3>1. caller[c] = "waiting" /\ caller'[c] = Answered(c, p)
      BY <2>1, <2>4, <2>6
    <3>2. Answers(LastOf(c)) = {} /\ LastOf(c) \in Mine(c) /\ Mine(c) # {}
      BY <1>9, <2>1, <3>1
    <3>3. LastOf(c) = n
      <4>1. n <= LastOf(c)
        BY <1>2, <2>1, LastOfMine
      <4>2. LastOf(c) \in DOMAIN calls /\ calls[LastOf(c)] = c
        BY <3>2 DEF Mine
      <4>3. ~ (LastOf(c) > n)
        BY <2>6, <4>2
      <4>4. LastOf(c) \in Nat /\ n \in Nat
        BY <1>2, <1>12, <4>2 DEF CallerType
      <4>5. QED
        BY <4>1, <4>3, <4>4
    <3>4. Answers(LastOf(c))' # {} /\ Answer(LastOf(c))' = p
      <4>1. Answers(n)' # {} /\ Answer(n)' = p
        BY <1>6, <1>12, <3>2, <3>3
      <4>2. QED
        BY <1>3, <3>3, <4>1
    <3>5. Stands(c) /\ \A m \in Mine(c) : m # LastOf(c) /\ Answers(m) # {} =>
                           Answers(m)' # {} /\ Answer(m)' = Answer(m)
      BY <1>4, <1>7, <2>1
    <3> HIDE DEF waits
    <3>6. QED
      BY <1>2, <1>3, <1>12, <2>1, <3>1, <3>2, <3>4, <3>5, ToldByAnswer
  <2>7. CallerType'
    <3>1. \A b \in Callers : caller'[b] \in Standings \cup ErrorTypes
      BY <1>2, <2>4, <2>6 DEF CallerType
    <3>2. DOMAIN caller' = Callers /\ caller' = [b \in DOMAIN caller' |-> caller'[b]]
      BY <1>2, <1>12 DEF CallerType
    <3>3. QED
      BY <1>1, <1>2, <3>1, <3>2 DEF CallerType
  <2> HIDE DEF waits
  <2>8. \A b \in Callers : Stands(b)'
    BY <2>5, <2>6
  <2>9. QED
    BY <2>2, <2>7, <2>8 DEF CallersInv
<1>13. QED
  <2>1. "malformed" \in Endings /\ "unexpected" \in Endings
    BY DEF Endings
  <2>2. QED
    BY <1>1, <1>2, <1>10, <1>11, <1>12, <2>1, Dispatched


\* The server takes back no line it wrote.
LEMMA WrittenStays ==
    ASSUME StreamInv, ServerNext
    PROVE  \A i \in 1..Len(written) : written'[i] = written[i]
<1>1. CASE ServeExpectRequest \/ ServeExpectNotification \/ ServeExpectResponse
  BY <1>1 DEF ServeExpectRequest, ServeExpectNotification, ServeExpectResponse, Expects, Exits
<1>2. CASE ExpectationFails \/ ServeClose \/ ScriptEnds \/ Killed
  BY <1>2 DEF ExpectationFails, ServeClose, ScriptEnds, Killed, Exits
<1>3. CASE ServeSendResponse \/ ServeSendNotification \/ ServeSendServerRequest \/ ServeEmitRaw
  <2>1. \/ written' = written
        \/ \E line : written' = Append(written, line)
    BY <1>3 DEF ServeSendResponse, ServeSendNotification, ServeSendServerRequest, ServeEmitRaw,
                Writes, Exits
  <2>2. /\ written \in Seq({written[n] : n \in DOMAIN written})
        /\ DOMAIN written = 1..Len(written)
    BY StreamFacts DEF StreamInv, StreamType
  <2>3. ASSUME NEW line, written' = Append(written, line), NEW i \in 1..Len(written)
        PROVE  written'[i] = written[i]
    <3> DEFINE S == {written[n] : n \in DOMAIN written} \cup {line}
    <3>1. written \in Seq(S) /\ line \in S
      BY <2>2
    <3> HIDE DEF S
    <3>2. QED
      BY <2>3, <3>1
  <2>4. QED
    BY <2>1, <2>3
<1>4. QED
  BY <1>1, <1>2, <1>3 DEF ServerNext

LEMMA CallersNext ==
    ASSUME ScriptAssumption, WireAssumption, ConversationInv, [WireNext]_wireVars
    PROVE  CallersInv'
<1>1. StreamInv /\ CallersInv /\ None \notin Endings
  BY DEF ConversationInv, WireAssumption
<1>2. ASSUME NEW c \in Callers, Call(c) \/ Retry(c) \/ RetryFindsItClosed(c)
      PROVE  CallersInv'
  BY <1>2, AttemptStep, RetryFindsItClosedStep
<1>3. CASE Initialized
  BY <1>3, InitializedStep
<1>4. CASE ReadFrame
  BY <1>4, CallersReadFrame
<1>5. CASE ReadChunk \/ ReadEof \/ ReadEnd \/ CloseConnection
  <2>1. UNCHANGED <<written, calls, delivered>>
    BY <1>5 DEF ReadChunk, ReadEof, ReadEnd, CloseConnection, server
  <2>2. \/ UNCHANGED <<ended, caller>>
        \/ \E how \in Endings : Ends(how)
    BY <1>5 DEF ReadChunk, ReadEof, ReadEnd, CloseConnection, Endings
  <2>3. QED
    BY <1>1, <2>1, <2>2, CallersKept DEF Ends
<1>6. ASSUME NEW p \in approvals, Approve(p)
      PROVE  CallersInv'
  <2>1. UNCHANGED <<written, calls, delivered, ended, caller>>
    BY <1>6 DEF Approve, server
  <2>2. QED
    BY <1>1, <2>1, CallersKept
<1>7. CASE ServerNext /\ UNCHANGED client
  <2>1. UNCHANGED <<calls, delivered, ended, caller>>
    BY <1>7 DEF client
  <2>2. \A i \in 1..Len(written) : written'[i] = written[i]
    BY <1>1, <1>7, WrittenStays
  <2>3. QED
    BY <1>1, <2>1, <2>2, CallersKept
<1>8. CASE UNCHANGED wireVars
  <2>1. UNCHANGED <<written, calls, delivered, ended, caller>>
    BY <1>8 DEF wireVars, server, client
  <2>2. QED
    BY <1>1, <2>1, CallersKept
<1>9. QED
  BY <1>2, <1>3, <1>4, <1>5, <1>6, <1>7, <1>8 DEF WireNext

LEMMA ConversationInvariant == WireSpec => []ConversationInv
<1>1. WireInit => ConversationInv
  BY StreamInit, CallersInit, WireAssumption DEF ConversationInv
<1>2. ConversationInv /\ [WireNext]_wireVars => ConversationInv'
  <2>1. ASSUME ConversationInv, [WireNext]_wireVars PROVE ConversationInv'
    <3>1. StreamInv
      BY <2>1 DEF ConversationInv
    <3>2. StreamInv'
      BY <2>1, <3>1, StreamNext, ScriptAssumption, WireAssumption
    <3>3. CallersInv'
      BY <2>1, CallersNext, ScriptAssumption, WireAssumption
    <3>4. QED
      BY <3>2, <3>3 DEF ConversationInv
  <2>2. QED
    BY <2>1
<1>3. QED
  BY <1>1, <1>2, PTL DEF WireSpec

-----------------------------------------------------------------------------
(* The theorems *)

\* For every script, every chunk size and every way the pipe cuts the stream, the
\* frames that _read_frame (transport/stdio.py) makes are the lines the server wrote,
\* each once and in their order, and of the bytes written none is lost or repeated
\* between the frames, the buffer and the pipe but what a killed process kept.
THEOREM FramesAreTheLines == WireSpec => []FramesAreLines
BY StreamInvariant, PTL DEF StreamInv

\* A connection never says of its end what did not happen to it: a partial frame only
\* when a line was cut, the exit of the process or a clean end only after everything
\* that got out was delivered, a malformed message only for a line that is no
\* envelope, and the limit on frames only for a line within a chunk of it.
THEOREM TheEndIsTruthful == WireSpec => []EndIsTruthful
BY StreamInvariant, PTL DEF StreamInv

\* Whatever the server answers and to whom, retry_on_overload (retry.py) repeats a
\* request only after an overload that does not speak of a spent budget and never
\* more often than the policy allows, and every caller is told what the answer to its
\* own last request was, with the type that errors.py gives to that error.
THEOREM CallersHearTheirAnswer == WireSpec => []RetriesAreEarned
<1>1. ConversationInv => RetriesAreEarned
  BY DEF ConversationInv, CallersInv, Stands, RetriesAreEarned
<1>2. QED
  BY <1>1, ConversationInvariant, PTL

================================================================================
