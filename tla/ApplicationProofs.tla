--------------------------- MODULE ApplicationProofs ---------------------------
(***************************************************************************)
(* Proofs about what an application has of the SDK.  Of SyncFacade, for    *)
(* every number of threads and of jobs: a job that was handed over before  *)
(* close() began is never lost without its caller being told.  The         *)
(* argument is the order of the loop's callbacks: the loop is told to stop *)
(* only after the job of close() has run, and that job takes its first     *)
(* step after every job posted before it.  Of TurnStream, for every        *)
(* traffic of the server and any readers: all readers of a turn are given  *)
(* the same.  The argument is a count: what the queue of a reader holds is *)
(* what was handled of the turn since it joined, and what the pump adds is *)
(* what its read tasks hold.                                               *)
(***************************************************************************)
EXTENDS SyncFacade, TurnStream, SequenceTheorems, FiniteSetTheorems, WellFoundedInduction, TLAPS

-----------------------------------------------------------------------------
(* The inductive invariant *)

Kinds == {"call", "iterate", "close"}
States == {"posted", "created", "running", "done", "cancelled", "lost"}
Job == [kind : Kinds, by : Threads, state : States, told : BOOLEAN, late : BOOLEAN]
Places == {"idle", "waiting", "stop", "joining"} \cup Kinds

Typed ==
    /\ closed \in BOOLEAN /\ stopped \in BOOLEAN
    /\ loop \in {"running", "stopping", "draining", "closed"}
    /\ ready \in Seq(Int)
    /\ jobs \in Seq(Job)
    /\ thread \in [Threads -> [at : Places, job : Nat \cup {NoJob}]]

\* Who waits has a job, and the job has whoever waits for it.
Waits ==
    \A t \in Threads :
        IF thread[t].at = "waiting"
        THEN thread[t].job \in DOMAIN jobs /\ jobs[thread[t].job].by = t
        ELSE thread[t].job = NoJob

\* The callbacks: a posted job and the first step of a created one are there, each
\* sort in the order of the jobs, and no job is posted before one that is created.
Queue ==
    /\ \A i \in DOMAIN ready : ready[i] <= Len(jobs) /\ -ready[i] <= Len(jobs)
    /\ \A i \in DOMAIN ready : ready[i] > 0 => jobs[ready[i]].state = "posted"
    /\ \A n \in DOMAIN jobs : jobs[n].state = "posted" => \E i \in DOMAIN ready : ready[i] = n
    /\ \A n \in DOMAIN jobs : jobs[n].state = "created" => \E i \in DOMAIN ready : ready[i] = -n
    /\ \A i, j \in DOMAIN ready : i < j /\ ready[i] > 0 /\ ready[j] > 0 => ready[i] < ready[j]
    /\ \A i, j \in DOMAIN ready : i < j /\ ready[i] < 0 /\ ready[j] < 0 => ready[j] < ready[i]
    /\ \A i, j \in DOMAIN ready : ready[i] > 0 /\ ready[j] < 0 => -ready[j] < ready[i]

\* Jobs take their first steps in the order of their posting.
PostedInOrder ==
    \A n, m \in DOMAIN jobs :
        n < m /\ jobs[m].state \in {"running", "done"} => jobs[n].state \notin {"posted", "created"}

\* One call of close() gets past its flag; it has no job yet, or the only close job,
\* which every job that is not late precedes.
Closing(t) ==
    \/ thread[t].at \in {"close", "stop", "joining"}
    \/ thread[t].at = "waiting" /\ jobs[thread[t].job].kind = "close"

OneClose ==
    /\ \A t \in Threads : Closing(t) => closed
    /\ \A s, t \in Threads : Closing(s) /\ Closing(t) => s = t
    /\ \A n \in DOMAIN jobs : jobs[n].late \/ jobs[n].kind = "close" => closed
    /\ \A m, n \in DOMAIN jobs : jobs[m].kind = "close" /\ jobs[n].kind = "close" => m = n
    /\ \A m, n \in DOMAIN jobs : jobs[m].kind = "close" /\ ~jobs[n].late => n < m
    /\ \A m \in DOMAIN jobs : jobs[m].kind = "close" =>
          /\ jobs[m].late
          /\ jobs[m].told => jobs[m].state = "done"
          /\ \A t \in Threads : thread[t].at # "close"

\* The loop is told to stop by the end of the close job and by nothing else.
Over ==
    \/ stopped \/ loop # "running"
    \/ \E t \in Threads : thread[t].at \in {"stop", "joining"}
    \/ \E i \in DOMAIN ready : ready[i] = Stop

CloseIsDone == \E m \in DOMAIN jobs : jobs[m].kind = "close" /\ jobs[m].state = "done"

\* The jobs that close() leaves nobody waiting for.
Owed(n) == ~jobs[n].late \/ jobs[n].kind = "close"

Kept ==
    \A n \in DOMAIN jobs : Owed(n) =>
        /\ jobs[n].state \in {"lost", "cancelled"} =>
              jobs[n].told \/ thread[jobs[n].by].job # n
        /\ loop \in {"draining", "closed"} =>
              jobs[n].state \notin {"posted", "created", "running"}

IInv ==
    /\ Typed /\ Waits /\ PostedInOrder /\ OneClose /\ Kept
    /\ loop # "closed" => Queue
    /\ Over => CloseIsDone
-----------------------------------------------------------------------------
(* Sequences *)

LEMMA Appended ==
    ASSUME NEW S, NEW s \in Seq(S), NEW e \in S
    PROVE  /\ Append(s, e) \in Seq(S) /\ Len(s) \in Nat /\ DOMAIN s = 1..Len(s)
           /\ Len(Append(s, e)) = Len(s) + 1 /\ DOMAIN Append(s, e) = 1..(Len(s) + 1)
           /\ \A i \in DOMAIN s : Append(s, e)[i] = s[i]
           /\ Append(s, e)[Len(s) + 1] = e
OBVIOUS

LEMMA Tailed ==
    ASSUME NEW S, NEW s \in Seq(S), s # <<>>
    PROVE  /\ Tail(s) \in Seq(S) /\ Len(s) \in Nat /\ DOMAIN s = 1..Len(s) /\ 1 \in DOMAIN s
           /\ Head(s) \in S /\ Head(s) = s[1]
           /\ DOMAIN Tail(s) = 1..(Len(s) - 1) /\ Len(Tail(s)) = Len(s) - 1
           /\ \A i \in DOMAIN Tail(s) : i + 1 \in DOMAIN s /\ Tail(s)[i] = s[i + 1]
OBVIOUS

LEMMA Remade ==
    ASSUME NEW S, NEW s \in Seq(S), NEW f, DOMAIN f = DOMAIN s, f = [i \in DOMAIN s |-> f[i]],
           \A i \in DOMAIN s : f[i] \in S
    PROVE  f \in Seq(S) /\ Len(f) = Len(s)
OBVIOUS

LEMMA Moved ==
    ASSUME NEW j \in Job, NEW state \in States, NEW k, k = [j EXCEPT !.state = state]
    PROVE  /\ k \in Job /\ k.state = state
           /\ k.kind = j.kind /\ k.by = j.by /\ k.late = j.late /\ k.told = j.told
BY DEF Job

\* A job is a number of its own, and is waited for by a thread.
LEMMA JobsAre ==
    ASSUME FacadeAssumption, Typed
    PROVE  /\ Len(jobs) \in Nat /\ DOMAIN jobs = 1..Len(jobs)
           /\ \A n \in DOMAIN jobs : n \in Nat /\ n # NoJob /\ jobs[n] \in Job
                                    /\ jobs[n].by \in Threads
<1>1. Len(jobs) \in Nat /\ DOMAIN jobs = 1..Len(jobs)
  BY DEF Typed
<1>2. \A n \in DOMAIN jobs : jobs[n] \in Job
  BY DEF Typed
<1>3. NoJob \notin Nat
  BY DEF FacadeAssumption
<1>4. QED
  BY <1>1, <1>2, <1>3 DEF Job

-----------------------------------------------------------------------------
(* The threads of the application *)

LEMMA InitIInv == FacadeAssumption /\ Init => IInv
<1> SUFFICES ASSUME FacadeAssumption, Init
             PROVE  IInv
  OBVIOUS
<1>1. <<>> \in Seq(Int) /\ <<>> \in Seq(Job)
  BY EmptySeq
<1>2. DOMAIN ready = {} /\ DOMAIN jobs = {}
  BY DEF Init
<1>3. Typed
  BY <1>1 DEF Init, Typed, Places
<1>4. Waits /\ PostedInOrder /\ OneClose /\ Kept /\ Queue /\ ~Over
  BY <1>2 DEF Init, Waits, PostedInOrder, OneClose, Closing, Kept, Queue, Over, Stop
<1>5. QED
  BY <1>3, <1>4 DEF IInv

\* A step of one thread that hands nothing over and leaves no close behind.
LEMMA ThreadStep ==
    ASSUME FacadeAssumption, IInv, NEW t \in Threads,
           \/ \E kind \in {"call", "iterate"} : Begin(t, kind)
           \/ Return(t) \/ BeginClose(t) \/ Joined(t)
    PROVE  IInv'
<1>1. Typed /\ Waits /\ PostedInOrder /\ OneClose /\ Kept
      /\ (loop # "closed" => Queue) /\ (Over => CloseIsDone)
  BY DEF IInv
<1>2. UNCHANGED <<handler, stopped, loop, blocked, ready, jobs>>
  BY DEF Begin, Return, BeginClose, Joined
<1>3. /\ thread' = [thread EXCEPT ![t] = thread'[t]] /\ thread'[t].job = NoJob
      /\ thread'[t] \in [at : Places, job : Nat \cup {NoJob}] /\ thread'[t].at # "waiting"
      /\ closed' \in BOOLEAN /\ (closed => closed')
  <2>1. PICK where \in Places \ {"waiting"} :
           thread' = [thread EXCEPT ![t] = [at |-> where, job |-> NoJob]]
    BY DEF Begin, Return, BeginClose, Joined, At, Places, Kinds
  <2>2. thread'[t] = [at |-> where, job |-> NoJob]
    BY <1>1, <2>1 DEF Typed
  <2>3. closed' \in BOOLEAN /\ (closed => closed')
    BY <1>1 DEF Begin, Return, BeginClose, Joined, Typed
  <2>4. /\ thread'[t].job = NoJob /\ thread'[t].at # "waiting"
        /\ thread'[t] \in [at : Places, job : Nat \cup {NoJob}]
    BY <2>2
  <2>5. thread' = [thread EXCEPT ![t] = thread'[t]]
    BY <2>1, <2>2
  <2>6. QED
    BY <2>3, <2>4, <2>5
<1>4. /\ \A s \in Threads : s # t => thread'[s] = thread[s]
      /\ \A s \in Threads : thread'[s].job \in {thread[s].job, NoJob}
  BY <1>1, <1>3 DEF Typed
<1>5. Typed' /\ Waits'
  BY <1>1, <1>2, <1>3, <1>4 DEF Typed, Waits
<1>6. PostedInOrder' /\ (loop # "closed" => Queue)'
  BY <1>1, <1>2 DEF PostedInOrder, Queue
<1>7. Kept'
  <2>1. \A n \in DOMAIN jobs : n # NoJob /\ jobs[n].by \in Threads
    BY <1>1, JobsAre
  <2>2. QED
    BY <1>1, <1>2, <1>4, <2>1 DEF Kept, Owed
\* Who closes now either closed before, or is the first to close.
<1>8. \/ ~closed /\ closed' /\ thread'[t].at \in {"stop", "close"}
      \/ closed' = closed /\ (thread'[t].at = "stop" => Closing(t))
         /\ thread'[t].at \notin {"close", "joining"}
  BY <1>1, <1>3 DEF Begin, Return, BeginClose, Joined, At, Typed, Closing
<1>9. OneClose'
  <2>1. \A s \in Threads : s # t => Closing(s)' = Closing(s)
    BY <1>2, <1>4 DEF Closing
  <2>2. Closing(t)' <=> thread'[t].at \in {"close", "stop", "joining"}
    BY <1>3 DEF Closing
  <2>3. CASE ~closed /\ closed'
    BY <1>1, <1>2, <1>4, <2>1, <2>3 DEF OneClose
  <2>4. CASE closed' = closed /\ (thread'[t].at = "stop" => Closing(t))
             /\ thread'[t].at \notin {"close", "joining"}
    BY <1>1, <1>2, <1>4, <2>1, <2>2, <2>4 DEF OneClose
  <2>5. QED
    BY <1>8, <2>3, <2>4
\* Only the return of the close job makes the runner stop.
<1>10. (Over => CloseIsDone)'
  <2>1. CloseIsDone' = CloseIsDone
    BY <1>2 DEF CloseIsDone
  <2>2. Over' => Over \/ thread'[t].at \in {"stop", "joining"}
    BY <1>2, <1>4 DEF Over
  <2>3. ASSUME thread'[t].at \in {"stop", "joining"}
        PROVE  CloseIsDone
    <3>1. CASE Return(t)
      <4>1. PICK m \in DOMAIN jobs : jobs[m].told /\ jobs[m].kind = "close"
        BY <1>1, <2>3, <3>1 DEF Return, At, Typed, Waits
      <4>2. QED
        BY <1>1, <4>1 DEF OneClose, CloseIsDone
    <3>2. CASE BeginClose(t)
      <4>1. ~closed /\ stopped
        BY <1>1, <2>3, <3>2 DEF BeginClose, At, Typed
      <4>2. QED
        BY <1>1, <4>1 DEF Over, OneClose, CloseIsDone
    <3>3. QED
      BY <1>1, <2>3, <3>1, <3>2 DEF Begin, Joined, At, Typed
  <2>4. QED
    BY <1>1, <2>1, <2>2, <2>3
<1>11. QED
  BY <1>5, <1>6, <1>7, <1>9, <1>10 DEF IInv

\* A job is handed over: it is the last, and late if close() has begun.
LEMMA PostStep ==
    ASSUME FacadeAssumption, IInv, NEW t \in Threads, Post(t)
    PROVE  IInv'
<1>1. Typed /\ Waits /\ PostedInOrder /\ OneClose /\ Kept
      /\ (loop # "closed" => Queue) /\ (Over => CloseIsDone)
  BY DEF IInv
<1>2. UNCHANGED <<handler, closed, stopped, loop, blocked>>
  BY DEF Post
\* The loop is not closed under the close job: only that stops it.
<1>3. Over => thread[t].at # "close"
  BY <1>1 DEF OneClose, CloseIsDone
<1>4. CASE loop = "closed"
  <2>1. UNCHANGED <<ready, jobs>> /\ thread' = [thread EXCEPT ![t] = [at |-> "idle", job |-> NoJob]]
    BY <1>3, <1>4 DEF Post, At, Over
  <2>2. /\ thread'[t] = [at |-> "idle", job |-> NoJob]
        /\ \A s \in Threads : s # t => thread'[s] = thread[s]
        /\ \A s \in Threads : thread'[s].job \in {thread[s].job, NoJob}
    BY <1>1, <2>1 DEF Typed
  <2>3. Typed'
    BY <1>1, <1>2, <2>1 DEF Typed, Places
  <2>4. Waits' /\ PostedInOrder'
    BY <1>1, <2>1, <2>2 DEF Waits, PostedInOrder
  <2>5. \A s \in Threads : Closing(s)' => Closing(s)
    BY <2>1, <2>2 DEF Closing
  <2>6. OneClose'
    BY <1>1, <1>2, <2>1, <2>2, <2>5 DEF OneClose
  <2>7. Kept'
    BY <1>1, <1>2, <2>1, <2>2, JobsAre DEF Kept, Owed
  <2>8. Over' => Over
    BY <1>2, <2>1, <2>2 DEF Over
  <2>9. QED
    BY <1>1, <1>2, <1>4, <2>1, <2>3, <2>4, <2>6, <2>7, <2>8 DEF IInv, CloseIsDone
<1>5. CASE loop # "closed"
  <2> DEFINE new == [kind |-> thread[t].at, by |-> t, state |-> "posted", told |-> FALSE,
                     late |-> closed]
             k == Len(jobs) + 1
  <2>1. /\ thread[t].at \in Kinds
        /\ jobs' = Append(jobs, new) /\ ready' = Append(ready, Len(jobs'))
        /\ thread' = [thread EXCEPT ![t] = [at |-> "waiting", job |-> Len(jobs')]]
    BY <1>5 DEF Post, At, Kinds
  <2>2. new \in Job
    BY <1>1, <2>1 DEF Typed, Job, States, Kinds
  <2>3. /\ jobs' \in Seq(Job) /\ Len(jobs') = k /\ k \in Nat
        /\ DOMAIN jobs = 1..Len(jobs) /\ DOMAIN jobs' = 1..k
        /\ \A n \in DOMAIN jobs : jobs'[n] = jobs[n]
        /\ jobs'[k] = new
    BY <1>1, <2>1, <2>2, Appended DEF Typed
  <2>4. /\ ready' \in Seq(Int) /\ Len(ready) \in Nat /\ DOMAIN ready = 1..Len(ready)
        /\ DOMAIN ready' = 1..(Len(ready) + 1)
        /\ \A i \in DOMAIN ready : ready'[i] = ready[i]
        /\ ready'[Len(ready) + 1] = k
    BY <1>1, <2>1, <2>3, Appended DEF Typed
  <2> HIDE DEF k
  <2>5. /\ thread'[t] = [at |-> "waiting", job |-> k]
        /\ \A s \in Threads : s # t => thread'[s] = thread[s]
    BY <1>1, <2>1, <2>3 DEF Typed
  <2>6. /\ \A n \in DOMAIN jobs : n \in DOMAIN jobs' /\ n < k /\ n # k
        /\ \A n \in DOMAIN jobs' : n \in DOMAIN jobs \/ n = k
        /\ k \in DOMAIN jobs'
    BY <2>3 DEF k
  <2>7. Typed'
    <3>1. thread' \in [Threads -> [at : Places, job : Nat \cup {NoJob}]]
      BY <1>1, <2>1, <2>3 DEF Typed, Places
    <3>2. QED
      BY <1>1, <1>2, <2>3, <2>4, <3>1 DEF Typed
  <2>8. Waits'
    BY <1>1, <2>3, <2>5, <2>6 DEF Waits
  <2>9. Queue'
    <3> DEFINE last == Len(ready) + 1
    <3>1. Queue
      BY <1>1, <1>5
    <3>2. /\ \A i \in DOMAIN ready : i \in DOMAIN ready' /\ i < last /\ ready'[i] = ready[i]
                                     /\ ready[i] \in Int /\ ready[i] < k /\ -ready[i] < k
          /\ \A i \in DOMAIN ready' : i \in DOMAIN ready \/ i = last
          /\ last \in DOMAIN ready' /\ ready'[last] = k /\ k > 0
      BY <1>1, <2>3, <2>4, <3>1 DEF Queue, Typed, k
    <3>3. \A i, j \in DOMAIN ready' : i < j => i \in DOMAIN ready
      BY <2>4
    <3> HIDE DEF last
    <3>4. /\ \A i \in DOMAIN ready' : ready'[i] <= Len(jobs') /\ -ready'[i] <= Len(jobs')
          /\ \A i \in DOMAIN ready' : ready'[i] > 0 => jobs'[ready'[i]].state = "posted"
      <4>1. ASSUME NEW i \in DOMAIN ready, ready[i] > 0
            PROVE  jobs'[ready[i]] = jobs[ready[i]]
        BY <2>3, <3>1, <3>2, <4>1 DEF Queue
      <4>2. QED
        BY <2>3, <3>1, <3>2, <4>1 DEF Queue
    <3>5. \A n \in DOMAIN jobs' :
             /\ jobs'[n].state = "posted" => \E i \in DOMAIN ready' : ready'[i] = n
             /\ jobs'[n].state = "created" => \E i \in DOMAIN ready' : ready'[i] = -n
      BY <2>3, <2>6, <3>1, <3>2 DEF Queue
    <3>6. \A i, j \in DOMAIN ready' : i < j =>
             /\ ready'[i] > 0 /\ ready'[j] > 0 => ready'[i] < ready'[j]
             /\ ready'[i] < 0 /\ ready'[j] < 0 => ready'[j] < ready'[i]
      <4> TAKE i, j \in DOMAIN ready'
      <4>1. CASE j \in DOMAIN ready
        BY <3>1, <3>2, <3>3, <4>1 DEF Queue
      <4>2. CASE j = last
        <5>1. ~(k < 0)
          BY <2>3
        <5>2. QED
          BY <3>2, <3>3, <4>2, <5>1
      <4>3. QED
        BY <3>2, <4>1, <4>2
    <3>7. \A i, j \in DOMAIN ready' : ready'[i] > 0 /\ ready'[j] < 0 => -ready'[j] < ready'[i]
      <4> TAKE i, j \in DOMAIN ready'
      <4>1. ready'[j] < 0 => j \in DOMAIN ready
        BY <2>3, <3>2
      <4>2. CASE i \in DOMAIN ready
        BY <3>1, <3>2, <4>1, <4>2 DEF Queue
      <4>3. CASE i = last
        BY <3>2, <4>1, <4>3
      <4>4. QED
        BY <3>2, <4>2, <4>3
    <3>8. QED
      BY <3>4, <3>5, <3>6, <3>7 DEF Queue
  <2>10. PostedInOrder'
    BY <1>1, <2>3, <2>6 DEF PostedInOrder
  <2>11. \A s \in Threads : s # t => Closing(s)' = Closing(s)
    BY <1>1, <2>3, <2>5 DEF Closing, Waits
  <2>12. Closing(t)' <=> thread[t].at = "close"
    BY <2>3, <2>5, <2>6 DEF Closing
  <2>13. OneClose'
    <3>1. CASE thread[t].at = "close"
      <4>1. Closing(t) /\ closed /\ new.late /\ ~new.told /\ new.kind = "close"
        BY <1>1, <3>1 DEF Closing, OneClose
      <4>2. \A m \in DOMAIN jobs : jobs[m].kind # "close"
        BY <1>1, <3>1 DEF OneClose
      <4>3. \A s \in Threads : thread'[s].at # "close"
        BY <1>1, <2>5, <4>1 DEF OneClose, Closing
      <4>4. /\ \A s \in Threads : Closing(s)' => closed'
            /\ \A r, s \in Threads : Closing(r)' /\ Closing(s)' => r = s
        BY <1>1, <1>2, <2>11, <2>12, <4>1 DEF OneClose
      <4>5. QED
        BY <1>1, <1>2, <2>3, <2>6, <4>1, <4>2, <4>3, <4>4 DEF OneClose
    <3>2. CASE thread[t].at # "close"
      <4>1. new.kind # "close" /\ new.late = closed
        BY <3>2
      <4>2. /\ \A s \in Threads : Closing(s)' => closed'
            /\ \A r, s \in Threads : Closing(r)' /\ Closing(s)' => r = s
        BY <1>1, <1>2, <2>11, <2>12, <3>2 DEF OneClose
      <4>3. QED
        BY <1>1, <1>2, <2>3, <2>5, <2>6, <4>1, <4>2 DEF OneClose
    <3>3. QED
      BY <3>1, <3>2
  <2>14. Over' => Over
    <3>1. k # Stop
      BY <2>3 DEF k, Stop
    <3>2. QED
      BY <1>2, <2>4, <2>5, <3>1 DEF Over
  <2>15. CloseIsDone => CloseIsDone'
    BY <2>3, <2>6 DEF CloseIsDone
  <2>16. Kept'
    <3>1. ASSUME NEW n \in DOMAIN jobs
          PROVE  /\ UNCHANGED jobs[n] /\ thread'[jobs[n].by].job \in {thread[jobs[n].by].job, k}
                 /\ n # k
      BY <1>1, <2>3, <2>5, <2>6, JobsAre
    <3>2. loop \in {"draining", "closed"} => jobs'[k].late /\ jobs'[k].kind # "close"
      <4>1. loop \in {"draining", "closed"} => closed /\ thread[t].at # "close"
        BY <1>1, <1>3 DEF Over, CloseIsDone, OneClose
      <4>2. QED
        BY <2>3, <4>1
    <3>3. QED
      BY <1>1, <1>2, <2>3, <2>6, <3>1, <3>2 DEF Kept, Owed
  <2>17. QED
    BY <1>1, <2>7, <2>8, <2>9, <2>10, <2>13, <2>14, <2>15, <2>16 DEF IInv
<1>6. QED
  BY <1>4, <1>5

LEMMA StopStep ==
    ASSUME FacadeAssumption, IInv, NEW t \in Threads, StopRunner(t)
    PROVE  IInv'
<1>1. Typed /\ Waits /\ PostedInOrder /\ OneClose /\ Kept
      /\ (loop # "closed" => Queue) /\ (Over => CloseIsDone)
  BY DEF IInv
<1>2. /\ UNCHANGED <<closed, loop, jobs>> /\ stopped' = TRUE /\ thread[t].at = "stop"
      /\ ready' = ready \/ ready' = Append(ready, Stop)
  BY DEF StopRunner
<1>3. PICK where \in {"idle", "joining"} :
         thread' = [thread EXCEPT ![t] = [at |-> where, job |-> NoJob]]
  BY DEF StopRunner, At
<1>4. /\ thread'[t] = [at |-> where, job |-> NoJob]
      /\ \A s \in Threads : s # t => thread'[s] = thread[s]
      /\ \A s \in Threads : thread'[s].job \in {thread[s].job, NoJob}
  BY <1>1, <1>3 DEF Typed
<1>5. /\ ready' \in Seq(Int) /\ \A i \in DOMAIN ready : i \in DOMAIN ready' /\ ready'[i] = ready[i]
      /\ \A i \in DOMAIN ready' : i \in DOMAIN ready \/ ready'[i] = 0
  <2>1. CASE ready' = Append(ready, Stop)
    <3>1. Stop \in Int
      BY DEF Stop
    <3>2. QED
      BY <1>1, <2>1, <3>1, Appended DEF Typed, Stop
  <2>2. QED
    BY <1>1, <1>2, <2>1 DEF Typed
<1>6. Typed'
  <2>1. thread' \in [Threads -> [at : Places, job : Nat \cup {NoJob}]]
    BY <1>1, <1>3 DEF Typed, Places
  <2>2. QED
    BY <1>1, <1>2, <1>5, <2>1 DEF Typed
<1>7. Waits' /\ PostedInOrder'
  BY <1>1, <1>2, <1>4 DEF Waits, PostedInOrder
<1>8. (loop # "closed" => Queue)'
  <2>1. SUFFICES ASSUME loop # "closed"
                 PROVE  Queue'
    BY <1>2
  <2>2. Queue
    BY <1>1, <2>1
  <2>3. \A i \in DOMAIN ready' : ready'[i] # 0 => i \in DOMAIN ready /\ ready'[i] = ready[i]
    BY <1>5
  <2>4. 0 <= Len(jobs) /\ -0 <= Len(jobs) /\ ~(0 > 0) /\ ~(0 < 0)
    BY <1>1 DEF Typed
  <2>5. \A i \in DOMAIN ready' :
           /\ ready'[i] <= Len(jobs') /\ -ready'[i] <= Len(jobs')
           /\ ready'[i] > 0 => jobs'[ready'[i]].state = "posted"
    BY <1>2, <2>2, <2>3, <2>4 DEF Queue
  <2>6. \A i, j \in DOMAIN ready' :
           /\ i < j /\ ready'[i] > 0 /\ ready'[j] > 0 => ready'[i] < ready'[j]
           /\ i < j /\ ready'[i] < 0 /\ ready'[j] < 0 => ready'[j] < ready'[i]
           /\ ready'[i] > 0 /\ ready'[j] < 0 => -ready'[j] < ready'[i]
    BY <2>2, <2>3, <2>4 DEF Queue
  <2>7. QED
    BY <1>2, <1>5, <2>2, <2>5, <2>6 DEF Queue
<1>9. OneClose'
  <2>1. \A s \in Threads : Closing(s)' => Closing(s)
    BY <1>2, <1>4 DEF Closing
  <2>2. \A s \in Threads : thread[s].at # "close" => thread'[s].at # "close"
    BY <1>4
  <2>3. QED
    BY <1>1, <1>2, <2>1, <2>2 DEF OneClose
<1>10. Kept'
  BY <1>1, <1>2, <1>4, JobsAre DEF Kept, Owed
<1>11. CloseIsDone'
  BY <1>1, <1>2 DEF Over, CloseIsDone
<1>12. QED
  BY <1>6, <1>7, <1>8, <1>9, <1>10, <1>11 DEF IInv

-----------------------------------------------------------------------------
(* The jobs *)

\* Jobs that end leave the callbacks, their order and the close as they are.
LEMMA JobsEnd ==
    ASSUME FacadeAssumption, IInv, UNCHANGED <<closed, stopped, ready>>,
           jobs' \in Seq(Job), Len(jobs') = Len(jobs),
           \A n \in DOMAIN jobs :
              /\ UNCHANGED <<jobs[n].kind, jobs[n].by, jobs[n].late>>
              /\ jobs'[n].state # jobs[n].state =>
                    /\ jobs'[n].state \in {"done", "cancelled", "lost"}
                    /\ jobs[n].state \in {"posted", "created", "running"}
                    /\ jobs'[n].state = "done" => jobs[n].state = "running"
                    /\ jobs[n].state = "posted" => loop' = "closed"
              /\ jobs[n].kind = "close" /\ jobs'[n].told => jobs'[n].state = "done",
           loop' \in {"running", "stopping", "draining", "closed"},
           loop = "closed" => loop' = "closed", loop' # "running" => Over,
           thread' \in [Threads -> [at : Places, job : Nat \cup {NoJob}]],
           \A s \in Threads : thread'[s] = thread[s] \/ thread'[s] = [at |-> "idle", job |-> NoJob],
           Kept'
    PROVE  IInv'
<1>1. Typed /\ Waits /\ PostedInOrder /\ OneClose
      /\ (loop # "closed" => Queue) /\ (Over => CloseIsDone)
  BY DEF IInv
<1>2. DOMAIN jobs' = DOMAIN jobs
  BY <1>1 DEF Typed
<1>3. Typed'
  BY <1>1 DEF Typed
<1>4. Waits'
  BY <1>1, <1>2 DEF Waits
<1>5. PostedInOrder'
  BY <1>1, <1>2 DEF PostedInOrder
<1>6. (loop # "closed" => Queue)'
  <2>1. SUFFICES ASSUME loop' # "closed"
                 PROVE  Queue'
    OBVIOUS
  <2>2. Queue /\ \A i \in DOMAIN ready : ready[i] > 0 => ready[i] \in DOMAIN jobs
    BY <1>1, <2>1 DEF Queue, Typed
  <2>3. \A n \in DOMAIN jobs :
           /\ jobs[n].state = "posted" <=> jobs'[n].state = "posted"
           /\ jobs'[n].state = "created" => jobs[n].state = "created"
    BY <2>1
  <2>4. QED
    BY <1>2, <2>2, <2>3 DEF Queue
<1>7. OneClose'
  <2>1. \A s \in Threads : Closing(s)' => Closing(s)
    BY <1>1, <1>2 DEF Closing, Waits
  <2>2. \A s \in Threads : thread[s].at # "close" => thread'[s].at # "close"
    OBVIOUS
  <2>3. QED
    BY <1>1, <1>2, <2>1, <2>2 DEF OneClose
<1>8. (Over => CloseIsDone)'
  <2>1. Over' => Over
    BY DEF Over
  <2>2. CloseIsDone => CloseIsDone'
    BY <1>2 DEF CloseIsDone
  <2>3. QED
    BY <1>1, <2>1, <2>2
<1>9. QED
  BY <1>3, <1>4, <1>5, <1>6, <1>7, <1>8 DEF IInv

LEMMA AbandonStep ==
    ASSUME FacadeAssumption, IInv, NEW t \in Threads, Abandon(t)
    PROVE  IInv'
<1>1. Typed /\ Waits /\ OneClose /\ Kept
  BY DEF IInv
<1>2. PICK n \in DOMAIN jobs :
         /\ n = thread[t].job /\ jobs[n].kind = "iterate" /\ jobs[n].by = t
         /\ jobs' = [jobs EXCEPT ![n].state = IF @ \in {"created", "running"}
                                              THEN "cancelled" ELSE @]
  BY <1>1 DEF Abandon, Waits
<1>3. /\ UNCHANGED <<handler, closed, stopped, loop, blocked, ready>>
      /\ thread' = [thread EXCEPT ![t] = [at |-> "idle", job |-> NoJob]]
  BY DEF Abandon, At
<1>4. jobs[n] \in Job /\ \A m \in DOMAIN jobs : m # n => jobs'[m] = jobs[m]
  BY <1>1, <1>2 DEF Typed
<1>5. /\ jobs'[n] \in Job /\ UNCHANGED <<jobs[n].kind, jobs[n].by, jobs[n].late, jobs[n].told>>
      /\ jobs'[n].state = IF jobs[n].state \in {"created", "running"}
                          THEN "cancelled" ELSE jobs[n].state
  BY <1>1, <1>2, <1>4 DEF Typed, Job, States
<1>6. jobs' \in Seq(Job) /\ Len(jobs') = Len(jobs) /\ DOMAIN jobs' = DOMAIN jobs
  BY <1>1, <1>2, <1>5 DEF Typed
<1>7. /\ thread' \in [Threads -> [at : Places, job : Nat \cup {NoJob}]]
      /\ thread'[t] = [at |-> "idle", job |-> NoJob]
      /\ \A s \in Threads : thread'[s] = thread[s] \/ thread'[s] = [at |-> "idle", job |-> NoJob]
  BY <1>1, <1>3 DEF Typed, Places
<1>8. Kept'
  BY <1>1, <1>2, <1>3, <1>4, <1>5, <1>6, <1>7, JobsAre DEF Kept, Owed
<1>9. \A m \in DOMAIN jobs : jobs[m].kind = "close" /\ jobs'[m].told => jobs'[m].state = "done"
  BY <1>1, <1>2, <1>4 DEF OneClose
<1>10. loop \in {"running", "stopping", "draining", "closed"} /\ (loop # "running" => Over)
  BY <1>1 DEF Typed, Over
<1>11. \A m \in DOMAIN jobs :
          /\ UNCHANGED <<jobs[m].kind, jobs[m].by, jobs[m].late>>
          /\ jobs'[m].state # jobs[m].state =>
                /\ jobs'[m].state = "cancelled"
                /\ jobs[m].state \in {"created", "running"}
  BY <1>4, <1>5
<1>12. QED
  BY <1>3, <1>6, <1>7, <1>8, <1>9, <1>10, <1>11, JobsEnd

LEMMA FinishStep ==
    ASSUME FacadeAssumption, IInv, NEW n \in DOMAIN jobs, Finish(n)
    PROVE  IInv'
<1>1. Typed /\ OneClose /\ Kept
  BY DEF IInv
<1>2. /\ UNCHANGED <<handler, closed, stopped, loop, blocked, ready, thread>>
      /\ jobs[n].state = "running" /\ jobs[n] \in Job
      /\ jobs' = [jobs EXCEPT ![n].state = "done",
                              ![n].told = @ \/ jobs[n].kind # "iterate" \/ jobs[n].state = "running"]
  BY <1>1 DEF Finish, Ended, Typed
<1>3. \A m \in DOMAIN jobs : m # n => jobs'[m] = jobs[m]
  BY <1>1, <1>2 DEF Typed
<1>4. /\ UNCHANGED <<jobs[n].kind, jobs[n].by, jobs[n].late>>
      /\ jobs'[n].state = "done" /\ jobs'[n] \in Job
  BY <1>1, <1>2 DEF Typed, Job, States
<1>5. jobs' \in Seq(Job) /\ Len(jobs') = Len(jobs) /\ DOMAIN jobs' = DOMAIN jobs
  <2>1. DOMAIN jobs' = DOMAIN jobs /\ jobs' = [i \in DOMAIN jobs |-> jobs'[i]]
    BY <1>2
  <2>2. \A i \in DOMAIN jobs : jobs'[i] \in Job
    BY <1>1, <1>3, <1>4 DEF Typed
  <2>3. QED
    BY <1>1, <2>1, <2>2, Remade DEF Typed
<1>6. Kept'
  BY <1>1, <1>2, <1>3, <1>4, <1>5 DEF Kept, Owed
<1>7. \A m \in DOMAIN jobs : jobs[m].kind = "close" /\ jobs'[m].told => jobs'[m].state = "done"
  BY <1>1, <1>3, <1>4 DEF OneClose
<1>8. /\ loop \in {"running", "stopping", "draining", "closed"} /\ (loop # "running" => Over)
      /\ thread \in [Threads -> [at : Places, job : Nat \cup {NoJob}]]
  BY <1>1 DEF Typed, Over
<1>9. \A m \in DOMAIN jobs :
          /\ UNCHANGED <<jobs[m].kind, jobs[m].by, jobs[m].late>>
          /\ jobs'[m].state # jobs[m].state =>
                jobs'[m].state = "done" /\ jobs[m].state = "running"
  BY <1>2, <1>3, <1>4
<1>10. QED
  BY <1>2, <1>5, <1>6, <1>7, <1>8, <1>9, JobsEnd

\* By the end of the close job every job that is owed an answer runs or has ended.
LEMMA OwedHaveBegun ==
    ASSUME FacadeAssumption, IInv, Over, NEW n \in DOMAIN jobs, Owed(n)
    PROVE  jobs[n].state \notin {"posted", "created"}
           /\ (jobs[n].kind = "close" => jobs[n].state = "done")
<1>1. PICK m \in DOMAIN jobs : jobs[m].kind = "close" /\ jobs[m].state = "done"
  BY DEF IInv, CloseIsDone
<1>2. n < m \/ n = m
  BY <1>1 DEF IInv, OneClose, Owed
<1>3. QED
  BY <1>1, <1>2 DEF IInv, PostedInOrder, OneClose

\* run_forever() ends, and later the loop is closed: of the jobs that are owed an
\* answer those that still run are cancelled, and their callers told.
LEMMA DrainSteps ==
    ASSUME FacadeAssumption, IInv, BeginDrain \/ CloseLoop
    PROVE  IInv'
<1>1. Typed /\ OneClose /\ Kept /\ Over
  BY DEF IInv, Over, BeginDrain, CloseLoop
<1>2. UNCHANGED <<handler, closed, stopped, blocked, ready, thread>>
  BY DEF BeginDrain, CloseLoop
<1>3. DOMAIN jobs' = DOMAIN jobs /\ jobs' = [n \in DOMAIN jobs |-> jobs'[n]]
  BY DEF BeginDrain, CloseLoop
<1>4. ASSUME NEW n \in DOMAIN jobs
      PROVE  /\ jobs'[n] \in Job
             /\ UNCHANGED <<jobs[n].kind, jobs[n].by, jobs[n].late>>
             /\ UNCHANGED jobs[n] \/
                   /\ jobs[n].state \in {"posted", "created", "running"}
                   /\ jobs'[n].state \in {"cancelled", "lost"}
                   /\ jobs[n].state = "posted" => loop' = "closed"
                   /\ jobs[n].state = "running" /\ loop = "stopping" => jobs'[n].told
             /\ jobs'[n].state # "running"
  <2>1. jobs[n] \in Job
    BY <1>1 DEF Typed
  <2>2. CASE BeginDrain
    <3>1. CASE jobs[n].state = "created"
      BY <2>1, <2>2, <3>1 DEF BeginDrain, Job, States
    <3>2. CASE jobs[n].state = "running"
      BY <2>1, <2>2, <3>2 DEF BeginDrain, Job, States
    <3>3. CASE jobs[n].state \notin {"created", "running"}
      BY <2>1, <2>2, <3>3 DEF BeginDrain
    <3>4. QED
      BY <3>1, <3>2, <3>3
  <2>3. CASE CloseLoop
    BY <2>1, <2>3 DEF CloseLoop, Job, States
  <2>4. QED
    BY <2>2, <2>3
<1>5. jobs' \in Seq(Job) /\ Len(jobs') = Len(jobs)
  BY <1>1, <1>3, <1>4, Remade DEF Typed
<1>6. loop \in {"stopping", "draining"} /\ loop' \in {"draining", "closed"}
      /\ (loop = "draining" => loop' = "closed")
  BY DEF BeginDrain, CloseLoop
<1>7. ASSUME NEW n \in DOMAIN jobs, Owed(n)
      PROVE  /\ jobs'[n].state \notin {"posted", "created", "running"}
             /\ jobs'[n].state \in {"lost", "cancelled"} =>
                   jobs'[n].told \/ thread'[jobs'[n].by].job # n
  <2>1. jobs[n].state \notin {"posted", "created"}
    BY <1>1, <1>7, OwedHaveBegun
  <2>2. CASE jobs[n].state = "running"
    <3>1. loop = "stopping"
      BY <1>1, <1>6, <1>7, <2>2 DEF Kept
    <3>2. QED
      BY <1>4, <2>2, <3>1
  <2>3. CASE jobs[n].state # "running"
    BY <1>1, <1>2, <1>4, <1>7, <2>1, <2>3 DEF Kept
  <2>4. QED
    BY <2>2, <2>3
<1>8. Kept'
  BY <1>2, <1>3, <1>4, <1>7 DEF Kept, Owed
<1>9. ASSUME NEW n \in DOMAIN jobs, jobs[n].kind = "close", jobs'[n].told
      PROVE  jobs'[n].state = "done"
  <2>1. jobs[n].state = "done"
    BY <1>1, <1>9, OwedHaveBegun DEF Owed
  <2>2. QED
    BY <1>4, <2>1
<1>10. thread \in [Threads -> [at : Places, job : Nat \cup {NoJob}]]
  BY <1>1 DEF Typed
<1>11. QED
  BY <1>1, <1>2, <1>4, <1>5, <1>6, <1>8, <1>9, <1>10, JobsEnd

-----------------------------------------------------------------------------
(* The callbacks *)

\* What is left of the callbacks when the first is taken.
LEMMA Taken ==
    ASSUME FacadeAssumption, Typed, Queue, ready # <<>>
    PROVE  LET n == Head(ready)
               rest == Tail(ready)
           IN  /\ n \in Int /\ n <= Len(jobs) /\ -n <= Len(jobs)
               /\ n > 0 => n \in DOMAIN jobs /\ jobs[n].state = "posted"
               /\ n < 0 => -n \in DOMAIN jobs
               /\ rest \in Seq(Int)
               /\ \A i \in DOMAIN ready : ready[i] # n => \E j \in DOMAIN rest : rest[j] = ready[i]
               /\ \A j \in DOMAIN rest :
                     /\ \E i \in DOMAIN ready : rest[j] = ready[i]
                     /\ n > 0 /\ rest[j] > 0 => n < rest[j]
                     /\ n < 0 /\ rest[j] < 0 => rest[j] < n
               /\ \A i, j \in DOMAIN rest : i < j /\ rest[i] > 0 /\ rest[j] > 0 => rest[i] < rest[j]
               /\ \A i, j \in DOMAIN rest : i < j /\ rest[i] < 0 /\ rest[j] < 0 => rest[j] < rest[i]
<1> DEFINE n == Head(ready)
           rest == Tail(ready)
<1>1. /\ rest \in Seq(Int) /\ Len(ready) \in Nat /\ DOMAIN ready = 1..Len(ready) /\ 1 \in DOMAIN ready
      /\ n \in Int /\ n = ready[1] /\ DOMAIN rest = 1..(Len(ready) - 1)
      /\ \A i \in DOMAIN rest : i + 1 \in DOMAIN ready /\ rest[i] = ready[i + 1]
  BY Tailed DEF Typed
<1>2. \A i \in DOMAIN ready : i # 1 => i - 1 \in DOMAIN rest /\ rest[i - 1] = ready[i]
  BY <1>1
<1>3. \A i \in DOMAIN rest : \E a \in DOMAIN ready : 1 < a /\ rest[i] = ready[a]
  BY <1>1
<1>4. \A i, j \in DOMAIN rest : i < j =>
         \E a, b \in DOMAIN ready : a < b /\ rest[i] = ready[a] /\ rest[j] = ready[b]
  <2> TAKE i, j \in DOMAIN rest
  <2>1. i < j => i + 1 < j + 1
    BY <1>1
  <2>2. QED
    BY <1>1, <2>1
<1> HIDE DEF n, rest
<1>5. n <= Len(jobs) /\ -n <= Len(jobs) /\ (n > 0 => jobs[n].state = "posted")
  BY <1>1 DEF Queue
<1>6. (n > 0 => n \in DOMAIN jobs) /\ (n < 0 => -n \in DOMAIN jobs)
  BY <1>1, <1>5, JobsAre
<1>7. \A j \in DOMAIN rest :
         /\ \E i \in DOMAIN ready : rest[j] = ready[i]
         /\ n > 0 /\ rest[j] > 0 => n < rest[j]
         /\ n < 0 /\ rest[j] < 0 => rest[j] < n
  <2> TAKE j \in DOMAIN rest
  <2>1. PICK a \in DOMAIN ready : 1 < a /\ rest[j] = ready[a]
    BY <1>3
  <2>2. /\ ready[1] > 0 /\ ready[a] > 0 => ready[1] < ready[a]
        /\ ready[1] < 0 /\ ready[a] < 0 => ready[a] < ready[1]
    BY <1>1, <2>1 DEF Queue
  <2>3. QED
    BY <1>1, <2>1, <2>2
<1>8. /\ \A i, j \in DOMAIN rest : i < j /\ rest[i] > 0 /\ rest[j] > 0 => rest[i] < rest[j]
      /\ \A i, j \in DOMAIN rest : i < j /\ rest[i] < 0 /\ rest[j] < 0 => rest[j] < rest[i]
  <2>1. ASSUME NEW i \in DOMAIN rest, NEW j \in DOMAIN rest, i < j
        PROVE  /\ rest[i] > 0 /\ rest[j] > 0 => rest[i] < rest[j]
               /\ rest[i] < 0 /\ rest[j] < 0 => rest[j] < rest[i]
    <3>1. PICK a, b \in DOMAIN ready : a < b /\ rest[i] = ready[a] /\ rest[j] = ready[b]
      BY <1>4, <2>1
    <3>2. /\ ready[a] > 0 /\ ready[b] > 0 => ready[a] < ready[b]
          /\ ready[a] < 0 /\ ready[b] < 0 => ready[b] < ready[a]
      BY <3>1 DEF Queue
    <3>3. QED
      BY <3>1, <3>2
  <2>2. QED
    BY <2>1
<1>9. QED
  BY <1>1, <1>2, <1>5, <1>6, <1>7, <1>8 DEF n, rest

\* The loop is told to stop: the callback of stop(), which the close job has preceded.
LEMMA StopCallback ==
    ASSUME FacadeAssumption, IInv, RunCallback, Head(ready) = Stop
    PROVE  IInv'
<1>1. /\ UNCHANGED <<handler, closed, stopped, blocked, thread, jobs>> /\ ready # <<>>
      /\ loop # "closed" /\ loop' = "stopping" /\ ready' = Tail(ready)
  BY DEF RunCallback, Stop
<1>2. Typed /\ Waits /\ PostedInOrder /\ OneClose /\ Kept /\ Queue /\ (Over => CloseIsDone)
  BY <1>1 DEF IInv
<1>3. 1 \in DOMAIN ready /\ ready[1] = Stop
  BY <1>1, <1>2, Tailed DEF Typed
<1>4. Queue'
  <2>1. /\ \A i \in DOMAIN ready : ready[i] # 0 => \E j \in DOMAIN ready' : ready'[j] = ready[i]
        /\ \A j \in DOMAIN ready' : \E i \in DOMAIN ready : ready'[j] = ready[i]
        /\ \A i, j \in DOMAIN ready' : i < j /\ ready'[i] > 0 /\ ready'[j] > 0 => ready'[i] < ready'[j]
        /\ \A i, j \in DOMAIN ready' : i < j /\ ready'[i] < 0 /\ ready'[j] < 0 => ready'[j] < ready'[i]
    BY <1>1, <1>2, Taken DEF Stop
  <2>2. \A i, j \in DOMAIN ready' : ready'[i] > 0 /\ ready'[j] < 0 => -ready'[j] < ready'[i]
    BY <1>2, <2>1 DEF Queue
  <2>3. \A m \in DOMAIN jobs : m # 0 /\ -m # 0
    BY <1>2, JobsAre
  <2>4. \A i \in DOMAIN ready' :
           /\ ready'[i] <= Len(jobs) /\ -ready'[i] <= Len(jobs)
           /\ ready'[i] > 0 => jobs[ready'[i]].state = "posted"
    BY <1>2, <2>1 DEF Queue
  <2>5. \A m \in DOMAIN jobs :
           /\ jobs[m].state = "posted" => \E i \in DOMAIN ready' : ready'[i] = m
           /\ jobs[m].state = "created" => \E i \in DOMAIN ready' : ready'[i] = -m
    BY <1>2, <2>1, <2>3 DEF Queue
  <2>6. QED
    BY <1>1, <2>1, <2>2, <2>4, <2>5 DEF Queue
<1>5. Typed'
  BY <1>1, <1>2, Tailed DEF Typed
<1>6. Waits' /\ PostedInOrder' /\ OneClose' /\ Kept'
  BY <1>1, <1>2 DEF Waits, PostedInOrder, OneClose, Closing, Kept, Owed
<1>7. CloseIsDone'
  BY <1>1, <1>2, <1>3 DEF Over, CloseIsDone
<1>8. QED
  BY <1>4, <1>5, <1>6, <1>7 DEF IInv

\* A task is made of the first job that is posted: it joins the first steps as the last.
LEMMA CreateCallback ==
    ASSUME FacadeAssumption, IInv, RunCallback, Head(ready) > 0
    PROVE  IInv'
<1>0. PICK n, rest : n = Head(ready) /\ rest = Tail(ready)
  OBVIOUS
<1>1. /\ UNCHANGED <<handler, closed, stopped, blocked, thread, loop>> /\ ready # <<>>
      /\ loop # "closed" /\ ready' = Append(rest, -n)
      /\ jobs' = [jobs EXCEPT ![n].state = "created"]
  <2>1. ready # <<>> /\ loop # "closed" /\ Head(ready) \in Int
    BY Tailed DEF RunCallback, IInv, Typed
  <2>2. QED
    BY <1>0, <2>1 DEF RunCallback, Stop, FirstStep
<1>2. Typed /\ Waits /\ PostedInOrder /\ OneClose /\ Kept /\ Queue /\ (Over => CloseIsDone)
  BY <1>1 DEF IInv
<1>3. /\ n \in Int /\ n > 0 /\ n <= Len(jobs) /\ -n <= Len(jobs)
      /\ n \in DOMAIN jobs /\ jobs[n].state = "posted" /\ rest \in Seq(Int)
      /\ \A i \in DOMAIN ready : ready[i] # n => \E j \in DOMAIN rest : rest[j] = ready[i]
      /\ \A j \in DOMAIN rest :
            /\ \E i \in DOMAIN ready : rest[j] = ready[i]
            /\ rest[j] > 0 => n < rest[j]
      /\ \A i, j \in DOMAIN rest : i < j /\ rest[i] > 0 /\ rest[j] > 0 => rest[i] < rest[j]
      /\ \A i, j \in DOMAIN rest : i < j /\ rest[i] < 0 /\ rest[j] < 0 => rest[j] < rest[i]
  BY <1>0, <1>1, <1>2, Taken
<1>4. /\ \E i \in DOMAIN ready : ready[i] = n
      /\ \A j \in DOMAIN rest : rest[j] \in Int
  BY <1>0, <1>1, <1>2, <1>3, Tailed DEF Typed
<1>5. /\ -n \in Int /\ -n < 0 /\ -(-n) = n
  BY <1>3
<1>6. /\ ready' \in Seq(Int) /\ DOMAIN rest = 1..Len(rest) /\ Len(rest) \in Nat
      /\ DOMAIN ready' = 1..(Len(rest) + 1)
      /\ \A i \in DOMAIN rest : ready'[i] = rest[i]
      /\ ready'[Len(rest) + 1] = -n
  BY <1>1, <1>3, <1>5, Appended
<1>7. /\ \A m \in DOMAIN jobs : m # n => jobs'[m] = jobs[m]
      /\ UNCHANGED <<jobs[n].kind, jobs[n].by, jobs[n].late, jobs[n].told>>
      /\ jobs'[n].state = "created" /\ jobs'[n] \in Job /\ DOMAIN jobs' = DOMAIN jobs
  <2>1. jobs[n] \in Job
    BY <1>2, <1>3 DEF Typed
  <2>2. jobs'[n] = [jobs[n] EXCEPT !.state = "created"]
    BY <1>1, <1>3
  <2>3. /\ UNCHANGED <<jobs[n].kind, jobs[n].by, jobs[n].late, jobs[n].told>>
        /\ jobs'[n].state = "created" /\ jobs'[n] \in Job
    <3>1. "created" \in States
      BY DEF States
    <3>2. QED
      BY <2>1, <2>2, <3>1, Moved
  <2>4. DOMAIN jobs' = DOMAIN jobs /\ \A m \in DOMAIN jobs : m # n => jobs'[m] = jobs[m]
    BY <1>1
  <2>5. QED
    BY <2>3, <2>4
<1>8. jobs' \in Seq(Job) /\ Len(jobs') = Len(jobs)
  <2>1. /\ jobs' = [m \in DOMAIN jobs |-> jobs'[m]]
        /\ \A m \in DOMAIN jobs : jobs'[m] \in Job
    <3>1. jobs' = [m \in DOMAIN jobs |-> jobs'[m]]
      BY <1>1
    <3>2. \A m \in DOMAIN jobs : jobs[m] \in Job
      BY <1>2 DEF Typed
    <3>3. QED
      BY <1>7, <3>1, <3>2
  <2>2. QED
    BY <1>2, <1>7, <2>1, Remade DEF Typed
<1>9. Typed' /\ Waits'
  BY <1>1, <1>2, <1>6, <1>7, <1>8 DEF Typed, Waits
\* Nothing that comes after n runs while n is posted.
<1>10. PostedInOrder'
  BY <1>2, <1>3, <1>7 DEF PostedInOrder
<1>11. Queue'
  <2> DEFINE last == Len(rest) + 1
  <2>1. /\ \A i \in DOMAIN rest : i \in DOMAIN ready' /\ i < last /\ ready'[i] = rest[i]
        /\ \A i \in DOMAIN ready' : i \in DOMAIN rest \/ i = last
        /\ last \in DOMAIN ready' /\ ready'[last] = -n /\ ~(last < last)
        /\ \A i, j \in DOMAIN ready' : i < j => i \in DOMAIN rest
    BY <1>6
  <2> HIDE DEF last
  <2>2. \A i \in DOMAIN ready' :
           /\ ready'[i] <= Len(jobs') /\ -ready'[i] <= Len(jobs')
           /\ ready'[i] > 0 => jobs'[ready'[i]].state = "posted"
    <3> TAKE i \in DOMAIN ready'
    <3>1. CASE i \in DOMAIN rest
      <4>1. /\ rest[i] <= Len(jobs) /\ -rest[i] <= Len(jobs)
            /\ rest[i] > 0 => jobs[rest[i]].state = "posted"
        BY <1>2, <1>3, <3>1 DEF Queue
      <4>2. rest[i] > 0 => rest[i] \in DOMAIN jobs /\ rest[i] # n
        BY <1>2, <1>3, <1>4, <3>1, <4>1, JobsAre
      <4>3. QED
        BY <1>7, <1>8, <2>1, <3>1, <4>1, <4>2
    <3>2. CASE i = last
      BY <1>3, <1>5, <1>8, <2>1, <3>2
    <3>3. QED
      BY <2>1, <3>1, <3>2
  <2>3. \A m \in DOMAIN jobs' :
           /\ jobs'[m].state = "posted" => \E i \in DOMAIN ready' : ready'[i] = m
           /\ jobs'[m].state = "created" => \E i \in DOMAIN ready' : ready'[i] = -m
    <3> TAKE m \in DOMAIN jobs'
    <3>1. CASE m = n
      BY <1>7, <2>1, <3>1
    <3>2. CASE m # n
      <4>1. m \in DOMAIN jobs /\ jobs'[m] = jobs[m] /\ -m # n
        BY <1>2, <1>3, <1>7, <3>2, JobsAre
      <4>2. /\ jobs[m].state = "posted" => \E i \in DOMAIN rest : rest[i] = m
            /\ jobs[m].state = "created" => \E i \in DOMAIN rest : rest[i] = -m
        BY <1>2, <1>3, <3>2, <4>1 DEF Queue
      <4>3. QED
        BY <2>1, <4>1, <4>2
    <3>3. QED
      BY <3>1, <3>2
  <2>4. \A i, j \in DOMAIN ready' : i < j /\ ready'[i] > 0 /\ ready'[j] > 0 => ready'[i] < ready'[j]
    BY <1>3, <1>5, <2>1
  \* What is created already was posted before n.
  <2>5. \A j \in DOMAIN rest : rest[j] < 0 => -n < rest[j]
    <3> TAKE j \in DOMAIN rest
    <3>1. PICK i \in DOMAIN ready : rest[j] = ready[i]
      BY <1>3
    <3>2. rest[j] < 0 => -rest[j] < n
      BY <1>2, <1>3, <1>4, <3>1 DEF Queue
    <3>3. QED
      BY <1>3, <1>4, <3>2
  <2>6. \A i, j \in DOMAIN ready' : i < j /\ ready'[i] < 0 /\ ready'[j] < 0 => ready'[j] < ready'[i]
    <3> TAKE i, j \in DOMAIN ready'
    <3>1. CASE j \in DOMAIN rest
      BY <1>3, <2>1, <3>1
    <3>2. CASE j = last
      BY <2>1, <2>5, <3>2
    <3>3. QED
      BY <2>1, <3>1, <3>2
  <2>7. \A i, j \in DOMAIN ready' : ready'[i] > 0 /\ ready'[j] < 0 => -ready'[j] < ready'[i]
    <3> TAKE i, j \in DOMAIN ready'
    <3>1. ready'[i] > 0 => i \in DOMAIN rest
      BY <1>3, <1>5, <2>1
    <3>2. CASE j \in DOMAIN rest
      <4>1. ASSUME i \in DOMAIN rest
            PROVE  rest[i] > 0 /\ rest[j] < 0 => -rest[j] < rest[i]
        <5>1. PICK a, b \in DOMAIN ready : rest[i] = ready[a] /\ rest[j] = ready[b]
          BY <1>3, <3>2, <4>1
        <5>2. QED
          BY <1>2, <5>1 DEF Queue
      <4>2. QED
        BY <2>1, <3>1, <3>2, <4>1
    <3>3. CASE j = last
      BY <1>3, <1>5, <2>1, <3>1, <3>3
    <3>4. QED
      BY <2>1, <3>2, <3>3
  <2>8. QED
    BY <2>2, <2>3, <2>4, <2>6, <2>7 DEF Queue
<1>12. OneClose'
  <2>1. \A s \in Threads : Closing(s)' <=> Closing(s)
    BY <1>1, <1>2, <1>7 DEF Closing, Waits
  <2>2. \A m \in DOMAIN jobs : jobs'[m].kind = "close" /\ jobs'[m].told => jobs'[m].state = "done"
    <3>1. \A m \in DOMAIN jobs : jobs[m].kind = "close" /\ jobs[m].told => jobs[m].state = "done"
      BY <1>2 DEF OneClose
    <3>2. "posted" # "done"
      OBVIOUS
    <3>3. ASSUME NEW m \in DOMAIN jobs, jobs'[m].kind = "close", jobs'[m].told
          PROVE  jobs'[m].state = "done"
      <4>1. CASE m = n
        <5>1. jobs[n].kind = "close" /\ jobs[n].told
          BY <1>7, <3>3, <4>1
        <5>2. QED
          BY <1>3, <3>1, <3>2, <5>1
      <4>2. CASE m # n
        BY <1>7, <3>1, <3>3, <4>2
      <4>3. QED
        BY <4>1, <4>2
    <3>4. QED
      BY <3>3
  <2>3. QED
    BY <1>1, <1>2, <1>7, <2>1, <2>2 DEF OneClose
<1>13. (Over => CloseIsDone)'
  <2>1. -n # Stop
    BY <1>3 DEF Stop
  <2>2. \A i \in DOMAIN ready' : ready'[i] = Stop => \E j \in DOMAIN ready : ready[j] = Stop
    BY <1>3, <1>6, <2>1
  <2>3. Over' => Over
    BY <1>1, <2>2 DEF Over
  <2>4. CloseIsDone => CloseIsDone'
    BY <1>3, <1>7 DEF CloseIsDone
  <2>5. QED
    BY <1>2, <2>3, <2>4
<1>14. Kept'
  BY <1>1, <1>2, <1>3, <1>7 DEF Kept, Owed
<1>15. QED
  BY <1>9, <1>10, <1>11, <1>12, <1>13, <1>14 DEF IInv

\* A task takes its first step: every job that was posted before it has taken its own.
LEMMA FirstStepCallback ==
    ASSUME FacadeAssumption, IInv, RunCallback, Head(ready) < 0
    PROVE  IInv'
<1>0. PICK n, m, rest : n = Head(ready) /\ m = -Head(ready) /\ rest = Tail(ready)
  OBVIOUS
<1>1. /\ UNCHANGED <<handler, closed, stopped, blocked, thread, loop>> /\ ready # <<>>
      /\ loop # "closed" /\ ready' = rest
      /\ jobs' = [jobs EXCEPT ![m].state = IF @ = "created" THEN "running" ELSE @]
  <2>1. ready # <<>> /\ loop # "closed" /\ Head(ready) \in Int
    BY Tailed DEF RunCallback, IInv, Typed
  <2>2. QED
    BY <1>0, <2>1 DEF RunCallback, Stop
<1>2. Typed /\ Waits /\ PostedInOrder /\ OneClose /\ Kept /\ Queue /\ (Over => CloseIsDone)
  BY <1>1 DEF IInv
<1>3. /\ n \in Int /\ n < 0 /\ m = -n /\ n = -m /\ m > 0
      /\ m \in DOMAIN jobs /\ jobs[m] \in Job /\ rest \in Seq(Int)
      /\ \A i \in DOMAIN ready : ready[i] # n => \E j \in DOMAIN rest : rest[j] = ready[i]
      /\ \A j \in DOMAIN rest :
            /\ \E i \in DOMAIN ready : rest[j] = ready[i]
            /\ rest[j] < 0 => rest[j] < n
      /\ \A i, j \in DOMAIN rest : i < j /\ rest[i] > 0 /\ rest[j] > 0 => rest[i] < rest[j]
      /\ \A i, j \in DOMAIN rest : i < j /\ rest[i] < 0 /\ rest[j] < 0 => rest[j] < rest[i]
  <2>1. /\ n \in Int /\ n < 0 /\ -n \in DOMAIN jobs /\ rest \in Seq(Int) /\ m = -n
        /\ \A i \in DOMAIN ready : ready[i] # n => \E j \in DOMAIN rest : rest[j] = ready[i]
        /\ \A j \in DOMAIN rest :
              /\ \E i \in DOMAIN ready : rest[j] = ready[i]
              /\ rest[j] < 0 => rest[j] < n
        /\ \A i, j \in DOMAIN rest : i < j /\ rest[i] > 0 /\ rest[j] > 0 => rest[i] < rest[j]
        /\ \A i, j \in DOMAIN rest : i < j /\ rest[i] < 0 /\ rest[j] < 0 => rest[j] < rest[i]
    BY <1>0, <1>1, <1>2, Taken
  <2>2. n = -m /\ m > 0 /\ jobs[m] \in Job
    BY <1>2, <2>1, JobsAre
  <2>3. QED
    BY <2>1, <2>2
<1>4. /\ \E i \in DOMAIN ready : ready[i] = n
      /\ \A j \in DOMAIN rest : rest[j] \in Int
  BY <1>0, <1>1, <1>2, <1>3, Tailed DEF Typed
<1>5. PICK state \in States :
         /\ jobs' = [jobs EXCEPT ![m].state = state]
         /\ state = IF jobs[m].state = "created" THEN "running" ELSE jobs[m].state
  BY <1>1, <1>3 DEF Job, States
<1>6. /\ \A k \in DOMAIN jobs : k # m => jobs'[k] = jobs[k]
      /\ UNCHANGED <<jobs[m].kind, jobs[m].by, jobs[m].late, jobs[m].told>>
      /\ jobs'[m].state = state /\ jobs'[m] \in Job /\ DOMAIN jobs' = DOMAIN jobs
  <2>1. jobs'[m] = [jobs[m] EXCEPT !.state = state]
    BY <1>3, <1>5
  <2>2. /\ UNCHANGED <<jobs[m].kind, jobs[m].by, jobs[m].late, jobs[m].told>>
        /\ jobs'[m].state = state /\ jobs'[m] \in Job
    BY <1>3, <1>5, <2>1, Moved
  <2>3. DOMAIN jobs' = DOMAIN jobs /\ \A k \in DOMAIN jobs : k # m => jobs'[k] = jobs[k]
    BY <1>5
  <2>4. QED
    BY <2>2, <2>3
<1>7. jobs' \in Seq(Job) /\ Len(jobs') = Len(jobs)
  <2>1. jobs' = [k \in DOMAIN jobs |-> jobs'[k]]
    BY <1>5
  <2>2. \A k \in DOMAIN jobs : jobs[k] \in Job
    BY <1>2 DEF Typed
  <2>3. \A k \in DOMAIN jobs : jobs'[k] \in Job
    BY <1>6, <2>2
  <2>4. QED
    BY <1>2, <1>6, <2>1, <2>3, Remade DEF Typed
<1>8. Typed' /\ Waits'
  BY <1>1, <1>2, <1>3, <1>6, <1>7 DEF Typed, Waits
<1>9. Queue'
  <2>1. /\ \A i, j \in DOMAIN ready' : i < j /\ ready'[i] > 0 /\ ready'[j] > 0 => ready'[i] < ready'[j]
        /\ \A i, j \in DOMAIN ready' : i < j /\ ready'[i] < 0 /\ ready'[j] < 0 => ready'[j] < ready'[i]
    BY <1>1, <1>3
  <2>2. \A i, j \in DOMAIN ready' : ready'[i] > 0 /\ ready'[j] < 0 => -ready'[j] < ready'[i]
    <3> TAKE i, j \in DOMAIN ready'
    <3>1. PICK a, b \in DOMAIN ready : ready'[i] = ready[a] /\ ready'[j] = ready[b]
      BY <1>1, <1>3
    <3>2. QED
      BY <1>2, <3>1 DEF Queue
  <2>3. \A i \in DOMAIN ready' :
           /\ ready'[i] <= Len(jobs') /\ -ready'[i] <= Len(jobs')
           /\ ready'[i] > 0 => jobs'[ready'[i]].state = "posted"
    <3> TAKE i \in DOMAIN ready'
    <3>1. PICK a \in DOMAIN ready : ready'[i] = ready[a]
      BY <1>1, <1>3
    <3>2. /\ ready[a] <= Len(jobs) /\ -ready[a] <= Len(jobs)
          /\ ready[a] > 0 => jobs[ready[a]].state = "posted"
      BY <1>2 DEF Queue
    <3>3. ready[a] > 0 => ready[a] \in DOMAIN jobs
      BY <1>1, <1>2, <1>4, <3>1, <3>2, JobsAre
    <3>4. ready[a] > 0 => jobs'[ready[a]].state = "posted"
      BY <1>5, <1>6, <3>2, <3>3
    <3>5. QED
      BY <1>7, <3>1, <3>2, <3>4
  <2>4. \A k \in DOMAIN jobs' :
           /\ jobs'[k].state = "posted" => \E i \in DOMAIN ready' : ready'[i] = k
           /\ jobs'[k].state = "created" => \E i \in DOMAIN ready' : ready'[i] = -k
    <3> TAKE k \in DOMAIN jobs'
    <3>1. /\ jobs'[k].state = "posted" => jobs[k].state = "posted"
          /\ jobs'[k].state = "created" => jobs[k].state = "created" /\ k # m
      BY <1>5, <1>6
    <3>2. k # n /\ (k # m => -k # n) /\ k \in DOMAIN jobs
      BY <1>2, <1>3, <1>6, JobsAre
    <3>3. /\ jobs[k].state = "posted" => \E i \in DOMAIN ready : ready[i] = k
          /\ jobs[k].state = "created" => \E i \in DOMAIN ready : ready[i] = -k
      BY <1>2, <3>2 DEF Queue
    <3>4. QED
      BY <1>1, <1>3, <3>1, <3>2, <3>3
  <2>5. QED
    BY <2>1, <2>2, <2>3, <2>4 DEF Queue
<1>10. PostedInOrder'
  <2>1. ASSUME NEW k \in DOMAIN jobs, k < m
        PROVE  jobs[k].state \notin {"posted", "created"}
    <3>0. k \in Int /\ -k \in Int /\ k > 0
      BY <1>2, JobsAre
    <3>1. ASSUME jobs[k].state = "posted"
          PROVE  FALSE
      <4>1. PICK i, j \in DOMAIN ready : ready[i] = k /\ ready[j] = n
        BY <1>2, <1>4, <3>1 DEF Queue
      <4>2. -n < k
        BY <1>2, <1>3, <3>0, <4>1 DEF Queue
      <4>3. QED
        BY <1>3, <2>1, <3>0, <4>2
    <3>2. ASSUME jobs[k].state = "created"
          PROVE  FALSE
      <4>1. PICK i \in DOMAIN ready : ready[i] = -k
        BY <1>2, <3>2 DEF Queue
      <4>2. -k # n /\ -k < 0 /\ ~(-k < n)
        BY <1>3, <2>1, <3>0
      <4>3. PICK j \in DOMAIN rest : rest[j] = -k
        BY <1>3, <4>1, <4>2
      <4>4. QED
        BY <1>3, <4>2, <4>3
    <3>3. QED
      BY <3>1, <3>2
  <2>2. ASSUME NEW a \in DOMAIN jobs, NEW b \in DOMAIN jobs, a < b,
               jobs'[b].state \in {"running", "done"}
        PROVE  jobs'[a].state \notin {"posted", "created"}
    <3>1. jobs[a].state \notin {"posted", "created"}
      BY <1>2, <1>6, <2>1, <2>2 DEF PostedInOrder
    <3>2. QED
      BY <1>5, <1>6, <3>1
  <2>3. QED
    BY <1>6, <2>2 DEF PostedInOrder
<1>11. OneClose'
  <2>1. \A s \in Threads : Closing(s)' <=> Closing(s)
    BY <1>1, <1>2, <1>6 DEF Closing, Waits
  <2>2. \A k \in DOMAIN jobs : jobs'[k].kind = "close" /\ jobs'[k].told => jobs'[k].state = "done"
    BY <1>2, <1>5, <1>6 DEF OneClose
  <2>3. QED
    BY <1>1, <1>2, <1>6, <2>1, <2>2 DEF OneClose
<1>12. (Over => CloseIsDone)'
  <2>1. \A i \in DOMAIN ready' : ready'[i] = Stop => \E j \in DOMAIN ready : ready[j] = Stop
    BY <1>1, <1>3
  <2>2. Over' => Over
    BY <1>1, <2>1 DEF Over
  <2>3. CloseIsDone => CloseIsDone'
    BY <1>5, <1>6 DEF CloseIsDone
  <2>4. QED
    BY <1>2, <2>2, <2>3
<1>13. Kept'
  BY <1>1, <1>2, <1>5, <1>6 DEF Kept, Owed
<1>14. QED
  BY <1>8, <1>9, <1>10, <1>11, <1>12, <1>13 DEF IInv

-----------------------------------------------------------------------------
(* The theorem *)

LEMMA StepIInv == FacadeAssumption /\ IInv /\ [Next]_vars => IInv'
<1> SUFFICES ASSUME FacadeAssumption, IInv, [Next]_vars
             PROVE  IInv'
  OBVIOUS
<1>1. CASE UNCHANGED <<closed, stopped, loop, ready, jobs, thread>>
  BY <1>1 DEF IInv, Typed, Waits, Queue, PostedInOrder, OneClose, Closing, Over, CloseIsDone,
              Owed, Kept
<1>2. CASE RunCallback
  <2>1. Head(ready) \in Int
    BY <1>2, Tailed DEF RunCallback, IInv, Typed
  <2>2. Head(ready) = Stop \/ Head(ready) > 0 \/ Head(ready) < 0
    BY <2>1 DEF Stop
  <2>3. QED
    BY <1>2, <2>2, StopCallback, CreateCallback, FirstStepCallback
<1>3. CASE LoopNext
  <2>1. CASE \E n \in DOMAIN jobs : Finish(n)
    BY <2>1, FinishStep
  <2>2. CASE \E n \in DOMAIN jobs : AskHandler(n)
    BY <1>1, <2>2 DEF AskHandler
  <2>3. QED
    BY <1>2, <1>3, <2>1, <2>2, DrainSteps DEF LoopNext
<1>4. CASE \E t \in Threads :
              \/ \E kind \in {"call", "iterate"} : Begin(t, kind)
              \/ Post(t) \/ Return(t) \/ Abandon(t) \/ BeginClose(t) \/ StopRunner(t) \/ Joined(t)
  BY <1>4, ThreadStep, PostStep, AbandonStep, StopStep
<1>5. QED
  BY <1>1, <1>3, <1>4 DEF Next, vars

\* A job that nobody is told about was handed over after a close() had begun: the loop
\* is told to stop only once the close job has run, and it runs after every job that
\* was posted before it.
THEOREM NoCallIsForgotten == Spec => []OnlyLateJobsAreLost
<1>1. IInv => OnlyLateJobsAreLost
  BY DEF IInv, Kept, Owed, OnlyLateJobsAreLost
<1>2. Spec => []IInv
  BY FacadeAssumption, InitIInv, StepIInv, PTL DEF Spec
<1>3. QED
  BY <1>1, <1>2, PTL

-----------------------------------------------------------------------------
(* Induction *)

\* The order of the naturals is well-founded.
LEMMA NatOrder == \E R : IsWellFoundedOn(R, Nat) /\ \A i, j \in Nat : i < j => <<i, j>> \in R
<1>1. IsWellFoundedOn(OpToRel(<, Nat), Nat)
  BY NatLessThanWellFounded
<1>2. \A i, j \in Nat : i < j => <<i, j>> \in OpToRel(<, Nat)
  BY DEF OpToRel
<1>3. QED
  BY <1>1, <1>2

\* A set that holds 0, and with a number the next one, has them all.
LEMMA SetInduction ==
    ASSUME NEW S, 0 \in S, \A n \in Nat : n \in S => n + 1 \in S
    PROVE  Nat \subseteq S
<1> DEFINE T == Nat \ S
<1>1. SUFFICES ASSUME T # {} PROVE FALSE
  OBVIOUS
<1>2. PICK R : IsWellFoundedOn(R, Nat) /\ \A i, j \in Nat : i < j => <<i, j>> \in R
  BY NatOrder
<1>3. IsWellFoundedOn(R, Nat)
  BY <1>2
<1>4. T \subseteq Nat
  OBVIOUS
<1>5. \E x \in T : \A y \in T : ~ (<<y, x>> \in R)
  <2> HIDE DEF T
  <2>1. QED
    BY <1>1, <1>3, <1>4, WFMin
<1>6. PICK x \in T : \A y \in T : ~ (<<y, x>> \in R)
  BY <1>5
<1>7. x - 1 \in Nat /\ x - 1 < x /\ x = (x - 1) + 1
  OBVIOUS
<1>8. x - 1 \in T
  BY <1>7
<1>9. QED
  BY <1>2, <1>6, <1>7, <1>8

\* Numbers have a least one among them.
LEMMA LeastOf ==
    ASSUME NEW T \in SUBSET Nat, T # {}
    PROVE  \E x \in T : \A y \in T : x <= y
<1>1. PICK R : IsWellFoundedOn(R, Nat) /\ \A i, j \in Nat : i < j => <<i, j>> \in R
  BY NatOrder
<1>2. IsWellFoundedOn(R, Nat)
  BY <1>1
<1>3. \E x \in T : \A y \in T : ~ (<<y, x>> \in R)
  BY <1>2, WFMin
<1>4. PICK x \in T : \A y \in T : ~ (<<y, x>> \in R)
  BY <1>3
<1>5. ASSUME NEW y \in T PROVE x <= y
  <2>1. x \in Nat /\ y \in Nat
    OBVIOUS
  <2>2. ~ (y < x)
    BY <1>1, <1>4, <2>1
  <2>3. QED
    BY <2>1, <2>2
<1>6. QED
  BY <1>5

-----------------------------------------------------------------------------
(* The numbers of a set, in their order *)

LEMMA Ranks ==
    ASSUME NEW k \in Nat, NEW S \in SUBSET (1..k)
    PROVE  /\ IsFiniteSet(S) /\ Cardinality(S) \in Nat
           /\ \A n : Rank(n, S) \in Nat /\ Rank(n, S) <= Cardinality(S)
           /\ \A n : (\A m \in S : m <= n) => Rank(n, S) = Cardinality(S)
<1>1. IsFiniteSet(1..k)
  BY FS_Interval
<1>2. IsFiniteSet(S)
  BY <1>1, FS_Subset
<1>3. Cardinality(S) \in Nat
  BY <1>2, FS_CardinalityType
<1>4. ASSUME NEW n PROVE Rank(n, S) \in Nat /\ Rank(n, S) <= Cardinality(S)
  <2> DEFINE U == {m \in S : m <= n}
  <2>1. U \subseteq S
    OBVIOUS
  <2> HIDE DEF U
  <2>2. IsFiniteSet(U) /\ Cardinality(U) <= Cardinality(S)
    BY <1>2, <2>1, FS_Subset
  <2>3. Cardinality(U) \in Nat
    BY <2>2, FS_CardinalityType
  <2>4. QED
    BY <2>2, <2>3 DEF Rank, U
<1>5. ASSUME NEW n, \A m \in S : m <= n PROVE Rank(n, S) = Cardinality(S)
  <2>1. {m \in S : m <= n} = S
    BY <1>5
  <2>2. QED
    BY <2>1 DEF Rank
<1>6. QED
  BY <1>2, <1>3, <1>4, <1>5

\* A number above the others is the last.
LEMMA OneMoreInOrder ==
    ASSUME NEW k \in Nat, NEW S \in SUBSET (1..k)
    PROVE  /\ Cardinality(S \cup {k + 1}) = Cardinality(S) + 1
           /\ \A i \in 1..Cardinality(S) : InOrder(S \cup {k + 1})[i] = InOrder(S)[i]
           /\ InOrder(S \cup {k + 1})[Cardinality(S) + 1] = k + 1
<1> DEFINE c == Cardinality(S)
           T == S \cup {k + 1}
<1>1. IsFiniteSet(S) /\ c \in Nat
  BY Ranks
<1>2. Cardinality(T) = c + 1
  <2>1. k + 1 \notin S
    OBVIOUS
  <2>2. QED
    BY <1>1, <2>1, FS_AddElement
<1>3. \A n \in S : Rank(n, T) = Rank(n, S) /\ Rank(n, S) \in Nat /\ Rank(n, S) <= c
  <2>1. ASSUME NEW n \in S PROVE {m \in T : m <= n} = {m \in S : m <= n}
    OBVIOUS
  <2>2. \A n \in S : Rank(n, S) \in Nat /\ Rank(n, S) <= c
    BY Ranks
  <2>3. QED
    BY <2>1, <2>2 DEF Rank
<1>4. Rank(k + 1, T) = c + 1
  <2>1. k + 1 \in Nat /\ T \in SUBSET (1..k + 1) /\ \A m \in T : m <= k + 1
    OBVIOUS
  <2> HIDE DEF T
  <2>2. QED
    BY <1>2, <2>1, Ranks
<1>5. \A n : n \in T <=> n \in S \/ n = k + 1
  OBVIOUS
<1> HIDE DEF T
<1>6. ASSUME NEW i \in 1..c
      PROVE  (CHOOSE n \in T : Rank(n, T) = i) = (CHOOSE n \in S : Rank(n, S) = i)
  <2>1. ASSUME NEW n PROVE n \in T /\ Rank(n, T) = i <=> n \in S /\ Rank(n, S) = i
    <3>1. CASE n \in S
      BY <1>3, <1>5, <3>1
    <3>2. CASE n = k + 1
      <4>1. Rank(n, T) # i
        BY <1>1, <1>4, <3>2
      <4>2. n \notin S
        BY <3>2
      <4>3. QED
        BY <4>1, <4>2
    <3>3. QED
      BY <1>5, <3>1, <3>2
  <2>2. QED
    BY <2>1
<1>7. (CHOOSE n \in T : Rank(n, T) = c + 1) = k + 1
  <2>1. \A n \in T : Rank(n, T) = c + 1 <=> n = k + 1
    <3>1. ASSUME NEW n \in S PROVE Rank(n, T) # c + 1
      BY <1>1, <1>3, <3>1
    <3>2. QED
      BY <1>4, <1>5, <3>1
  <2>2. k + 1 \in T
    BY <1>5
  <2> HIDE DEF c
  <2>3. QED
    BY <2>1, <2>2
<1>8. InOrder(T) = [i \in 1..c + 1 |-> CHOOSE n \in T : Rank(n, T) = i]
  BY <1>2 DEF InOrder
<1>9. InOrder(S) = [i \in 1..c |-> CHOOSE n \in S : Rank(n, S) = i]
  BY DEF InOrder
<1>10. c + 1 \in 1..c + 1 /\ \A i \in 1..c : i \in 1..c + 1
  BY <1>1
<1> HIDE DEF c
<1>11. \A i \in 1..c : InOrder(T)[i] = InOrder(S)[i]
  BY <1>6, <1>8, <1>9, <1>10
<1>12. InOrder(T)[c + 1] = k + 1
  BY <1>7, <1>8, <1>10
<1>13. QED
  BY <1>2, <1>11, <1>12 DEF T, c

LEMMA NoneInOrder == InOrder({}) = <<>>
<1>1. Cardinality({}) = 0
  BY FS_EmptySet
<1>2. QED
  BY <1>1 DEF InOrder

\* They are a sequence, as long as the set.
LEMMA OrderIsSequence ==
    ASSUME NEW k \in Nat, NEW S \in SUBSET (1..k)
    PROVE  InOrder(S) \in Seq(S) /\ Len(InOrder(S)) = Cardinality(S)
<1> DEFINE Good(U) == \A i \in 1..Cardinality(U) : InOrder(U)[i] \in U
           K == {j \in Nat : \A U \in SUBSET (1..j) : Good(U)}
<1>1. 0 \in K
  <2>1. ASSUME NEW U \in SUBSET (1..0) PROVE Good(U)
    <3>1. U = {}
      OBVIOUS
    <3>2. Cardinality(U) = 0
      BY <3>1, FS_EmptySet
    <3>3. QED
      BY <3>2
  <2> HIDE DEF Good
  <2>2. QED
    BY <2>1
<1>2. ASSUME NEW j \in Nat, j \in K PROVE j + 1 \in K
  <2>1. ASSUME NEW U \in SUBSET (1..j + 1) PROVE Good(U)
    <3>1. CASE j + 1 \notin U
      <4>1. U \in SUBSET (1..j)
        BY <3>1
      <4>2. QED
        BY <1>2, <4>1
    <3>2. CASE j + 1 \in U
      <4> DEFINE V == U \ {j + 1}
      <4>1. V \in SUBSET (1..j) /\ U = V \cup {j + 1}
        BY <3>2
      <4>2. Good(V)
        BY <1>2, <4>1
      <4> HIDE DEF V
      <4>3. /\ Cardinality(U) = Cardinality(V) + 1
            /\ \A i \in 1..Cardinality(V) : InOrder(U)[i] = InOrder(V)[i]
            /\ InOrder(U)[Cardinality(V) + 1] = j + 1
        BY <4>1, OneMoreInOrder
      <4>4. Cardinality(V) \in Nat
        BY <4>1, Ranks
      <4>5. ASSUME NEW i \in 1..Cardinality(U) PROVE InOrder(U)[i] \in U
        <5>1. CASE i = Cardinality(V) + 1
          BY <3>2, <4>3, <5>1
        <5>2. CASE i # Cardinality(V) + 1
          <6>1. i \in 1..Cardinality(V)
            BY <4>3, <4>4, <5>2
          <6>2. InOrder(V)[i] \in V
            BY <4>2, <6>1
          <6>3. QED
            BY <4>1, <4>3, <6>1, <6>2
        <5>3. QED
          BY <5>1, <5>2
      <4>6. QED
        BY <4>5
    <3>3. QED
      BY <3>1, <3>2
  <2> HIDE DEF Good
  <2>2. QED
    BY <1>2, <2>1
<1>3. Nat \subseteq K
  <2> HIDE DEF K
  <2>1. QED
    BY <1>1, <1>2, SetInduction
<1>4. Good(S)
  BY <1>3
<1>5. Cardinality(S) \in Nat
  BY Ranks
<1>6. DOMAIN InOrder(S) = 1..Cardinality(S) /\ InOrder(S) = [i \in 1..Cardinality(S) |-> InOrder(S)[i]]
  BY DEF InOrder
<1>7. InOrder(S) \in [1..Cardinality(S) -> S]
  BY <1>4, <1>6
<1> HIDE DEF Good
<1>8. QED
  BY <1>5, <1>7

LEMMA OneMore ==
    ASSUME NEW k \in Nat, NEW S \in SUBSET (1..k)
    PROVE  InOrder(S \cup {k + 1}) = Append(InOrder(S), k + 1)
<1> DEFINE T == S \cup {k + 1}
           a == InOrder(S)
           b == InOrder(T)
           c == Cardinality(S)
<1>1. a \in Seq(S) /\ Len(a) = c /\ c \in Nat
  BY OrderIsSequence, Ranks
<1>2. b \in Seq(T) /\ Len(b) = Cardinality(T)
  <2>1. k + 1 \in Nat /\ T \in SUBSET (1..k + 1)
    OBVIOUS
  <2> HIDE DEF T
  <2>2. QED
    BY <2>1, OrderIsSequence
<1>3. /\ Cardinality(T) = c + 1
      /\ \A i \in 1..c : b[i] = a[i]
      /\ b[c + 1] = k + 1
  BY OneMoreInOrder
<1>4. a \in Seq(T) /\ k + 1 \in T
  BY <1>1
<1> HIDE DEF T, a, b, c
<1>5. Len(Append(a, k + 1)) = c + 1 /\ Append(a, k + 1) \in Seq(T)
  BY <1>1, <1>4
<1>6. \A i \in 1..c + 1 : Append(a, k + 1)[i] = b[i]
  BY <1>1, <1>3, <1>4
<1>7. b = Append(a, k + 1)
  BY <1>2, <1>3, <1>5, <1>6, <1>1
<1>8. QED
  BY <1>7 DEF T, a, b

-----------------------------------------------------------------------------
(* What is made from the traffic, and what of it a reader is given *)

\* Nothing is made from no traffic, whoever joins where the stream stands.
LEMMA OfNothing ==
    ASSUME NEW tag, NEW traffic, NEW from \in Nat
    PROVE  Of(tag, traffic, from, from) = <<>>
<1> DEFINE mine == InOrder({n \in from + 1 .. from : traffic[n].mine})
<1>1. {n \in from + 1 .. from : traffic[n].mine} = {}
  OBVIOUS
<1>2. mine = <<>>
  BY <1>1, NoneInOrder
<1>3. Of(tag, traffic, from, from) = [i \in DOMAIN mine |-> <<tag, mine[i]>>]
  BY DEF Of
<1> HIDE DEF mine
<1>4. QED
  BY <1>2, <1>3

\* What comes between two that are handled is not of the turn.
LEMMA OfOthers ==
    ASSUME NEW tag, NEW traffic, NEW from \in Nat, NEW upTo \in Nat, NEW later \in Nat,
           from <= upTo, upTo <= later, \A n \in upTo + 1 .. later : ~ traffic[n].mine
    PROVE  Of(tag, traffic, from, later) = Of(tag, traffic, from, upTo)
<1>1. {n \in from + 1 .. later : traffic[n].mine} = {n \in from + 1 .. upTo : traffic[n].mine}
  OBVIOUS
<1>2. QED
  BY <1>1 DEF Of

\* Later traffic changes nothing of it.
LEMMA OfSame ==
    ASSUME NEW tag, NEW traffic, NEW later, NEW from \in Nat, NEW upTo \in Nat,
           \A n \in 1..upTo : later[n].mine = traffic[n].mine
    PROVE  Of(tag, later, from, upTo) = Of(tag, traffic, from, upTo)
<1>1. {n \in from + 1 .. upTo : later[n].mine} = {n \in from + 1 .. upTo : traffic[n].mine}
  OBVIOUS
<1>2. QED
  BY <1>1 DEF Of

\* The next of the turn is the last of what was made.
LEMMA OfNext ==
    ASSUME NEW tag, NEW traffic, NEW from \in Nat, NEW upTo \in Nat,
           from <= upTo, traffic[upTo + 1].mine
    PROVE  Of(tag, traffic, from, upTo + 1) = Append(Of(tag, traffic, from, upTo), <<tag, upTo + 1>>)
<1> DEFINE S == {n \in from + 1 .. upTo : traffic[n].mine}
           s == InOrder(S)
           c == Len(s)
<1>1. {n \in from + 1 .. upTo + 1 : traffic[n].mine} = S \cup {upTo + 1}
  OBVIOUS
<1>2. S \in SUBSET (1..upTo)
  OBVIOUS
<1> HIDE DEF S
<1>3. InOrder(S \cup {upTo + 1}) = Append(s, upTo + 1) /\ s \in Seq(S)
  BY <1>2, OneMore, OrderIsSequence
<1>4. S \subseteq Nat
  BY <1>2
<1> DEFINE t == Append(s, upTo + 1)
<1>5. Of(tag, traffic, from, upTo + 1) = [i \in DOMAIN t |-> <<tag, t[i]>>]
  BY <1>1, <1>3 DEF Of
<1>6. Of(tag, traffic, from, upTo) = [i \in DOMAIN s |-> <<tag, s[i]>>]
  BY DEF Of, S
<1>7. s \in Seq(Nat)
  <2> HIDE DEF s
  <2>1. s \in Seq(S)
    BY <1>3
  <2>2. Len(s) \in Nat /\ \A i \in 1..Len(s) : s[i] \in S
    BY <2>1
  <2>3. s = [i \in 1..Len(s) |-> s[i]]
    BY <2>1
  <2>4. QED
    BY <1>4, <2>2, <2>3
<1> HIDE DEF s
<1>8. c \in Nat /\ DOMAIN s = 1..c /\ DOMAIN t = 1..c + 1
  BY <1>7
<1>9. t[c + 1] = upTo + 1 /\ \A i \in 1..c : t[i] = s[i]
  BY <1>7
<1> HIDE DEF t
<1> DEFINE o == [i \in DOMAIN s |-> <<tag, s[i]>>]
<1>10. o \in Seq({tag} \X Nat) /\ Len(o) = c
  BY <1>7, <1>8
<1>11. \A i \in 1..c : o[i] = <<tag, s[i]>>
  BY <1>8
<1> HIDE DEF c
<1>12. [i \in DOMAIN t |-> <<tag, t[i]>>] = Append(o, <<tag, upTo + 1>>)
  <2>1. DOMAIN Append(o, <<tag, upTo + 1>>) = 1..c + 1
    BY <1>8, <1>10
  <2>2. ASSUME NEW i \in 1..c + 1 PROVE Append(o, <<tag, upTo + 1>>)[i] = <<tag, t[i]>>
    <3> HIDE DEF o
    <3>1. CASE i = c + 1
      BY <1>8, <1>9, <1>10, <3>1
    <3>2. CASE i \in 1..c
      <4>1. Append(o, <<tag, upTo + 1>>)[i] = o[i]
        BY <1>10, <3>2
      <4>2. QED
        BY <1>9, <1>11, <3>2, <4>1
    <3>3. i = c + 1 \/ i \in 1..c
      BY <1>8
    <3>4. QED
      BY <3>1, <3>2, <3>3
  <2>3. Append(o, <<tag, upTo + 1>>) = [i \in 1..c + 1 |-> Append(o, <<tag, upTo + 1>>)[i]]
    <3> HIDE DEF o
    <3>1. QED
      BY <1>8, <1>10
  <2> HIDE DEF o
  <2>4. QED
    BY <1>8, <2>2, <2>3
<1>13. QED
  BY <1>5, <1>6, <1>12

LEMMA TaggedType ==
    ASSUME NEW E, NEW events \in Seq(E), NEW tag
    PROVE  Tagged(tag, events) \in Seq(E)
<1> DEFINE S == {n \in DOMAIN events : events[n][1] = tag}
           s == InOrder(S)
<1>1. Len(events) \in Nat /\ DOMAIN events = 1..Len(events) /\ \A n \in DOMAIN events : events[n] \in E
  OBVIOUS
<1>2. S \in SUBSET (1..Len(events))
  BY <1>1
<1>3. Tagged(tag, events) = [i \in DOMAIN s |-> events[s[i]]]
  BY DEF Tagged
<1> HIDE DEF S
<1>4. s \in Seq(S)
  BY <1>1, <1>2, OrderIsSequence
<1> HIDE DEF s
<1>5. Len(s) \in Nat /\ DOMAIN s = 1..Len(s) /\ \A i \in 1..Len(s) : s[i] \in S
  BY <1>4
<1>6. \A i \in 1..Len(s) : events[s[i]] \in E
  BY <1>1, <1>2, <1>5
<1>7. QED
  BY <1>3, <1>5, <1>6

LEMMA TaggedNothing ==
    ASSUME NEW tag
    PROVE  Tagged(tag, <<>>) = <<>>
<1> DEFINE events == <<>>
           s == InOrder({n \in DOMAIN events : events[n][1] = tag})
<1>1. {n \in DOMAIN events : events[n][1] = tag} = {}
  OBVIOUS
<1>2. s = <<>>
  BY <1>1, NoneInOrder
<1>3. Tagged(tag, <<>>) = [i \in DOMAIN s |-> events[s[i]]]
  BY DEF Tagged
<1> HIDE DEF s
<1>4. QED
  BY <1>2, <1>3

\* One more event is the last of those of its tag.
LEMMA TaggedOneMore ==
    ASSUME NEW E, NEW events \in Seq(E), NEW e \in E, NEW tag
    PROVE  Tagged(tag, Append(events, e))
             = IF e[1] = tag THEN Append(Tagged(tag, events), e) ELSE Tagged(tag, events)
<1> DEFINE k == Len(events)
           more == Append(events, e)
           S == {n \in DOMAIN events : events[n][1] = tag}
           T == {n \in DOMAIN more : more[n][1] = tag}
           s == InOrder(S)
           t == InOrder(T)
<1>1. k \in Nat /\ DOMAIN events = 1..k
  OBVIOUS
<1>2. /\ DOMAIN more = 1..k + 1
      /\ more[k + 1] = e
      /\ \A n \in 1..k : more[n] = events[n]
  OBVIOUS
<1> HIDE DEF more, k
<1>3. S \in SUBSET (1..k) /\ T \in SUBSET (1..k + 1)
  BY <1>1, <1>2
<1>4. T = IF e[1] = tag THEN S \cup {k + 1} ELSE S
  <2>1. \A n \in 1..k : n \in T <=> n \in S
    BY <1>1, <1>2
  <2>2. k + 1 \in T <=> e[1] = tag
    BY <1>1, <1>2
  <2>3. \A n : n \in 1..k + 1 <=> n \in 1..k \/ n = k + 1
    BY <1>1
  <2>4. k + 1 \notin 1..k
    BY <1>1
  <2> HIDE DEF S, T
  <2>5. ASSUME NEW n PROVE n \in T <=> (n \in S \/ (n = k + 1 /\ e[1] = tag))
    <3>1. n \in T => n \in 1..k + 1
      BY <1>3
    <3>2. n \in S => n \in 1..k
      BY <1>3
    <3>3. QED
      BY <2>1, <2>2, <2>3, <2>4, <3>1, <3>2
  <2>6. QED
    BY <2>5
<1>5. Tagged(tag, events) = [i \in DOMAIN s |-> events[s[i]]]
  BY DEF Tagged
<1>6. Tagged(tag, more) = [i \in DOMAIN t |-> more[t[i]]]
  BY DEF Tagged
<1> HIDE DEF S, T
<1>7. s \in Seq(S)
  BY <1>1, <1>3, OrderIsSequence
<1> DEFINE c == Len(s)
<1>8. c \in Nat /\ DOMAIN s = 1..c /\ \A i \in 1..c : s[i] \in 1..k
  <2> HIDE DEF s
  <2>1. Len(s) \in Nat /\ DOMAIN s = 1..Len(s) /\ \A i \in 1..Len(s) : s[i] \in S
    BY <1>7
  <2>2. QED
    BY <1>3, <2>1
<1>9. CASE e[1] # tag
  <2>1. t = s
    BY <1>4, <1>9
  <2> HIDE DEF s, t, c
  <2>2. \A i \in 1..c : more[s[i]] = events[s[i]]
    BY <1>2, <1>8
  <2>3. Tagged(tag, more) = Tagged(tag, events)
    BY <1>5, <1>6, <1>8, <2>1, <2>2
  <2>4. QED
    BY <1>9, <2>3 DEF more
<1>10. CASE e[1] = tag
  <2>1. t = Append(s, k + 1)
    BY <1>1, <1>3, <1>4, <1>10, OneMore
  <2> HIDE DEF s, t
  <2>2. DOMAIN t = 1..c + 1 /\ t[c + 1] = k + 1 /\ \A i \in 1..c : t[i] = s[i]
    BY <1>7, <2>1
  <2> HIDE DEF c
  <2> DEFINE o == Tagged(tag, events)
  <2>3. o \in Seq(E)
    BY TaggedType
  <2>4. DOMAIN o = 1..c /\ \A i \in 1..c : o[i] = events[s[i]]
    BY <1>5, <1>8
  <2> HIDE DEF o
  <2>5. Len(o) = c
    BY <1>8, <2>3, <2>4
  <2> DEFINE p == Append(o, e)
  <2>10. p \in Seq(E) /\ Len(p) = c + 1 /\ p[c + 1] = e /\ \A i \in 1..c : p[i] = o[i]
    BY <1>8, <2>3, <2>5
  <2> HIDE DEF p
  <2>6. p = [i \in 1..c + 1 |-> p[i]] /\ p[c + 1] = e /\ \A i \in 1..c : p[i] = o[i]
    BY <2>10
  <2>7. ASSUME NEW i \in 1..c + 1 PROVE more[t[i]] = p[i]
    <3>1. CASE i = c + 1
      BY <1>2, <2>2, <2>6, <3>1
    <3>2. CASE i \in 1..c
      BY <1>2, <1>8, <2>2, <2>4, <2>6, <3>2
    <3>3. i = c + 1 \/ i \in 1..c
      BY <1>8
    <3>4. QED
      BY <3>1, <3>2, <3>3
  <2>8. Tagged(tag, more) = p
    BY <1>6, <2>2, <2>6, <2>7
  <2>9. QED
    BY <1>10, <2>8 DEF more, o, p
<1>11. QED
  BY <1>9, <1>10 DEF more

\* What a queue holds.
Events == {"note", "ask", "end", "failure"} \X Nat

\* One event of a kind, or nothing.
AtMostOne(kind, x) == x = <<>> \/ \E e \in Events : e[1] = kind /\ x = <<e>>

\* The marks of the end, or nothing.
IsMark(x) == x = <<>> \/ x = <<End>> \/ x = <<Failure>>

LEMMA OneOrNone ==
    ASSUME NEW events \in Seq(Events), NEW kind, NEW x, AtMostOne(kind, x)
    PROVE  /\ events \o x \in Seq(Events)
           /\ Tagged(kind, events \o x) = Tagged(kind, events) \o x
           /\ \A tag : tag # kind => Tagged(tag, events \o x) = Tagged(tag, events)
<1>1. CASE x = <<>>
  <2>1. events \o x = events
    BY <1>1
  <2>2. ASSUME NEW tag PROVE Tagged(tag, events) \o x = Tagged(tag, events)
    BY <1>1, TaggedType
  <2>3. QED
    BY <2>1, <2>2
<1>2. CASE x # <<>>
  <2>1. PICK e \in Events : e[1] = kind /\ x = <<e>>
    BY <1>2 DEF AtMostOne
  <2> HIDE DEF Events
  <2>2. events \o x = Append(events, e) /\ Append(events, e) \in Seq(Events)
    BY <2>1
  <2>3. ASSUME NEW tag PROVE Append(Tagged(tag, events), e) = Tagged(tag, events) \o x
    <3>1. Tagged(tag, events) \in Seq(Events)
      BY TaggedType
    <3>2. QED
      BY <2>1, <3>1
  <2>4. \A tag : Tagged(tag, Append(events, e))
                   = IF e[1] = tag THEN Append(Tagged(tag, events), e) ELSE Tagged(tag, events)
    BY TaggedOneMore
  <2>5. QED
    BY <2>1, <2>2, <2>3, <2>4
<1>3. QED
  BY <1>1, <1>2

LEMMA MarkGiven ==
    ASSUME NEW events \in Seq(Events), NEW c, IsMark(c)
    PROVE  /\ c \in Seq(Events)
           /\ events \o c \in Seq(Events)
           /\ \A tag : tag \notin {"end", "failure"} => Tagged(tag, events \o c) = Tagged(tag, events)
           /\ Tagged("end", events \o c) = Tagged("end", events) \o (IF c = <<End>> THEN c ELSE <<>>)
           /\ Tagged("failure", events \o c)
                = Tagged("failure", events) \o (IF c = <<Failure>> THEN c ELSE <<>>)
           /\ c # <<>> => Last(events \o c) = c[1]
<1>1. End \in Events /\ Failure \in Events /\ End[1] = "end" /\ Failure[1] = "failure" /\ End # Failure
  BY DEF Events, End, Failure
<1>2. <<End>> # <<Failure>> /\ <<End>> # <<>> /\ <<Failure>> # <<>>
  BY <1>1
<1>3. Tagged("end", events) \o <<>> = Tagged("end", events)
      /\ Tagged("failure", events) \o <<>> = Tagged("failure", events)
  <2>1. Tagged("end", events) \in Seq(Events) /\ Tagged("failure", events) \in Seq(Events)
    BY TaggedType
  <2>2. QED
    BY <2>1
<1>4. CASE c = <<>>
  <2>1. events \o c = events /\ c \in Seq(Events)
    BY <1>4
  <2>2. (IF c = <<End>> THEN c ELSE <<>>) = <<>> /\ (IF c = <<Failure>> THEN c ELSE <<>>) = <<>>
    BY <1>2, <1>4
  <2>3. QED
    BY <1>3, <1>4, <2>1, <2>2
<1>5. ASSUME NEW e \in Events, c = <<e>>
      PROVE  /\ c \in Seq(Events)
             /\ events \o c \in Seq(Events)
             /\ Tagged(e[1], events \o c) = Tagged(e[1], events) \o c
             /\ \A tag : tag # e[1] => Tagged(tag, events \o c) = Tagged(tag, events)
             /\ Last(events \o c) = c[1]
  <2>1. AtMostOne(e[1], c)
    BY <1>5 DEF AtMostOne
  <2>2. /\ events \o c \in Seq(Events)
        /\ Tagged(e[1], events \o c) = Tagged(e[1], events) \o c
        /\ \A tag : tag # e[1] => Tagged(tag, events \o c) = Tagged(tag, events)
    BY <2>1, OneOrNone
  <2>3. c \in Seq(Events) /\ Last(events \o c) = c[1]
    BY <1>5 DEF Last
  <2>4. QED
    BY <2>2, <2>3
<1>6. CASE c = <<End>>
  <2>1. (IF c = <<End>> THEN c ELSE <<>>) = c /\ (IF c = <<Failure>> THEN c ELSE <<>>) = <<>>
    BY <1>2, <1>6
  <2>2. QED
    BY <1>1, <1>3, <1>5, <1>6, <2>1
<1>7. CASE c = <<Failure>>
  <2>1. (IF c = <<End>> THEN c ELSE <<>>) = <<>> /\ (IF c = <<Failure>> THEN c ELSE <<>>) = c
    BY <1>2, <1>7
  <2>2. QED
    BY <1>1, <1>3, <1>5, <1>7, <2>1
<1>8. QED
  BY <1>4, <1>6, <1>7 DEF IsMark

\* What one step of the pump gives a reader.
Given(events, a, b, c, more) ==
    /\ more \in Seq(Events)
    /\ Tagged("ask", more) = Tagged("ask", events) \o a
    /\ Tagged("note", more) = Tagged("note", events) \o b
    /\ Tagged("end", more) = Tagged("end", events) \o (IF c = <<End>> THEN c ELSE <<>>)
    /\ Tagged("failure", more) = Tagged("failure", events) \o (IF c = <<Failure>> THEN c ELSE <<>>)
    /\ c # <<>> => Last(more) = c[1]

LEMMA EventsGiven ==
    ASSUME NEW events \in Seq(Events), NEW a, NEW b, NEW c,
           AtMostOne("ask", a), AtMostOne("note", b), IsMark(c)
    PROVE  Given(events, a, b, c, events \o ((a \o b) \o c))
<1> DEFINE one == events \o a
           two == one \o b
           three == two \o c
<1>1. a \in Seq(Events) /\ b \in Seq(Events) /\ c \in Seq(Events)
  <2>1. <<>> \in Seq(Events) /\ \A e \in Events : <<e>> \in Seq(Events)
    OBVIOUS
  <2>2. c \in Seq(Events)
    BY MarkGiven
  <2>3. QED
    BY <2>1, <2>2 DEF AtMostOne
<1>2. events \o ((a \o b) \o c) = three
  BY <1>1
<1>3. /\ one \in Seq(Events)
      /\ Tagged("ask", one) = Tagged("ask", events) \o a
      /\ \A tag : tag # "ask" => Tagged(tag, one) = Tagged(tag, events)
  BY OneOrNone
<1> HIDE DEF one
<1>4. /\ two \in Seq(Events)
      /\ Tagged("note", two) = Tagged("note", one) \o b
      /\ \A tag : tag # "note" => Tagged(tag, two) = Tagged(tag, one)
  <2>1. one \in Seq(Events)
    BY <1>3
  <2>2. QED
    BY <2>1, OneOrNone
<1> HIDE DEF two
<1>5. two \in Seq(Events)
  BY <1>4
<1>6. /\ three \in Seq(Events)
      /\ \A tag : tag \notin {"end", "failure"} => Tagged(tag, three) = Tagged(tag, two)
      /\ Tagged("end", three) = Tagged("end", two) \o (IF c = <<End>> THEN c ELSE <<>>)
      /\ Tagged("failure", three) = Tagged("failure", two) \o (IF c = <<Failure>> THEN c ELSE <<>>)
      /\ c # <<>> => Last(three) = c[1]
  BY <1>5, MarkGiven
<1> HIDE DEF three
<1>7. Tagged("ask", three) = Tagged("ask", events) \o a /\ Tagged("note", three) = Tagged("note", events) \o b
  BY <1>3, <1>4, <1>6
<1>8. Tagged("end", two) = Tagged("end", events) /\ Tagged("failure", two) = Tagged("failure", events)
  BY <1>3, <1>4
<1>9. QED
  BY <1>2, <1>6, <1>7, <1>8 DEF Given

-----------------------------------------------------------------------------
(* What an aggregator makes of the events it reads *)

Gather(s) ==
    CHOOSE g : g = [u \in SUBSET DOMAIN s |->
        IF u = {} THEN EmptyOutput ELSE ObserveTurnEvent(g[u \ {Max(u)}], s[Max(u)])]

LEMMA AggregatedIsGather ==
    ASSUME NEW s
    PROVE  Aggregated(s) = Gather(s)[DOMAIN s]
  BY Zenon DEF Aggregated, FoldLeft, MapThenFoldSet, Gather

LEMMA MaxOfInterval ==
    ASSUME NEW k \in Nat, NEW u \in SUBSET (1..k + 1), k + 1 \in u
    PROVE  Max(u) = k + 1
<1>1. \A x \in u : (\A y \in u : x >= y) <=> x = k + 1
  OBVIOUS
<1>2. QED
  BY <1>1 DEF Max

\* There is such a function on the parts of every 1..k.
LEMMA GatherExists ==
    ASSUME NEW s, NEW k \in Nat
    PROVE  \E g : g = [u \in SUBSET (1..k) |->
               IF u = {} THEN EmptyOutput ELSE ObserveTurnEvent(g[u \ {Max(u)}], s[Max(u)])]
<1> DEFINE Is(g, j) == g = [u \in SUBSET (1..j) |->
               IF u = {} THEN EmptyOutput ELSE ObserveTurnEvent(g[u \ {Max(u)}], s[Max(u)])]
           K == {j \in Nat : \E g : Is(g, j)}
<1>1. 0 \in K
  <2> DEFINE g0 == [u \in SUBSET (1..0) |-> EmptyOutput]
  <2>1. ASSUME NEW u \in SUBSET (1..0) PROVE u = {}
    OBVIOUS
  <2>2. Is(g0, 0)
    BY <2>1
  <2>3. \E g : Is(g, 0)
    BY <2>2
  <2> HIDE DEF Is
  <2>4. QED
    BY <2>3
<1>2. ASSUME NEW j \in Nat, j \in K PROVE j + 1 \in K
  <2>1. PICK g : Is(g, j)
    BY <1>2
  <2>2. ASSUME NEW u \in SUBSET (1..j), u # {}
        PROVE  u \ {Max(u)} \in SUBSET (1..j) /\ g[u] = ObserveTurnEvent(g[u \ {Max(u)}], s[Max(u)])
    BY <2>1, <2>2
  <2>3. g[{}] = EmptyOutput
    BY <2>1
  <2> DEFINE h == [u \in SUBSET (1..j + 1) |->
                     IF j + 1 \in u THEN ObserveTurnEvent(g[u \ {j + 1}], s[j + 1]) ELSE g[u]]
  <2>4. ASSUME NEW u \in SUBSET (1..j + 1)
        PROVE  h[u] = IF u = {} THEN EmptyOutput ELSE ObserveTurnEvent(h[u \ {Max(u)}], s[Max(u)])
    <3>1. CASE u = {}
      BY <2>3, <3>1
    <3>2. CASE u # {} /\ j + 1 \notin u
      <4>1. u \in SUBSET (1..j)
        BY <3>2
      <4>2. u \ {Max(u)} \in SUBSET (1..j) /\ g[u] = ObserveTurnEvent(g[u \ {Max(u)}], s[Max(u)])
        BY <2>2, <3>2, <4>1
      <4>3. ASSUME NEW v \in SUBSET (1..j) PROVE h[v] = g[v]
        <5>1. v \in SUBSET (1..j + 1) /\ j + 1 \notin v
          OBVIOUS
        <5>2. QED
          BY <5>1
      <4> HIDE DEF h
      <4>4. QED
        BY <3>2, <4>1, <4>2, <4>3
    <3>3. CASE j + 1 \in u
      <4>1. Max(u) = j + 1
        BY <3>3, MaxOfInterval
      <4>2. u \ {j + 1} \in SUBSET (1..j + 1) /\ j + 1 \notin u \ {j + 1}
        OBVIOUS
      <4>3. h[u \ {j + 1}] = g[u \ {j + 1}]
        BY <4>2
      <4>4. h[u] = ObserveTurnEvent(g[u \ {j + 1}], s[j + 1])
        BY <3>3
      <4>5. u # {}
        BY <3>3
      <4> HIDE DEF h
      <4>6. QED
        BY <4>1, <4>3, <4>4, <4>5
    <3>4. QED
      BY <3>1, <3>2, <3>3
  <2>5. h = [u \in SUBSET (1..j + 1) |-> h[u]]
    OBVIOUS
  <2> HIDE DEF h
  <2>6. Is(h, j + 1)
    BY <2>4, <2>5
  <2> HIDE DEF Is
  <2>7. QED
    BY <2>6
<1>3. Nat \subseteq K
  <2> HIDE DEF K
  <2>1. QED
    BY <1>1, <1>2, SetInduction
<1>4. \E g : Is(g, k)
  BY <1>3
<1>5. QED
  BY <1>4

\* Of no events it makes nothing, and of one more what observe_turn_event makes of it.
LEMMA AggregatedStep ==
    ASSUME NEW D, NEW s \in Seq(D), NEW e \in D
    PROVE  /\ Aggregated(<<>>) = EmptyOutput
           /\ Aggregated(Append(s, e)) = ObserveTurnEvent(Aggregated(s), e)
<1> DEFINE Is(g, q, j) == g = [u \in SUBSET (1..j) |->
               IF u = {} THEN EmptyOutput ELSE ObserveTurnEvent(g[u \ {Max(u)}], q[Max(u)])]
<1>1. ASSUME NEW q, NEW j \in Nat, DOMAIN q = 1..j PROVE Is(Gather(q), q, j)
  <2>1. \E g : Is(g, q, j)
    BY GatherExists
  <2>2. Gather(q) = CHOOSE g : Is(g, q, j)
    BY <1>1 DEF Gather
  <2> HIDE DEF Is
  <2>3. QED
    BY <2>1, <2>2
<1>2. ASSUME NEW q, NEW j \in Nat, NEW g, Is(g, q, j)
      PROVE  /\ g[1..0] = EmptyOutput
             /\ \A i \in 1..j : g[1..i] = ObserveTurnEvent(g[1..i - 1], q[i])
  <2>1. 1..0 = {} /\ {} \in SUBSET (1..j)
    OBVIOUS
  <2>2. g[1..0] = EmptyOutput
    BY <1>2, <2>1
  <2>3. ASSUME NEW i \in 1..j PROVE g[1..i] = ObserveTurnEvent(g[1..i - 1], q[i])
    <3>1. 1..i \in SUBSET (1..j) /\ 1..i # {} /\ (1..i) \ {i} = 1..i - 1
      <4>1. i \in 1..i /\ \A n \in 1..i : n \in 1..j
        OBVIOUS
      <4>2. (1..i) \ {i} = 1..i - 1
        OBVIOUS
      <4>3. QED
        BY <4>1, <4>2
    <3>2. Max(1..i) = i
      <4>1. i - 1 \in Nat /\ (i - 1) + 1 = i /\ i \in 1..i /\ 1..i \in SUBSET (1..i)
        OBVIOUS
      <4>2. PICK k \in Nat : k + 1 = i
        BY <4>1
      <4>3. Max(1..k + 1) = k + 1
        BY MaxOfInterval
      <4>4. QED
        BY <4>2, <4>3
    <3>3. QED
      BY <1>2, <3>1, <3>2
  <2>4. QED
    BY <2>2, <2>3
<1> HIDE DEF Is
<1>3. Aggregated(<<>>) = EmptyOutput
  <2> DEFINE q == <<>>
  <2>1. DOMAIN q = 1..0
    OBVIOUS
  <2> HIDE DEF q
  <2>2. Gather(q)[1..0] = EmptyOutput
    BY <1>1, <1>2, <2>1
  <2>3. Aggregated(q) = EmptyOutput
    BY <2>1, <2>2, AggregatedIsGather
  <2>4. QED
    BY <2>3 DEF q
<1>4. Aggregated(Append(s, e)) = ObserveTurnEvent(Aggregated(s), e)
  <2> DEFINE k == Len(s)
             t == Append(s, e)
             g == Gather(s)
             h == Gather(t)
  <2>1. k \in Nat /\ DOMAIN s = 1..k /\ DOMAIN t = 1..k + 1 /\ t[k + 1] = e /\ \A i \in 1..k : t[i] = s[i]
    OBVIOUS
  <2> HIDE DEF k, t
  <2>2. Is(g, s, k) /\ Is(h, t, k + 1)
    BY <1>1, <2>1
  <2> HIDE DEF g, h
  <2>3. g[1..0] = EmptyOutput /\ \A i \in 1..k : g[1..i] = ObserveTurnEvent(g[1..i - 1], s[i])
    BY <1>2, <2>1, <2>2
  <2>4. h[1..0] = EmptyOutput /\ \A i \in 1..k + 1 : h[1..i] = ObserveTurnEvent(h[1..i - 1], t[i])
    BY <1>2, <2>1, <2>2
  <2> DEFINE K == {i \in Nat : i <= k => g[1..i] = h[1..i]}
  <2>5. 0 \in K
    BY <2>3, <2>4
  <2>6. ASSUME NEW i \in Nat, i \in K PROVE i + 1 \in K
    <3>1. ASSUME i + 1 <= k PROVE g[1..i + 1] = h[1..i + 1]
      <4>1. i + 1 \in 1..k /\ i + 1 \in 1..k + 1 /\ (i + 1) - 1 = i /\ i <= k
        BY <2>1, <3>1
      <4>2. g[1..i] = h[1..i]
        BY <2>6, <4>1
      <4>3. g[1..i + 1] = ObserveTurnEvent(g[1..i], s[i + 1])
        BY <2>3, <4>1
      <4>4. h[1..i + 1] = ObserveTurnEvent(h[1..i], t[i + 1])
        BY <2>4, <4>1
      <4>5. QED
        BY <2>1, <4>1, <4>2, <4>3, <4>4
    <3>2. QED
      BY <3>1
  <2>7. Nat \subseteq K
    <3> HIDE DEF K
    <3>1. QED
      BY <2>5, <2>6, SetInduction
  <2>8. g[1..k] = h[1..k]
    BY <2>1, <2>7
  <2>9. h[1..k + 1] = ObserveTurnEvent(h[1..k], e)
    <3>1. k + 1 \in 1..k + 1 /\ (k + 1) - 1 = k
      BY <2>1
    <3>2. QED
      BY <2>1, <2>4, <3>1
  <2>10. Aggregated(s) = g[1..k] /\ Aggregated(t) = h[1..k + 1]
    BY <2>1, AggregatedIsGather DEF g, h
  <2>11. QED
    BY <2>8, <2>9, <2>10 DEF t
<1>5. QED
  BY <1>3, <1>4

-----------------------------------------------------------------------------
(* The traffic, as the pump reads it *)

\* It reaches the subscription of the thread.
Reached(message) == NotificationMatches(Filter(None, "thread", None), message)

\* What the pump counts on: a notification is of the turn if, and only if, an event is made
\* of it, unless its model refuses it; and such a one reaches the subscription of the thread.
Fit(message) ==
    LET event == AdaptTurnNotification(message, "turn")
    IN  /\ message.mine \in BOOLEAN
        /\ event.kind = "refused" <=> event = Refused
        /\ message.mine => Reached(message)
        /\ Reached(message) /\ event # Refused => (message.mine <=> event.kind # "none")

LEMMA NoneIsNoId == None # "thread" /\ None # "turn" /\ None # "other thread" /\ None # "other turn"
  BY TurnAssumption

LEMMA Models ==
    /\ \A m \in Deltas : m \in DOMAIN Notifications /\ Notifications[m] = DeltaMember
    /\ \A m \in {"turn/started", "turn/completed"} :
          m \in DOMAIN Notifications /\ Notifications[m] = TurnMember
    /\ \A m \in {"item/started", "item/completed"} :
          m \in DOMAIN Notifications /\ Notifications[m] = ItemMember
    /\ "thread/tokenUsage/updated" \in DOMAIN Notifications
    /\ Notifications["thread/tokenUsage/updated"] = UsageMember
    /\ "thread/status/changed" \in DOMAIN Notifications
    /\ Notifications["thread/status/changed"] = StatusMember
    /\ "thread/started" \in DOMAIN Notifications
    /\ Notifications["thread/started"] = {"thread"}
    /\ "turn/diff/updated" \in DOMAIN Notifications
    /\ Notifications["turn/diff/updated"] = {"threadId", "turnId", "diff"}
    /\ "turn/unknown" \notin DOMAIN Notifications
  BY DEF Notifications, Deltas, Texts, TypeOf, DeltaMethods

LEMMA EventKinds ==
    ASSUME NEW message
    PROVE  EventOf(message).kind \notin {"none", "refused"}
  BY DEF EventOf

LEMMA ThreadIsReached ==
    ASSUME NEW message, ThreadOf(message.params) = "thread"
    PROVE  Reached(message)
  BY DEF Reached, NotificationMatches, Filter

\* The typed notification of the turn.
LEMMA FitTyped ==
    ASSUME NEW message, message.mine = TRUE, ThreadOf(message.params) = "thread",
           Parse(Notifications, message) = "typed",
           message.method # "thread/status/changed",
           (IF message.method \in {"turn/started", "turn/completed"}
            THEN Member(message.params, "turn") ELSE TurnOf(message.params)) = "turn"
    PROVE  Fit(message)
<1>1. AdaptTurnNotification(message, "turn") = EventOf(message)
  BY DEF AdaptTurnNotification
<1>2. EventOf(message) # Refused /\ EventOf(message).kind # "refused" /\ EventOf(message).kind # "none"
  BY EventKinds DEF Refused
<1>3. Reached(message)
  BY ThreadIsReached
<1>4. QED
  BY <1>1, <1>2, <1>3, Zenon DEF Fit

\* One of another turn, or of no turn.
LEMMA FitForeign ==
    ASSUME NEW message, message.mine = FALSE,
           Parse(Notifications, message) = "typed",
           message.method # "thread/status/changed",
           (IF message.method \in {"turn/started", "turn/completed"}
            THEN Member(message.params, "turn") ELSE TurnOf(message.params)) # "turn"
    PROVE  Fit(message)
<1>1. AdaptTurnNotification(message, "turn") = NoEvent
  BY DEF AdaptTurnNotification
<1>2. NoEvent # Refused /\ NoEvent.kind = "none" /\ NoEvent.kind # "refused"
  BY DEF NoEvent, Refused
<1>3. QED
  BY <1>1, <1>2, Zenon DEF Fit

LEMMA FitRefused ==
    ASSUME NEW message, message.mine \in BOOLEAN,
           message.mine => ThreadOf(message.params) = "thread",
           Parse(Notifications, message) = "refused"
    PROVE  Fit(message)
<1>1. AdaptTurnNotification(message, "turn") = Refused
  BY DEF AdaptTurnNotification
<1>2. Refused.kind = "refused"
  BY DEF Refused
<1>3. message.mine => Reached(message)
  BY ThreadIsReached
<1>4. QED
  BY <1>1, <1>2, <1>3, Zenon DEF Fit

LEMMA FitRaw ==
    ASSUME NEW message, message.mine = TRUE, ThreadOf(message.params) = "thread",
           Parse(Notifications, message) = "raw", TurnOf(message.params) = "turn"
    PROVE  Fit(message)
<1>1. AdaptTurnNotification(message, "turn").kind = "raw"
  BY DEF AdaptTurnNotification
<1>2. AdaptTurnNotification(message, "turn") # Refused
  BY <1>1 DEF Refused
<1>3. Reached(message)
  BY ThreadIsReached
<1>4. "raw" # "refused" /\ "raw" # "none"
  OBVIOUS
<1>5. QED
  BY <1>1, <1>2, <1>3, <1>4, Zenon DEF Fit

\* The status of the thread is of every turn of it.
LEMMA FitStatus ==
    ASSUME NEW message, message.mine \in BOOLEAN,
           message.mine <=> ThreadOf(message.params) = "thread",
           Parse(Notifications, message) = "typed",
           message.method = "thread/status/changed"
    PROVE  Fit(message)
<1>1. AdaptTurnNotification(message, "turn").kind = "status"
  BY DEF AdaptTurnNotification
<1>2. Reached(message) => ThreadOf(message.params) = "thread"
  BY NoneIsNoId DEF Reached, NotificationMatches, Filter
<1>3. ThreadOf(message.params) = "thread" => Reached(message)
  BY ThreadIsReached
<1>4. AdaptTurnNotification(message, "turn") # Refused
  BY <1>1 DEF Refused
<1>5. "status" # "refused" /\ "status" # "none"
  OBVIOUS
<1>6. QED
  BY <1>1, <1>2, <1>3, <1>4, <1>5, Zenon DEF Fit

Steps == {"started", "usage", "status", "completed", "bare", "diff", "unknown", "other",
        "elsewhere", "thread", "broken", "garbled"}

LEMMA MessagesFit ==
    ASSUME NEW what \in Steps
    PROVE  Fit(Recorded(Message(what), what \notin Foreign))
<1> DEFINE message == Recorded(Message(what), what \notin Foreign)
           p == message.params
<1>1. CASE what = "started"
  <2>1. /\ message.method = "turn/started"
        /\ p = [threadId |-> "thread", turn |-> "turn"]
        /\ message.mine = TRUE
    BY <1>1 DEF Recorded, Message, Foreign
  <2> HIDE DEF message, p
  <2>2. ThreadOf(p) = "thread" /\ Member(p, "turn") = "turn"
    BY <2>1, NoneIsNoId DEF ThreadOf, FirstOf, Member
  <2>3. Parse(Notifications, message) = "typed"
    BY <2>1, Models DEF p, Parse, TurnMember
  <2>4. Fit(message)
    BY <2>1, <2>2, <2>3, FitTyped DEF p
  <2>5. QED
    BY <2>4 DEF message
<1>2. CASE what \in {"completed", "bare"}
  <2>1. /\ message.method = "turn/completed"
        /\ p = [threadId |-> "thread", turn |-> "turn", items |-> Listed(what)]
        /\ message.mine = TRUE
    BY <1>2 DEF Recorded, Message, Foreign
  <2> HIDE DEF message, p
  <2>2. ThreadOf(p) = "thread" /\ Member(p, "turn") = "turn"
    BY <2>1, NoneIsNoId DEF ThreadOf, FirstOf, Member
  <2>3. Parse(Notifications, message) = "typed"
    BY <2>1, Models DEF p, Parse, TurnMember
  <2>4. Fit(message)
    BY <2>1, <2>2, <2>3, FitTyped DEF p
  <2>5. QED
    BY <2>4 DEF message
<1>3. CASE what = "usage"
  <2>1. /\ message.method = "thread/tokenUsage/updated"
        /\ p = [threadId |-> "thread", turnId |-> "turn", tokenUsage |-> Len(sent) + 1]
        /\ message.mine = TRUE
    BY <1>3 DEF Recorded, Message, Foreign
  <2> HIDE DEF message, p
  <2>2. ThreadOf(p) = "thread" /\ TurnOf(p) = "turn"
    BY <2>1, NoneIsNoId DEF ThreadOf, TurnOf, FirstOf, Member
  <2>3. Parse(Notifications, message) = "typed"
    BY <2>1, Models DEF p, Parse, UsageMember
  <2>4. Fit(message)
    BY <2>1, <2>2, <2>3, FitTyped DEF p
  <2>5. QED
    BY <2>4 DEF message
<1>4. CASE what = "diff"
  <2>1. /\ message.method = "turn/diff/updated"
        /\ p = [threadId |-> "thread", turnId |-> "turn", diff |-> <<>>]
        /\ message.mine = TRUE
    BY <1>4 DEF Recorded, Message, Foreign
  <2> HIDE DEF message, p
  <2>2. ThreadOf(p) = "thread" /\ TurnOf(p) = "turn"
    BY <2>1, NoneIsNoId DEF ThreadOf, TurnOf, FirstOf, Member
  <2>3. Parse(Notifications, message) = "typed"
    BY <2>1, Models DEF p, Parse
  <2>4. Fit(message)
    BY <2>1, <2>2, <2>3, FitTyped DEF p
  <2>5. QED
    BY <2>4 DEF message
<1>5. CASE what = "garbled"
  <2>1. /\ message.method = "thread/tokenUsage/updated"
        /\ p = [threadId |-> "thread", turnId |-> "turn"]
        /\ message.mine = TRUE
    BY <1>5 DEF Recorded, Message, Foreign
  <2> HIDE DEF message, p
  <2>2. ThreadOf(p) = "thread"
    BY <2>1, NoneIsNoId DEF ThreadOf, FirstOf, Member
  <2>3. Parse(Notifications, message) = "refused"
    BY <2>1, Models DEF p, Parse, UsageMember
  <2>4. message.mine \in BOOLEAN /\ (message.mine => ThreadOf(p) = "thread")
    BY <2>1, <2>2
  <2>5. Fit(message)
    BY <2>3, <2>4, FitRefused DEF p
  <2>6. QED
    BY <2>5 DEF message
<1>6. CASE what = "unknown"
  <2>1. /\ message.method = "turn/unknown"
        /\ p = [threadId |-> "thread", turn |-> "turn"]
        /\ message.mine = TRUE
    BY <1>6 DEF Recorded, Message, Foreign
  <2> HIDE DEF message, p
  <2>2. ThreadOf(p) = "thread" /\ TurnOf(p) = "turn"
    BY <2>1, NoneIsNoId DEF ThreadOf, TurnOf, FirstOf, Member
  <2>3. Parse(Notifications, message) = "raw"
    BY <2>1, Models DEF p, Parse
  <2>4. Fit(message)
    BY <2>1, <2>2, <2>3, FitRaw DEF p
  <2>5. QED
    BY <2>4 DEF message
<1>7. CASE what \in {"status", "elsewhere"}
  <2> DEFINE ofThread == IF what = "status" THEN "thread" ELSE "other thread"
  <2>1. /\ message.method = "thread/status/changed"
        /\ p = [threadId |-> ofThread, status |-> "idle"]
        /\ message.mine = (what = "status")
    BY <1>7 DEF Recorded, Message, Foreign
  <2> HIDE DEF message, p
  <2>2. ThreadOf(p) = ofThread
    BY <2>1, NoneIsNoId DEF ThreadOf, FirstOf, Member
  <2>3. Parse(Notifications, message) = "typed"
    BY <2>1, Models DEF p, Parse, StatusMember
  <2>4. message.mine \in BOOLEAN
    BY <2>1
  <2>5. message.mine <=> ThreadOf(message.params) = "thread"
    BY <2>1, <2>2 DEF p
  <2>6. message.method = "thread/status/changed"
    BY <2>1
  <2>7. Fit(message)
    BY <2>3, <2>4, <2>5, <2>6, FitStatus
  <2>8. QED
    BY <2>7 DEF message
<1>8. CASE what = "thread"
  <2>1. /\ message.method = "thread/started"
        /\ p = [thread |-> "thread"]
        /\ message.mine = FALSE
    BY <1>8 DEF Recorded, Message, Foreign
  <2> HIDE DEF message, p
  <2>2. TurnOf(p) # "turn"
    BY <2>1, NoneIsNoId DEF TurnOf, FirstOf, Member
  <2>3. Parse(Notifications, message) = "typed"
    BY <2>1, Models DEF p, Parse
  <2>4. Fit(message)
    BY <2>1, <2>2, <2>3, FitForeign DEF p
  <2>5. QED
    BY <2>4 DEF message
<1>9. CASE what = "other"
  <2>1. /\ message.method = "turn/completed"
        /\ p = [threadId |-> "thread", turn |-> "other turn", items |-> <<>>]
        /\ message.mine = FALSE
    BY <1>9 DEF Recorded, Message, Foreign
  <2> HIDE DEF message, p
  <2>2. Member(p, "turn") # "turn"
    BY <2>1, NoneIsNoId DEF Member
  <2>3. Parse(Notifications, message) = "typed"
    BY <2>1, Models DEF p, Parse, TurnMember
  <2>4. Fit(message)
    BY <2>1, <2>2, <2>3, FitForeign DEF p
  <2>5. QED
    BY <2>4 DEF message
<1>10. CASE what = "broken"
  <2>1. /\ message.method = "item/agentMessage/delta"
        /\ p = [threadId |-> "thread", turnId |-> "other turn"]
        /\ message.mine = FALSE
    BY <1>10 DEF Recorded, Message, Foreign
  <2>2. message.method \in Deltas
    BY <2>1 DEF Deltas, Texts, TypeOf, DeltaMethods
  <2> HIDE DEF message, p
  <2>3. Parse(Notifications, message) = "refused"
    BY <2>1, <2>2, Models DEF p, Parse, DeltaMember
  <2>4. message.mine \in BOOLEAN /\ (message.mine => ThreadOf(p) = "thread")
    BY <2>1
  <2>5. Fit(message)
    BY <2>3, <2>4, FitRefused DEF p
  <2>6. QED
    BY <2>5 DEF message
<1>11. QED
  BY <1>1, <1>2, <1>3, <1>4, <1>5, <1>6, <1>7, <1>8, <1>9, <1>10 DEF Steps

\* What an item message says.
IsItemMessage(message) ==
    /\ message.mine = TRUE
    /\ \/ message.method \in Deltas /\ DOMAIN message.params = DeltaMember
       \/ message.method \in {"item/started", "item/completed"} /\ DOMAIN message.params = ItemMember
    /\ message.params.threadId = "thread"
    /\ message.params.turnId = "turn"

LEMMA ItemMessagesFit ==
    ASSUME NEW message, IsItemMessage(message)
    PROVE  Fit(message)
<1> DEFINE p == message.params
<1>1. "threadId" \in DOMAIN p /\ "turnId" \in DOMAIN p /\ p.threadId = "thread" /\ p.turnId = "turn"
  BY DEF IsItemMessage, DeltaMember, ItemMember
<1>2. Parse(Notifications, message) = "typed"
  BY Models DEF IsItemMessage, Parse
<1>3. message.method \notin {"turn/started", "turn/completed", "thread/status/changed"}
  BY DEF IsItemMessage, Deltas, Texts, TypeOf, DeltaMethods
<1>4. message.mine = TRUE
  BY DEF IsItemMessage
<1> HIDE DEF p
<1>5. ThreadOf(p) = "thread" /\ TurnOf(p) = "turn"
  BY <1>1, NoneIsNoId DEF ThreadOf, TurnOf, FirstOf, Member
<1>6. QED
  BY <1>2, <1>3, <1>4, <1>5, FitTyped DEF p

\* Of a request of the server likewise, and all of the thread's reach the subscription.
FitAsk(request) ==
    LET event == AdaptTurnServerRequest(request, "turn")
    IN  /\ request.mine \in BOOLEAN
        /\ event.kind = "refused" <=> event = Refused
        /\ event # Refused => (request.mine <=> event.kind # "none")

LEMMA FitAskBy ==
    ASSUME NEW request, request.mine \in BOOLEAN,
           NEW event, event = AdaptTurnServerRequest(request, "turn"),
           \/ event = Refused
           \/ request.mine /\ event.kind = "approval"
           \/ ~request.mine /\ event = NoEvent
    PROVE  FitAsk(request)
<1>1. Refused.kind = "refused" /\ NoEvent.kind = "none" /\ NoEvent # Refused
  BY DEF Refused, NoEvent
<1>2. event.kind = "approval" => event # Refused
  BY DEF Refused
<1>3. "approval" # "none" /\ "approval" # "refused" /\ "none" # "refused"
  OBVIOUS
<1>4. QED
  BY <1>1, <1>2, <1>3, Zenon DEF FitAsk

LEMMA AsksFit ==
    ASSUME NEW what \in {"approval", "other", "broken"}
    PROVE  FitAsk(Recorded(Ask(what), what = "approval"))
<1> DEFINE request == Recorded(Ask(what), what = "approval")
           p == request.params
<1>1. CASE what = "approval"
  <2>1. /\ request.method = "item/fileChange/requestApproval"
        /\ p = [threadId |-> "thread", turnId |-> "turn", itemId |-> "item"]
        /\ request.mine = TRUE
    BY <1>1 DEF Recorded, Ask
  <2> HIDE DEF request, p
  <2>2. Parse(Requests, request) = "typed"
    BY <2>1 DEF p, Parse, Requests, Approvals
  <2>3. Member(p, "turnId") = "turn"
    BY <2>1 DEF Member
  <2>4. AdaptTurnServerRequest(request, "turn").kind = "approval"
    BY <2>1, <2>2, <2>3 DEF p, AdaptTurnServerRequest, Approvals
  <2>5. FitAsk(request)
    <3>1. request.mine \in BOOLEAN
      BY <2>1
    <3>2. \/ AdaptTurnServerRequest(request, "turn") = Refused
          \/ request.mine /\ AdaptTurnServerRequest(request, "turn").kind = "approval"
          \/ ~request.mine /\ AdaptTurnServerRequest(request, "turn") = NoEvent
      BY <2>1, <2>4
    <3>3. QED
      BY <3>1, <3>2, FitAskBy
  <2>6. QED
    BY <2>5 DEF request
<1>2. CASE what = "other"
  <2>1. /\ request.method = "item/tool/requestUserInput"
        /\ p = [threadId |-> "thread", turnId |-> "other turn", questions |-> <<>>]
        /\ request.mine = FALSE
    BY <1>2 DEF Recorded, Ask
  <2> HIDE DEF request, p
  <2>2. Parse(Requests, request) = "typed"
    BY <2>1 DEF p, Parse, Requests, Approvals
  <2>3. TurnOf(p) # "turn"
    BY <2>1, NoneIsNoId DEF TurnOf, FirstOf, Member
  <2>4. AdaptTurnServerRequest(request, "turn") = NoEvent
    BY <2>1, <2>2, <2>3 DEF p, AdaptTurnServerRequest, Approvals
  <2>5. FitAsk(request)
    <3>1. request.mine \in BOOLEAN
      BY <2>1
    <3>2. \/ AdaptTurnServerRequest(request, "turn") = Refused
          \/ request.mine /\ AdaptTurnServerRequest(request, "turn").kind = "approval"
          \/ ~request.mine /\ AdaptTurnServerRequest(request, "turn") = NoEvent
      BY <2>1, <2>4
    <3>3. QED
      BY <3>1, <3>2, FitAskBy
  <2>6. QED
    BY <2>5 DEF request
<1>3. CASE what = "broken"
  <2>1. /\ request.method = "item/fileChange/requestApproval"
        /\ p = [threadId |-> "thread"]
        /\ request.mine = FALSE
    BY <1>3 DEF Recorded, Ask
  <2> HIDE DEF request, p
  <2>2. Parse(Requests, request) = "refused"
    BY <2>1 DEF p, Parse, Requests, Approvals
  <2>3. AdaptTurnServerRequest(request, "turn") = Refused
    BY <2>2 DEF AdaptTurnServerRequest
  <2>4. FitAsk(request)
    <3>1. request.mine \in BOOLEAN
      BY <2>1
    <3>2. \/ AdaptTurnServerRequest(request, "turn") = Refused
          \/ request.mine /\ AdaptTurnServerRequest(request, "turn").kind = "approval"
          \/ ~request.mine /\ AdaptTurnServerRequest(request, "turn") = NoEvent
      BY <2>1, <2>3
    <3>3. QED
      BY <3>1, <3>2, FitAskBy
  <2>5. QED
    BY <2>4 DEF request
<1>4. QED
  BY <1>1, <1>2, <1>3

-----------------------------------------------------------------------------
(* The invariant of the stream *)

IsSequence(s) == \E S : s \in Seq(S)

\* What a read task has is the last it took, or the end of its subscription.
HoldsLast(held, taken) == held \in {<<>>, <<0>>} \/ (held = <<taken>> /\ taken # 0)

TrafficFits ==
    /\ script \in Scripts
    /\ IsSequence(sent) /\ IsSequence(asks)
    /\ \A n \in 1..Len(sent) : Fit(sent[n])
    /\ \A n \in 1..Len(asks) : FitAsk(asks[n])

TasksFit ==
    /\ notes \in Nat /\ notes <= Len(sent) /\ HoldsLast(note, notes)
    /\ note = <<notes>> /\ notes # 0 => Reached(sent[notes])
    /\ asked \in Nat /\ asked <= Len(asks) /\ HoldsLast(ask, asked)

ReadersFit ==
    /\ pump \in {"none", "running", "result", "failed", "cancelled"}
    /\ reader \in [Readers -> [phase : {"none", "reading", "gone"}, queue : Seq(Events),
                               notes : Nat, asks : Nat]]
    /\ pump # "none" => reader[Handle].phase # "none"

\* Before it starts there is nothing.
NotYet ==
    pump = "none" =>
        /\ note = <<>> /\ ask = <<>>
        /\ output = EmptyOutput
        /\ \A r \in Readers : reader[r].phase = "none"

\* What the reader was given is what was handled of the turn since it joined, then
\* the end there was; the handle's events make up the output.
Served(r) ==
    LET q == reader[r].queue
    IN  /\ reader[r].notes <= Handled(note, notes)
        /\ reader[r].asks <= Handled(ask, asked)
        /\ Tagged("note", q) = Of("note", sent, reader[r].notes, Handled(note, notes))
        /\ Tagged("ask", q) = Of("ask", asks, reader[r].asks, Handled(ask, asked))
        /\ Tagged("end", q) = IF pump \in {"result", "cancelled"} THEN <<End>> ELSE <<>>
        /\ Tagged("failure", q) = IF pump = "failed" THEN <<Failure>> ELSE <<>>
        /\ pump \in {"result", "cancelled"} => Last(q) = End
        /\ pump = "failed" => Last(q) = Failure
        /\ r = Handle => Aggregated(Observed(q)) = output

AllServed == \A r \in Readers : reader[r].phase = "reading" => Served(r)

\* A stream only fails on what one of its read tasks has.
FailsForCause == pump = "failed" => AskBreaks \/ NoteBreaks

TurnInv ==
    /\ TrafficFits
    /\ TasksFit
    /\ ReadersFit
    /\ NotYet
    /\ AllServed
    /\ FailsForCause

LEMMA AppendedSequence ==
    ASSUME NEW s, IsSequence(s), NEW m
    PROVE  LET t == Append(s, m)
           IN  /\ IsSequence(t)
               /\ Len(s) \in Nat /\ Len(t) = Len(s) + 1
               /\ t[Len(s) + 1] = m
               /\ \A n \in 1..Len(s) : t[n] = s[n]
<1>1. PICK S : s \in Seq(S)
  BY DEF IsSequence
<1> DEFINE T == S \cup {m}
<1>2. s \in Seq(T) /\ m \in T
  <2>1. s \in [1..Len(s) -> S] /\ Len(s) \in Nat
    BY <1>1
  <2>2. s \in [1..Len(s) -> T]
    BY <2>1
  <2> HIDE DEF T
  <2>3. s \in Seq(T)
    BY <2>1, <2>2
  <2>4. QED
    BY <2>3 DEF T
<1> HIDE DEF T
<1>3. Append(s, m) \in Seq(T)
  BY <1>2
<1>4. QED
  BY <1>2, <1>3 DEF IsSequence

LEMMA OfType ==
    ASSUME NEW tag, NEW traffic, NEW from \in Nat, NEW upTo \in Nat
    PROVE  Of(tag, traffic, from, upTo) \in Seq({tag} \X (from + 1 .. upTo))
<1> DEFINE S == {n \in from + 1 .. upTo : traffic[n].mine}
           s == InOrder(S)
<1>1. S \in SUBSET (1..upTo) /\ S \subseteq from + 1 .. upTo
  OBVIOUS
<1>2. Of(tag, traffic, from, upTo) = [i \in DOMAIN s |-> <<tag, s[i]>>]
  BY DEF Of
<1> HIDE DEF S
<1>3. s \in Seq(S)
  BY <1>1, OrderIsSequence
<1> HIDE DEF s
<1>4. Len(s) \in Nat /\ DOMAIN s = 1..Len(s) /\ \A i \in 1..Len(s) : s[i] \in S
  BY <1>3
<1>5. \A i \in 1..Len(s) : <<tag, s[i]>> \in {tag} \X (from + 1 .. upTo)
  BY <1>1, <1>4
<1>6. QED
  BY <1>2, <1>4, <1>5

\* A read task has nothing, or the last it took, of which an event comes if it is of the turn.
Brings(held, taken, event, traffic) ==
    \/ held = <<>> /\ event = NoEvent
    \/ /\ held = <<taken>> /\ taken # 0 /\ event.kind # "refused"
       /\ traffic[taken].mine <=> event.kind # "none"

\* What is published of what a read task has is what it adds to what was handled.
Adds(tag, traffic, from, held, taken, event) ==
    /\ Of(tag, traffic, from, Handled(held, taken)) \o Published(event, tag, held)
          = Of(tag, traffic, from, taken)
    /\ AtMostOne(tag, Published(event, tag, held))
    /\ Published(event, tag, held) = IF event.kind = "none" THEN <<>> ELSE << <<tag, taken>> >>

LEMMA PublishedIsNext ==
    ASSUME NEW tag \in {"note", "ask"}, NEW traffic, NEW from \in Nat, NEW taken \in Nat,
           NEW held, NEW event, from <= Handled(held, taken), Brings(held, taken, event, traffic)
    PROVE  Adds(tag, traffic, from, held, taken, event)
<1> DEFINE o == Of(tag, traffic, from, Handled(held, taken))
<1>0. \/ held = <<>> /\ event = NoEvent
      \/ /\ held = <<taken>> /\ taken # 0 /\ event.kind # "refused"
         /\ traffic[taken].mine <=> event.kind # "none"
  BY DEF Brings
<1>1. Handled(held, taken) \in Nat /\ Handled(held, taken) <= taken
  <2>1. CASE held = <<>>
    BY <2>1 DEF Handled
  <2>2. CASE held = <<taken>> /\ taken # 0
    <3>1. held # <<>> /\ held # <<0>>
      BY <2>2
    <3>2. QED
      BY <2>2, <3>1 DEF Handled
  <2>3. QED
    BY <1>0, <2>1, <2>2
<1>2. o \in Seq({tag} \X (from + 1 .. Handled(held, taken)))
  BY <1>1, OfType
<1>3. CASE held = <<>> /\ event = NoEvent
  <2>1. event.kind = "none" /\ Published(event, tag, held) = <<>>
    BY <1>3 DEF Published, NoEvent
  <2>2. Handled(held, taken) = taken
    BY <1>3 DEF Handled
  <2>3. o \o <<>> = o
    BY <1>2
  <2>4. AtMostOne(tag, <<>>)
    BY DEF AtMostOne
  <2>5. QED
    BY <1>1, <2>1, <2>2, <2>3, <2>4 DEF Adds
<1>4. CASE /\ held = <<taken>> /\ taken # 0 /\ event.kind # "refused"
           /\ traffic[taken].mine <=> event.kind # "none"
  <2>1. held # <<>> /\ held # <<0>> /\ held[1] = taken
    BY <1>4
  <2>2. Handled(held, taken) = taken - 1
    BY <2>1 DEF Handled
  <2>3. CASE event.kind = "none"
    <3>1. Published(event, tag, held) = <<>>
      BY <2>3 DEF Published
    <3>2. Of(tag, traffic, from, taken) = o
      <4>1. \A n \in (taken - 1) + 1 .. taken : ~ traffic[n].mine
        BY <1>4, <2>3
      <4>2. from <= taken - 1 /\ taken - 1 <= taken /\ taken - 1 \in Nat
        BY <1>1, <2>2
      <4>3. QED
        BY <2>2, <4>1, <4>2, OfOthers
    <3>3. o \o <<>> = o
      BY <1>2
    <3>4. AtMostOne(tag, <<>>)
      BY DEF AtMostOne
    <3>5. QED
      BY <1>1, <2>3, <3>1, <3>2, <3>3, <3>4 DEF Adds
  <2>4. CASE event.kind # "none"
    <3>1. Published(event, tag, held) = << <<tag, taken>> >>
      BY <1>4, <2>1, <2>4 DEF Published
    <3>2. Of(tag, traffic, from, taken) = Append(o, <<tag, taken>>)
      <4>1. PICK k \in Nat : k + 1 = taken /\ k = taken - 1
        BY <1>4
      <4>2. from <= k /\ traffic[k + 1].mine
        BY <1>4, <2>2, <2>4, <4>1
      <4>3. Of(tag, traffic, from, k + 1) = Append(Of(tag, traffic, from, k), <<tag, k + 1>>)
        BY <4>2, OfNext
      <4>4. QED
        BY <2>2, <4>1, <4>3
    <3>3. Append(o, <<tag, taken>>) = o \o << <<tag, taken>> >>
      <4> HIDE DEF o
      <4>1. ({tag} \X (from + 1 .. Handled(held, taken))) \subseteq Events /\ <<tag, taken>> \in Events
        BY <1>1 DEF Events
      <4>2. o \in Seq(Events)
        BY <1>2, <4>1, SeqMonotonic
      <4>3. QED
        BY <4>1, <4>2, AppendIsConcat
    <3>4. AtMostOne(tag, << <<tag, taken>> >>)
      <4>1. <<tag, taken>> \in Events /\ <<tag, taken>>[1] = tag
        BY DEF Events
      <4>2. QED
        BY <4>1 DEF AtMostOne
    <3>5. QED
      BY <1>1, <2>4, <3>1, <3>2, <3>3, <3>4 DEF Adds
  <2>5. QED
    BY <2>3, <2>4
<1>5. QED
  BY <1>0, <1>3, <1>4 DEF Adds

\* An event of no kind, or a completion, leaves the output alone.
LEMMA ObservesNothing ==
    ASSUME NEW s, NEW event, event.kind \in {"none", "completed"}
    PROVE  ObserveTurnEvent(s, event) = s
  BY DEF ObserveTurnEvent

\* What an aggregator has seen of a queue that is given a notification, or none.
LEMMA ObservedGrows ==
    ASSUME NEW q, NEW more, NEW n \in Nat,
           Tagged("note", q) \in Seq(Events)
    PROVE  /\ Tagged("note", more) = Tagged("note", q) => Observed(more) = Observed(q)
           /\ Tagged("note", more) = Tagged("note", q) \o << <<"note", n>> >>
                => Aggregated(Observed(more))
                     = ObserveTurnEvent(Aggregated(Observed(q)),
                                        AdaptTurnNotification(sent[n], "turn"))
<1> DEFINE a == Tagged("note", q)
           b == Tagged("note", more)
           D == {AdaptTurnNotification(sent[m], "turn") : m \in Nat}
           e == AdaptTurnNotification(sent[n], "turn")
<1>1. /\ Observed(q) = [m \in DOMAIN a |-> AdaptTurnNotification(sent[a[m][2]], "turn")]
      /\ Observed(more) = [m \in DOMAIN b |-> AdaptTurnNotification(sent[b[m][2]], "turn")]
  BY DEF Observed
<1>2. a = b => Observed(more) = Observed(q)
  BY DEF Observed
<1>3. ASSUME b = a \o << <<"note", n>> >>
      PROVE  Aggregated(Observed(more)) = ObserveTurnEvent(Aggregated(Observed(q)), e)
  <2> DEFINE k == Len(a)
  <2>1. k \in Nat /\ DOMAIN a = 1..k /\ \A m \in 1..k : a[m][2] \in Nat
    BY DEF Events
  <2>2. a \in Seq(Events) /\ <<"note", n>> \in Events
    BY DEF Events
  <2>3. DOMAIN b = 1..k + 1 /\ b[k + 1] = <<"note", n>> /\ \A m \in 1..k : b[m] = a[m]
    <3> HIDE DEF a, b
    <3>1. QED
      BY <1>3, <2>2
  <2> HIDE DEF a, b, k
  <2> DEFINE o == Observed(q)
  <2>4. DOMAIN o = 1..k /\ \A m \in 1..k : o[m] = AdaptTurnNotification(sent[a[m][2]], "turn")
    BY <1>1, <2>1
  <2>5. o = [m \in 1..k |-> o[m]] /\ \A m \in 1..k : o[m] \in D
    BY <1>1, <2>1, <2>4
  <2> HIDE DEF D
  <2>6. o \in Seq(D) /\ Len(o) = k
    <3> HIDE DEF o
    <3>1. QED
      BY <2>1, <2>5
  <2>7. e \in D
    BY DEF D
  <2>8. b[k + 1][2] = n
    BY <2>3
  <2> HIDE DEF e, o
  <2>9. Observed(more) = Append(o, e)
    <3> DEFINE p == Append(o, e)
    <3>1. p \in Seq(D) /\ Len(p) = k + 1 /\ p[k + 1] = e /\ \A m \in 1..k : p[m] = o[m]
      BY <2>1, <2>6, <2>7
    <3> HIDE DEF p
    <3>2. p = [m \in 1..k + 1 |-> p[m]]
      BY <3>1
    <3>3. ASSUME NEW m \in 1..k + 1 PROVE p[m] = AdaptTurnNotification(sent[b[m][2]], "turn")
      <4>1. CASE m = k + 1
        BY <2>8, <3>1, <4>1 DEF e
      <4>2. CASE m \in 1..k
        BY <2>3, <2>4, <3>1, <4>2
      <4>3. m = k + 1 \/ m \in 1..k
        BY <2>1
      <4>4. QED
        BY <4>1, <4>2, <4>3
    <3>4. QED
      BY <1>1, <2>3, <3>2, <3>3 DEF p
  <2>10. Aggregated(Append(o, e)) = ObserveTurnEvent(Aggregated(o), e)
    BY <2>6, <2>7, AggregatedStep
  <2>11. QED
    BY <2>9, <2>10 DEF o
<1>4. QED
  BY <1>2, <1>3

LEMMA InitHolds == TurnInit => TurnInv
<1> SUFFICES ASSUME TurnInit PROVE TurnInv
  OBVIOUS
<1>1. TrafficFits
  <2>1. <<>> \in Seq({})
    OBVIOUS
  <2>2. IsSequence(sent) /\ IsSequence(asks)
    BY <2>1 DEF TurnInit, IsSequence
  <2>3. Len(sent) = 0 /\ Len(asks) = 0
    BY DEF TurnInit
  <2>4. script \in Scripts
    BY DEF TurnInit
  <2>5. QED
    BY <2>2, <2>3, <2>4 DEF TrafficFits
<1>2. TasksFit
  BY DEF TurnInit, TasksFit, HoldsLast
<1>3. ReadersFit
  BY DEF TurnInit, ReadersFit
<1>4. NotYet
  BY DEF TurnInit, NotYet
<1>5. AllServed
  BY DEF TurnInit, AllServed
<1>6. FailsForCause
  BY DEF TurnInit, FailsForCause
<1>7. QED
  BY <1>1, <1>2, <1>3, <1>4, <1>5, <1>6 DEF TurnInv

LEMMA HandledFits ==
    ASSUME NEW held, NEW taken \in Nat, HoldsLast(held, taken)
    PROVE  Handled(held, taken) \in Nat /\ Handled(held, taken) <= taken
<1>1. CASE held \in {<<>>, <<0>>}
  BY <1>1 DEF Handled
<1>2. CASE held \notin {<<>>, <<0>>}
  BY <1>2 DEF Handled, HoldsLast
<1>3. QED
  BY <1>1, <1>2

\* More traffic changes nothing of what the readers have, nor of what the tasks hold.
LEMMA TrafficGrows ==
    ASSUME TurnInv,
           \A n \in 1..Len(sent) : sent'[n] = sent[n],
           \A n \in 1..Len(asks) : asks'[n] = asks[n],
           UNCHANGED <<reader, note, notes, ask, asked, pump, output>>
    PROVE  AllServed' /\ FailsForCause'
<1>1. /\ notes \in Nat /\ notes <= Len(sent) /\ HoldsLast(note, notes)
      /\ asked \in Nat /\ asked <= Len(asks) /\ HoldsLast(ask, asked)
  BY DEF TurnInv, TasksFit
<1>2. Len(sent) \in Nat /\ Len(asks) \in Nat
  BY DEF TurnInv, TrafficFits, IsSequence
<1>3. /\ Handled(note, notes) \in Nat /\ Handled(note, notes) <= Len(sent)
      /\ Handled(ask, asked) \in Nat /\ Handled(ask, asked) <= Len(asks)
  BY <1>1, <1>2, HandledFits
<1>4. ASSUME NEW r \in Readers, reader[r].phase = "reading" PROVE Served(r)'
  <2> DEFINE q == reader[r].queue
             from == reader[r].notes
             askFrom == reader[r].asks
  <2>1. Served(r)
    BY <1>4 DEF TurnInv, AllServed
  <2>2. from \in Nat /\ askFrom \in Nat /\ q \in Seq(Events)
    BY DEF TurnInv, ReadersFit
  <2>3. Of("note", sent', from, Handled(note, notes)) = Of("note", sent, from, Handled(note, notes))
    <3>1. \A n \in 1..Handled(note, notes) : sent'[n].mine = sent[n].mine
      BY <1>2, <1>3
    <3> HIDE DEF from
    <3>2. QED
      BY <1>3, <2>2, <3>1, OfSame
  <2>4. Of("ask", asks', askFrom, Handled(ask, asked)) = Of("ask", asks, askFrom, Handled(ask, asked))
    <3>1. \A n \in 1..Handled(ask, asked) : asks'[n].mine = asks[n].mine
      BY <1>2, <1>3
    <3> HIDE DEF askFrom
    <3>2. QED
      BY <1>3, <2>2, <3>1, OfSame
  <2>5. Observed(q)' = Observed(q)
    <3> DEFINE a == Tagged("note", q)
    <3>1. a = Of("note", sent, from, Handled(note, notes))
      BY <2>1 DEF Served
    <3>2. a \in Seq({"note"} \X (from + 1 .. Handled(note, notes)))
      <4> HIDE DEF from
      <4>1. QED
        BY <1>3, <2>2, <3>1, OfType
    <3>3. q' = q
      OBVIOUS
    <3>4. Observed(q) = [m \in DOMAIN a |-> AdaptTurnNotification(sent[a[m][2]], "turn")]
      BY DEF Observed
    <3>5. Observed(q)' = [m \in DOMAIN a |-> AdaptTurnNotification(sent'[a[m][2]], "turn")]
      BY <3>3 DEF Observed
    <3> HIDE DEF a, from
    <3>6. \A m \in DOMAIN a : a[m][2] \in 1..Len(sent)
      <4>1. \A m \in DOMAIN a : a[m] \in {"note"} \X (from + 1 .. Handled(note, notes))
        BY <3>2
      <4>2. QED
        BY <1>2, <1>3, <2>2, <4>1
    <3>7. QED
      BY <3>4, <3>5, <3>6
  <2>6. /\ reader[r]' = reader[r] /\ Handled(note, notes)' = Handled(note, notes)
        /\ Handled(ask, asked)' = Handled(ask, asked) /\ pump' = pump /\ output' = output
    BY DEF Handled
  <2>7. Aggregated(Observed(q))' = Aggregated(Observed(q))
    BY <2>5
  <2>8. QED
    BY <2>1, <2>3, <2>4, <2>6, <2>7 DEF Served
<1>5. AllServed'
  BY <1>4 DEF AllServed
<1>6. FailsForCause'
  <2> DEFINE has(held) == held \notin {<<>>, <<0>>}
  <2>1. ASSUME has(note) PROVE sent'[note[1]] = sent[note[1]]
    <3>1. note = <<notes>> /\ notes # 0
      BY <1>1, <2>1 DEF HoldsLast
    <3>2. notes \in 1..Len(sent) /\ note[1] = notes
      BY <1>1, <1>2, <3>1
    <3>3. QED
      BY <3>2
  <2>2. ASSUME has(ask) PROVE asks'[ask[1]] = asks[ask[1]]
    <3>1. ask = <<asked>> /\ asked # 0
      BY <1>1, <2>2 DEF HoldsLast
    <3>2. asked \in 1..Len(asks) /\ ask[1] = asked
      BY <1>1, <1>2, <3>1
    <3>3. QED
      BY <3>2
  <2>3. NoteEvent' = NoteEvent /\ AskEvent' = AskEvent
    BY <2>1, <2>2 DEF NoteEvent, AskEvent
  <2>4. NoteBreaks' = NoteBreaks /\ AskBreaks' = AskBreaks
    BY <2>3 DEF NoteBreaks, AskBreaks
  <2>5. QED
    BY <2>4 DEF TurnInv, FailsForCause
<1>7. QED
  BY <1>5, <1>6

\* The server sends what fits.
LEMMA NotifiesKeeps ==
    ASSUME TurnInv, Notifies
    PROVE  TurnInv'
<1>1. PICK m : sent' = Append(sent, m) /\ Fit(m)
  <2>1. IsScript(script)
    BY TurnAssumption DEF TurnInv, TrafficFits
  <2>2. Len(sent) \in Nat /\ Len(sent) < Len(script)
    BY DEF TurnInv, TrafficFits, IsSequence, Notifies
  <2>3. Len(sent) + 1 \in DOMAIN script
    BY <2>1, <2>2 DEF IsScript
  <2>4. PICK step : step = script[Len(sent) + 1]
    OBVIOUS
  <2> DEFINE ofItem == step[1] \in {"delta", "empty", "item", "whole"}
  <2>5. (ofItem /\ step[2] \in Items) \/ step[1] \in Steps
    BY <2>1, <2>3, <2>4 DEF IsScript, Steps
  <2>6. PICK text1, message :
            /\ message \in IF ofItem THEN ItemMessages(step, text1) ELSE {Message(step[1])}
            /\ sent' = Append(sent, Recorded(message, step[1] \notin Foreign))
    BY <2>4 DEF Notifies
  <2>7. CASE ofItem
    <3>1. step[2] \in Items /\ step[1] \notin Foreign
      BY <2>5, <2>7 DEF Steps, Foreign
    <3>2. PICK m : m = Recorded(message, TRUE)
      OBVIOUS
    <3>3. sent' = Append(sent, m) /\ message \in ItemMessages(step, text1)
      BY <2>6, <2>7, <3>1, <3>2
    <3>4. IsItemMessage(m)
      <4>1. CASE step[1] \in {"delta", "empty"}
        <5>1. DeltaMethods[ItemKind[step[2]]] \subseteq Deltas
          BY <3>1, TurnAssumption DEF Deltas
        <5>2. QED
          BY <3>2, <3>3, <4>1, <5>1 DEF IsItemMessage, ItemMessages, Recorded, DeltaMember
      <4>2. CASE step[1] \notin {"delta", "empty"}
        BY <3>2, <3>3, <4>2 DEF IsItemMessage, ItemMessages, Recorded, ItemMember
      <4>3. QED
        BY <4>1, <4>2
    <3>5. QED
      BY <3>3, <3>4, ItemMessagesFit
  <2>8. CASE ~ofItem
    <3>1. step[1] \in Steps
      BY <2>5, <2>8
    <3>2. sent' = Append(sent, Recorded(Message(step[1]), step[1] \notin Foreign))
      BY <2>6, <2>8, <3>1
    <3>3. Fit(Recorded(Message(step[1]), step[1] \notin Foreign))
      BY <3>1, MessagesFit
    <3>4. QED
      BY <3>2, <3>3
  <2>9. QED
    BY <2>7, <2>8
<1>2. UNCHANGED <<script, asks, reader, note, notes, ask, asked, pump, output>>
  BY DEF Notifies, stream
<1>3. /\ IsSequence(sent')
      /\ Len(sent) \in Nat /\ Len(sent') = Len(sent) + 1
      /\ sent'[Len(sent) + 1] = m
      /\ \A n \in 1..Len(sent) : sent'[n] = sent[n]
  <2>1. IsSequence(sent)
    BY DEF TurnInv, TrafficFits
  <2>2. QED
    BY <1>1, <2>1, AppendedSequence
<1>4. TrafficFits'
  <2>1. \A n \in 1..Len(sent') : Fit(sent'[n])
    <3>1. ASSUME NEW n \in 1..Len(sent') PROVE Fit(sent'[n])
      <4>1. CASE n = Len(sent) + 1
        BY <1>1, <1>3, <4>1
      <4>2. CASE n \in 1..Len(sent)
        BY <1>3, <4>2 DEF TurnInv, TrafficFits
      <4>3. n = Len(sent) + 1 \/ n \in 1..Len(sent)
        BY <1>3
      <4>4. QED
        BY <4>1, <4>2, <4>3
    <3>2. QED
      BY <3>1
  <2>2. QED
    BY <1>2, <1>3, <2>1 DEF TurnInv, TrafficFits
<1>5. TasksFit'
  <2>1. ASSUME note = <<notes>>, notes # 0 PROVE Reached(sent'[notes])
    <3>1. notes \in 1..Len(sent)
      BY <1>3, <2>1 DEF TurnInv, TasksFit
    <3>2. QED
      BY <1>3, <2>1, <3>1 DEF TurnInv, TasksFit
  <2>2. QED
    BY <1>2, <1>3, <2>1 DEF TurnInv, TasksFit
<1>6. ReadersFit' /\ NotYet'
  BY <1>2 DEF TurnInv, ReadersFit, NotYet
<1>7. AllServed' /\ FailsForCause'
  BY <1>2, <1>3, TrafficGrows
<1>8. QED
  BY <1>4, <1>5, <1>6, <1>7 DEF TurnInv

LEMMA AsksKeeps ==
    ASSUME TurnInv, Asks
    PROVE  TurnInv'
<1>1. PICK what \in {"approval", "other", "broken"} :
          asks' = Append(asks, Recorded(Ask(what), what = "approval"))
  BY DEF Asks
<1> DEFINE m == Recorded(Ask(what), what = "approval")
<1>2. FitAsk(m)
  BY AsksFit
<1> HIDE DEF m
<1>3. UNCHANGED <<script, sent, reader, note, notes, ask, asked, pump, output>>
  BY DEF Asks, stream
<1>4. /\ IsSequence(asks')
      /\ Len(asks) \in Nat /\ Len(asks') = Len(asks) + 1
      /\ asks'[Len(asks) + 1] = m
      /\ \A n \in 1..Len(asks) : asks'[n] = asks[n]
  <2>1. IsSequence(asks) /\ asks' = Append(asks, m)
    BY <1>1 DEF TurnInv, TrafficFits, m
  <2>2. QED
    BY <2>1, AppendedSequence
<1>5. TrafficFits'
  <2>1. \A n \in 1..Len(asks') : FitAsk(asks'[n])
    <3>1. ASSUME NEW n \in 1..Len(asks') PROVE FitAsk(asks'[n])
      <4>1. CASE n = Len(asks) + 1
        BY <1>2, <1>4, <4>1
      <4>2. CASE n \in 1..Len(asks)
        BY <1>4, <4>2 DEF TurnInv, TrafficFits
      <4>3. n = Len(asks) + 1 \/ n \in 1..Len(asks)
        BY <1>4
      <4>4. QED
        BY <4>1, <4>2, <4>3
    <3>2. QED
      BY <3>1
  <2>2. QED
    BY <1>3, <1>4, <2>1 DEF TurnInv, TrafficFits
<1>6. TasksFit'
  BY <1>3, <1>4 DEF TurnInv, TasksFit
<1>7. ReadersFit' /\ NotYet'
  BY <1>3 DEF TurnInv, ReadersFit, NotYet
<1>8. AllServed' /\ FailsForCause'
  BY <1>3, <1>4, TrafficGrows
<1>9. QED
  BY <1>5, <1>6, <1>7, <1>8 DEF TurnInv

\* What the stream is not about leaves all of it.
LEMMA OthersKeep ==
    ASSUME TurnInv,
           UNCHANGED <<script, sent, asks, note, ask, notes, asked, output, pump, reader>>
    PROVE  TurnInv'
<1>1. AllServed' /\ FailsForCause'
  BY TrafficGrows
<1>2. TrafficFits'
  BY DEF TurnInv, TrafficFits
<1>3. TasksFit'
  BY DEF TurnInv, TasksFit
<1>4. ReadersFit' /\ NotYet'
  BY DEF TurnInv, ReadersFit, NotYet
<1>5. QED
  BY <1>1, <1>2, <1>3, <1>4 DEF TurnInv

\* A reader that joins has missed what was handled, and is served from there.
LEMMA JoinedIsServed ==
    ASSUME TurnInv, NEW r \in Readers,
           UNCHANGED <<sent, asks>>,
           HoldsLast(note', notes'), HoldsLast(ask', asked'), notes' \in Nat, asked' \in Nat,
           reader'[r] = Subscribed(Handled(note', notes'), Handled(ask', asked')),
           pump' = "running",
           r = Handle => output' = EmptyOutput
    PROVE  Served(r)'
<1> DEFINE from == Handled(note', notes')
           askFrom == Handled(ask', asked')
<1>1. from \in Nat /\ askFrom \in Nat
  BY HandledFits
<1>2. /\ reader'[r].queue = <<>>
      /\ reader'[r].notes = from
      /\ reader'[r].asks = askFrom
  BY DEF Subscribed
<1>3. /\ Of("note", sent', from, from) = <<>>
      /\ Of("ask", asks', askFrom, askFrom) = <<>>
  BY <1>1, OfNothing
<1>4. \A tag : Tagged(tag, <<>>) = <<>>
  BY TaggedNothing
<1>5. Aggregated(Observed(<<>>))' = EmptyOutput
  <2>1. Observed(<<>>)' = <<>>
    <3> DEFINE a == Tagged("note", <<>>)
    <3>1. Observed(<<>>)' = [m \in DOMAIN a |-> AdaptTurnNotification(sent'[a[m][2]], "turn")]
      BY DEF Observed
    <3>2. a = <<>>
      BY <1>4
    <3> HIDE DEF a
    <3>3. QED
      BY <3>1, <3>2
  <2>2. Aggregated(<<>>) = EmptyOutput
    <3>1. <<>> \in Seq({0}) /\ 0 \in {0}
      OBVIOUS
    <3>2. QED
      BY <3>1, AggregatedStep
  <2>3. QED
    BY <2>1, <2>2
<1>6. from <= from /\ askFrom <= askFrom
  BY <1>1
<1>7. Handled(note, notes)' = from /\ Handled(ask, asked)' = askFrom
  BY DEF Handled
<1> HIDE DEF from, askFrom
<1>8. /\ reader[r].notes' <= Handled(note, notes)' /\ reader[r].asks' <= Handled(ask, asked)'
      /\ Of("note", sent, reader[r].notes, Handled(note, notes))' = <<>>
      /\ Of("ask", asks, reader[r].asks, Handled(ask, asked))' = <<>>
  BY <1>2, <1>3, <1>6, <1>7
<1>9. reader[r].queue' = <<>> /\ Aggregated(Observed(reader[r].queue))' = EmptyOutput
  BY <1>2, <1>5
<1>10. pump' \notin {"result", "cancelled", "failed"}
  OBVIOUS
<1>11. /\ Tagged("note", reader[r].queue)' = <<>> /\ Tagged("ask", reader[r].queue)' = <<>>
       /\ Tagged("end", reader[r].queue)' = <<>> /\ Tagged("failure", reader[r].queue)' = <<>>
  BY <1>4, <1>9
<1>12. QED
  BY <1>8, <1>9, <1>10, <1>11 DEF Served

LEMMA HandleReads == Handle \in Readers
  BY TurnAssumption

LEMMA StartKeeps ==
    ASSUME TurnInv, StartStream
    PROVE  TurnInv'
<1>1. /\ UNCHANGED <<script, sent, asks, note, ask, output>>
      /\ pump = "none" /\ pump' = "running"
      /\ notes' = Len(sent) /\ asked' = Len(asks)
      /\ reader' = [reader EXCEPT ![Handle] = Subscribed(Len(sent), Len(asks))]
  BY DEF StartStream
<1>2. /\ note = <<>> /\ ask = <<>> /\ output = EmptyOutput
      /\ \A r \in Readers : reader[r].phase = "none"
  BY <1>1 DEF TurnInv, NotYet
<1>3. Len(sent) \in Nat /\ Len(asks) \in Nat
  BY DEF TurnInv, TrafficFits, IsSequence
<1>4. TrafficFits'
  BY <1>1 DEF TurnInv, TrafficFits
<1>5. TasksFit'
  BY <1>1, <1>2, <1>3 DEF TasksFit, HoldsLast
<1>6. Handle \in Readers
  BY TurnAssumption
<1>7. reader'[Handle] = Subscribed(Len(sent), Len(asks)) /\ \A r \in Readers \ {Handle} : reader'[r] = reader[r]
  BY <1>1, <1>6 DEF TurnInv, ReadersFit
<1>8. ReadersFit'
  <2>1. Subscribed(Len(sent), Len(asks))
          \in [phase : {"none", "reading", "gone"}, queue : Seq(Events), notes : Nat, asks : Nat]
    BY <1>3 DEF Subscribed
  <2>2. reader'[Handle].phase # "none"
    BY <1>7 DEF Subscribed
  <2>3. reader' \in [Readers -> [phase : {"none", "reading", "gone"}, queue : Seq(Events),
                                 notes : Nat, asks : Nat]]
    BY <1>1, <2>1 DEF TurnInv, ReadersFit
  <2>4. QED
    BY <1>1, <2>2, <2>3 DEF ReadersFit
<1>9. NotYet' /\ FailsForCause'
  BY <1>1 DEF NotYet, FailsForCause
<1>10. ASSUME NEW r \in Readers, reader'[r].phase = "reading" PROVE Served(r)'
  <2>1. r = Handle
    BY <1>2, <1>7, <1>10
  <2>2. Handled(note', notes') = Len(sent) /\ Handled(ask', asked') = Len(asks)
    BY <1>1, <1>2 DEF Handled
  <2>3. HoldsLast(note', notes') /\ HoldsLast(ask', asked') /\ notes' \in Nat /\ asked' \in Nat
    BY <1>5 DEF TasksFit
  <2>4. reader'[r] = Subscribed(Handled(note', notes'), Handled(ask', asked'))
    BY <1>7, <2>1, <2>2
  <2>5. sent' = sent /\ asks' = asks /\ pump' = "running" /\ output' = EmptyOutput
    BY <1>1, <1>2
  <2>6. QED
    BY <2>3, <2>4, <2>5, JoinedIsServed
<1>11. AllServed'
  BY <1>10 DEF AllServed
<1>12. QED
  BY <1>4, <1>5, <1>8, <1>9, <1>11 DEF TurnInv

\* The others are served as they were.
LEMMA ServedAsBefore ==
    ASSUME TurnInv, NEW r \in Readers, reader[r].phase = "reading",
           UNCHANGED <<sent, asks, note, notes, ask, asked, pump, output>>, reader'[r] = reader[r]
    PROVE  Served(r)'
<1>1. Served(r)
  BY DEF TurnInv, AllServed
<1>2. /\ reader[r]' = reader[r] /\ Handled(note, notes)' = Handled(note, notes)
      /\ Handled(ask, asked)' = Handled(ask, asked)
  BY DEF Handled
<1>3. Observed(reader[r].queue)' = Observed(reader[r].queue)
  BY <1>2 DEF Observed
<1>4. QED
  BY <1>1, <1>2, <1>3 DEF Served

LEMMA JoinKeeps ==
    ASSUME TurnInv, NEW r \in Readers, Join(r)
    PROVE  TurnInv'
<1>1. /\ UNCHANGED <<script, sent, asks, note, ask, notes, asked, output, pump>>
      /\ pump = "running" /\ reader[r].phase = "none"
      /\ reader' = [reader EXCEPT ![r] = Subscribed(Handled(note, notes), Handled(ask, asked))]
  BY DEF Join, server, stream
<1>2. /\ HoldsLast(note, notes) /\ HoldsLast(ask, asked) /\ notes \in Nat /\ asked \in Nat
  BY DEF TurnInv, TasksFit
<1>3. Handled(note, notes) \in Nat /\ Handled(ask, asked) \in Nat
  BY <1>2, HandledFits
<1>4. r # Handle
  BY <1>1 DEF TurnInv, ReadersFit
<1>5. /\ reader'[r] = Subscribed(Handled(note, notes), Handled(ask, asked))
      /\ \A s \in Readers \ {r} : reader'[s] = reader[s]
  BY <1>1 DEF TurnInv, ReadersFit
<1>6. TrafficFits' /\ TasksFit'
  BY <1>1 DEF TurnInv, TrafficFits, TasksFit
<1>7. ReadersFit'
  <2>1. Subscribed(Handled(note, notes), Handled(ask, asked))
          \in [phase : {"none", "reading", "gone"}, queue : Seq(Events), notes : Nat, asks : Nat]
    BY <1>3 DEF Subscribed
  <2>2. reader' \in [Readers -> [phase : {"none", "reading", "gone"}, queue : Seq(Events),
                                 notes : Nat, asks : Nat]]
    BY <1>1, <2>1 DEF TurnInv, ReadersFit
  <2>3. reader'[Handle].phase # "none"
    BY <1>1, <1>4, <1>5, TurnAssumption DEF TurnInv, ReadersFit
  <2>4. QED
    BY <1>1, <2>2, <2>3 DEF ReadersFit
<1>8. NotYet' /\ FailsForCause'
  BY <1>1 DEF NotYet, FailsForCause
<1>9. ASSUME NEW s \in Readers, reader'[s].phase = "reading" PROVE Served(s)'
  <2>1. CASE s = r
    <3>1. reader'[s] = Subscribed(Handled(note', notes'), Handled(ask', asked'))
      BY <1>1, <1>5, <2>1
    <3>2. HoldsLast(note', notes') /\ HoldsLast(ask', asked') /\ notes' \in Nat /\ asked' \in Nat
      BY <1>1, <1>2
    <3>3. sent' = sent /\ asks' = asks /\ pump' = "running"
      BY <1>1
    <3>4. QED
      BY <1>4, <2>1, <3>1, <3>2, <3>3, JoinedIsServed
  <2>2. CASE s # r
    <3>1. reader'[s] = reader[s] /\ reader[s].phase = "reading"
      BY <1>5, <1>9, <2>2
    <3>2. QED
      BY <1>1, <3>1, ServedAsBefore
  <2>3. QED
    BY <2>1, <2>2
<1>10. AllServed'
  BY <1>9 DEF AllServed
<1>11. QED
  BY <1>6, <1>7, <1>8, <1>10 DEF TurnInv

LEMMA UnsubscribeKeeps ==
    ASSUME TurnInv, NEW r \in Readers, Unsubscribe(r)
    PROVE  TurnInv'
<1>1. /\ UNCHANGED <<script, sent, asks, note, ask, notes, asked, output, pump>>
      /\ reader[r].phase = "reading"
      /\ reader' = [reader EXCEPT ![r] = [Subscribed(0, 0) EXCEPT !.phase = "gone"]]
  BY DEF Unsubscribe, server, stream
<1>2. /\ reader'[r] = [Subscribed(0, 0) EXCEPT !.phase = "gone"]
      /\ \A s \in Readers \ {r} : reader'[s] = reader[s]
  BY <1>1 DEF TurnInv, ReadersFit
<1>3. reader'[r].phase = "gone"
  BY <1>2 DEF Subscribed
<1>4. TrafficFits' /\ TasksFit'
  BY <1>1 DEF TurnInv, TrafficFits, TasksFit
<1>5. ReadersFit'
  <2>1. [Subscribed(0, 0) EXCEPT !.phase = "gone"]
          \in [phase : {"none", "reading", "gone"}, queue : Seq(Events), notes : Nat, asks : Nat]
    <3> DEFINE gone == [Subscribed(0, 0) EXCEPT !.phase = "gone"]
    <3>1. gone = [phase |-> "gone", queue |-> <<>>, notes |-> 0, asks |-> 0]
      BY DEF Subscribed
    <3>2. <<>> \in Seq(Events)
      OBVIOUS
    <3> HIDE DEF gone
    <3>3. gone \in [phase : {"none", "reading", "gone"}, queue : Seq(Events), notes : Nat, asks : Nat]
      BY <3>1, <3>2
    <3>4. QED
      BY <3>3 DEF gone
  <2>2. reader' \in [Readers -> [phase : {"none", "reading", "gone"}, queue : Seq(Events),
                                 notes : Nat, asks : Nat]]
    BY <1>1, <2>1 DEF TurnInv, ReadersFit
  <2>3. pump # "none" => reader'[Handle].phase # "none"
    BY <1>2, <1>3, TurnAssumption DEF TurnInv, ReadersFit
  <2>4. QED
    BY <1>1, <2>2, <2>3 DEF TurnInv, ReadersFit
<1>6. NotYet'
  BY <1>1 DEF TurnInv, NotYet
<1>7. FailsForCause'
  <2>1. NoteBreaks' = NoteBreaks /\ AskBreaks' = AskBreaks
    BY <1>1 DEF NoteBreaks, AskBreaks, NoteEvent, AskEvent
  <2>2. QED
    BY <1>1, <2>1 DEF TurnInv, FailsForCause
<1>8. ASSUME NEW s \in Readers, reader'[s].phase = "reading" PROVE Served(s)'
  <2>1. s # r
    BY <1>3, <1>8
  <2>2. reader'[s] = reader[s] /\ reader[s].phase = "reading"
    BY <1>2, <1>8, <2>1
  <2>3. QED
    BY <1>1, <2>2, ServedAsBefore
<1>9. AllServed'
  BY <1>8 DEF AllServed
<1>10. QED
  BY <1>4, <1>5, <1>6, <1>7, <1>9 DEF TurnInv

\* A read task that takes the next item passes over nothing of the turn, so that as
\* much is handled as before.
LEMMA ReadNoteKeeps ==
    ASSUME TurnInv, ReadNote
    PROVE  TurnInv'
<1> DEFINE them == {n \in DOMAIN sent : n > notes /\ Reached(sent[n])}
           least == CHOOSE n \in them : \A m \in them : n <= m
<1>1. /\ UNCHANGED <<script, sent, asks, ask, asked, output, pump, reader>>
      /\ pump = "running" /\ note = <<>>
      /\ IF them = {} THEN note' = <<0>> /\ notes' = notes
                      ELSE note' = <<least>> /\ notes' = least
  <2>1. NextOf(Filter(None, "thread", None), notes) = IF them = {} THEN <<>> ELSE <<least>>
    BY DEF NextOf, Reached
  <2> HIDE DEF them, least
  <2>2. <<least>> # <<>> /\ <<least>>[1] = least
    OBVIOUS
  <2>3. UNCHANGED <<script, sent, asks, ask, asked, output, pump, reader>> /\ pump = "running" /\ note = <<>>
    BY DEF ReadNote, server
  <2>4. QED
    BY <2>1, <2>2, <2>3 DEF ReadNote, Obtained
<1>2. notes \in Nat /\ notes <= Len(sent) /\ Len(sent) \in Nat /\ DOMAIN sent = 1..Len(sent)
  BY DEF TurnInv, TrafficFits, TasksFit, IsSequence
<1>3. ASSUME them # {} PROVE least \in them /\ \A m \in them : least <= m
  <2>1. them \in SUBSET Nat
    BY <1>2
  <2>2. \E n \in them : \A m \in them : n <= m
    <3> HIDE DEF them
    <3>1. QED
      BY <1>3, <2>1, LeastOf
  <2> HIDE DEF them
  <2>3. QED
    BY <2>2
<1> HIDE DEF least
<1>4. notes' \in Nat /\ notes' <= Len(sent) /\ HoldsLast(note', notes') /\ notes <= notes'
  BY <1>1, <1>2, <1>3 DEF HoldsLast
<1>5. Handled(note, notes) = notes
  BY <1>1 DEF Handled
<1>6. /\ Handled(note', notes') \in Nat /\ notes <= Handled(note', notes')
      /\ \A n \in notes + 1 .. Handled(note', notes') : ~ sent[n].mine
  <2>1. CASE them = {}
    <3>1. Handled(note', notes') = notes
      BY <1>1, <2>1 DEF Handled
    <3>2. QED
      BY <1>2, <3>1
  <2>2. CASE them # {}
    <3>1. note' = <<least>> /\ notes' = least /\ least \in 1..Len(sent) /\ least > notes
      BY <1>1, <1>2, <1>3, <2>2
    <3>2. Handled(note', notes') = least - 1
      BY <3>1 DEF Handled
    <3>3. ASSUME NEW n \in notes + 1 .. least - 1 PROVE ~ sent[n].mine
      <4>1. n \in DOMAIN sent /\ n > notes /\ ~ (least <= n)
        BY <1>2, <3>1
      <4>2. ~ Reached(sent[n])
        BY <1>3, <2>2, <4>1
      <4>3. sent[n].mine => Reached(sent[n])
        BY <1>2, <4>1 DEF TurnInv, TrafficFits, Fit
      <4>4. QED
        BY <4>2, <4>3
    <3>4. QED
      BY <1>2, <3>1, <3>2, <3>3
  <2>3. QED
    BY <2>1, <2>2
<1>7. ASSUME note' = <<notes'>>, notes' # 0 PROVE Reached(sent[notes'])
  BY <1>1, <1>3, <1>7
<1> HIDE DEF them
<1>8. TasksFit'
  BY <1>1, <1>4, <1>7 DEF TurnInv, TasksFit
<1>9. TrafficFits' /\ ReadersFit' /\ NotYet' /\ FailsForCause'
  BY <1>1 DEF TurnInv, TrafficFits, ReadersFit, NotYet, FailsForCause
<1>10. ASSUME NEW r \in Readers, reader[r].phase = "reading" PROVE Served(r)'
  <2>1. Served(r)
    BY <1>10 DEF TurnInv, AllServed
  <2> DEFINE from == reader[r].notes
  <2>2. from \in Nat /\ from <= notes
    BY <1>5, <2>1 DEF TurnInv, ReadersFit, Served
  <2>3. Of("note", sent, from, Handled(note', notes')) = Of("note", sent, from, notes)
    <3> HIDE DEF from
    <3>1. QED
      BY <1>2, <1>6, <2>2, OfOthers
  <2>4. from <= Handled(note', notes')
    BY <1>2, <1>6, <2>2
  <2>5. /\ reader[r]' = reader[r] /\ Handled(note, notes)' = Handled(note', notes')
        /\ Handled(ask, asked)' = Handled(ask, asked)
    BY <1>1 DEF Handled
  <2>6. Observed(reader[r].queue)' = Observed(reader[r].queue)
    BY <1>1 DEF Observed
  <2>7. QED
    BY <1>1, <1>5, <2>1, <2>3, <2>4, <2>5, <2>6 DEF Served
<1>11. AllServed'
  BY <1>1, <1>10 DEF AllServed
<1>12. QED
  BY <1>8, <1>9, <1>11 DEF TurnInv

LEMMA ReadAskKeeps ==
    ASSUME TurnInv, ReadAsk
    PROVE  TurnInv'
<1>1. /\ UNCHANGED <<script, sent, asks, note, notes, output, pump, reader>>
      /\ pump = "running" /\ ask = <<>>
      /\ \/ asked < Len(asks) /\ ask' = <<asked + 1>> /\ asked' = asked + 1
         \/ ask' = <<0>> /\ asked' = asked
  BY DEF ReadAsk, server
<1>2. asked \in Nat /\ asked <= Len(asks) /\ Len(asks) \in Nat
  BY DEF TurnInv, TrafficFits, TasksFit, IsSequence
<1>3. asked' \in Nat /\ asked' <= Len(asks) /\ HoldsLast(ask', asked')
  BY <1>1, <1>2 DEF HoldsLast
<1>4. Handled(ask', asked') = asked /\ Handled(ask, asked) = asked
  <2>1. CASE asked < Len(asks) /\ ask' = <<asked + 1>> /\ asked' = asked + 1
    <3>1. ask' \notin {<<>>, <<0>>}
      BY <1>2, <2>1
    <3>2. QED
      BY <1>1, <1>2, <2>1, <3>1 DEF Handled
  <2>2. CASE ask' = <<0>> /\ asked' = asked
    BY <1>1, <2>2 DEF Handled
  <2>3. QED
    BY <1>1, <2>1, <2>2
<1>5. TasksFit'
  BY <1>1, <1>3 DEF TurnInv, TasksFit
<1>6. TrafficFits' /\ ReadersFit' /\ NotYet' /\ FailsForCause'
  BY <1>1 DEF TurnInv, TrafficFits, ReadersFit, NotYet, FailsForCause
<1>7. ASSUME NEW r \in Readers, reader[r].phase = "reading" PROVE Served(r)'
  <2>1. Served(r)
    BY <1>7 DEF TurnInv, AllServed
  <2>2. /\ reader[r]' = reader[r] /\ Handled(note, notes)' = Handled(note, notes)
        /\ Handled(ask, asked)' = Handled(ask, asked)
    BY <1>1, <1>4 DEF Handled
  <2>3. Observed(reader[r].queue)' = Observed(reader[r].queue)
    BY <1>1 DEF Observed
  <2>4. QED
    BY <1>1, <2>1, <2>2, <2>3 DEF Served
<1>8. AllServed'
  BY <1>1, <1>7 DEF AllServed
<1>9. QED
  BY <1>5, <1>6, <1>8 DEF TurnInv

-----------------------------------------------------------------------------
(* What the pump makes of what its read tasks have *)

\* More is what was handled of some traffic between two moments.
Extends(tag, traffic, before, more, after) ==
    \A from \in Nat : from <= before =>
        Of(tag, traffic, from, before) \o more = Of(tag, traffic, from, after)

LEMMA NothingExtends ==
    ASSUME NEW tag, NEW traffic, NEW taken \in Nat
    PROVE  Extends(tag, traffic, taken, <<>>, taken)
<1>1. ASSUME NEW from \in Nat, from <= taken
      PROVE  Of(tag, traffic, from, taken) \o <<>> = Of(tag, traffic, from, taken)
  <2>1. PICK s, S : s = Of(tag, traffic, from, taken) /\ s \in Seq(S)
    BY OfType
  <2>2. s \o <<>> = s
    BY ONLY <2>1
  <2>3. QED
    BY <2>1, <2>2
<1>2. QED
  BY <1>1 DEF Extends

LEMMA NoteAdds ==
    ASSUME TurnInv, ~NoteBreaks
    PROVE  /\ AtMostOne("note", AdaptedNotes)
           /\ Handled(note, notes) \in Nat /\ Handled(note, notes) <= notes
           /\ Extends("note", sent, Handled(note, notes), AdaptedNotes, notes)
           /\ \/ AdaptedNotes = <<>> /\ NoteEvent.kind = "none"
              \/ /\ AdaptedNotes = << <<"note", notes>> >>
                 /\ NoteEvent = AdaptTurnNotification(sent[notes], "turn")
<1>1. notes \in Nat /\ notes <= Len(sent) /\ Len(sent) \in Nat /\ HoldsLast(note, notes)
  BY DEF TurnInv, TasksFit, TrafficFits, IsSequence
<1>2. note # <<0>> /\ NoteEvent # Refused
  BY DEF NoteBreaks
<1>3. \/ note = <<>> /\ NoteEvent = NoEvent
      \/ /\ note = <<notes>> /\ notes # 0 /\ NoteEvent.kind # "refused"
         /\ sent[notes].mine <=> NoteEvent.kind # "none"
         /\ NoteEvent = AdaptTurnNotification(sent[notes], "turn")
  <2>1. CASE note = <<>>
    BY <2>1 DEF NoteEvent
  <2>2. CASE note = <<notes>> /\ notes # 0
    <3>1. note \notin {<<>>, <<0>>} /\ note[1] = notes
      BY <2>2
    <3>2. NoteEvent = AdaptTurnNotification(sent[notes], "turn")
      BY <3>1 DEF NoteEvent
    <3>3. Fit(sent[notes]) /\ Reached(sent[notes])
      BY <1>1, <2>2 DEF TurnInv, TrafficFits, TasksFit
    <3>4. NoteEvent.kind # "refused" /\ (sent[notes].mine <=> NoteEvent.kind # "none")
      BY <1>2, <3>2, <3>3 DEF Fit
    <3>5. QED
      BY <2>2, <3>2, <3>4
  <2>3. QED
    BY <1>1, <1>2, <2>1, <2>2 DEF HoldsLast
<1> DEFINE event == NoteEvent
<1>4. \/ note = <<>> /\ event = NoEvent
      \/ /\ note = <<notes>> /\ notes # 0 /\ event.kind # "refused"
         /\ sent[notes].mine <=> event.kind # "none"
  BY <1>3
<1>5. Handled(note, notes) \in Nat /\ Handled(note, notes) <= notes
  BY <1>1, HandledFits
<1>6. AdaptedNotes = Published(event, "note", note)
  BY DEF AdaptedNotes
<1> HIDE DEF event
<1>7. ASSUME NEW from \in Nat, from <= Handled(note, notes)
      PROVE  /\ Of("note", sent, from, Handled(note, notes)) \o AdaptedNotes = Of("note", sent, from, notes)
             /\ AtMostOne("note", AdaptedNotes)
             /\ AdaptedNotes = IF event.kind = "none" THEN <<>> ELSE << <<"note", notes>> >>
  <2>1. PICK traffic, taken, held, ev :
            traffic = sent /\ taken = notes /\ held = note /\ ev = event
    OBVIOUS
  <2>2. taken \in Nat /\ from <= Handled(held, taken) /\ "note" \in {"note", "ask"}
    BY <1>1, <1>7, <2>1
  <2>3. Brings(held, taken, ev, traffic)
    BY <1>4, <2>1 DEF Brings
  <2>4. /\ Of("note", traffic, from, Handled(held, taken)) \o Published(ev, "note", held)
              = Of("note", traffic, from, taken)
        /\ AtMostOne("note", Published(ev, "note", held))
        /\ Published(ev, "note", held) = IF ev.kind = "none" THEN <<>> ELSE << <<"note", taken>> >>
    <3>1. Adds("note", traffic, from, held, taken, ev)
      BY <2>2, <2>3, PublishedIsNext
    <3>2. QED
      BY <3>1 DEF Adds
  <2>5. QED
    BY <1>6, <2>1, <2>4
<1>8. 0 \in Nat /\ 0 <= Handled(note, notes)
  BY <1>5
<1>9. \/ AdaptedNotes = <<>> /\ NoteEvent.kind = "none"
      \/ /\ AdaptedNotes = << <<"note", notes>> >>
         /\ NoteEvent = AdaptTurnNotification(sent[notes], "turn")
  <2>1. AdaptedNotes = IF event.kind = "none" THEN <<>> ELSE << <<"note", notes>> >>
    BY <1>7, <1>8
  <2>2. event = NoEvent => event.kind = "none"
    BY DEF NoEvent
  <2>3. QED
    BY <1>3, <2>1, <2>2 DEF event
<1>10. Extends("note", sent, Handled(note, notes), AdaptedNotes, notes)
  BY <1>7 DEF Extends
<1>11. AtMostOne("note", AdaptedNotes)
  BY <1>7, <1>8
<1>12. QED
  BY <1>5, <1>9, <1>10, <1>11

LEMMA AskAdds ==
    ASSUME TurnInv, ~AskBreaks
    PROVE  /\ AtMostOne("ask", AdaptedAsks)
           /\ Handled(ask, asked) \in Nat /\ Handled(ask, asked) <= asked
           /\ Extends("ask", asks, Handled(ask, asked), AdaptedAsks, asked)
<1>1. asked \in Nat /\ asked <= Len(asks) /\ Len(asks) \in Nat /\ HoldsLast(ask, asked)
  BY DEF TurnInv, TasksFit, TrafficFits, IsSequence
<1>2. ask # <<0>> /\ AskEvent # Refused
  BY DEF AskBreaks
<1> DEFINE event == AskEvent
<1>3. \/ ask = <<>> /\ event = NoEvent
      \/ /\ ask = <<asked>> /\ asked # 0 /\ event.kind # "refused"
         /\ asks[asked].mine <=> event.kind # "none"
  <2>1. CASE ask = <<>>
    BY <2>1 DEF AskEvent
  <2>2. CASE ask = <<asked>> /\ asked # 0
    <3>1. ask \notin {<<>>, <<0>>} /\ ask[1] = asked
      BY <2>2
    <3>2. AskEvent = AdaptTurnServerRequest(asks[asked], "turn")
      BY <3>1 DEF AskEvent
    <3>3. FitAsk(asks[asked])
      BY <1>1, <2>2 DEF TurnInv, TrafficFits
    <3>4. AskEvent.kind # "refused" /\ (asks[asked].mine <=> AskEvent.kind # "none")
      BY <1>2, <3>2, <3>3 DEF FitAsk
    <3>5. QED
      BY <2>2, <3>2, <3>4
  <2>3. QED
    BY <1>1, <1>2, <2>1, <2>2 DEF HoldsLast
<1>4. Handled(ask, asked) \in Nat /\ Handled(ask, asked) <= asked
  BY <1>1, HandledFits
<1>5. AdaptedAsks = Published(event, "ask", ask)
  BY DEF AdaptedAsks
<1> HIDE DEF event
<1>6. ASSUME NEW from \in Nat, from <= Handled(ask, asked)
      PROVE  /\ Of("ask", asks, from, Handled(ask, asked)) \o AdaptedAsks = Of("ask", asks, from, asked)
             /\ AtMostOne("ask", AdaptedAsks)
  <2>1. PICK traffic, taken, held, ev :
            traffic = asks /\ taken = asked /\ held = ask /\ ev = event
    OBVIOUS
  <2>2. taken \in Nat /\ from <= Handled(held, taken) /\ "ask" \in {"note", "ask"}
    BY <1>1, <1>6, <2>1
  <2>3. Brings(held, taken, ev, traffic)
    BY <1>3, <2>1 DEF Brings
  <2>4. /\ Of("ask", traffic, from, Handled(held, taken)) \o Published(ev, "ask", held)
              = Of("ask", traffic, from, taken)
        /\ AtMostOne("ask", Published(ev, "ask", held))
    <3>1. Adds("ask", traffic, from, held, taken, ev)
      BY <2>2, <2>3, PublishedIsNext
    <3>2. QED
      BY <3>1 DEF Adds
  <2>5. QED
    BY <1>5, <2>1, <2>4
<1>7. 0 \in Nat /\ 0 <= Handled(ask, asked)
  BY <1>4
<1>8. Extends("ask", asks, Handled(ask, asked), AdaptedAsks, asked)
  BY <1>6 DEF Extends
<1>9. AtMostOne("ask", AdaptedAsks)
  BY <1>6, <1>7
<1>10. QED
  BY <1>4, <1>8, <1>9

\* The output before and after a notification is published, or none.
Follows(more, before, after, n, message) ==
    \/ more = <<>> /\ after = before
    \/ /\ more = << <<"note", n>> >>
       /\ after = ObserveTurnEvent(before, AdaptTurnNotification(message, "turn"))

\* The end that goes with a state of the stream.
EndOf(state) ==
    IF state \in {"result", "cancelled"} THEN <<End>> ELSE IF state = "failed" THEN <<Failure>> ELSE <<>>

\* Put, as what it makes of one state of the readers in another.
Publishes(before, after, items) ==
    after = [r \in Readers |-> IF before[r].phase = "reading"
                               THEN [before[r] EXCEPT !.queue = @ \o items] ELSE before[r]]

\* What is put in the queues of the readers leaves all of them served.
LEMMA PumpGives ==
    ASSUME TurnInv, pump = "running", pump' \in {"running", "result", "failed", "cancelled"},
           UNCHANGED <<sent, asks>>,
           NEW a, NEW b, NEW c, AtMostOne("ask", a), AtMostOne("note", b), c = EndOf(pump'),
           Publishes(reader, reader', (a \o b) \o c),
           Handled(note', notes') \in Nat, Handled(note, notes) <= Handled(note', notes'),
           Handled(ask', asked') \in Nat, Handled(ask, asked) <= Handled(ask', asked'),
           Extends("note", sent, Handled(note, notes), b, Handled(note', notes')),
           Extends("ask", asks, Handled(ask, asked), a, Handled(ask', asked')),
           Follows(b, output, output', notes, sent[notes])
    PROVE  ReadersFit' /\ AllServed'
<1>0. /\ IsMark(c)
      /\ c = IF pump' \in {"result", "cancelled"} THEN <<End>> ELSE IF pump' = "failed" THEN <<Failure>> ELSE <<>>
  BY DEF IsMark, EndOf
<1> DEFINE given(r) == reader[r].queue \o ((a \o b) \o c)
<1>1. \A r \in Readers : reader[r] \in [phase : {"none", "reading", "gone"}, queue : Seq(Events),
                                        notes : Nat, asks : Nat]
  BY DEF TurnInv, ReadersFit
<1>2. ASSUME NEW r \in Readers
      PROVE  /\ given(r) \in Seq(Events)
             /\ Tagged("ask", given(r)) = Tagged("ask", reader[r].queue) \o a
             /\ Tagged("note", given(r)) = Tagged("note", reader[r].queue) \o b
             /\ Tagged("end", given(r))
                  = Tagged("end", reader[r].queue) \o (IF c = <<End>> THEN c ELSE <<>>)
             /\ Tagged("failure", given(r))
                  = Tagged("failure", reader[r].queue) \o (IF c = <<Failure>> THEN c ELSE <<>>)
             /\ c # <<>> => Last(given(r)) = c[1]
  <2>1. PICK q : q = reader[r].queue
    OBVIOUS
  <2>2. q \in Seq(Events)
    BY <1>1, <2>1
  <2>3. PICK more : more = q \o ((a \o b) \o c)
    OBVIOUS
  <2>4. AtMostOne("ask", a) /\ AtMostOne("note", b) /\ IsMark(c)
    BY <1>0
  <2>5. Given(q, a, b, c, more)
    BY ONLY <2>2, <2>3, <2>4, EventsGiven
  <2>6. QED
    BY <2>1, <2>3, <2>5 DEF Given
<1>3. \A r \in Readers : reader'[r] = IF reader[r].phase = "reading"
                                     THEN [reader[r] EXCEPT !.queue = given(r)] ELSE reader[r]
  BY DEF Publishes
<1>4. DOMAIN reader' = Readers /\ reader' = [r \in Readers |-> reader'[r]]
  BY DEF Publishes
<1> HIDE DEF given
<1>5. \A r \in Readers : /\ reader'[r].phase = reader[r].phase
                         /\ reader'[r].notes = reader[r].notes
                         /\ reader'[r].asks = reader[r].asks
                         /\ reader'[r].queue = IF reader[r].phase = "reading"
                                               THEN given(r) ELSE reader[r].queue
                         /\ reader'[r] \in [phase : {"none", "reading", "gone"}, queue : Seq(Events),
                                            notes : Nat, asks : Nat]
  <2>1. ASSUME NEW r \in Readers
        PROVE  /\ reader'[r].phase = reader[r].phase
               /\ reader'[r].notes = reader[r].notes
               /\ reader'[r].asks = reader[r].asks
               /\ reader'[r].queue = IF reader[r].phase = "reading" THEN given(r) ELSE reader[r].queue
               /\ reader'[r] \in [phase : {"none", "reading", "gone"}, queue : Seq(Events),
                                  notes : Nat, asks : Nat]
    <3>1. CASE reader[r].phase = "reading"
      <4>1. reader'[r] = [reader[r] EXCEPT !.queue = given(r)] /\ given(r) \in Seq(Events)
        BY <1>2, <1>3, <3>1
      <4>2. QED
        BY <1>1, <3>1, <4>1
    <3>2. CASE reader[r].phase # "reading"
      BY <1>1, <1>3, <3>2
    <3>3. QED
      BY <3>1, <3>2
  <2>2. QED
    BY <2>1
<1>6. ReadersFit'
  <2>1. reader' \in [Readers -> [phase : {"none", "reading", "gone"}, queue : Seq(Events),
                                 notes : Nat, asks : Nat]]
    BY <1>4, <1>5
  <2>2. reader'[Handle].phase # "none"
    <3>1. Handle \in Readers
      BY HandleReads
    <3>2. pump # "none" => reader[Handle].phase # "none"
      BY DEF TurnInv, ReadersFit
    <3>3. pump # "none"
      OBVIOUS
    <3>4. QED
      BY <1>5, <3>1, <3>2, <3>3
  <2>3. QED
    BY <2>1, <2>2 DEF ReadersFit
<1>7. ASSUME NEW r \in Readers, reader'[r].phase = "reading" PROVE Served(r)'
  <2> DEFINE q == reader[r].queue
             more == given(r)
             from == reader[r].notes
             askFrom == reader[r].asks
  <2>0. Handled(note, notes) \in Nat /\ Handled(ask, asked) \in Nat
    BY HandledFits DEF TurnInv, TasksFit
  <2>1. reader[r].phase = "reading" /\ reader'[r].queue = more
        /\ reader'[r].notes = from /\ reader'[r].asks = askFrom
    BY <1>5, <1>7
  <2>2. Served(r)
    BY <2>1 DEF TurnInv, AllServed
  <2>3. from \in Nat /\ askFrom \in Nat /\ q \in Seq(Events)
    BY <1>1
  <2>4. from <= Handled(note, notes) /\ askFrom <= Handled(ask, asked)
    BY <2>2 DEF Served
  <2>5. Tagged("note", q) = Of("note", sent, from, Handled(note, notes))
        /\ Tagged("ask", q) = Of("ask", asks, askFrom, Handled(ask, asked))
    BY <2>2 DEF Served
  <2>6. Tagged("note", more) = Of("note", sent, from, Handled(note', notes'))
    <3>1. Of("note", sent, from, Handled(note, notes)) \o b = Of("note", sent, from, Handled(note', notes'))
      BY <2>3, <2>4 DEF Extends
    <3>2. Tagged("note", more) = Tagged("note", q) \o b
      BY <1>2
    <3>3. QED
      BY <2>5, <3>1, <3>2
  <2>7. Tagged("ask", more) = Of("ask", asks, askFrom, Handled(ask', asked'))
    <3>1. Of("ask", asks, askFrom, Handled(ask, asked)) \o a = Of("ask", asks, askFrom, Handled(ask', asked'))
      BY <2>3, <2>4 DEF Extends
    <3>2. Tagged("ask", more) = Tagged("ask", q) \o a
      BY <1>2
    <3>3. QED
      BY <2>5, <3>1, <3>2
  <2>8. Tagged("end", q) = <<>> /\ Tagged("failure", q) = <<>>
    BY <2>2 DEF Served
  <2>9. <<End>> # <<>> /\ <<Failure>> # <<>> /\ <<End>> # <<Failure>> /\ End \in Events /\ Failure \in Events
        /\ <<>> \o <<End>> = <<End>> /\ <<>> \o <<Failure>> = <<Failure>> /\ <<>> \o <<>> = <<>>
        /\ <<End>>[1] = End /\ <<Failure>>[1] = Failure
    BY DEF End, Failure, Events
  <2>10. /\ Tagged("end", more) = IF pump' \in {"result", "cancelled"} THEN <<End>> ELSE <<>>
         /\ Tagged("failure", more) = IF pump' = "failed" THEN <<Failure>> ELSE <<>>
         /\ pump' \in {"result", "cancelled"} => Last(more) = End
         /\ pump' = "failed" => Last(more) = Failure
    <3>1. /\ Tagged("end", more) = <<>> \o (IF c = <<End>> THEN c ELSE <<>>)
          /\ Tagged("failure", more) = <<>> \o (IF c = <<Failure>> THEN c ELSE <<>>)
          /\ c # <<>> => Last(more) = c[1]
      BY <1>2, <2>8
    <3> HIDE DEF more
    <3>2. CASE pump' \in {"result", "cancelled"}
      <4>1. c = <<End>>
        BY <1>0, <3>2
      <4>2. QED
        BY <2>9, <3>1, <3>2, <4>1
    <3>3. CASE pump' = "failed"
      <4>1. c = <<Failure>>
        BY <1>0, <3>3
      <4>2. QED
        BY <2>9, <3>1, <3>3, <4>1
    <3>4. CASE pump' = "running"
      <4>1. c = <<>>
        BY <1>0, <3>4
      <4>2. QED
        BY <2>9, <3>1, <3>4, <4>1
    <3>5. QED
      BY <3>2, <3>3, <3>4
  <2>11. ASSUME r = Handle PROVE Aggregated(Observed(reader[r].queue))' = output'
    <3>1. Aggregated(Observed(q)) = output
      BY <2>2, <2>11 DEF Served
    <3>2. Tagged("note", q) \in Seq(Events)
      BY <2>3, TaggedType
    <3>3. Tagged("note", more) = Tagged("note", q) \o b
      BY <1>2
    <3>4. PICK x : x = more
      OBVIOUS
    <3>5. PICK y : y = q
      OBVIOUS
    <3>6. notes \in Nat
      BY DEF TurnInv, TasksFit
    <3>7. Aggregated(Observed(x)) = output'
      <4>1. CASE b = <<>> /\ output' = output
        <5>1. Tagged("note", x) = Tagged("note", y)
          BY <3>2, <3>3, <3>4, <3>5, <4>1
        <5>2. Observed(x) = Observed(y)
          BY <3>2, <3>5, <3>6, <5>1, ObservedGrows
        <5>3. QED
          BY <3>1, <3>5, <4>1, <5>2
      <4>2. CASE /\ b = << <<"note", notes>> >>
                 /\ output' = ObserveTurnEvent(output, AdaptTurnNotification(sent[notes], "turn"))
        <5>1. PICK n \in Nat : n = notes
          BY <3>6
        <5>2. Tagged("note", x) = Tagged("note", y) \o << <<"note", n>> >> /\ Tagged("note", y) \in Seq(Events)
          BY <3>2, <3>3, <3>4, <3>5, <4>2, <5>1
        <5>3. Aggregated(Observed(x))
                = ObserveTurnEvent(Aggregated(Observed(y)), AdaptTurnNotification(sent[n], "turn"))
          BY <5>2, ObservedGrows
        <5>4. QED
          BY <3>1, <3>5, <4>2, <5>1, <5>3
      <4>3. QED
        BY <4>1, <4>2 DEF Follows
    <3>8. Observed(x)' = Observed(x)
      BY DEF Observed
    <3>9. Observed(reader[r].queue)' = Observed(x)'
      <4>1. reader'[r].queue = x
        BY <2>1, <3>4
      <4>2. Observed(reader[r].queue)' = [n \in DOMAIN Tagged("note", reader'[r].queue) |->
                AdaptTurnNotification(sent'[Tagged("note", reader'[r].queue)[n][2]], "turn")]
        BY DEF Observed
      <4>3. Observed(x)' = [n \in DOMAIN Tagged("note", x) |->
                               AdaptTurnNotification(sent'[Tagged("note", x)[n][2]], "turn")]
        BY DEF Observed
      <4>4. QED
        BY ONLY <4>1, <4>2, <4>3
    <3>10. QED
      BY <3>7, <3>8, <3>9
  <2>12. Handled(note, notes)' = Handled(note', notes') /\ Handled(ask, asked)' = Handled(ask', asked')
    BY DEF Handled
  <2>13. /\ reader[r].notes' <= Handled(note, notes)'
         /\ reader[r].asks' <= Handled(ask, asked)'
    <3>1. from <= Handled(note, notes)' /\ askFrom <= Handled(ask, asked)'
      <4> HIDE DEF from, askFrom
      <4>1. PICK h0, h1, k0, k1 : /\ h0 = Handled(note, notes) /\ h1 = Handled(note', notes')
                                  /\ k0 = Handled(ask, asked) /\ k1 = Handled(ask', asked')
        OBVIOUS
      <4>2. h0 \in Nat /\ h1 \in Nat /\ k0 \in Nat /\ k1 \in Nat /\ h0 <= h1 /\ k0 <= k1
        BY <2>0, <4>1
      <4>3. from <= h0 /\ askFrom <= k0
        BY <2>4, <4>1
      <4>4. from <= h1 /\ askFrom <= k1
        BY <2>3, <4>2, <4>3
      <4>5. QED
        BY <2>12, <4>1, <4>4
    <3>2. reader[r].notes' = from /\ reader[r].asks' = askFrom
      BY <2>1
    <3>3. QED
      BY <3>1, <3>2
  <2>14. /\ Tagged("note", reader[r].queue)' = Of("note", sent, reader[r].notes, Handled(note, notes))'
         /\ Tagged("ask", reader[r].queue)' = Of("ask", asks, reader[r].asks, Handled(ask, asked))'
    BY <2>1, <2>6, <2>7, <2>12
  <2>15. /\ Tagged("end", reader[r].queue)' = IF pump' \in {"result", "cancelled"} THEN <<End>> ELSE <<>>
         /\ Tagged("failure", reader[r].queue)' = IF pump' = "failed" THEN <<Failure>> ELSE <<>>
         /\ pump' \in {"result", "cancelled"} => Last(reader[r].queue)' = End
         /\ pump' = "failed" => Last(reader[r].queue)' = Failure
    BY <2>1, <2>10
  <2>16. QED
    BY <2>11, <2>13, <2>14, <2>15 DEF Served
<1>8. AllServed'
  BY <1>7 DEF AllServed
<1>9. QED
  BY <1>6, <1>8

\* The read tasks start anew, or keep what they have.
LEMMA PumpKeeps ==
    ASSUME TurnInv, pump = "running", pump' # "none", note' \in {note, <<>>}, ask' \in {ask, <<>>},
           UNCHANGED <<script, sent, asks, notes, asked>>
    PROVE  TrafficFits' /\ TasksFit' /\ NotYet'
<1>1. TrafficFits'
  BY DEF TurnInv, TrafficFits
<1>2. HoldsLast(note, notes)' /\ HoldsLast(ask, asked)'
  BY DEF TurnInv, TasksFit, HoldsLast
<1>3. (note = <<notes>> /\ notes # 0 => Reached(sent[notes]))'
  <2>1. <<>> # <<notes>>
    OBVIOUS
  <2>2. QED
    BY <2>1 DEF TurnInv, TasksFit
<1>4. TasksFit'
  BY <1>2, <1>3 DEF TurnInv, TasksFit
<1>5. NotYet'
  BY DEF NotYet
<1>6. QED
  BY <1>1, <1>4, <1>5

LEMMA EventIsSequence ==
    ASSUME NEW kind, NEW x, AtMostOne(kind, x)
    PROVE  x \in Seq(Events)
<1>1. <<>> \in Seq(Events) /\ \A e \in Events : <<e>> \in Seq(Events)
  OBVIOUS
<1>2. QED
  BY <1>1 DEF AtMostOne

LEMMA StreamYieldsKeeps ==
    ASSUME TurnInv, StreamYields
    PROVE  TurnInv'
<1>1. /\ pump = "running" /\ pump' = "running" /\ note' = <<>> /\ ask' = <<>>
      /\ ~NoteBreaks /\ ~AskBreaks
      /\ output' = ObserveTurnEvent(output, NoteEvent)
      /\ reader' = Put(AdaptedAsks \o AdaptedNotes)
      /\ UNCHANGED <<script, sent, asks, notes, asked>>
  BY DEF StreamYields, server
<1>2. notes \in Nat /\ asked \in Nat
  BY DEF TurnInv, TasksFit
<1>3. Handled(note', notes') = notes /\ Handled(ask', asked') = asked
  BY <1>1 DEF Handled
<1>4. PICK a, b, c : a = AdaptedAsks /\ b = AdaptedNotes /\ c = <<>>
  OBVIOUS
<1>5. AtMostOne("ask", a) /\ AtMostOne("note", b)
  BY <1>1, <1>4, NoteAdds, AskAdds
<1>6. (a \o b) \o c = a \o b
  <2>1. a \in Seq(Events) /\ b \in Seq(Events)
    BY <1>5, EventIsSequence
  <2>2. QED
    BY ONLY <1>4, <2>1
<1>7. c = EndOf(pump')
  BY <1>1, <1>4 DEF EndOf
<1>8. Publishes(reader, reader', (a \o b) \o c)
  BY <1>1, <1>4, <1>6 DEF Put, Publishes
<1>9. /\ Handled(note', notes') \in Nat /\ Handled(note, notes) <= Handled(note', notes')
      /\ Handled(ask', asked') \in Nat /\ Handled(ask, asked) <= Handled(ask', asked')
  BY <1>1, <1>2, <1>3, NoteAdds, AskAdds
<1>10. /\ Extends("note", sent, Handled(note, notes), b, Handled(note', notes'))
       /\ Extends("ask", asks, Handled(ask, asked), a, Handled(ask', asked'))
  BY <1>1, <1>3, <1>4, NoteAdds, AskAdds
<1>11. Follows(b, output, output', notes, sent[notes])
  <2>1. CASE AdaptedNotes = <<>> /\ NoteEvent.kind = "none"
    <3>1. ObserveTurnEvent(output, NoteEvent) = output
      BY <2>1, ObservesNothing
    <3>2. QED
      BY <1>1, <1>4, <2>1, <3>1 DEF Follows
  <2>2. CASE /\ AdaptedNotes = << <<"note", notes>> >>
             /\ NoteEvent = AdaptTurnNotification(sent[notes], "turn")
    BY <1>1, <1>4, <2>2 DEF Follows
  <2>3. QED
    BY <1>1, <2>1, <2>2, NoteAdds
<1>12. ReadersFit' /\ AllServed'
  <2>1. pump' \in {"running", "result", "failed", "cancelled"} /\ sent' = sent /\ asks' = asks
    BY <1>1
  <2>2. QED
    BY <1>1, <1>5, <1>7, <1>8, <1>9, <1>10, <1>11, <2>1, PumpGives
<1>13. TrafficFits' /\ TasksFit' /\ NotYet'
  BY <1>1, PumpKeeps
<1>14. FailsForCause'
  BY <1>1 DEF FailsForCause
<1>15. QED
  BY <1>12, <1>13, <1>14 DEF TurnInv

LEMMA StreamCompletesKeeps ==
    ASSUME TurnInv, StreamCompletes
    PROVE  TurnInv'
<1>1. /\ pump = "running" /\ pump' = "result" /\ note' = <<>> /\ ask' = <<>>
      /\ NoteEvent.kind = "completed" /\ ~AskBreaks
      /\ output' = output
      /\ reader' = Put(Append(AdaptedAsks \o AdaptedNotes, End))
      /\ UNCHANGED <<script, sent, asks, notes, asked>>
  BY DEF StreamCompletes, CloseStream, server
<1>2. notes \in Nat /\ asked \in Nat
  BY DEF TurnInv, TasksFit
<1>3. Handled(note', notes') = notes /\ Handled(ask', asked') = asked
  BY <1>1 DEF Handled
<1>4. PICK a, b, c : a = AdaptedAsks /\ b = AdaptedNotes /\ c = <<End>>
  OBVIOUS
<1>5. ~NoteBreaks
  BY <1>1 DEF NoteBreaks, NoteEvent, NoEvent, Refused
<1>6. AtMostOne("ask", a) /\ AtMostOne("note", b)
  BY <1>1, <1>4, <1>5, NoteAdds, AskAdds
<1>7. (a \o b) \o c = Append(a \o b, End)
  <2>1. a \in Seq(Events) /\ b \in Seq(Events)
    BY <1>6, EventIsSequence
  <2>2. End \in Events
    BY DEF End, Events
  <2>3. a \o b \in Seq(Events)
    BY <2>1, ConcatProperties
  <2>4. QED
    BY <1>4, <2>2, <2>3, AppendIsConcat
<1>8. c = EndOf(pump')
  BY <1>1, <1>4 DEF EndOf
<1>9. Publishes(reader, reader', (a \o b) \o c)
  BY <1>1, <1>4, <1>7 DEF Put, Publishes
<1>10. /\ Handled(note', notes') \in Nat /\ Handled(note, notes) <= Handled(note', notes')
       /\ Handled(ask', asked') \in Nat /\ Handled(ask, asked) <= Handled(ask', asked')
  BY <1>1, <1>2, <1>3, <1>5, NoteAdds, AskAdds
<1>11. /\ Extends("note", sent, Handled(note, notes), b, Handled(note', notes'))
       /\ Extends("ask", asks, Handled(ask, asked), a, Handled(ask', asked'))
  BY <1>1, <1>3, <1>4, <1>5, NoteAdds, AskAdds
<1>12. Follows(b, output, output', notes, sent[notes])
  <2>1. /\ AdaptedNotes = << <<"note", notes>> >>
        /\ NoteEvent = AdaptTurnNotification(sent[notes], "turn")
    BY <1>1, <1>5, NoteAdds
  <2>2. ObserveTurnEvent(output, NoteEvent) = output
    BY <1>1, ObservesNothing
  <2>3. QED
    BY <1>1, <1>4, <2>1, <2>2 DEF Follows
<1>13. ReadersFit' /\ AllServed'
  <2>1. pump' \in {"running", "result", "failed", "cancelled"} /\ sent' = sent /\ asks' = asks
    BY <1>1
  <2>2. QED
    BY <1>1, <1>6, <1>8, <1>9, <1>10, <1>11, <1>12, <2>1, PumpGives
<1>14. TrafficFits' /\ TasksFit' /\ NotYet'
  BY <1>1, PumpKeeps
<1>15. FailsForCause'
  BY <1>1 DEF FailsForCause
<1>16. QED
  BY <1>13, <1>14, <1>15 DEF TurnInv

LEMMA StreamBreaksKeeps ==
    ASSUME TurnInv, StreamBreaks
    PROVE  TurnInv'
<1>1. /\ pump = "running" /\ pump' = "failed" /\ note' = note /\ output' = output
      /\ UNCHANGED <<script, sent, asks, notes, asked>>
  BY DEF StreamBreaks, server
<1>2. /\ notes \in Nat /\ asked \in Nat
      /\ Handled(note, notes) \in Nat /\ Handled(ask, asked) \in Nat /\ Handled(ask, asked) <= asked
  BY HandledFits DEF TurnInv, TasksFit
<1>3. Handled(note', notes') = Handled(note, notes)
  BY <1>1
<1>4. PICK b, c : b = <<>> /\ c = <<Failure>>
  OBVIOUS
<1>5. AtMostOne("note", b) /\ c = EndOf(pump') /\ Failure \in Events
  BY <1>1, <1>4 DEF AtMostOne, EndOf, Failure, Events
<1>6. Extends("note", sent, Handled(note, notes), b, Handled(note', notes'))
  BY <1>2, <1>3, <1>4, NothingExtends
<1>7. Follows(b, output, output', notes, sent[notes])
  BY <1>1, <1>4 DEF Follows
<1>8. /\ Handled(note', notes') \in Nat /\ Handled(note, notes) <= Handled(note', notes')
  BY <1>2, <1>3
<1>9. pump' \in {"running", "result", "failed", "cancelled"} /\ sent' = sent /\ asks' = asks
  BY <1>1
<1>10. ASSUME NEW a, AtMostOne("ask", a), reader' = Put(Append(a, Failure)),
              Handled(ask', asked') \in Nat, Handled(ask, asked) <= Handled(ask', asked'),
              Extends("ask", asks, Handled(ask, asked), a, Handled(ask', asked'))
       PROVE  ReadersFit' /\ AllServed'
  <2>1. (a \o b) \o c = Append(a, Failure)
    <3>1. a \in Seq(Events)
      BY <1>10, EventIsSequence
    <3>2. a \o b = a
      BY ONLY <1>4, <3>1
    <3>3. QED
      BY <1>4, <1>5, <3>1, <3>2, AppendIsConcat
  <2>2. Publishes(reader, reader', (a \o b) \o c)
    BY <1>10, <2>1 DEF Put, Publishes
  <2>3. QED
    BY <1>1, <1>5, <1>6, <1>7, <1>8, <1>9, <1>10, <2>2, PumpGives
<1>11. ReadersFit' /\ AllServed' /\ FailsForCause' /\ ask' \in {ask, <<>>}
  <2>1. CASE AskBreaks /\ reader' = Fail(<<>>) /\ UNCHANGED ask
    <3>1. PICK a : a = <<>>
      OBVIOUS
    <3>2. AtMostOne("ask", a) /\ reader' = Put(Append(a, Failure))
      BY <2>1, <3>1 DEF AtMostOne, Fail
    <3>3. Handled(ask', asked') = Handled(ask, asked)
      BY <1>1, <2>1
    <3>4. Handled(ask', asked') \in Nat /\ Handled(ask, asked) <= Handled(ask', asked')
      BY <1>2, <3>3
    <3>5. Extends("ask", asks, Handled(ask, asked), a, Handled(ask', asked'))
      BY <1>2, <3>1, <3>3, NothingExtends
    <3>6. AskBreaks'
      BY <1>1, <2>1 DEF AskBreaks, AskEvent
    <3>7. ReadersFit' /\ AllServed'
      BY <1>10, <3>2, <3>4, <3>5
    <3>8. QED
      BY <2>1, <3>6, <3>7 DEF FailsForCause
  <2>2. CASE NoteBreaks /\ ~AskBreaks /\ reader' = Fail(AdaptedAsks) /\ ask' = <<>>
    <3>1. PICK a : a = AdaptedAsks
      OBVIOUS
    <3>2. AtMostOne("ask", a) /\ reader' = Put(Append(a, Failure))
      BY <2>2, <3>1, AskAdds DEF Fail
    <3>3. Handled(ask', asked') = asked
      BY <1>1, <2>2 DEF Handled
    <3>4. Handled(ask', asked') \in Nat /\ Handled(ask, asked) <= Handled(ask', asked')
      BY <1>2, <3>3
    <3>5. Extends("ask", asks, Handled(ask, asked), a, Handled(ask', asked'))
      BY <2>2, <3>1, <3>3, AskAdds
    <3>6. NoteBreaks'
      BY <1>1, <2>2 DEF NoteBreaks, NoteEvent
    <3>7. ReadersFit' /\ AllServed'
      BY <1>10, <3>2, <3>4, <3>5
    <3>8. QED
      BY <2>2, <3>6, <3>7 DEF FailsForCause
  <2>3. QED
    BY <2>1, <2>2 DEF StreamBreaks
<1>12. TrafficFits' /\ TasksFit' /\ NotYet'
  BY <1>1, <1>11, PumpKeeps
<1>13. QED
  BY <1>11, <1>12 DEF TurnInv

LEMMA CancelPumpKeeps ==
    ASSUME TurnInv, CancelPump
    PROVE  TurnInv'
<1>1. /\ pump = "running" /\ pump' = "cancelled" /\ output' = output
      /\ reader' = Put(Append(<<>>, End))
      /\ UNCHANGED <<script, sent, asks, note, ask, notes, asked>>
  BY DEF CancelPump, CloseStream, server
<1>2. /\ notes \in Nat /\ asked \in Nat
      /\ Handled(note, notes) \in Nat /\ Handled(ask, asked) \in Nat
  BY HandledFits DEF TurnInv, TasksFit
<1>3. Handled(note', notes') = Handled(note, notes) /\ Handled(ask', asked') = Handled(ask, asked)
  BY <1>1
<1>4. PICK a, b, c : a = <<>> /\ b = <<>> /\ c = <<End>>
  OBVIOUS
<1>5. AtMostOne("ask", a) /\ AtMostOne("note", b) /\ c = EndOf(pump')
  BY <1>1, <1>4 DEF AtMostOne, EndOf
<1>6. Publishes(reader, reader', (a \o b) \o c)
  BY <1>1, <1>4 DEF Put, Publishes
<1>7. /\ Extends("note", sent, Handled(note, notes), b, Handled(note', notes'))
      /\ Extends("ask", asks, Handled(ask, asked), a, Handled(ask', asked'))
  BY <1>2, <1>3, <1>4, NothingExtends
<1>8. Follows(b, output, output', notes, sent[notes])
  BY <1>1, <1>4 DEF Follows
<1>9. ReadersFit' /\ AllServed'
  <2>1. /\ pump' \in {"running", "result", "failed", "cancelled"} /\ sent' = sent /\ asks' = asks
        /\ Handled(note', notes') \in Nat /\ Handled(note, notes) <= Handled(note', notes')
        /\ Handled(ask', asked') \in Nat /\ Handled(ask, asked) <= Handled(ask', asked')
    BY <1>1, <1>2, <1>3
  <2>2. QED
    BY <1>1, <1>5, <1>6, <1>7, <1>8, <2>1, PumpGives
<1>10. TrafficFits' /\ TasksFit' /\ NotYet'
  BY <1>1, PumpKeeps
<1>11. FailsForCause'
  BY <1>1 DEF FailsForCause
<1>12. QED
  BY <1>9, <1>10, <1>11 DEF TurnInv

-----------------------------------------------------------------------------
(* The readers of a turn agree *)

LEMMA TurnStepHolds ==
    ASSUME TurnInv, [TurnNext]_turnVars
    PROVE  TurnInv'
<1>1. CASE Notifies
  BY <1>1, NotifiesKeeps
<1>2. CASE Asks
  BY <1>2, AsksKeeps
<1>3. CASE CloseSubscriptions
  BY <1>3, OthersKeep DEF CloseSubscriptions, server, stream
<1>4. CASE StartStream
  BY <1>4, StartKeeps
<1>5. CASE Pump
  <2>1. CASE ReadNote
    BY <2>1, ReadNoteKeeps
  <2>2. CASE ReadAsk
    BY <2>2, ReadAskKeeps
  <2>3. CASE StreamBreaks
    BY <2>3, StreamBreaksKeeps
  <2>4. CASE StreamYields
    BY <2>4, StreamYieldsKeeps
  <2>5. CASE StreamCompletes
    BY <2>5, StreamCompletesKeeps
  <2>6. QED
    BY <1>5, <2>1, <2>2, <2>3, <2>4, <2>5 DEF Pump
<1>6. CASE StartWait
  BY <1>6, OthersKeep DEF StartWait, server, stream
<1>7. CASE Waiter
  <2>1. CASE WaiterReads
    BY <2>1, OthersKeep DEF WaiterReads, server, stream
  <2>2. CASE WaiterWakes
    BY <2>2, OthersKeep DEF WaiterWakes, server, stream
  <2>3. QED
    BY <1>7, <2>1, <2>2 DEF Waiter
<1>8. ASSUME NEW r \in Readers, Join(r) \/ Unsubscribe(r) PROVE TurnInv'
  BY <1>8, JoinKeeps, UnsubscribeKeeps
<1>9. CASE UNCHANGED turnVars
  BY <1>9, OthersKeep DEF turnVars
<1>10. CASE CancelPump
  BY <1>10, CancelPumpKeeps
<1>11. QED
  BY <1>1, <1>2, <1>3, <1>4, <1>5, <1>6, <1>7, <1>8, <1>9, <1>10 DEF TurnNext

LEMMA TurnInvHolds == TurnSpec => []TurnInv
<1>1. TurnInv /\ [TurnNext]_turnVars => TurnInv'
  BY TurnStepHolds
<1>2. QED
  BY <1>1, InitHolds, PTL DEF TurnSpec

\* Without items of its own a completion records nothing.
LEMMA NothingRecorded ==
    ASSUME NEW s
    PROVE  RecordItems(s, <<>>) = s
<1> DEFINE Is(g) == g = [u \in SUBSET DOMAIN <<>> |->
               IF u = {} THEN s ELSE RecordItem(g[u \ {Max(u)}], <<>>[Max(u)])]
           g0 == [u \in SUBSET DOMAIN <<>> |-> s]
<1>1. DOMAIN <<>> = {}
  OBVIOUS
<1>2. \A u \in SUBSET DOMAIN <<>> : u = {}
  BY <1>1
<1>3. Is(g0)
  BY <1>2
<1>4. {} \in SUBSET DOMAIN <<>>
  OBVIOUS
<1>5. \A g : Is(g) => g[{}] = s
  BY <1>4
<1>6. RecordItems(s, <<>>) = (CHOOSE g : Is(g))[DOMAIN <<>>]
  BY Zenon DEF RecordItems, FoldLeft, MapThenFoldSet
<1>7. \E g : Is(g)
  BY <1>3
<1> HIDE DEF Is
<1>8. Is(CHOOSE g : Is(g))
  BY <1>7
<1>9. QED
  BY <1>1, <1>5, <1>6, <1>8

\* What an aggregator shows is what build_turn_result makes of the same output.
LEMMA SnapshotIsResult ==
    ASSUME NEW s
    PROVE  Snapshot(s) = BuildTurnResult(s, <<>>)
<1>1. RecordItems(s, <<>>) = s
  BY NothingRecorded
<1>2. <<>> # <<>> <=> FALSE
  OBVIOUS
<1>3. BuildTurnResult(s, <<>>)
        = [items |-> StreamedItems(s), aggregations |-> ItemAggregations(s, <<>>), usage |-> s.usage]
  BY <1>1, <1>2, Zenon DEF BuildTurnResult
<1>4. QED
  BY <1>3 DEF Snapshot

LEMMA ServedAgrees ==
    ASSUME TurnInv
    PROVE  ReadersAgree
<1>1. pump = "failed" => ~open \/ AskBreaks \/ NoteBreaks
  BY DEF TurnInv, FailsForCause
<1>2. pump \in {"none", "running", "result", "failed", "cancelled"}
  BY DEF TurnInv, ReadersFit
<1>3. ASSUME NEW r \in Readers, reader[r].phase = "reading"
      PROVE  LET events == reader[r].queue
                 ends == CASE pump \in {"result", "cancelled"} -> <<End>>
                           [] pump = "failed" -> <<Failure>>
                           [] OTHER -> <<>>
             IN  /\ Tagged("note", events) = Of("note", sent, reader[r].notes, Handled(note, notes))
                 /\ Tagged("ask", events) = Of("ask", asks, reader[r].asks, Handled(ask, asked))
                 /\ Tagged("end", events) \o Tagged("failure", events) = ends
                 /\ ends # <<>> => Last(events) = ends[1]
                 /\ r = Handle =>
                        Snapshot(Aggregated(Observed(events))) = BuildTurnResult(output, <<>>)
  <2> DEFINE events == reader[r].queue
             ends == CASE pump \in {"result", "cancelled"} -> <<End>>
                       [] pump = "failed" -> <<Failure>>
                       [] OTHER -> <<>>
  <2>1. Served(r)
    BY <1>3 DEF TurnInv, AllServed
  <2>2. /\ Tagged("note", events) = Of("note", sent, reader[r].notes, Handled(note, notes))
        /\ Tagged("ask", events) = Of("ask", asks, reader[r].asks, Handled(ask, asked))
    BY <2>1 DEF Served
  <2>3. /\ Tagged("end", events) = IF pump \in {"result", "cancelled"} THEN <<End>> ELSE <<>>
        /\ Tagged("failure", events) = IF pump = "failed" THEN <<Failure>> ELSE <<>>
        /\ pump \in {"result", "cancelled"} => Last(events) = End
        /\ pump = "failed" => Last(events) = Failure
    BY <2>1 DEF Served
  <2>4. /\ Tagged("end", events) \o Tagged("failure", events) = ends
        /\ ends # <<>> => Last(events) = ends[1]
    <3> HIDE DEF events
    <3>1. CASE pump \in {"result", "cancelled"}
      <4>1. ends = <<End>> /\ ends[1] = End /\ <<End>> \o <<>> = <<End>>
        BY <3>1
      <4>2. Tagged("end", events) = <<End>> /\ Tagged("failure", events) = <<>> /\ Last(events) = End
        BY <2>3, <3>1
      <4> HIDE DEF ends
      <4>3. QED
        BY <4>1, <4>2
    <3>2. CASE pump = "failed"
      <4>1. ends = <<Failure>> /\ ends[1] = Failure /\ <<>> \o <<Failure>> = <<Failure>>
        BY <3>2
      <4>2. Tagged("end", events) = <<>> /\ Tagged("failure", events) = <<Failure>>
            /\ Last(events) = Failure
        BY <2>3, <3>2
      <4> HIDE DEF ends
      <4>3. QED
        BY <4>1, <4>2
    <3>3. CASE pump \notin {"result", "cancelled", "failed"}
      <4>1. ends = <<>> /\ <<>> \o <<>> = <<>>
        BY <3>3
      <4>2. Tagged("end", events) = <<>> /\ Tagged("failure", events) = <<>>
        BY <2>3, <3>3
      <4> HIDE DEF ends
      <4>3. QED
        BY <4>1, <4>2
    <3>4. QED
      BY <3>1, <3>2, <3>3
  <2>5. ASSUME r = Handle
        PROVE  Snapshot(Aggregated(Observed(events))) = BuildTurnResult(output, <<>>)
    <3>1. Aggregated(Observed(events)) = output
      BY <2>1, <2>5 DEF Served
    <3>2. PICK s : s = output
      OBVIOUS
    <3>3. Snapshot(s) = BuildTurnResult(s, <<>>)
      BY SnapshotIsResult
    <3>4. QED
      BY <3>1, <3>2, <3>3
  <2> HIDE DEF events, ends
  <2>6. QED
    BY <2>2, <2>4, <2>5 DEF events, ends
<1>4. QED
  BY <1>1, <1>3 DEF ReadersAgree

\* Whatever the server sends and asks, in whatever order the read tasks of the managed
\* stream and its readers run (_pump_turn_stream and _ManagedTurnStream of client.py), every
\* reader is given what is of the turn since it joined, each event once and in its
\* order, and then one end, of a kind with that of the stream, a cancelled stream ending like
\* a completed one, without its completion; an aggregator of the
\* handle's events shows what the stream itself would make of the turn.
THEOREM ReadersOfATurnAgree == TurnSpec => []ReadersAgree
<1>1. TurnInv => ReadersAgree
  BY ServedAgrees
<1>2. QED
  BY <1>1, TurnInvHolds, PTL
=============================================================================
