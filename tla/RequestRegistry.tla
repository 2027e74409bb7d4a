--------------------------- MODULE RequestRegistry ---------------------------
(***************************************************************************)
(* The data of JsonRpcRequestRegistry and of its JsonRpcRequestIdAllocator *)
(* (rpc/router.py), and their methods as operators from one registry to    *)
(* the next.  No method of the registry suspends while it holds its lock,  *)
(* so each of them is one atomic step of the event loop.                   *)
(*                                                                         *)
(* A registry is a record:                                                 *)
(*   lastId    the allocator's _last_request_id                            *)
(*   pending   ids of _pending_requests, in the dict's insertion order     *)
(*   finalized entries of _finalized_requests, the oldest first            *)
(*   future    the asyncio future of every id ever registered              *)
(***************************************************************************)
EXTENDS Naturals, Sequences, SequencesExt

CONSTANTS MaxId,         \* bound: the largest request id that is modelled
          HistoryLimit   \* finalized_history_limit

ASSUME RegistryAssumption ==
    /\ MaxId \in Nat
    /\ HistoryLimit \in Nat \ {0}     \* the constructor rejects others

Ids == 1..MaxId

\* FinalizedRequestStatus
Statuses == {"completed", "cancelled", "timed_out", "failed", "closed"}

Futures == {"none", "open", "result", "error", "cancelled", "failed", "closed"}

\* The states a future may have once its request was released with a status.
FuturesOf(status) ==
    CASE status = "completed" -> {"result", "error"}
      [] status \in {"cancelled", "timed_out"} -> {"cancelled"}
      [] status \in {"failed", "closed"} -> {status}

Entries == [id : Ids, status : Statuses]

Registries == [lastId : 0..MaxId, pending : Seq(Ids), finalized : Seq(Entries),
               future : [Ids -> Futures]]

Entry(id, status) == [id |-> id, status |-> status]

EmptyRegistry ==
    [lastId |-> 0, pending |-> <<>>, finalized |-> <<>>,
     future |-> [id \in Ids |-> "none"]]

IsPending(r, id) == \E i \in DOMAIN r.pending : r.pending[i] = id

IsFinalized(r, id) == \E i \in DOMAIN r.finalized : r.finalized[i].id = id

FinalizedStatus(r, id) ==
    LET i == CHOOSE j \in DOMAIN r.finalized : r.finalized[j].id = id
    IN  r.finalized[i].status

\* _ensure_request_id_available
Available(r, id) == ~IsPending(r, id) /\ ~IsFinalized(r, id)

\* Mutant of Newest: the history is never trimmed.
NewestUntrimmed(history) == history

\* _remember_finalized_request evicts the oldest entries beyond the limit.
Newest(history) ==
    IF Len(history) <= HistoryLimit
    THEN history
    ELSE SubSeq(history, Len(history) - HistoryLimit + 1, Len(history))

-----------------------------------------------------------------------------
NextId(r) == r.lastId + 1

\* Mutant of Observe: the allocator follows the server's ids downwards too.
ObserveAny(r, id) == [r EXCEPT !.lastId = id]

\* observe_remote_request_id
Observe(r, id) == IF id > r.lastId THEN [r EXCEPT !.lastId = id] ELSE r

\* register_request with an id from the allocator
Register(r) ==
    [r EXCEPT !.lastId = NextId(r),
              !.pending = Append(r.pending, NextId(r)),
              !.future[NextId(r)] = "open"]

\* The pop shared by resolve_response, cancel_request and fail_request, and
\* the settling of the future that follows it: nothing for an id that is no
\* longer pending.
Release(r, id, status, settled) ==
    IF IsPending(r, id)
    THEN LET i == CHOOSE j \in DOMAIN r.pending : r.pending[j] = id
         IN  [r EXCEPT !.pending = RemoveAt(r.pending, i),
                       !.finalized = Newest(Append(r.finalized, Entry(id, status))),
                       !.future[id] = settled]
    ELSE r

\* Mutant of ReleaseAll: the waiters are forgotten without being woken.
ReleaseAllSilently(r, status) ==
    [r EXCEPT !.pending = <<>>,
              !.finalized = Newest(r.finalized \o
                                [i \in DOMAIN r.pending |-> Entry(r.pending[i], status)])]

\* fail_all
ReleaseAll(r, status) ==
    [r EXCEPT !.pending = <<>>,
              !.finalized = Newest(r.finalized \o
                                [i \in DOMAIN r.pending |-> Entry(r.pending[i], status)]),
              !.future = [id \in Ids |-> IF IsPending(r, id) THEN status
                                                             ELSE r.future[id]]]
-----------------------------------------------------------------------------
(* What the methods keep true of a registry *)

\* The open futures are those of the pending requests, each pending once.
WaitersAreKnown(r) ==
    /\ \A id \in Ids : r.future[id] = "open" <=> IsPending(r, id)
    /\ IsInjective(r.pending)

\* The history is bounded, names a request once, and tells how it ended.
HistoryIsAccurate(r) ==
    /\ Len(r.finalized) <= HistoryLimit
    /\ \A i, j \in DOMAIN r.finalized :
        r.finalized[i].id = r.finalized[j].id => i = j
    /\ \A i \in DOMAIN r.finalized :
        r.future[r.finalized[i].id] \in FuturesOf(r.finalized[i].status)

\* The ids the allocator has not reached were never used.
FreshIdsAreFree(r) ==
    \A id \in Ids : id > r.lastId => Available(r, id) /\ r.future[id] = "none"
=============================================================================
