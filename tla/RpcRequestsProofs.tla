--------------------------- MODULE RpcRequestsProofs ---------------------------
(***************************************************************************)
(* Proofs about RpcRequests, for every number of ids, every history limit  *)
(* and every behaviour of the server.                                      *)
(***************************************************************************)
EXTENDS RpcRequests, TLAPS, SequenceTheorems

USE RegistryAssumption

\* The registry after any of its methods.
RegistryOK(r) ==
    /\ r \in Registries
    /\ WaitersAreKnown(r)
    /\ HistoryIsAccurate(r)
    /\ FreshIdsAreFree(r)

-----------------------------------------------------------------------------
(* Sequences *)

\* RemoveAt keeps every other element in its order.
LEMMA RemoveAtProperties ==
    ASSUME NEW S, NEW s \in Seq(S), NEW i \in 1..Len(s)
    PROVE  /\ RemoveAt(s, i) \in Seq(S)
           /\ Len(RemoveAt(s, i)) = Len(s) - 1
           /\ \A j \in 1..(Len(s) - 1) :
                RemoveAt(s, i)[j] = IF j < i THEN s[j] ELSE s[j + 1]
<1> DEFINE a == SubSeq(s, 1, i - 1)
           b == SubSeq(s, i + 1, Len(s))
<1>1. a \in Seq(S) /\ Len(a) = i - 1 /\ \A j \in 1..(i - 1) : a[j] = s[j]
  OBVIOUS
<1>2. b \in Seq(S) /\ Len(b) = Len(s) - i /\ \A j \in 1..(Len(s) - i) : b[j] = s[i + j]
  OBVIOUS
<1> HIDE DEF a, b
<1>3. a \o b \in Seq(S) /\ Len(a \o b) = Len(s) - 1
  <2>1. a \o b \in Seq(S) /\ Len(a \o b) = Len(a) + Len(b)
    BY <1>1, <1>2, ConcatProperties
  <2>2. QED
    BY <2>1, <1>1, <1>2
<1>4. \A j \in 1..(Len(s) - 1) : (a \o b)[j] = IF j < i THEN s[j] ELSE s[j + 1]
  <2> TAKE j \in 1..(Len(s) - 1)
  <2>1. CASE j < i
    BY <2>1, <1>1, <1>2
  <2>2. CASE ~(j < i)
    <3>1. (a \o b)[j] = b[j - (i - 1)] /\ j - (i - 1) \in 1..(Len(s) - i)
      BY <2>2, <1>1, <1>2
    <3>2. QED
      BY <3>1, <2>2, <1>2
  <2>3. QED
    BY <2>1, <2>2
<1>5. QED
  BY <1>3, <1>4 DEF RemoveAt, a, b

\* Newest returns a suffix of the history, no longer than the limit.
LEMMA NewestProperties ==
    ASSUME NEW S, NEW h \in Seq(S)
    PROVE  /\ Newest(h) \in Seq(S)
           /\ Len(Newest(h)) <= HistoryLimit
           /\ \E k \in Nat : \A j \in DOMAIN Newest(h) :
                j + k \in DOMAIN h /\ Newest(h)[j] = h[j + k]
<1>1. CASE Len(h) <= HistoryLimit
  <2>1. \A j \in DOMAIN h : j + 0 \in DOMAIN h /\ h[j] = h[j + 0]
    OBVIOUS
  <2>2. QED
    BY <2>1, <1>1 DEF Newest
<1>2. CASE ~(Len(h) <= HistoryLimit)
  <2> DEFINE k == Len(h) - HistoryLimit
             t == SubSeq(h, k + 1, Len(h))
  <2>1. k \in Nat /\ Newest(h) = t
    BY <1>2 DEF Newest
  <2>2. t \in Seq(S) /\ Len(t) = HistoryLimit /\ \A j \in 1..HistoryLimit : t[j] = h[j + k]
    BY <1>2
  <2>3. \A j \in DOMAIN t : j + k \in DOMAIN h /\ t[j] = h[j + k]
    BY <2>2, <1>2
  <2> HIDE DEF k, t
  <2>4. QED
    BY <2>1, <2>2, <2>3
<1>3. QED
  BY <1>1, <1>2

-----------------------------------------------------------------------------
(* The methods of the registry *)

LEMMA EmptyOK == RegistryOK(EmptyRegistry)
BY DEF RegistryOK, EmptyRegistry, Registries, Futures, WaitersAreKnown, IsPending,
       HistoryIsAccurate, FreshIdsAreFree, Available, IsFinalized, IsInjective

LEMMA FinalizedEntry ==
    ASSUME NEW r, r \in Registries, NEW i \in DOMAIN r.finalized
    PROVE  /\ r.finalized[i] \in Entries
           /\ r.finalized[i].id \in Ids
           /\ r.finalized[i].status \in Statuses
<1>1. r.finalized \in Seq(Entries)
  BY DEF Registries
<1>2. r.finalized[i] \in Entries
  BY <1>1
<1>3. QED
  BY <1>2 DEF Entries

\* An id that is open is in nobody's history yet.
LEMMA OpenIsNotFinalized ==
    ASSUME NEW r, RegistryOK(r), NEW id \in Ids, r.future[id] = "open",
           NEW i \in DOMAIN r.finalized
    PROVE  r.finalized[i].id # id
<1>1. r.finalized[i].status \in Statuses
  BY FinalizedEntry DEF RegistryOK
<1>2. "open" \notin FuturesOf(r.finalized[i].status)
  BY <1>1 DEF Statuses, FuturesOf
<1>3. QED
  BY <1>2 DEF RegistryOK, HistoryIsAccurate

LEMMA ObserveOK ==
    ASSUME NEW r, RegistryOK(r), NEW id \in Ids
    PROVE  /\ RegistryOK(Observe(r, id))
           /\ Observe(r, id).future = r.future
           /\ Observe(r, id).pending = r.pending
<1>1. CASE id > r.lastId
  <2> DEFINE q == Observe(r, id)
  <2>1. q = [r EXCEPT !.lastId = id]
    BY <1>1 DEF Observe
  <2>2. /\ q \in Registries /\ q.lastId = id
        /\ q.pending = r.pending /\ q.finalized = r.finalized /\ q.future = r.future
    BY <2>1 DEF RegistryOK, Registries, Ids
  <2>3. WaitersAreKnown(q) /\ HistoryIsAccurate(q)
    BY <2>2 DEF RegistryOK, WaitersAreKnown, HistoryIsAccurate, IsPending
  <2>4. FreshIdsAreFree(q)
    BY <2>2, <1>1 DEF RegistryOK, FreshIdsAreFree, Available, IsPending, IsFinalized,
                      Ids, Registries
  <2>5. QED
    BY <2>2, <2>3, <2>4 DEF RegistryOK
<1>2. CASE ~(id > r.lastId)
  BY <1>2 DEF Observe
<1>3. QED
  BY <1>1, <1>2

LEMMA RegisterOK ==
    ASSUME NEW r, RegistryOK(r), NextId(r) \in Ids
    PROVE  /\ RegistryOK(Register(r))
           /\ r.future[NextId(r)] = "none"
           /\ Register(r).future = [r.future EXCEPT ![NextId(r)] = "open"]
<1> DEFINE q == Register(r)
           n == NextId(r)
<1>1. /\ r.lastId \in 0..MaxId /\ r.pending \in Seq(Ids)
      /\ r.finalized \in Seq(Entries) /\ r.future \in [Ids -> Futures]
  BY DEF RegistryOK, Registries
<1>2. n > r.lastId /\ n \in Ids
  BY <1>1 DEF NextId
<1>3. r.future[n] = "none" /\ ~IsPending(r, n) /\ ~IsFinalized(r, n)
  BY <1>2 DEF RegistryOK, FreshIdsAreFree, Available
<1>4. /\ q = [r EXCEPT !.lastId = n, !.pending = Append(r.pending, n),
                        !.future = [r.future EXCEPT ![n] = "open"]]
      /\ q.lastId = n /\ q.pending = Append(r.pending, n)
      /\ q.finalized = r.finalized /\ q.future = [r.future EXCEPT ![n] = "open"]
      /\ q \in Registries
  <2>1. q = [r EXCEPT !.lastId = n, !.pending = Append(r.pending, n),
                      !.future = [r.future EXCEPT ![n] = "open"]]
    BY DEF Register, RegistryOK, Registries
  <2>2. /\ Append(r.pending, n) \in Seq(Ids)
        /\ [r.future EXCEPT ![n] = "open"] \in [Ids -> Futures]
        /\ n \in 0..MaxId
    BY <1>1, <1>2 DEF Futures, Ids
  <2> HIDE DEF q, n
  <2>3. QED
    BY <2>1, <2>2 DEF RegistryOK, Registries
<1>5. /\ Len(q.pending) = Len(r.pending) + 1
      /\ \A j \in 1..Len(r.pending) : q.pending[j] = r.pending[j]
      /\ q.pending[Len(r.pending) + 1] = n
  BY <1>1, <1>4
<1>6. WaitersAreKnown(q)
  <2>1. \A i \in Ids : IsPending(q, i) <=> IsPending(r, i) \/ i = n
    <3>1. /\ Len(r.pending) \in Nat /\ DOMAIN r.pending = 1..Len(r.pending)
          /\ DOMAIN q.pending = 1..(Len(r.pending) + 1)
      BY <1>1, <1>2, <1>4
    <3> DEFINE last == Len(r.pending)
    <3> HIDE DEF q, n
    <3>2. ASSUME NEW i, IsPending(q, i) PROVE IsPending(r, i) \/ i = n
      <4>1. PICK j \in 1..(last + 1) : q.pending[j] = i
        BY <3>1, <3>2 DEF IsPending
      <4>2. CASE j \in 1..last
        BY <1>5, <3>1, <4>1, <4>2 DEF IsPending
      <4>3. CASE j = last + 1
        BY <1>5, <4>1, <4>3
      <4>4. QED
        BY <3>1, <4>2, <4>3
    <3>3. ASSUME NEW i, IsPending(r, i) PROVE IsPending(q, i)
      <4>1. PICK j \in 1..last : r.pending[j] = i
        BY <3>1, <3>3 DEF IsPending
      <4>2. j \in DOMAIN q.pending /\ q.pending[j] = i
        BY <1>5, <3>1, <4>1
      <4>3. QED
        BY <4>2 DEF IsPending
    <3>4. IsPending(q, n)
      <4>1. last + 1 \in DOMAIN q.pending
        BY <3>1
      <4>2. QED
        BY <1>5, <4>1 DEF IsPending
    <3>5. QED
      BY <3>2, <3>3, <3>4
  <2>2. \A i \in Ids : q.future[i] = "open" <=> r.future[i] = "open" \/ i = n
    BY <1>1, <1>2, <1>4
  <2>3. IsInjective(q.pending)
    <3>1. \A j \in 1..Len(r.pending) : r.pending[j] # n
      BY <1>3 DEF IsPending
    <3>2. \A i, j \in 1..Len(r.pending) : r.pending[i] = r.pending[j] => i = j
      BY <1>1 DEF RegistryOK, WaitersAreKnown, IsInjective
    <3>3. DOMAIN q.pending = 1..(Len(r.pending) + 1)
      BY <1>1, <1>2, <1>4
    <3> DEFINE last == Len(r.pending)
    <3>4. last \in Nat
      BY <1>1
    <3> HIDE DEF q, n, last
    <3>5. /\ \A j \in 1..last : q.pending[j] = r.pending[j] /\ r.pending[j] # n
          /\ q.pending[last + 1] = n
      BY <1>5, <3>1 DEF last
    <3>6. \A i \in 1..(last + 1) : i \in 1..last \/ i = last + 1
      BY <3>4
    <3>7. ASSUME NEW i \in 1..(last + 1), NEW j \in 1..(last + 1), q.pending[i] = q.pending[j]
          PROVE  i = j
      <4>1. CASE i \in 1..last /\ j \in 1..last
        BY <3>2, <3>5, <3>7, <4>1 DEF last
      <4>2. CASE i = last + 1 \/ j = last + 1
        BY <3>5, <3>6, <3>7, <4>2
      <4>3. QED
        BY <3>6, <4>1, <4>2
    <3>8. QED
      BY <3>3, <3>7 DEF IsInjective, last
  <2>4. QED
    BY <2>1, <2>2, <2>3 DEF RegistryOK, WaitersAreKnown
<1>7. HistoryIsAccurate(q)
  <2>1. \A j \in DOMAIN r.finalized : r.finalized[j].id # n
    BY <1>3 DEF IsFinalized
  <2>2. \A j \in DOMAIN r.finalized : r.finalized[j].id \in Ids
    BY FinalizedEntry DEF RegistryOK
  <2>3. /\ Len(r.finalized) <= HistoryLimit
        /\ \A i, j \in DOMAIN r.finalized :
                r.finalized[i].id = r.finalized[j].id => i = j
        /\ \A i \in DOMAIN r.finalized :
                r.future[r.finalized[i].id] \in FuturesOf(r.finalized[i].status)
    BY DEF RegistryOK, HistoryIsAccurate
  <2> HIDE DEF q, n
  <2>4. \A j \in DOMAIN r.finalized : q.future[r.finalized[j].id] = r.future[r.finalized[j].id]
    BY <1>1, <1>4, <2>1, <2>2
  <2>5. QED
    BY <1>4, <2>3, <2>4 DEF HistoryIsAccurate
<1>8. FreshIdsAreFree(q)
  <2> SUFFICES ASSUME NEW i \in Ids, i > n
               PROVE  Available(q, i) /\ q.future[i] = "none"
    BY <1>4 DEF FreshIdsAreFree
  <2>1. i > r.lastId /\ i # n
    BY <1>1, <1>2 DEF Ids
  <2>2. Available(r, i) /\ r.future[i] = "none"
    BY <2>1 DEF RegistryOK, FreshIdsAreFree
  <2>3. QED
    BY <2>1, <2>2, <1>1, <1>4, <1>5 DEF Available, IsPending, IsFinalized
<1>9. QED
  BY <1>3, <1>4, <1>6, <1>7, <1>8 DEF RegistryOK

\* Adding entries of requests that just ended to an accurate history, and
\* trimming it, gives an accurate history.  g is the registry's futures before
\* and f after; only requests of the added entries are settled.
LEMMA RememberOK ==
    ASSUME NEW r, RegistryOK(r),
           NEW new \in Seq(Entries), NEW f \in [Ids -> Futures],
           \A i \in DOMAIN new :
                /\ r.future[new[i].id] = "open"
                /\ f[new[i].id] \in FuturesOf(new[i].status),
           \A i, j \in DOMAIN new : new[i].id = new[j].id => i = j,
           \A id \in Ids : r.future[id] # "open" => f[id] = r.future[id],
           NEW q, q.finalized = Newest(r.finalized \o new), q.future = f
    PROVE  /\ HistoryIsAccurate(q)
           /\ q.finalized \in Seq(Entries)
           /\ \A id \in Ids : IsFinalized(q, id) =>
                IsFinalized(r, id) \/ r.future[id] = "open"
<1> DEFINE old == r.finalized
           all == old \o new
<1>1. old \in Seq(Entries) /\ r \in Registries
  BY DEF RegistryOK, Registries
<1>2. /\ all \in Seq(Entries)
      /\ Len(all) = Len(old) + Len(new)
      /\ \A i \in 1..(Len(old) + Len(new)) :
            all[i] = IF i <= Len(old) THEN old[i] ELSE new[i - Len(old)]
  BY <1>1, ConcatProperties
<1>3. \A i \in 1..Len(old) : all[i] = old[i]
  BY <1>1, <1>2
<1>4. \A i \in (Len(old) + 1)..Len(all) :
            i - Len(old) \in DOMAIN new /\ all[i] = new[i - Len(old)]
  BY <1>1, <1>2
<1>5. \A i \in 1..Len(old) : \A j \in DOMAIN new :
            old[i].id # new[j].id
  <2> TAKE i \in 1..Len(old)
  <2> TAKE j \in DOMAIN new
  <2>0. new[j] \in Entries
    OBVIOUS
  <2>1. new[j].id \in Ids /\ r.future[new[j].id] = "open"
    BY <2>0 DEF Entries
  <2>2. i \in DOMAIN r.finalized
    BY <1>1
  <2>3. QED
    BY <2>1, <2>2, OpenIsNotFinalized
<1>6. \A i, j \in DOMAIN all : all[i].id = all[j].id => i = j
  <2> SUFFICES ASSUME NEW i \in DOMAIN all, NEW j \in DOMAIN all,
                      all[i].id = all[j].id
               PROVE  i = j
    OBVIOUS
  <2> HIDE DEF all, old
  <2>0. i \in 1..Len(all) /\ j \in 1..Len(all) /\ Len(old) \in Nat /\ Len(all) \in Nat
    BY <1>1, <1>2
  <2>1. CASE i <= Len(old) /\ j <= Len(old)
    BY <2>0, <2>1, <1>1, <1>3 DEF RegistryOK, HistoryIsAccurate, old
  <2>2. CASE i > Len(old) /\ j > Len(old)
    <3>1. i - Len(old) = j - Len(old)
      BY <2>0, <2>2, <1>4
    <3>2. QED
      BY <3>1, <2>0
  <2>3. CASE i <= Len(old) /\ j > Len(old)
    BY <2>0, <2>3, <1>3, <1>4, <1>5
  <2>4. CASE i > Len(old) /\ j <= Len(old)
    BY <2>0, <2>4, <1>3, <1>4, <1>5
  <2>5. QED
    BY <2>0, <2>1, <2>2, <2>3, <2>4
<1>7. \A i \in DOMAIN all : f[all[i].id] \in FuturesOf(all[i].status)
  <2> SUFFICES ASSUME NEW i \in DOMAIN all
               PROVE  f[all[i].id] \in FuturesOf(all[i].status)
    OBVIOUS
  <2> HIDE DEF all, old
  <2>0. i \in 1..Len(all) /\ Len(old) \in Nat /\ Len(all) \in Nat
    BY <1>1, <1>2
  <2>1. CASE i <= Len(old)
    <3>1. i \in DOMAIN r.finalized /\ all[i] = r.finalized[i]
      BY <2>0, <2>1, <1>1, <1>3 DEF old
    <3>2. r.finalized[i].id \in Ids
      BY <3>1, <1>1, FinalizedEntry
    <3>3. r.future[r.finalized[i].id] # "open"
      BY <3>1, <3>2, OpenIsNotFinalized
    <3>4. QED
      BY <3>1, <3>2, <3>3 DEF RegistryOK, HistoryIsAccurate
  <2>2. CASE i > Len(old)
    BY <2>0, <2>2, <1>4
  <2>3. QED
    BY <2>0, <2>1, <2>2
<1> HIDE DEF all
<1>8. PICK k \in Nat : \A j \in DOMAIN Newest(all) :
            j + k \in DOMAIN all /\ Newest(all)[j] = all[j + k]
  BY <1>2, NewestProperties
<1>9. Newest(all) \in Seq(Entries) /\ Len(Newest(all)) <= HistoryLimit
  BY <1>2, NewestProperties
<1>10. q.finalized = Newest(all)
  BY DEF all
<1>11. HistoryIsAccurate(q)
  <2>1. \A i, j \in DOMAIN Newest(all) : Newest(all)[i].id = Newest(all)[j].id => i = j
    <3> SUFFICES ASSUME NEW i \in DOMAIN Newest(all), NEW j \in DOMAIN Newest(all),
                        Newest(all)[i].id = Newest(all)[j].id
                 PROVE  i = j
      OBVIOUS
    <3>1. i + k = j + k
      BY <1>6, <1>8
    <3>2. i \in Nat /\ j \in Nat
      BY <1>9
    <3>3. QED
      BY <3>1, <3>2
  <2>2. \A i \in DOMAIN Newest(all) :
            f[Newest(all)[i].id] \in FuturesOf(Newest(all)[i].status)
    BY <1>7, <1>8
  <2>3. QED
    BY <2>1, <2>2, <1>9, <1>10 DEF HistoryIsAccurate
<1>12. ASSUME NEW id \in Ids, IsFinalized(q, id)
       PROVE  IsFinalized(r, id) \/ r.future[id] = "open"
  <2>1. PICK i \in DOMAIN all : all[i].id = id
    BY <1>8, <1>10, <1>12 DEF IsFinalized
  <2>2. CASE i <= Len(old)
    BY <2>1, <2>2, <1>1, <1>2, <1>3 DEF IsFinalized
  <2>3. CASE i > Len(old)
    BY <2>1, <2>3, <1>1, <1>2, <1>4
  <2>4. QED
    BY <2>1, <2>2, <2>3, <1>1, <1>2
<1>13. QED
  BY <1>9, <1>10, <1>11, <1>12

\* What releasing one request does to the registry and to the futures.
LEMMA ReleaseOK ==
    ASSUME NEW r, RegistryOK(r), NEW id \in Ids, NEW status \in Statuses,
           NEW settled \in FuturesOf(status)
    PROVE  LET q == Release(r, id, status, settled)
           IN  /\ RegistryOK(q)
               /\ q.future[id] = IF r.future[id] = "open" THEN settled
                                                         ELSE r.future[id]
               /\ \A j \in Ids \ {id} : q.future[j] = r.future[j]
               /\ r.pending = <<>> => q.pending = <<>>
<1> DEFINE q == Release(r, id, status, settled)
<1>0. /\ r.lastId \in 0..MaxId /\ r.pending \in Seq(Ids)
      /\ r.finalized \in Seq(Entries) /\ r.future \in [Ids -> Futures]
      /\ settled \in Futures \ {"open", "none"}
  BY DEF RegistryOK, Registries, FuturesOf, Statuses, Futures
<1>1. CASE ~IsPending(r, id)
  <2>1. q = r /\ r.future[id] # "open"
    BY <1>1 DEF Release, RegistryOK, WaitersAreKnown
  <2>2. QED
    BY <2>1
<1>2. CASE IsPending(r, id)
  <2> DEFINE i == CHOOSE j \in DOMAIN r.pending : r.pending[j] = id
             new == <<Entry(id, status)>>
             f == [r.future EXCEPT ![id] = settled]
  <2>1. i \in 1..Len(r.pending) /\ r.pending[i] = id
    BY <1>0, <1>2 DEF IsPending
  <2>2. r.future[id] = "open"
    BY <1>2 DEF RegistryOK, WaitersAreKnown
  <2>3. r.finalized \o new = Append(r.finalized, Entry(id, status))
    BY <1>0 DEF Entry, Entries
  <2>4. q = [r EXCEPT !.pending = RemoveAt(r.pending, i),
                      !.finalized = Newest(r.finalized \o new),
                      !.future = f]
    BY <1>2, <2>3 DEF Release, RegistryOK, Registries
  <2>5. /\ new \in Seq(Entries) /\ Len(new) = 1 /\ DOMAIN new = {1}
        /\ new[1].id = id /\ new[1].status = status
    BY DEF Entry, Entries
  <2>6. f \in [Ids -> Futures] /\ f[id] = settled /\ \A j \in Ids \ {id} : f[j] = r.future[j]
    BY <1>0
  <2>7. /\ RemoveAt(r.pending, i) \in Seq(Ids)
        /\ Len(RemoveAt(r.pending, i)) = Len(r.pending) - 1
        /\ \A j \in 1..(Len(r.pending) - 1) :
              RemoveAt(r.pending, i)[j] = IF j < i THEN r.pending[j] ELSE r.pending[j + 1]
    BY <1>0, <2>1, RemoveAtProperties
  <2>8. /\ q.lastId = r.lastId /\ q.pending = RemoveAt(r.pending, i)
        /\ q.finalized = Newest(r.finalized \o new) /\ q.future = f
    BY <2>4 DEF RegistryOK, Registries
  <2> HIDE DEF q, new, f, i
  <2>9. /\ HistoryIsAccurate(q)
        /\ q.finalized \in Seq(Entries)
        /\ \A j \in Ids : IsFinalized(q, j) =>
                IsFinalized(r, j) \/ r.future[j] = "open"
    <3>1. \A j \in DOMAIN new : r.future[new[j].id] = "open"
                             /\ f[new[j].id] \in FuturesOf(new[j].status)
      BY <2>2, <2>5, <2>6
    <3>2. \A j, k \in DOMAIN new : new[j].id = new[k].id => j = k
      BY <2>5
    <3>3. \A j \in Ids : r.future[j] # "open" => f[j] = r.future[j]
      BY <2>2, <2>6
    <3>4. QED
      BY <3>1, <3>2, <3>3, <2>5, <2>6, <2>8, RememberOK
  <2>10. q \in Registries
    BY <2>4, <2>6, <2>7, <2>8, <2>9 DEF RegistryOK, Registries
  <2>11. WaitersAreKnown(q)
    <3> DEFINE p == r.pending
               n == q.pending
    <3>1. /\ p \in Seq(Ids) /\ n \in Seq(Ids) /\ Len(n) = Len(p) - 1
          /\ \A j \in 1..(Len(p) - 1) : n[j] = IF j < i THEN p[j] ELSE p[j + 1]
          /\ i \in 1..Len(p) /\ p[i] = id
          /\ \A j, k \in 1..Len(p) : p[j] = p[k] => j = k
      BY <1>0, <2>1, <2>7, <2>8 DEF RegistryOK, WaitersAreKnown, IsInjective
    <3> HIDE DEF p, n
    <3>2. IsInjective(n)
      <4> SUFFICES ASSUME NEW j \in 1..Len(n), NEW k \in 1..Len(n), n[j] = n[k]
                   PROVE  j = k
        BY <3>1 DEF IsInjective
      <4>1. PICK j1 \in 1..Len(p) : n[j] = p[j1] /\ j1 = IF j < i THEN j ELSE j + 1
        BY <3>1
      <4>2. PICK k1 \in 1..Len(p) : n[k] = p[k1] /\ k1 = IF k < i THEN k ELSE k + 1
        BY <3>1
      <4>3. j1 = k1
        BY <3>1, <4>1, <4>2
      <4>4. QED
        BY <3>1, <4>1, <4>2, <4>3
    <3>3. \A j \in Ids : IsPending(q, j) <=> IsPending(r, j) /\ j # id
      <4> SUFFICES ASSUME NEW j \in Ids
                   PROVE  (\E k \in 1..Len(n) : n[k] = j)
                            <=> (\E k \in 1..Len(p) : p[k] = j) /\ j # id
        <5>1. DOMAIN n = 1..Len(n) /\ DOMAIN p = 1..Len(p)
          BY <3>1
        <5>2. QED
          BY <5>1 DEF IsPending, p, n
      <4>1. ASSUME NEW k \in 1..Len(n), n[k] = j
            PROVE  (\E l \in 1..Len(p) : p[l] = j) /\ j # id
        <5>1. PICK l \in 1..Len(p) : n[k] = p[l] /\ l # i
          BY <3>1
        <5>2. QED
          BY <4>1, <5>1, <3>1
      <4>2. ASSUME NEW k \in 1..Len(p), p[k] = j, j # id
            PROVE  \E l \in 1..Len(n) : n[l] = j
        <5>1. CASE k < i
          BY <5>1, <4>2, <3>1
        <5>2. CASE k > i
          <6>1. k - 1 \in 1..Len(n) /\ ~(k - 1 < i) /\ (k - 1) + 1 = k
            BY <5>2, <3>1
          <6>2. n[k - 1] = p[k]
            BY <6>1, <3>1
          <6>3. QED
            BY <6>1, <6>2, <4>2
        <5>3. k # i
          BY <4>2, <3>1
        <5>4. QED
          BY <5>1, <5>2, <5>3, <3>1
      <4>3. QED
        BY <4>1, <4>2
    <3>4. \A j \in Ids : q.future[j] = "open" <=> r.future[j] = "open" /\ j # id
      BY <1>0, <2>6, <2>8
    <3>5. QED
      BY <3>2, <3>3, <3>4 DEF RegistryOK, WaitersAreKnown, n
  <2>12. FreshIdsAreFree(q)
    <3> SUFFICES ASSUME NEW j \in Ids, j > r.lastId
                 PROVE  Available(q, j) /\ q.future[j] = "none"
      BY <2>8 DEF FreshIdsAreFree
    <3>1. Available(r, j) /\ r.future[j] = "none"
      BY DEF RegistryOK, FreshIdsAreFree
    <3>2. j # id
      BY <2>2, <3>1
    <3>3. q.future[j] = "none"
      BY <2>6, <2>8, <3>1, <3>2
    <3>4. ~IsPending(q, j)
      BY <3>3, <2>11 DEF WaitersAreKnown
    <3>5. ~IsFinalized(q, j)
      BY <2>9, <3>1 DEF Available
    <3>6. QED
      BY <3>3, <3>4, <3>5 DEF Available
  <2>13. r.pending # <<>>
    BY <1>0, <2>1
  <2>14. QED
    BY <2>2, <2>6, <2>8, <2>9, <2>10, <2>11, <2>12, <2>13 DEF RegistryOK, q
<1>3. QED
  BY <1>1, <1>2

\* Every future that was open is settled with the status, no other one changes.
Ended(f, status) == [id \in Ids |-> IF f[id] = "open" THEN status ELSE f[id]]

LEMMA ReleaseAllOK ==
    ASSUME NEW r, RegistryOK(r), NEW status \in {"failed", "closed"}
    PROVE  LET q == ReleaseAll(r, status)
           IN  /\ RegistryOK(q)
               /\ q.pending = <<>>
               /\ q.future = Ended(r.future, status)
<1> DEFINE new == [i \in DOMAIN r.pending |-> Entry(r.pending[i], status)]
           f == Ended(r.future, status)
           q == ReleaseAll(r, status)
<1>0. /\ r.lastId \in 0..MaxId /\ r.pending \in Seq(Ids)
      /\ r.finalized \in Seq(Entries) /\ r.future \in [Ids -> Futures]
      /\ status \in Statuses /\ status \in Futures \ {"open", "none"}
      /\ FuturesOf(status) = {status}
  BY DEF RegistryOK, Registries, FuturesOf, Statuses, Futures
<1>1. \A id \in Ids : r.future[id] = "open" <=> IsPending(r, id)
  BY DEF RegistryOK, WaitersAreKnown
<1>2. f = [id \in Ids |-> IF IsPending(r, id) THEN status ELSE r.future[id]]
  BY <1>1 DEF Ended
<1>3. /\ q.lastId = r.lastId /\ q.pending = <<>>
      /\ q.finalized = Newest(r.finalized \o new) /\ q.future = f
      /\ q = [r EXCEPT !.pending = <<>>, !.finalized = Newest(r.finalized \o new),
                       !.future = f]
  BY <1>2 DEF ReleaseAll, RegistryOK, Registries
<1>4. f \in [Ids -> Futures] /\ \A id \in Ids : f[id] # "open"
  BY <1>0 DEF Ended
<1>5. /\ new \in Seq(Entries) /\ DOMAIN new = DOMAIN r.pending
      /\ \A i \in DOMAIN new : new[i].id = r.pending[i] /\ new[i].status = status
  <2>1. \A i \in DOMAIN r.pending : Entry(r.pending[i], status) \in Entries
    BY <1>0 DEF Entry, Entries
  <2>2. DOMAIN r.pending = 1..Len(r.pending) /\ Len(r.pending) \in Nat
    BY <1>0
  <2>3. new \in Seq(Entries)
    BY <2>1, <2>2, IsASeq
  <2>4. QED
    BY <2>3 DEF Entry
<1>6. \A i \in DOMAIN new : r.pending[i] \in Ids /\ r.future[r.pending[i]] = "open"
  BY <1>0, <1>1, <1>5 DEF IsPending
<1> HIDE DEF q, new, f
<1>7. /\ HistoryIsAccurate(q)
      /\ q.finalized \in Seq(Entries)
      /\ \A id \in Ids : IsFinalized(q, id) =>
              IsFinalized(r, id) \/ r.future[id] = "open"
  <2>1. \A i \in DOMAIN new : /\ r.future[new[i].id] = "open"
                             /\ f[new[i].id] \in FuturesOf(new[i].status)
    BY <1>0, <1>5, <1>6 DEF f, Ended
  <2>2. \A i, j \in DOMAIN new : new[i].id = new[j].id => i = j
    BY <1>5 DEF RegistryOK, WaitersAreKnown, IsInjective
  <2>3. \A id \in Ids : r.future[id] # "open" => f[id] = r.future[id]
    BY DEF f, Ended
  <2>4. /\ new \in Seq(Entries) /\ f \in [Ids -> Futures]
        /\ q.finalized = Newest(r.finalized \o new) /\ q.future = f
    BY <1>3, <1>4, <1>5
  <2>5. QED
    BY <2>1, <2>2, <2>3, <2>4, RememberOK
<1>8. q \in Registries
  <2>1. <<>> \in Seq(Ids) /\ Newest(r.finalized \o new) \in Seq(Entries)
    BY <1>3, <1>7
  <2>2. r \in Registries
    BY DEF RegistryOK
  <2>3. QED
    BY <2>1, <2>2, <1>3, <1>4 DEF Registries
<1>9. WaitersAreKnown(q)
  BY <1>3, <1>4 DEF WaitersAreKnown, IsPending, IsInjective
<1>10. FreshIdsAreFree(q)
  <2> SUFFICES ASSUME NEW id \in Ids, id > r.lastId
               PROVE  Available(q, id) /\ q.future[id] = "none"
    BY <1>3 DEF FreshIdsAreFree
  <2>1. Available(r, id) /\ r.future[id] = "none"
    BY DEF RegistryOK, FreshIdsAreFree
  <2>2. q.future[id] = "none" /\ ~IsPending(q, id)
    BY <1>3, <2>1 DEF f, Ended, IsPending
  <2>3. ~IsFinalized(q, id)
    BY <1>7, <2>1 DEF Available
  <2>4. QED
    BY <2>2, <2>3 DEF Available
<1>11. QED
  BY <1>3, <1>7, <1>8, <1>9, <1>10 DEF RegistryOK, q, f
-----------------------------------------------------------------------------
(* The inductive invariant *)

Inv ==
    /\ TypeOK
    /\ NoOrphanWaiter
    /\ HistoryIsTrue
    /\ NextIdIsFree
    /\ ClosedReleasesAll
    /\ OutcomeIsTrue

\* A step settles futures: it changes none that is settled and loses none that
\* is open.
Settles(f, g) ==
    \A id \in Ids : /\ f[id] # "open" => g[id] = f[id]
                    /\ f[id] = "open" => g[id] # "none"

LEMMA InvRegistryOK == Inv => RegistryOK(registry)
BY DEF Inv, TypeOK, NoOrphanWaiter, HistoryIsTrue, NextIdIsFree, RegistryOK

\* _fail_connection leaves nothing open, whether or not it is the first to fail.
LEMMA FailConnectionOK ==
    ASSUME NEW r, RegistryOK(r), connection # "open" => r.pending = <<>>,
           TypeOK, FailConnection(r)
    PROVE  /\ RegistryOK(registry')
           /\ registry'.pending = <<>>
           /\ registry'.future = Ended(r.future, "failed")
           /\ connection' \in {"closed", "failed"}
           /\ closing' \in BOOLEAN
<1>1. CASE connection = "open"
  <2>1. /\ registry' = ReleaseAll(r, "failed")
        /\ connection' = "failed" /\ closing' = TRUE
    BY <1>1 DEF FailConnection
  <2>2. QED
    BY <2>1, ReleaseAllOK
<1>2. CASE connection # "open"
  <2>1. registry' = r /\ connection' = connection /\ closing' = closing
    BY <1>2 DEF FailConnection
  <2>2. \A id \in Ids : r.future[id] # "open"
    BY <1>2 DEF RegistryOK, WaitersAreKnown, IsPending
  <2>3. r.future = Ended(r.future, "failed")
    BY <2>2 DEF Ended, RegistryOK, Registries
  <2>4. connection \in {"open", "closed", "failed"} /\ closing \in BOOLEAN
    BY DEF TypeOK
  <2>5. QED
    BY <1>2, <2>1, <2>3, <2>4
<1>3. QED
  BY <1>1, <1>2

\* How the three kinds of steps of a task keep what it reports true.
LEMMA SettlingKeepsOutcomes ==
    ASSUME TypeOK, OutcomeIsTrue, Settles(registry.future, registry'.future),
           UNCHANGED <<phase, outcome>>
    PROVE  OutcomeIsTrue'
BY DEF TypeOK, OutcomeIsTrue, Open, Settles

LEMMA EnteringKeepsOutcomes ==
    ASSUME TypeOK, OutcomeIsTrue, Settles(registry.future, registry'.future),
           NEW id \in Ids, phase[id] \in InFlight,
           NEW p \in InFlight, Enter(id, p), UNCHANGED outcome
    PROVE  OutcomeIsTrue'
BY DEF TypeOK, OutcomeIsTrue, Open, Settles, Enter, InFlight, Holding

LEMMA ReturningKeepsOutcomes ==
    ASSUME TypeOK, OutcomeIsTrue, Settles(registry.future, registry'.future),
           NEW id \in Ids, phase[id] \in InFlight,
           NEW o, Return(id, o), o # "none",
           registry'.future[id] # "open",
           o = "timed_out" => registry'.future[id] = "cancelled",
           o \in {"result", "error", "failed", "closed"} => registry'.future[id] = o
    PROVE  OutcomeIsTrue'
BY DEF TypeOK, OutcomeIsTrue, Open, Settles, Enter, Return, InFlight, Holding

\* The types of everything but the registry.
OthersOK ==
    /\ phase \in [Ids -> Phases]
    /\ outcome \in [Ids -> Outcomes]
    /\ connection \in {"open", "closed", "failed"}
    /\ closing \in BOOLEAN
    /\ dispatcher \in {"running", "stopped"}
    /\ serverUp \in BOOLEAN
    /\ stalled \in BOOLEAN
    /\ wire \subseteq Ids
    /\ answered \subseteq Ids
    /\ inbound \in Seq(Messages)
    /\ extra \in Nat

LEMMA InvParts ==
    ASSUME RegistryOK(registry'), OthersOK', ClosedReleasesAll', OutcomeIsTrue'
    PROVE  Inv'
BY DEF Inv, RegistryOK, OthersOK, TypeOK, NoOrphanWaiter, HistoryIsTrue, NextIdIsFree

LEMMA EndedSettles ==
    ASSUME NEW f, NEW status, status # "none"
    PROVE  Settles(f, Ended(f, status))
BY DEF Settles, Ended

\* Releasing one request, whatever its status, settles futures and nothing else.
LEMMA ReleaseSettles ==
    ASSUME NEW r, RegistryOK(r), NEW id \in Ids, NEW status \in Statuses,
           NEW settled \in FuturesOf(status)
    PROVE  LET q == Release(r, id, status, settled)
           IN  /\ RegistryOK(q)
               /\ Settles(r.future, q.future)
               /\ q.future[id] # "open"
               /\ q.future[id] = IF IsPending(r, id) THEN settled ELSE r.future[id]
               /\ r.pending = <<>> => q.pending = <<>>
<1>1. settled # "none" /\ settled # "open"
  BY DEF FuturesOf, Statuses
<1>2. r.future[id] = "open" <=> IsPending(r, id)
  BY DEF RegistryOK, WaitersAreKnown
<1>3. QED
  BY <1>1, <1>2, ReleaseOK DEF Settles

LEMMA InitInv == Init => Inv
<1> SUFFICES ASSUME Init PROVE Inv
  OBVIOUS
<1>1. RegistryOK(registry) /\ registry.future = [id \in Ids |-> "none"] /\ registry.pending = <<>>
  BY EmptyOK DEF Init, EmptyRegistry
<1>2. OthersOK
  <2>1. /\ phase \in [Ids -> Phases] /\ outcome \in [Ids -> Outcomes]
        /\ wire \subseteq Ids /\ answered \subseteq Ids
    BY DEF Init, Phases, InFlight, Outcomes
  <2>2. inbound \in Seq(Messages) /\ extra \in Nat
    BY DEF Init
  <2>3. closing \in BOOLEAN /\ serverUp \in BOOLEAN /\ stalled \in BOOLEAN
    BY DEF Init
  <2>4. QED
    BY <2>1, <2>2, <2>3 DEF Init, OthersOK
<1>3. ClosedReleasesAll /\ OutcomeIsTrue
  BY <1>1 DEF Init, ClosedReleasesAll, OutcomeIsTrue, Open
<1>4. QED
  BY <1>1, <1>2, <1>3 DEF Inv, RegistryOK, OthersOK, TypeOK, NoOrphanWaiter, HistoryIsTrue,
                          NextIdIsFree

-----------------------------------------------------------------------------
(* The steps of a task *)

LEMMA RequestInv ==
    ASSUME Inv, NEW id \in Ids, Request(id)
    PROVE  Inv'
<1>1. RegistryOK(registry) /\ TypeOK /\ OutcomeIsTrue
  BY InvRegistryOK DEF Inv
<1>2. id = NextId(registry) /\ registry' = Register(registry)
  BY DEF Request
<1>3. /\ RegistryOK(registry')
      /\ registry.future[id] = "none"
      /\ registry'.future = [registry.future EXCEPT ![id] = "open"]
  BY <1>1, <1>2, RegisterOK
<1>4. registry.future \in [Ids -> Futures]
  BY <1>1 DEF RegistryOK, Registries
<1>5. OthersOK'
  BY DEF Inv, TypeOK, OthersOK, Request, Enter, Phases, InFlight, server
<1>6. ClosedReleasesAll'
  BY DEF Request, ClosedReleasesAll
<1>7. OutcomeIsTrue'
  BY <1>1, <1>3, <1>4 DEF TypeOK, OutcomeIsTrue, Open, Request, Enter
<1>8. QED
  BY <1>3, <1>5, <1>6, <1>7, InvParts

\* The steps of a task in flight that leave the registry alone.
LEMMA WritingInv ==
    ASSUME Inv, NEW id \in Ids,
           BeginWrite(id) \/ EndWrite(id) \/ BreakWrite(id) \/ CancelWrite(id)
    PROVE  Inv'
<1>1. RegistryOK(registry) /\ TypeOK /\ OutcomeIsTrue
  BY InvRegistryOK DEF Inv
<1>2. /\ UNCHANGED <<registry, outcome, connection>>
      /\ phase[id] \in InFlight
      /\ \E p \in InFlight : Enter(id, p)
  BY DEF BeginWrite, EndWrite, BreakWrite, CancelWrite, InFlight, Holding, server
<1>3. OthersOK'
  <2>1. phase' \in [Ids -> Phases]
    BY <1>1, <1>2 DEF TypeOK, Enter, Phases
  <2>2. QED
    BY <2>1, <1>1 DEF TypeOK, OthersOK, BeginWrite, EndWrite, BreakWrite, CancelWrite, server
<1>4. ClosedReleasesAll'
  BY <1>2 DEF Inv, ClosedReleasesAll
<1>5. Settles(registry.future, registry'.future)
  BY <1>1, <1>2 DEF Settles
<1>6. OutcomeIsTrue'
  BY <1>1, <1>2, <1>5, EnteringKeepsOutcomes
<1>7. QED
  BY <1>1, <1>2, <1>3, <1>4, <1>6, InvParts

\* A task that gives up: cancelled, or timed out.
LEMMA GivingUpInv ==
    ASSUME Inv, NEW id \in Ids, Cancel(id) \/ UnwindWrite(id) \/ Timeout(id)
    PROVE  Inv'
<1>1. RegistryOK(registry) /\ TypeOK /\ OutcomeIsTrue /\ ClosedReleasesAll
  BY InvRegistryOK DEF Inv
<1>2. /\ UNCHANGED <<connection, closing, dispatcher, server>>
      /\ phase[id] \in InFlight
  BY DEF Cancel, UnwindWrite, Timeout, InFlight, Holding
<1>3. registry.future[id] \in Futures \ {"none"}
  BY <1>1, <1>2 DEF RegistryOK, Registries, OutcomeIsTrue, InFlight, Holding
<1>4. PICK status \in {"cancelled", "timed_out"}, o \in Futures \cup {"timed_out"} :
        /\ registry' = Release(registry, id, status, "cancelled")
        /\ Return(id, o)
        /\ o = IF status = "cancelled" THEN "cancelled"
               ELSE IF IsPending(registry, id) THEN "timed_out" ELSE registry.future[id]
  BY <1>3 DEF Cancel, UnwindWrite, Timeout, Futures
<1>5. "cancelled" \in FuturesOf(status) /\ status \in Statuses
  BY DEF FuturesOf, Statuses
<1>6. /\ RegistryOK(registry')
      /\ Settles(registry.future, registry'.future)
      /\ registry'.future[id] # "open"
      /\ registry'.future[id] = IF IsPending(registry, id) THEN "cancelled"
                                                          ELSE registry.future[id]
      /\ registry.pending = <<>> => registry'.pending = <<>>
  BY <1>1, <1>4, <1>5, ReleaseSettles
<1>7. /\ o \in Outcomes \ {"none"}
      /\ o = "timed_out" => registry'.future[id] = "cancelled"
      /\ o \in {"result", "error", "failed", "closed"} => registry'.future[id] = o
  BY <1>3, <1>4, <1>6 DEF Futures, Outcomes
<1>8. OutcomeIsTrue'
  BY <1>1, <1>2, <1>4, <1>6, <1>7, ReturningKeepsOutcomes
<1>9. OthersOK'
  BY <1>1, <1>2, <1>4, <1>7 DEF TypeOK, OthersOK, Return, Enter, Phases, server
<1>10. ClosedReleasesAll'
  BY <1>1, <1>2, <1>6 DEF ClosedReleasesAll
<1>11. QED
  BY <1>6, <1>8, <1>9, <1>10, InvParts

LEMMA ResumeInv ==
    ASSUME Inv, NEW id \in Ids, Resume(id)
    PROVE  Inv'
<1>1. RegistryOK(registry) /\ TypeOK /\ OutcomeIsTrue /\ ClosedReleasesAll
  BY InvRegistryOK DEF Inv
<1>2. /\ UNCHANGED <<registry, connection, closing, dispatcher, server>>
      /\ phase[id] \in InFlight
      /\ Return(id, registry.future[id])
      /\ registry.future[id] # "open"
  BY DEF Resume, InFlight, Open
<1>3. registry.future[id] \in Outcomes \ {"none", "timed_out"}
  BY <1>1, <1>2 DEF RegistryOK, Registries, OutcomeIsTrue, InFlight, Holding, Futures, Outcomes
<1>4. Settles(registry.future, registry'.future)
  BY <1>1, <1>2 DEF Settles
<1>5. OutcomeIsTrue'
  BY <1>1, <1>2, <1>3, <1>4, ReturningKeepsOutcomes
<1>6. OthersOK'
  BY <1>1, <1>2, <1>3 DEF TypeOK, OthersOK, Return, Enter, Phases, server
<1>7. ClosedReleasesAll'
  BY <1>1, <1>2 DEF ClosedReleasesAll
<1>8. QED
  BY <1>1, <1>2, <1>5, <1>6, <1>7, InvParts

\* A write that cannot be made fails the request and then the connection.
LEMMA FailedWriteInv ==
    ASSUME Inv, NEW id \in Ids, RefuseWrite(id) \/ AbortWrite(id)
    PROVE  Inv'
<1> DEFINE q == Release(registry, id, "failed", "failed")
<1>1. RegistryOK(registry) /\ TypeOK /\ OutcomeIsTrue /\ ClosedReleasesAll
  BY InvRegistryOK DEF Inv
<1>2. /\ UNCHANGED <<dispatcher, server>>
      /\ phase[id] \in InFlight
      /\ FailConnection(q)
      /\ Return(id, "write_error")
  BY DEF RefuseWrite, AbortWrite, InFlight, Holding
<1>3. "failed" \in FuturesOf("failed") /\ "failed" \in Statuses
  BY DEF FuturesOf, Statuses
<1>4. /\ RegistryOK(q)
      /\ Settles(registry.future, q.future)
      /\ q.future[id] # "open"
      /\ registry.pending = <<>> => q.pending = <<>>
  BY <1>1, <1>3, ReleaseSettles
<1> HIDE DEF q
<1>5. /\ RegistryOK(registry')
      /\ registry'.pending = <<>>
      /\ registry'.future = Ended(q.future, "failed")
      /\ connection' \in {"closed", "failed"}
      /\ closing' \in BOOLEAN
  BY <1>1, <1>2, <1>4, FailConnectionOK DEF ClosedReleasesAll
<1>6. /\ Settles(registry.future, registry'.future)
      /\ registry'.future[id] # "open"
  BY <1>4, <1>5 DEF Settles, Ended
<1>7. OutcomeIsTrue'
  BY <1>1, <1>2, <1>6, ReturningKeepsOutcomes
<1>8. OthersOK'
  BY <1>1, <1>2, <1>5 DEF TypeOK, OthersOK, Return, Enter, Phases, Outcomes, server
<1>9. ClosedReleasesAll'
  BY <1>5 DEF ClosedReleasesAll
<1>10. QED
  BY <1>5, <1>7, <1>8, <1>9, InvParts

-----------------------------------------------------------------------------
(* The steps of the server, of the dispatcher and of close() *)

LEMMA ServerInv ==
    ASSUME Inv, (\E id \in Ids : Answer(id)) \/ SendExtra \/ ServerExit \/ Unstall
    PROVE  Inv'
<1>1. RegistryOK(registry) /\ TypeOK /\ OutcomeIsTrue /\ ClosedReleasesAll
  BY InvRegistryOK DEF Inv
<1>2. UNCHANGED <<registry, phase, outcome, connection, closing, dispatcher, wire>>
  BY DEF Answer, SendExtra, ServerExit, Unstall
<1>3. ASSUME NEW m \in Messages, Send(m)
      PROVE  inbound' \in Seq(Messages)
  BY <1>1, <1>3 DEF TypeOK, Send
<1>4. /\ inbound' \in Seq(Messages)
      /\ answered' \subseteq Ids
      /\ serverUp' \in BOOLEAN /\ stalled' \in BOOLEAN
      /\ extra' \in Nat
  <2>1. CASE \E id \in Ids : Answer(id)
    <3>1. PICK id \in Ids : Answer(id)
      BY <2>1
    <3>2. PICK type \in ResponseTypes : Send([type |-> type, id |-> id])
      BY <3>1 DEF Answer
    <3>3. [type |-> type, id |-> id] \in Messages
      BY DEF Messages, MessageTypes, ResponseTypes
    <3>4. QED
      BY <3>1, <3>2, <3>3, <1>1, <1>3 DEF Answer, TypeOK
  <2>2. CASE SendExtra
    <3>1. PICK m \in Messages : Send(m)
      BY <2>2, RpcAssumption DEF SendExtra, Messages, MessageTypes
    <3>2. QED
      BY <3>1, <2>2, <1>1, <1>3 DEF SendExtra, TypeOK
  <2>3. CASE ServerExit \/ Unstall
    BY <2>3, <1>1 DEF ServerExit, Unstall, TypeOK
  <2>4. QED
    BY <2>1, <2>2, <2>3
<1>5. Settles(registry.future, registry'.future)
  BY <1>1, <1>2 DEF Settles
<1>6. OutcomeIsTrue'
  BY <1>1, <1>2, <1>5, SettlingKeepsOutcomes
<1>7. ClosedReleasesAll'
  BY <1>1, <1>2 DEF ClosedReleasesAll
<1>8. OthersOK'
  BY <1>1, <1>2, <1>4 DEF TypeOK, OthersOK
<1>9. QED
  BY <1>1, <1>2, <1>6, <1>7, <1>8, InvParts

LEMMA ReceiveTypes ==
    ASSUME TypeOK, NEW m, Receive(m)
    PROVE  /\ m \in Messages
           /\ inbound' \in Seq(Messages)
           /\ UNCHANGED <<phase, outcome, serverUp, stalled, wire, answered, extra>>
BY HeadTailProperties DEF TypeOK, Receive

\* Messages the loop survives.
LEMMA DeliveryInv ==
    ASSUME Inv, NEW m,
           DispatchResponse(m) \/ DispatchLateResponse(m) \/ DispatchRequest(m)
    PROVE  Inv'
<1>1. RegistryOK(registry) /\ TypeOK /\ OutcomeIsTrue /\ ClosedReleasesAll
  BY InvRegistryOK DEF Inv
<1>2. /\ Receive(m)
      /\ UNCHANGED <<connection, closing, dispatcher>>
  BY DEF DispatchResponse, DispatchLateResponse, DispatchRequest
<1>3. /\ m \in Messages
      /\ inbound' \in Seq(Messages)
      /\ UNCHANGED <<phase, outcome, serverUp, stalled, wire, answered, extra>>
  BY <1>1, <1>2, ReceiveTypes
<1>4. /\ RegistryOK(registry')
      /\ Settles(registry.future, registry'.future)
      /\ registry.pending = <<>> => registry'.pending = <<>>
  <2>1. CASE DispatchResponse(m)
    <3>1. registry' = Release(registry, m.id, "completed", m.type) /\ m.type \in ResponseTypes
      BY <2>1 DEF DispatchResponse
    <3>2. /\ m.id \in Ids /\ "completed" \in Statuses
          /\ m.type \in FuturesOf("completed")
      BY <1>3, <3>1 DEF Messages, ResponseTypes, Statuses, FuturesOf
    <3>3. QED
      BY <1>1, <3>1, <3>2, ReleaseSettles
  <2>2. CASE DispatchLateResponse(m)
    BY <2>2, <1>1 DEF DispatchLateResponse, Settles
  <2>3. CASE DispatchRequest(m)
    <3>1. registry' = Observe(registry, m.id) /\ m.id \in Ids
      BY <2>3, <1>3 DEF DispatchRequest, Messages
    <3>2. QED
      BY <1>1, <3>1, ObserveOK DEF Settles
  <2>4. QED
    BY <2>1, <2>2, <2>3
<1>5. OutcomeIsTrue'
  BY <1>1, <1>3, <1>4, SettlingKeepsOutcomes
<1>6. ClosedReleasesAll'
  BY <1>1, <1>2, <1>4 DEF ClosedReleasesAll
<1>7. OthersOK'
  BY <1>1, <1>2, <1>3 DEF TypeOK, OthersOK
<1>8. QED
  BY <1>4, <1>5, <1>6, <1>7, InvParts

\* What ends the loop, and close().
LEMMA EndInv ==
    ASSUME Inv, (\E m : DispatchBadResponse(m) \/ DispatchGarbage(m)) \/ DispatchEof \/ Close
    PROVE  Inv'
<1>1. RegistryOK(registry) /\ TypeOK /\ OutcomeIsTrue /\ ClosedReleasesAll
  BY InvRegistryOK DEF Inv
<1>2. /\ inbound' \in Seq(Messages)
      /\ UNCHANGED <<phase, outcome, serverUp, stalled, wire, answered, extra>>
      /\ dispatcher' \in {"running", "stopped"}
  <2>1. CASE \E m : DispatchBadResponse(m) \/ DispatchGarbage(m)
    BY <2>1, <1>1, ReceiveTypes DEF DispatchBadResponse, DispatchGarbage
  <2>2. CASE DispatchEof \/ Close
    BY <2>2, <1>1 DEF DispatchEof, Close, TypeOK, server
  <2>3. QED
    BY <2>1, <2>2
<1>3. /\ RegistryOK(registry')
      /\ registry'.pending = <<>>
      /\ \E status \in {"failed", "closed"} :
            registry'.future = Ended(registry.future, status)
      /\ connection' \in {"closed", "failed"}
      /\ closing' \in BOOLEAN
  <2>1. CASE (\E m : DispatchBadResponse(m) \/ DispatchGarbage(m)) \/ DispatchEof
    <3>1. FailConnection(registry)
      BY <2>1 DEF DispatchBadResponse, DispatchGarbage, DispatchEof
    <3>2. QED
      BY <3>1, <1>1, FailConnectionOK DEF ClosedReleasesAll
  <2>2. CASE Close
    <3>1. /\ registry' = ReleaseAll(registry, "closed")
          /\ connection' = "closed" /\ closing' = TRUE
      BY <2>2 DEF Close
    <3>2. QED
      BY <3>1, <1>1, ReleaseAllOK
  <2>3. QED
    BY <2>1, <2>2
<1>4. Settles(registry.future, registry'.future)
  BY <1>3, EndedSettles
<1>5. OutcomeIsTrue'
  BY <1>1, <1>2, <1>4, SettlingKeepsOutcomes
<1>6. ClosedReleasesAll'
  BY <1>3 DEF ClosedReleasesAll
<1>7. OthersOK'
  BY <1>1, <1>2, <1>3 DEF TypeOK, OthersOK
<1>8. QED
  BY <1>3, <1>5, <1>6, <1>7, InvParts

-----------------------------------------------------------------------------
(* The theorems *)

LEMMA NextInv == Inv /\ [Next]_vars => Inv'
<1> SUFFICES ASSUME Inv, [Next]_vars
             PROVE  Inv'
  OBVIOUS
<1>1. ASSUME NEW id \in Ids, Request(id) PROVE Inv'
  BY <1>1, RequestInv
<1>2. ASSUME NEW id \in Ids,
             BeginWrite(id) \/ EndWrite(id) \/ BreakWrite(id) \/ CancelWrite(id)
      PROVE  Inv'
  BY <1>2, WritingInv
<1>3. ASSUME NEW id \in Ids, Cancel(id) \/ UnwindWrite(id) \/ Timeout(id)
      PROVE  Inv'
  BY <1>3, GivingUpInv
<1>4. ASSUME NEW id \in Ids, Resume(id) PROVE Inv'
  BY <1>4, ResumeInv
<1>5. ASSUME NEW id \in Ids, RefuseWrite(id) \/ AbortWrite(id) PROVE Inv'
  BY <1>5, FailedWriteInv
<1>6. CASE (\E id \in Ids : Answer(id)) \/ SendExtra \/ ServerExit \/ Unstall
  BY <1>6, ServerInv
<1>7. ASSUME NEW m, DispatchResponse(m) \/ DispatchLateResponse(m) \/ DispatchRequest(m)
      PROVE  Inv'
  BY <1>7, DeliveryInv
<1>8. CASE (\E m : DispatchBadResponse(m) \/ DispatchGarbage(m)) \/ DispatchEof \/ Close
  BY <1>8, EndInv
<1>9. CASE UNCHANGED vars
  BY <1>9 DEF vars, Inv, TypeOK, NoOrphanWaiter, HistoryIsTrue, NextIdIsFree,
              ClosedReleasesAll, OutcomeIsTrue, Open
<1>10. QED
  BY <1>1, <1>2, <1>3, <1>4, <1>5, <1>6, <1>7, <1>8, <1>9 DEF Next, Dispatch

LEMMA SpecInv == Spec => []Inv
BY InitInv, NextInv, PTL DEF Spec

\* Every variable keeps its type, for every number of requests.
THEOREM TypeCorrect == Spec => []TypeOK
<1>1. Inv => TypeOK
  BY DEF Inv
<1>2. QED
  BY SpecInv, <1>1, PTL

\* No task ever waits for a future the registry has lost.
THEOREM NoWaiterIsOrphaned == Spec => []NoOrphanWaiter
<1>1. Inv => NoOrphanWaiter
  BY DEF Inv
<1>2. QED
  BY SpecInv, <1>1, PTL

\* The finalized history stays bounded and true, for every limit.
THEOREM HistoryStaysTrue == Spec => []HistoryIsTrue
<1>1. Inv => HistoryIsTrue
  BY DEF Inv
<1>2. QED
  BY SpecInv, <1>1, PTL

\* A closed or failed connection holds no pending request, and none comes later.
THEOREM CloseReleasesAll == Spec => []ClosedReleasesAll
<1>1. Inv => ClosedReleasesAll
  BY DEF Inv
<1>2. QED
  BY SpecInv, <1>1, PTL

\* request() never reports what did not happen to its request.
THEOREM OutcomesAreTrue == Spec => []OutcomeIsTrue
<1>1. Inv => OutcomeIsTrue
  BY DEF Inv
<1>2. QED
  BY SpecInv, <1>1, PTL

\* The allocator never hands out an id that is in use or in the history.
THEOREM IdsAreFresh == Spec => []NextIdIsFree
<1>1. Inv => NextIdIsFree
  BY DEF Inv
<1>2. QED
  BY SpecInv, <1>1, PTL

\* A future that was cancelled is waited for by nobody, and no entry of the
\* history takes its request for completed.
LEMMA CancelledIsKnownAsSuch ==
    ASSUME NEW r, RegistryOK(r), NEW id \in Ids, r.future[id] = "cancelled"
    PROVE  /\ ~IsPending(r, id)
           /\ IsFinalized(r, id) => FinalizedStatus(r, id) # "completed"
<1>1. ~IsPending(r, id)
  BY DEF RegistryOK, WaitersAreKnown
<1>2. ASSUME IsFinalized(r, id)
      PROVE  FinalizedStatus(r, id) # "completed"
  <2> DEFINE i == CHOOSE j \in DOMAIN r.finalized : r.finalized[j].id = id
  <2>1. i \in DOMAIN r.finalized /\ r.finalized[i].id = id
    BY <1>2 DEF IsFinalized
  <2> HIDE DEF i
  <2>2. "cancelled" \in FuturesOf(r.finalized[i].status)
    BY <2>1 DEF RegistryOK, HistoryIsAccurate
  <2>3. r.finalized[i].status # "completed"
    BY <2>2 DEF FuturesOf
  <2>4. QED
    BY <2>3 DEF FinalizedStatus, i
<1>3. QED
  BY <1>1, <1>2

\* Only the dispatcher takes a message off stdout.
LEMMA OnlyDispatchReceives ==
    ASSUME TypeOK, [Next]_vars, inbound # <<>>, inbound' = Tail(inbound)
    PROVE  Dispatch
<1>1. Len(inbound') < Len(inbound) /\ inbound \in Seq(Messages)
  BY DEF TypeOK
<1>2. inbound' # inbound /\ \A m : inbound' # Append(inbound, m)
  <2>1. inbound' # inbound
    BY <1>1
  <2>2. ASSUME NEW m, inbound' = Append(inbound, m)
        PROVE  FALSE
    <3>1. Len(Append(inbound, m)) = Len(inbound) + 1
      BY <1>1
    <3>2. Len(inbound) \in Nat
      BY <1>1
    <3>3. QED
      BY <2>2, <3>1, <3>2, <1>1
  <2>3. QED
    BY <2>1, <2>2
<1>3. ~UNCHANGED vars
  BY <1>2 DEF vars
<1>4. ASSUME NEW id \in Ids
      PROVE  /\ ~Request(id) /\ ~BeginWrite(id) /\ ~RefuseWrite(id) /\ ~EndWrite(id)
             /\ ~BreakWrite(id) /\ ~AbortWrite(id) /\ ~Cancel(id) /\ ~CancelWrite(id)
             /\ ~UnwindWrite(id) /\ ~Resume(id) /\ ~Timeout(id)
  BY <1>2 DEF Request, BeginWrite, RefuseWrite, EndWrite, BreakWrite, AbortWrite, Cancel,
              CancelWrite, UnwindWrite, Resume, Timeout, server
<1>5. ~SendExtra /\ \A id \in Ids : ~Answer(id)
  BY <1>2 DEF SendExtra, Answer, Send
<1>6. ~ServerExit /\ ~Unstall /\ ~DispatchEof /\ ~Close
  BY <1>2 DEF ServerExit, Unstall, DispatchEof, Close, server
<1>7. QED
  BY <1>3, <1>4, <1>5, <1>6 DEF Next

\* A late response is harmless as long as the history has its request: no
\* interleaving of releases lets the dispatcher take it for a bad one.
THEOREM LateResponsesAreHarmless == Spec => RememberedIsHarmless
<1> DEFINE Harmless == \A id \in Ids :
                LateResponse(id) /\ IsFinalized(registry, id) => connection' = "open"
<1>1. Inv /\ [Next]_vars => Harmless
  <2> SUFFICES ASSUME Inv, [Next]_vars, NEW id \in Ids, LateResponse(id),
                      IsFinalized(registry, id)
               PROVE  connection' = "open"
    OBVIOUS
  <2>1. /\ connection = "open" /\ Head(inbound).type \in ResponseTypes
        /\ Head(inbound).id = id /\ registry.future[id] = "cancelled"
    BY DEF LateResponse
  <2>2. ~IsPending(registry, id) /\ FinalizedStatus(registry, id) # "completed"
    BY <2>1, InvRegistryOK, CancelledIsKnownAsSuch
  <2>3. PICK m : \/ DispatchResponse(m) \/ DispatchLateResponse(m)
                 \/ DispatchBadResponse(m) \/ DispatchGarbage(m) \/ DispatchRequest(m)
    BY OnlyDispatchReceives DEF Inv, LateResponse, Dispatch
  <2>4. m = Head(inbound)
    BY <2>3 DEF DispatchResponse, DispatchLateResponse, DispatchBadResponse,
                DispatchGarbage, DispatchRequest, Receive
  <2>5. ~DispatchResponse(m) /\ ~DispatchBadResponse(m)
    BY <2>1, <2>2, <2>4 DEF DispatchResponse, DispatchBadResponse
  <2>6. ~DispatchGarbage(m) /\ ~DispatchRequest(m)
    BY <2>1, <2>4 DEF DispatchGarbage, DispatchRequest, ResponseTypes
  <2>7. UNCHANGED connection
    BY <2>3, <2>5, <2>6 DEF DispatchLateResponse
  <2>8. QED
    BY <2>1, <2>7
<1>2. QED
  BY SpecInv, <1>1, PTL DEF Spec, RememberedIsHarmless

-----------------------------------------------------------------------------
(***************************************************************************)
(* RpcRequests implements RequestOutcome: the futures of the registry are  *)
(* the fates, what request() returned are the reports, and every step of   *)
(* the connection is a step of the promise or a stutter.                   *)
(***************************************************************************)


\* The fate of the promise, as the mapping of RpcRequests writes it.
Fate == [id \in Ids |-> registry.future[id]]

LEMMA FateIsFuture == Inv => Fate = registry.future /\ Fate \in [Ids -> Futures]
BY DEF Inv, TypeOK, Registries, Fate

\* The same, of the next state.
LEMMA NextFate == Inv' => Fate' = registry'.future /\ Fate' \in [Ids -> Futures]
BY DEF Inv, TypeOK, Registries, Fate

\* A task that has not returned has an undecided report, and its request a fate.
LEMMA Untold ==
    ASSUME Inv, NEW id \in Ids, phase[id] \in InFlight
    PROVE  outcome[id] = "none" /\ registry.future[id] # "none"
BY DEF Inv, TypeOK, OutcomeIsTrue, InFlight, Holding

-----------------------------------------------------------------------------
(* One lemma for each action that is not a stutter *)

LEMMA RequestStarts ==
    ASSUME Inv, Inv', NEW id \in Ids, Request(id)
    PROVE  Promise!Start(id)
<1>1. /\ registry' = Register(registry)
      /\ id = NextId(registry) /\ connection = "open"
      /\ UNCHANGED <<connection, outcome>>
  BY DEF Request
<1>2. /\ registry.future[id] = "none"
      /\ registry'.future = [registry.future EXCEPT ![id] = "open"]
  BY <1>1, InvRegistryOK, RegisterOK
<1>3. Fate' = [Fate EXCEPT ![id] = "open"] /\ Fate[id] = "none"
  BY <1>2, FateIsFuture, NextFate
<1>4. QED
  BY <1>1, <1>3 DEF Promise!Start, Fate

LEMMA ResponseAnswers ==
    ASSUME Inv, Inv', NEW m, DispatchResponse(m)
    PROVE  \E id \in Ids : Promise!Answered(id)
<1>1. m \in Messages /\ m.type \in ResponseTypes /\ IsPending(registry, m.id)
  BY ReceiveTypes DEF DispatchResponse, Inv
<1>2. m.id \in Ids /\ m.type \in FuturesOf("completed")
  BY <1>1 DEF Messages, ResponseTypes, FuturesOf
<1>3. /\ registry' = Release(registry, m.id, "completed", m.type)
      /\ UNCHANGED <<connection, outcome>>
  BY DEF DispatchResponse, Receive
<1>4. registry.future[m.id] = "open"
  BY <1>1, <1>2 DEF Inv, NoOrphanWaiter, WaitersAreKnown
<1>5. /\ registry'.future[m.id] = m.type
      /\ \A j \in Ids \ {m.id} : registry'.future[j] = registry.future[j]
  BY <1>2, <1>3, <1>4, InvRegistryOK, ReleaseOK DEF Statuses
<1>6. Fate' = [Fate EXCEPT ![m.id] = m.type] /\ Fate[m.id] = "open"
  BY <1>4, <1>5, FateIsFuture, NextFate
<1>7. Promise!Answered(m.id)
  BY <1>1, <1>3, <1>6 DEF Promise!Answered, Promise!Answers, Fate, ResponseTypes
<1>8. QED
  BY <1>2, <1>7

\* What releasing one request does to the fates.
LEMMA ReleaseDecides ==
    ASSUME Inv, Inv', NEW id \in Ids, NEW status \in Statuses,
           NEW settled \in FuturesOf(status),
           registry' = Release(registry, id, status, settled)
    PROVE  /\ Fate' = Promise!Decide(Fate, id, settled)
           /\ IsPending(registry, id) <=> Fate[id] = "open"
<1>1. /\ registry'.future[id] = IF registry.future[id] = "open" THEN settled
                                                             ELSE registry.future[id]
      /\ \A j \in Ids \ {id} : registry'.future[j] = registry.future[j]
  BY InvRegistryOK, ReleaseOK
<1>2. Fate' = Promise!Decide(Fate, id, settled)
  BY <1>1, FateIsFuture, NextFate DEF Promise!Decide
<1>3. IsPending(registry, id) <=> Fate[id] = "open"
  BY FateIsFuture DEF Inv, NoOrphanWaiter, WaitersAreKnown
<1>4. QED
  BY <1>2, <1>3

LEMMA CancelGivesUp ==
    ASSUME Inv, Inv', NEW id \in Ids, Cancel(id) \/ UnwindWrite(id)
    PROVE  Promise!GivenUp(id)
<1>1. /\ registry' = Release(registry, id, "cancelled", "cancelled")
      /\ outcome' = [outcome EXCEPT ![id] = "cancelled"]
      /\ connection' = connection
      /\ phase[id] \in InFlight
  BY DEF Cancel, UnwindWrite, Return, InFlight, Holding
<1>2. outcome[id] = "none" /\ Fate[id] # "none"
  BY <1>1, Untold, FateIsFuture
<1>3. Fate' = Promise!Decide(Fate, id, "cancelled")
  BY <1>1, ReleaseDecides DEF Statuses, FuturesOf
<1>4. QED
  BY <1>1, <1>2, <1>3 DEF Promise!GivenUp, Promise!Tell, Fate

LEMMA ResumeReports ==
    ASSUME Inv, Inv', NEW id \in Ids, Resume(id)
    PROVE  Promise!Reported(id)
<1>1. /\ registry' = registry /\ connection' = connection
      /\ outcome' = [outcome EXCEPT ![id] = registry.future[id]]
      /\ phase[id] \in InFlight /\ registry.future[id] # "open"
  BY DEF Resume, Return, InFlight, Open
<1>2. outcome[id] = "none" /\ Fate[id] # "none" /\ Fate[id] # "open"
  BY <1>1, Untold, FateIsFuture
<1>3. Fate' = Fate /\ outcome' = [outcome EXCEPT ![id] = Fate[id]]
  BY <1>1, FateIsFuture, NextFate
<1>4. QED
  BY <1>1, <1>2, <1>3 DEF Promise!Reported, Promise!Tell, Fate

LEMMA TimeoutTells ==
    ASSUME Inv, Inv', NEW id \in Ids, Timeout(id)
    PROVE  Promise!TimedOut(id) \/ Promise!Reported(id)
<1>1. /\ registry' = Release(registry, id, "timed_out", "cancelled")
      /\ connection' = connection
      /\ outcome' = [outcome EXCEPT ![id] = IF IsPending(registry, id) THEN "timed_out"
                                            ELSE registry.future[id]]
      /\ phase[id] \in InFlight
  BY DEF Timeout, Return, InFlight
<1>2. outcome[id] = "none" /\ Fate[id] # "none"
  BY <1>1, Untold, FateIsFuture
<1>3. /\ Fate' = Promise!Decide(Fate, id, "cancelled")
      /\ IsPending(registry, id) <=> Fate[id] = "open"
  BY <1>1, ReleaseDecides DEF Statuses, FuturesOf
<1>4. CASE Fate[id] = "open"
  <2>1. /\ Fate' = [Fate EXCEPT ![id] = "cancelled"]
        /\ outcome' = [outcome EXCEPT ![id] = "timed_out"]
    BY <1>1, <1>3, <1>4 DEF Promise!Decide
  <2>2. QED
    BY <1>1, <1>2, <1>4, <2>1 DEF Promise!TimedOut, Promise!Tell, Fate
<1>5. CASE Fate[id] # "open"
  <2>1. /\ Fate' = Fate
        /\ outcome' = [outcome EXCEPT ![id] = Fate[id]]
    BY <1>1, <1>3, <1>5, FateIsFuture DEF Promise!Decide
  <2>2. QED
    BY <1>1, <1>2, <1>5, <2>1 DEF Promise!Reported, Promise!Tell, Fate
<1>6. QED
  BY <1>4, <1>5

\* Ending every open request of some registry, in the words of the promise.
LEMMA EndedIsEndAll ==
    ASSUME NEW f \in [Ids -> Futures], NEW what
    PROVE  Ended(f, what) = Promise!EndAll(f, what)
BY DEF Ended, Promise!EndAll

LEMMA FailedWriteEnds ==
    ASSUME Inv, Inv', NEW id \in Ids, RefuseWrite(id) \/ AbortWrite(id)
    PROVE  Promise!Unwritten(id)
<1> DEFINE q == Release(registry, id, "failed", "failed")
<1>1. /\ FailConnection(q)
      /\ outcome' = [outcome EXCEPT ![id] = "write_error"]
      /\ phase[id] \in InFlight
  BY DEF RefuseWrite, AbortWrite, Return, InFlight, Holding
<1>2. outcome[id] = "none" /\ Fate[id] # "none"
  BY <1>1, Untold, FateIsFuture
<1>3. /\ RegistryOK(q)
      /\ q.future[id] = IF registry.future[id] = "open" THEN "failed"
                                                      ELSE registry.future[id]
      /\ \A j \in Ids \ {id} : q.future[j] = registry.future[j]
      /\ registry.pending = <<>> => q.pending = <<>>
  BY InvRegistryOK, ReleaseOK DEF Statuses, FuturesOf
<1>4. connection # "open" => registry.pending = <<>>
  BY DEF Inv, ClosedReleasesAll
<1> HIDE DEF q
<1>5. /\ registry'.future = Ended(q.future, "failed")
      /\ connection' \in {"closed", "failed"}
  BY <1>1, <1>3, <1>4, FailConnectionOK DEF Inv
<1>6. q.future \in [Ids -> Futures]
  BY <1>3 DEF RegistryOK, Registries
<1>7. Ended(q.future, "failed") = Ended(registry.future, "failed")
  BY <1>3, <1>6, FateIsFuture DEF Ended
<1>8. Fate' = Promise!EndAll(Fate, "failed")
  BY <1>5, <1>7, FateIsFuture, NextFate, EndedIsEndAll
<1>9. QED
  BY <1>1, <1>2, <1>5, <1>8 DEF Promise!Unwritten, Promise!Tell, Fate

LEMMA EndStops ==
    ASSUME Inv, Inv',
           (\E m : DispatchBadResponse(m) \/ DispatchGarbage(m)) \/ DispatchEof \/ Close
    PROVE  Promise!Stop \/ UNCHANGED <<connection, Fate, outcome>>
<1>1. outcome' = outcome
  BY DEF DispatchBadResponse, DispatchGarbage, DispatchEof, Close, Receive
<1>2. CASE Close
  <2>1. /\ connection = "open" /\ connection' = "closed"
        /\ registry' = ReleaseAll(registry, "closed")
    BY <1>2 DEF Close
  <2>2. registry'.future = Ended(registry.future, "closed")
    BY <2>1, InvRegistryOK, ReleaseAllOK
  <2>3. Fate' = Promise!EndAll(Fate, "closed")
    BY <2>2, FateIsFuture, NextFate, EndedIsEndAll
  <2>4. QED
    BY <1>1, <2>1, <2>3 DEF Promise!Stop, Promise!Ends, Fate
<1>3. CASE FailConnection(registry)
  <2>1. CASE connection = "open"
    <3>1. registry' = ReleaseAll(registry, "failed") /\ connection' = "failed"
      BY <1>3, <2>1 DEF FailConnection
    <3>2. registry'.future = Ended(registry.future, "failed")
      BY <3>1, InvRegistryOK, ReleaseAllOK
    <3>3. Fate' = Promise!EndAll(Fate, "failed")
      BY <3>2, FateIsFuture, NextFate, EndedIsEndAll
    <3>4. QED
      BY <1>1, <2>1, <3>1, <3>3 DEF Promise!Stop, Promise!Ends, Fate
  <2>2. CASE connection # "open"
    <3>1. registry' = registry /\ connection' = connection
      BY <1>3, <2>2 DEF FailConnection
    <3>2. QED
      BY <1>1, <3>1 DEF Fate
  <2>3. QED
    BY <2>1, <2>2
<1>4. QED
  BY <1>2, <1>3 DEF DispatchBadResponse, DispatchGarbage, DispatchEof

\* The rest of the actions move messages, locks and tasks, and no fate.
LEMMA OthersStutter ==
    ASSUME Inv, Inv',
           \/ \E id \in Ids : \/ BeginWrite(id) \/ EndWrite(id) \/ BreakWrite(id)
                              \/ CancelWrite(id) \/ Answer(id)
           \/ \E m : DispatchLateResponse(m) \/ DispatchRequest(m)
           \/ SendExtra \/ ServerExit \/ Unstall \/ UNCHANGED vars
    PROVE  UNCHANGED <<connection, Fate, outcome>>
<1>1. CASE \E m : DispatchRequest(m)
  <2>1. PICK m : DispatchRequest(m)
    BY <1>1
  <2>2. /\ m.id \in Ids /\ registry' = Observe(registry, m.id)
        /\ UNCHANGED <<connection, outcome>>
    BY <2>1, ReceiveTypes DEF DispatchRequest, Inv, Messages
  <2>3. registry'.future = registry.future
    BY <2>2, InvRegistryOK, ObserveOK
  <2>4. QED
    BY <2>2, <2>3, FateIsFuture, NextFate
<1>2. CASE \E id \in Ids : \/ BeginWrite(id) \/ EndWrite(id) \/ BreakWrite(id)
                           \/ CancelWrite(id) \/ Answer(id)
  BY <1>2 DEF BeginWrite, EndWrite, BreakWrite, CancelWrite, Answer, Fate
<1>3. CASE (\E m : DispatchLateResponse(m)) \/ SendExtra \/ ServerExit \/ Unstall
           \/ UNCHANGED vars
  BY <1>3 DEF DispatchLateResponse, Receive, SendExtra, ServerExit, Unstall, vars, Fate
<1>4. QED
  BY <1>1, <1>2, <1>3

-----------------------------------------------------------------------------
LEMMA InitPromises == Init => Promise!Init
BY DEF Init, EmptyRegistry, Promise!Init

LEMMA StepPromises ==
    Inv /\ Inv' /\ [Next]_vars => [Promise!Next]_(Promise!vars)
<1> SUFFICES ASSUME Inv, Inv', [Next]_vars
             PROVE  [Promise!Next]_(Promise!vars)
  OBVIOUS
<1>1. ASSUME NEW id \in Ids, Request(id) PROVE Promise!Next
  BY <1>1, RequestStarts DEF Promise!Next
<1>2. ASSUME NEW m, DispatchResponse(m) PROVE Promise!Next
  BY <1>2, ResponseAnswers DEF Promise!Next
<1>3. ASSUME NEW id \in Ids, Cancel(id) \/ UnwindWrite(id) PROVE Promise!Next
  BY <1>3, CancelGivesUp DEF Promise!Next
<1>4. ASSUME NEW id \in Ids, Resume(id) PROVE Promise!Next
  BY <1>4, ResumeReports DEF Promise!Next
<1>5. ASSUME NEW id \in Ids, Timeout(id) PROVE Promise!Next
  BY <1>5, TimeoutTells DEF Promise!Next
<1>6. ASSUME NEW id \in Ids, RefuseWrite(id) \/ AbortWrite(id) PROVE Promise!Next
  BY <1>6, FailedWriteEnds DEF Promise!Next
<1>7. UNCHANGED <<connection, Fate, outcome>> => UNCHANGED Promise!vars
  BY DEF Promise!vars, Fate
<1>8. CASE (\E m : DispatchBadResponse(m) \/ DispatchGarbage(m)) \/ DispatchEof \/ Close
  BY <1>7, <1>8, EndStops DEF Promise!Next
<1>9. CASE \/ \E id \in Ids : \/ BeginWrite(id) \/ EndWrite(id) \/ BreakWrite(id)
                              \/ CancelWrite(id) \/ Answer(id)
           \/ \E m : DispatchLateResponse(m) \/ DispatchRequest(m)
           \/ SendExtra \/ ServerExit \/ Unstall \/ UNCHANGED vars
  BY <1>7, <1>9, OthersStutter
<1>10. QED
  BY <1>1, <1>2, <1>3, <1>4, <1>5, <1>6, <1>8, <1>9 DEF Next, Dispatch

\* The connection keeps the promise, for every number of requests.
THEOREM PromiseIsKept == Spec => KeepsPromise
BY InitPromises, StepPromises, SpecInv, PTL DEF Spec, KeepsPromise, Promise!Spec
=============================================================================
