------------------------------ MODULE TurnStream ------------------------------
(***************************************************************************)
(* One turn as the client sees it (client.py): the generator that merges   *)
(* the notifications of a thread with its server requests, adapts those of *)
(* the turn and assembles its output, the pump that fans the events out to *)
(* the readers of the turn, and the low-level wait for the completion of   *)
(* the same turn.                                                          *)
(*                                                                         *)
(* The server says what one of a set of scripts has, with other turns on   *)
(* the same thread, other threads, and messages that the models refuse.    *)
(* The subscriptions are those of NotificationBus, here queues that end    *)
(* when the connection closes or when one of them overflows; a queue is    *)
(* named by what of the traffic it has not yet given.                      *)
(***************************************************************************)
EXTENDS Integers, FiniteSets, TurnTraffic

CONSTANTS Readers,       \* readers of the managed stream; Handle is one
          Handle,        \* the event iterator of the turn handle
          ItemKind,      \* of each item, the kind of its text
          Scripts,       \* what the server may say on the thread
          MaxAsks        \* bound: server requests of the thread

\* A script is a sequence of steps <<what, of which item>>.
IsScript(s) ==
    /\ s \in Seq({s[n] : n \in DOMAIN s})
    /\ \A n \in DOMAIN s :
          \/ s[n][1] \in {"delta", "empty", "item", "whole"} /\ s[n][2] \in Items
          \/ s[n][1] \in {"started", "usage", "status", "completed", "bare", "diff",
                          "unknown", "other", "elsewhere", "thread", "broken", "garbled"}

ASSUME TurnAssumption ==
    /\ Handle \in Readers
    /\ ItemKind \in [Items -> Texts]
    /\ MaxAsks \in Nat
    /\ None \notin {"thread", "other thread", "turn", "other turn"}
    /\ \A s \in Scripts : IsScript(s)

VARIABLES
    script,    \* what the server will say
    sent,      \* history: the notifications, and whether they are for this turn
    asks,      \* history: the server requests, likewise
    text,      \* history: of each item, what the server has of its text
    joined,    \* how many notifications precede the subscription
    open,      \* the subscriptions are open
    note, ask, \* the two read tasks: <<>> reading, <<n>> has the n-th, <<0>> at the end
    notes, asked,   \* how much of sent and of asks the read tasks have taken
    output,    \* the state of the adapter
    pump,      \* the managed stream: not started, running, or how it ended
    completion,   \* the items of the completion it ended with
    reader,    \* of each reader: its phase, and all that was put in its queue
    waiter     \* the task in wait_for_turn_completed

turnVars == <<script, sent, asks, text, joined, open, note, ask, notes, asked, output, pump,
          completion, reader, waiter>>

server == <<script, sent, asks, text, joined>>
stream == <<note, ask, notes, asked, output, pump, completion>>

\* What a queue holds: events, each the number of what it was made from, and the
\* marks of the end, _TURN_STREAM_END and _TurnStreamFailure.
End == <<"end", 0>>
Failure == <<"failure", 0>>

TurnInit ==
    /\ script \in Scripts
    /\ sent = <<>> /\ asks = <<>>
    /\ text = [i \in Items |-> None]
    /\ joined = 0
    /\ open = TRUE
    /\ note = <<>> /\ ask = <<>> /\ notes = 0 /\ asked = 0
    /\ output = EmptyOutput
    /\ pump = "none" /\ completion = <<>>
    /\ reader = [r \in Readers |-> [phase |-> "none", queue |-> <<>>, notes |-> 0, asks |-> 0]]
    /\ waiter = [phase |-> "none", completion |-> <<>>, usage |-> <<>>,
                 seen |-> 0, from |-> 0, latest |-> None]

-----------------------------------------------------------------------------
(* The server *)

\* The payload of an item; those of file changes and of reasoning carry no text.
Item(i, itemText) ==
    [id |-> i, type |-> TypeOf[ItemKind[i]],
     text |-> IF ItemKind[i] \in {"agent", "command", "plan"} THEN itemText ELSE None]

Grown(i, chunk) == [text EXCEPT ![i] = IF @ = None THEN chunk ELSE @ \o chunk]

\* The items the turn has by now, or, bare, none of them.
Listed(what) ==
    LET ids == SetToSeq({i \in Items : text[i] # None})
    IN  IF what = "bare" THEN <<>> ELSE [n \in DOMAIN ids |-> Item(ids[n], text[ids[n]])]

\* What a step may say of an item, once its text is text1.
ItemMessages(step, text1) ==
    LET i == step[2]
        whole == step[1] = "whole" \/ text[i] # None
    IN  IF step[1] \in {"delta", "empty"}
        THEN [method : DeltaMethods[ItemKind[i]],
              params : {[threadId |-> "thread", turnId |-> "turn", itemId |-> i,
                         delta |-> IF step[1] = "delta" THEN <<Len(sent) + 1>> ELSE <<>>]}]
        ELSE {[method |-> IF text[i] = None THEN "item/started" ELSE "item/completed",
               params |-> [threadId |-> "thread", turnId |-> "turn",
                           item |-> Item(i, IF whole THEN text1[i] ELSE None)]]}

\* What any other step says: of this turn, of its thread, of another turn or thread;
\* broken is a delta of another turn without its item, garbled a usage without the usage.
Message(what) ==
    CASE what = "started" ->
            [method |-> "turn/started", params |-> [threadId |-> "thread", turn |-> "turn"]]
      [] what = "usage" ->
            [method |-> "thread/tokenUsage/updated",
             params |-> [threadId |-> "thread", turnId |-> "turn", tokenUsage |-> Len(sent) + 1]]
      [] what = "garbled" ->
            [method |-> "thread/tokenUsage/updated",
             params |-> [threadId |-> "thread", turnId |-> "turn"]]
      [] what = "diff" ->
            [method |-> "turn/diff/updated",
             params |-> [threadId |-> "thread", turnId |-> "turn", diff |-> <<>>]]
      [] what = "unknown" ->
            [method |-> "turn/unknown", params |-> [threadId |-> "thread", turn |-> "turn"]]
      [] what \in {"completed", "bare"} ->
            [method |-> "turn/completed",
             params |-> [threadId |-> "thread", turn |-> "turn", items |-> Listed(what)]]
      [] what = "status" ->
            [method |-> "thread/status/changed",
             params |-> [threadId |-> "thread", status |-> "idle"]]
      [] what = "thread" -> [method |-> "thread/started", params |-> [thread |-> "thread"]]
      [] what = "other" ->
            [method |-> "turn/completed",
             params |-> [threadId |-> "thread", turn |-> "other turn", items |-> <<>>]]
      [] what = "elsewhere" ->
            [method |-> "thread/status/changed",
             params |-> [threadId |-> "other thread", status |-> "idle"]]
      [] what = "broken" ->
            [method |-> "item/agentMessage/delta",
             params |-> [threadId |-> "thread", turnId |-> "other turn"]]

\* What does not belong to the turn, and how the histories keep a message.
Foreign == {"thread", "other", "elsewhere", "broken"}

Recorded(message, mine) ==
    [method |-> message.method, params |-> message.params, mine |-> mine]

\* The next notification.  A chunk of text is the number of the notification that
\* brings it, in a delta or only with the whole item.
Notifies ==
    /\ open
    /\ Len(sent) < Len(script)
    /\ LET step == script[Len(sent) + 1]
           what == step[1]
           ofItem == what \in {"delta", "empty", "item", "whole"}
           text1 == CASE what \in {"delta", "whole"} -> Grown(step[2], <<Len(sent) + 1>>)
                      [] what \in {"empty", "item"} -> Grown(step[2], <<>>)
                      [] OTHER -> text
           messages == IF ofItem THEN ItemMessages(step, text1) ELSE {Message(what)}
       IN  /\ \E message \in messages :
                 sent' = Append(sent, Recorded(message, what \notin Foreign))
           /\ text' = text1
    /\ UNCHANGED <<script, asks, joined, open, reader, waiter, stream>>

Ask(what) ==
    CASE what = "approval" ->
            [method |-> "item/fileChange/requestApproval",
             params |-> [threadId |-> "thread", turnId |-> "turn", itemId |-> "item"]]
      [] what = "other" ->
            [method |-> "item/tool/requestUserInput",
             params |-> [threadId |-> "thread", turnId |-> "other turn", questions |-> <<>>]]
      [] what = "broken" ->
            [method |-> "item/fileChange/requestApproval", params |-> [threadId |-> "thread"]]

Asks ==
    /\ open /\ Len(asks) < MaxAsks
    /\ \E what \in {"approval", "other", "broken"} :
          asks' = Append(asks, Recorded(Ask(what), what = "approval"))
    /\ UNCHANGED <<script, sent, text, joined, open, reader, waiter, stream>>

\* The connection closes or fails, or a subscription lags behind.
CloseSubscriptions ==
    /\ open
    /\ open' = FALSE
    /\ UNCHANGED <<server, reader, waiter, stream>>

-----------------------------------------------------------------------------
(* The readers of a managed stream *)

\* What the generator has dealt with: what a read task still holds is not.
Handled(held, taken) == IF held \in {<<>>, <<0>>} THEN taken ELSE taken - 1

\* subscribe, of a stream that runs: _turn_streams has no other.  Where the reader
\* joined is a history.  It takes what is in its queue in order, when it likes.
\* Put publishes items to all of them, one after the other.
Subscribed(before, asksBefore) ==
    [phase |-> "reading", queue |-> <<>>, notes |-> before, asks |-> asksBefore]

Put(items) ==
    [r \in Readers |-> IF reader[r].phase = "reading"
                       THEN [reader[r] EXCEPT !.queue = @ \o items] ELSE reader[r]]

\* query() subscribes for its handle when the pump is made; others join later.
\* The subscription is made before the turn is started, or, by iter_turn_events,
\* at any time.
StartStream ==
    /\ pump = "none"
    /\ open
    /\ pump' = "running"
    /\ joined' = Len(sent)
    /\ notes' = joined'
    /\ asked' = Len(asks)
    /\ reader' = [reader EXCEPT ![Handle] = Subscribed(joined', asked')]
    /\ waiter.phase = "none"
    /\ UNCHANGED <<script, sent, asks, text, open, note, ask, output, completion, waiter>>

Join(r) ==
    /\ pump = "running"
    /\ reader[r].phase = "none"
    /\ reader' = [reader EXCEPT ![r] =
                      Subscribed(Handled(note, notes), Handled(ask, asked))]
    /\ UNCHANGED <<server, open, waiter, stream>>

\* A reader stops iterating: _unsubscribe.
Unsubscribe(r) ==
    /\ reader[r].phase = "reading"
    /\ reader' = [reader EXCEPT ![r] = [Subscribed(0, 0) EXCEPT !.phase = "gone"]]
    /\ UNCHANGED <<server, open, waiter, stream>>

-----------------------------------------------------------------------------
(* The generator and the pump *)

\* The first notification after another one that reaches a subscription.
NextOf(filter, after) ==
    LET them == {n \in DOMAIN sent : n > after /\ NotificationMatches(filter, sent[n])}
    IN  IF them = {} THEN <<>> ELSE <<CHOOSE n \in them : \A m \in them : n <= m>>

\* What a read task has when it is done: the item, or the end of its subscription.
Obtained(next) == IF next # <<>> THEN next ELSE <<0>>

\* A read task gets the next item, or finds its subscription at its end.
ReadNote ==
    LET next == NextOf(Filter(None, "thread", None), notes)
    IN  /\ pump = "running" /\ note = <<>>
        /\ next # <<>> \/ ~open
        /\ note' = Obtained(next)
        /\ notes' = IF next # <<>> THEN next[1] ELSE notes
        /\ UNCHANGED <<server, open, ask, asked, output, pump, completion, reader, waiter>>

ReadAsk ==
    /\ pump = "running" /\ ask = <<>>
    /\ IF asked < Len(asks)
       THEN ask' = <<asked + 1>> /\ asked' = asked + 1
       ELSE ~open /\ ask' = <<0>> /\ UNCHANGED asked
    /\ UNCHANGED <<server, open, note, notes, output, pump, completion, reader, waiter>>

\* What becomes of what the read tasks have.
AskEvent == IF ask \in {<<>>, <<0>>} THEN NoEvent ELSE AdaptTurnServerRequest(asks[ask[1]], "turn")

NoteEvent == IF note \in {<<>>, <<0>>} THEN NoEvent ELSE AdaptTurnNotification(sent[note[1]], "turn")

AskBreaks == ask = <<0>> \/ AskEvent = Refused

NoteBreaks == note = <<0>> \/ NoteEvent = Refused

Published(event, tag, held) ==
    IF event.kind \in {"none", "refused"} THEN <<>> ELSE << <<tag, held[1]>> >>

AdaptedAsks == Published(AskEvent, "ask", ask)

AdaptedNotes == Published(NoteEvent, "note", note)

Fail(items) == Put(Append(items, Failure))

\* Mutant of CloseStream: nobody is told of the end.
CloseStreamQuietly(items) == Put(items)

CloseStream(items) == Put(Append(items, End))

\* The end of either subscription before the completion was handled fails the
\* stream, whatever the other read task has; so does a message its model refuses,
\* one of another turn included.
StreamBreaks ==
    /\ pump = "running"
    /\ \/ /\ AskBreaks
          /\ reader' = Fail(<<>>)
          /\ UNCHANGED ask
       \/ /\ NoteBreaks /\ ~AskBreaks
          /\ reader' = Fail(AdaptedAsks)
          /\ ask' = <<>>
    /\ pump' = "failed"
    /\ UNCHANGED <<server, open, note, notes, asked, output, completion, waiter>>

\* Mutant of StreamYields: a notification handled together with a request is
\* observed, and not published.
StreamYieldsAsksOnly ==
    /\ pump = "running"
    /\ note # <<>> \/ ask # <<>>
    /\ ~NoteBreaks /\ ~AskBreaks
    /\ NoteEvent.kind # "completed"
    /\ output' = ObserveTurnEvent(output, NoteEvent)
    /\ reader' = Put(IF AdaptedAsks # <<>> THEN AdaptedAsks ELSE AdaptedNotes)
    /\ note' = <<>> /\ ask' = <<>>
    /\ UNCHANGED <<server, open, notes, asked, pump, completion, waiter>>

\* asyncio.wait returns with what is done by then: the request first.
StreamYields ==
    /\ pump = "running"
    /\ note # <<>> \/ ask # <<>>
    /\ ~NoteBreaks /\ ~AskBreaks
    /\ NoteEvent.kind # "completed"
    /\ output' = ObserveTurnEvent(output, NoteEvent)
    /\ reader' = Put(AdaptedAsks \o AdaptedNotes)
    /\ note' = <<>> /\ ask' = <<>>
    /\ UNCHANGED <<server, open, notes, asked, pump, completion, waiter>>

\* The completion of the turn: the result, BuildTurnResult(output, completion), the
\* event and the end, in one step.
StreamCompletes ==
    /\ pump = "running"
    /\ NoteEvent.kind = "completed" /\ ~AskBreaks
    /\ pump' = "result" /\ completion' = NoteEvent.items
    /\ reader' = CloseStream(AdaptedAsks \o AdaptedNotes)
    /\ note' = <<>> /\ ask' = <<>>
    /\ UNCHANGED <<server, open, notes, asked, output, waiter>>

\* The pump is cancelled at one of its awaits, as by a close() that is cancelled while it
\* waits for the pumps: the stream ends with what was published, and what the read
\* tasks have is lost.
CancelPump ==
    /\ pump = "running"
    /\ pump' = "cancelled"
    /\ reader' = CloseStream(<<>>)
    /\ UNCHANGED <<server, open, note, ask, notes, asked, output, completion, waiter>>

-----------------------------------------------------------------------------
(* wait_for_turn_completed, on two subscriptions of its own *)

StartWait ==
    /\ waiter.phase = "none" /\ pump = "none"
    /\ open
    /\ waiter' = [waiter EXCEPT !.phase = "waiting", !.from = Len(sent), !.seen = Len(sent)]
    /\ UNCHANGED <<server, open, reader, stream>>

OfTurn(method) == Filter(method, "thread", "turn")

WaiterReads ==
    /\ waiter.phase = "waiting"
    /\ \/ LET next == NextOf(OfTurn("thread/tokenUsage/updated"), waiter.seen)
          IN  /\ waiter.usage = <<>>
              /\ next # <<>> \/ ~open
              /\ waiter' = [waiter EXCEPT !.usage = Obtained(next),
                               !.seen = IF next # <<>> THEN next[1] ELSE @]
       \/ LET next == NextOf(OfTurn("turn/completed"), waiter.from)
          IN  /\ waiter.completion = <<>>
              /\ next # <<>> \/ ~open
              /\ waiter' = [waiter EXCEPT !.completion = Obtained(next)]
    /\ UNCHANGED <<server, open, reader, stream>>

\* The usage first: one at most at a wake-up, so that others may stay queued when
\* the completion is returned.  The end of either subscription, or a message that its
\* model refuses, is an error, even with the completion at hand.
WaiterWakes ==
    /\ waiter.phase = "waiting"
    /\ waiter.usage # <<>> \/ waiter.completion # <<>>
    /\ LET latest == IF waiter.usage = <<>> THEN waiter.latest ELSE waiter.usage[1]
           fails(held) == held # <<>> /\ \/ held = <<0>>
                                         \/ Parse(Notifications, sent[held[1]]) = "refused"
       IN  waiter' = IF fails(waiter.usage) \/ fails(waiter.completion)
                     THEN [waiter EXCEPT !.phase = "failed"]
                     ELSE [waiter EXCEPT !.usage = <<>>, !.latest = latest,
                               !.phase = IF waiter.completion # <<>> THEN "returned" ELSE @]
    /\ UNCHANGED <<server, open, reader, stream>>

-----------------------------------------------------------------------------
Pump == ReadNote \/ ReadAsk \/ StreamBreaks \/ StreamYields \/ StreamCompletes

Waiter == WaiterReads \/ WaiterWakes

TurnNext ==
    \/ Notifies \/ Asks \/ CloseSubscriptions
    \/ StartStream \/ Pump \/ CancelPump
    \/ StartWait \/ Waiter
    \/ \E r \in Readers : Join(r) \/ Unsubscribe(r)

TurnSpec == TurnInit /\ [][TurnNext]_turnVars

\* The pump with its read tasks, and the waiter with its own, are tasks of the loop;
\* nobody has to cancel the pump.
Fairness == WF_turnVars(Pump) /\ WF_turnVars(Waiter)

FairTurnSpec == TurnSpec /\ Fairness

-----------------------------------------------------------------------------
(* Properties *)

\* The numbers of a set, in their order.
Rank(n, ns) == Cardinality({m \in ns : m <= n})
InOrder(ns) == [i \in 1..Cardinality(ns) |-> CHOOSE n \in ns : Rank(n, ns) = i]

\* The events made from some traffic, in its order.
Of(tag, traffic, from, upTo) ==
    LET mine == InOrder({n \in from + 1 .. upTo : traffic[n].mine})
    IN  [i \in DOMAIN mine |-> <<tag, mine[i]>>]

Tagged(tag, events) ==
    LET ns == InOrder({n \in DOMAIN events : events[n][1] = tag})
    IN  [i \in DOMAIN ns |-> events[ns[i]]]

\* The notifications among the events of a reader.
Observed(events) ==
    LET notifications == Tagged("note", events)
    IN  [n \in DOMAIN notifications |->
            AdaptTurnNotification(sent[notifications[n][2]], "turn")]

\* Every reader of a turn is given the same events: all that was handled since it
\* joined and is of the turn, each once, the notifications in the order the server
\* sent them and its requests likewise; then one end, which tells a broken stream from
\* the others, and nothing after it: a cancelled stream ends like a completed one, only
\* without the event of the completion.  A stream only breaks when its subscriptions
\* did.  An aggregator of the handle's events shows, at any time, what
\* the stream itself would make of the turn.
ReadersAgree ==
    /\ pump = "failed" => ~open \/ AskBreaks \/ NoteBreaks
    /\ \A r \in Readers : reader[r].phase = "reading" =>
           LET events == reader[r].queue
               ends == CASE pump \in {"result", "cancelled"} -> <<End>>
                         [] pump = "failed" -> <<Failure>>
                         [] OTHER -> <<>>
           IN  /\ Tagged("note", events) = Of("note", sent, reader[r].notes, Handled(note, notes))
               /\ Tagged("ask", events) = Of("ask", asks, reader[r].asks, Handled(ask, asked))
               /\ Tagged("end", events) \o Tagged("failure", events) = ends
               /\ ends # <<>> => Last(events) = ends[1]
               /\ r = Handle =>
                      Snapshot(Aggregated(Observed(events))) = BuildTurnResult(output, <<>>)

Chunks(sequence) == IF sequence = None THEN <<>> ELSE sequence

\* The result of a turn is what the server produced.  A stream that was there when
\* the turn began has the whole text of every item, whether the completion lists
\* the items or not, and the last token usage; one that joined later has a tail of
\* each text, since what it saw of the deltas goes before the full text of the item.
ResultIsWhole ==
    pump = "result" =>
        LET result == BuildTurnResult(output, completion)
            fromStart == \A n \in 1..joined : ~sent[n].mine
            usages == {n \in joined + 1 .. Len(sent) : script[n][1] = "usage"}
            of(i) == {n \in DOMAIN result.aggregations : result.aggregations[n].id = i}
        IN  /\ \A i \in Items :
                /\ Cardinality(of(i)) <= 1
                /\ \A n \in of(i) :
                    LET got == Chunks(result.aggregations[n].text[ItemKind[i]])
                    IN  /\ result.aggregations[n].type = TypeOf[ItemKind[i]]
                        /\ IsSuffix(got, Chunks(text[i]))
                        /\ fromStart => got = Chunks(text[i])
                /\ (fromStart /\ text[i] # None) => of(i) # {}
            /\ \A k \in Texts :
                fromStart => ToSet(Chunks(JoinedText(result, k)))
                                 = UNION {ToSet(Chunks(text[i])) :
                                            i \in {j \in Items : ItemKind[j] = k}}
            /\ result.usage = IF usages = {} THEN None
                              ELSE CHOOSE n \in usages : \A m \in usages : m <= n

\* The completion of a turn is out, for whoever subscribed before it was sent.
CompletedAfter(n) == \E m \in DOMAIN sent : m > n /\ script[m][1] \in {"completed", "bare"}

\* Nobody waits for a turn for ever: once its completion is out or the
\* subscriptions are closed, the stream ends and its handle is told, and so is a
\* waiter of its own.
TurnsSettle ==
    /\ (pump = "running" /\ (CompletedAfter(joined) \/ ~open))
           ~> (/\ pump \in {"result", "failed", "cancelled"}
               /\ reader[Handle].phase = "gone" \/ {End, Failure} \cap ToSet(reader[Handle].queue) # {})
    /\ (waiter.phase = "waiting" /\ (CompletedAfter(waiter.from) \/ ~open))
           ~> waiter.phase \in {"returned", "failed"}
=============================================================================
