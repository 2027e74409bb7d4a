---------------------------- MODULE TurnAggregation ----------------------------
(***************************************************************************)
(* The output of one turn assembled from its events (_turn_aggregation.py).*)
(* A text is a sequence of chunks; an item is a record of its id, its type *)
(* and its text, None where its payload carries none.  The state is that   *)
(* of TurnOutputState, its five dicts of fragments one function.           *)
(***************************************************************************)
EXTENDS Naturals, Sequences, SequencesExt

CONSTANTS Items,   \* the ids items have
          None     \* what a dict does not hold

\* The kinds of text, each with the type of the items it belongs to.
TypeOf == [agent |-> "agentMessage", command |-> "commandExecution",
           file_change |-> "fileChange", plan |-> "plan", reasoning |-> "reasoning"]

Texts == DOMAIN TypeOf

\* The notifications that bring a chunk of each.
DeltaMethods == [agent |-> {"item/agentMessage/delta"},
                 command |-> {"item/commandExecution/outputDelta"},
                 file_change |-> {"item/fileChange/outputDelta"},
                 plan |-> {"item/plan/delta"},
                 reasoning |-> {"item/reasoning/textDelta", "item/reasoning/summaryTextDelta"}]

EmptyOutput ==
    [order |-> <<>>, types |-> [i \in Items |-> None], items |-> [i \in Items |-> None],
     fragments |-> [k \in Texts |-> [i \in Items |-> None]], usage |-> None]

\* The first type an item is given stays, until the item itself is known.
EnsureSlot(s, i, type) ==
    [s EXCEPT !.order = IF Contains(@, i) THEN @ ELSE Append(@, i),
              !.types[i] = IF @ = None THEN type ELSE @]

\* Mutant of AppendFragment: a delta replaces what came before it.
AppendFragmentAnew(s, k, i, text) ==
    [EnsureSlot(s, i, TypeOf[k]) EXCEPT !.fragments[k][i] = <<text>>]

AppendFragment(s, k, i, text) ==
    [EnsureSlot(s, i, TypeOf[k]) EXCEPT
        !.fragments[k][i] = IF @ = None THEN <<text>> ELSE Append(@, text)]

RecordItem(s, item) ==
    [EnsureSlot(s, item.id, item.type) EXCEPT !.items[item.id] = item]

RecordItems(s, items) == FoldLeft(RecordItem, s, items)

\* A notification that was passed on raw may be a delta all the same.
ObserveRaw(s, event) ==
    LET of == {k \in Texts : event.method \in DeltaMethods[k]}
    IN  IF of = {} \/ ~({"itemId", "delta"} \subseteq DOMAIN event.params) THEN s
        ELSE AppendFragment(s, CHOOSE k \in of : TRUE, event.params["itemId"],
                            event.params["delta"])

\* observe_turn_event; every other event leaves the state alone.
ObserveTurnEvent(s, event) ==
    CASE event.kind = "delta" -> AppendFragment(s, event.of, event.item, event.text)
      [] event.kind \in {"item_started", "item_completed"} -> RecordItem(s, event.item)
      [] event.kind = "usage" -> [s EXCEPT !.usage = event.usage]
      [] event.kind = "raw" -> ObserveRaw(s, event)
      [] OTHER -> s

\* TurnOutputAggregator: the output an application gathers from the events it reads.
Aggregated(events) == FoldLeft(ObserveTurnEvent, EmptyOutput, events)

\* The items of the completion first, then the others as they were met.
ItemIds(s, authoritative) ==
    LET listed == [n \in DOMAIN authoritative |-> authoritative[n].id]
        add(ids, i) == IF Contains(ids, i) THEN ids ELSE Append(ids, i)
    IN  FoldLeft(add, <<>>, listed \o s.order)

\* The deltas, unless there were none or all of them were empty.
AssembleText(fragments, fallback) ==
    IF fragments = None THEN fallback
    ELSE LET text == FlattenSeq(fragments)
         IN  IF text # <<>> \/ fallback = None THEN text ELSE fallback

ItemAggregation(s, authoritative, i) ==
    LET known == RecordItems(s, authoritative).items[i]
        type == IF known = None THEN s.types[i] ELSE known.type
        fallback(k) == IF known = None \/ type # TypeOf[k] THEN None ELSE known.text
    IN  [id |-> i, type |-> type, item |-> known,
         text |-> [k \in Texts |-> AssembleText(s.fragments[k][i], fallback(k))]]

ItemAggregations(s, authoritative) ==
    LET ids == ItemIds(s, authoritative)
    IN  [n \in DOMAIN ids |-> ItemAggregation(s, authoritative, ids[n])]

StreamedItems(s) ==
    LET items == [n \in DOMAIN s.order |-> s.items[s.order[n]]]
    IN  SelectSeq(items, LAMBDA item : item # None)

\* build_turn_result: the items of the completion are recorded first.
BuildTurnResult(before, items) ==
    LET s == RecordItems(before, items)
    IN  [items |-> IF items # <<>> THEN items ELSE StreamedItems(s),
         aggregations |-> ItemAggregations(s, items),
         usage |-> s.usage]

\* What an aggregator shows before the completion, and makes of a completion that
\* brings no result of its own.
Snapshot(s) ==
    [items |-> StreamedItems(s), aggregations |-> ItemAggregations(s, <<>>), usage |-> s.usage]

\* _join_item_values: one text of a result, over its items.
JoinedText(result, k) ==
    LET texts == [n \in DOMAIN result.aggregations |-> result.aggregations[n].text[k]]
        given == SelectSeq(texts, LAMBDA text : text # None)
    IN  IF given = <<>> THEN None ELSE FlattenSeq(given)
=============================================================================
