CONSTANTS
    id = id
    Requests = {first, again}
    WireIds = {id}
    WireId <- MCWireId
    Matched = {first, again}
    None = None
    App = App
    Dispatcher = Dispatcher
    MaxInbound = 2
SPECIFICATION FairSpec
INVARIANTS AnsweredOnce FailedIsQuiet NoSpuriousDuplicate
PROPERTIES DispatcherNeverBlocks HandledIsAnswered
CHECK_DEADLOCK FALSE
