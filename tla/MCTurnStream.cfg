CONSTANTS
    None = None
    answer = answer
    patch = patch
    thought = thought
    Items = {answer, patch, thought}
    Readers = {handle, late}
    Handle = handle
    ItemKind <- MCItemKind
    Scripts <- MCScripts
    MaxAsks = 1
SPECIFICATION FairTurnSpec
INVARIANTS ReadersAgree ResultIsWhole
PROPERTY TurnsSettle
CHECK_DEADLOCK FALSE
