SPECIFICATION WireSpec
CONSTANTS
    None = None
    Junk = Junk
    Anything = Anything
    reader = reader
    writer = writer
    Callers = {reader, writer}
    Method <- MCMethod
    Scripts <- MCScripts
    Decisions <- MCDecisions
    MaxAttempts = 2
    ReadChunkBytes = 3
    MaxFrameBytes = 7
INVARIANTS FramesAreLines EndIsTruthful RetriesAreEarned
CHECK_DEADLOCK FALSE
