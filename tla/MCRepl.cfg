SPECIFICATION Spec
CONSTANTS
    Byte = 2
    FirstCapacity = 2
    LineRoom = 3
    Slack = 1
    Rooms = {100, 1000}
    Statements <- MCStatements
    Trees <- MCTrees
    Inputs <- MCInputs
INVARIANTS TypeOK MemoryIsCounted ChecksHold ListingIsTheProgram
PROPERTIES IsReadEval LinesAreRead
CHECK_DEADLOCK FALSE
