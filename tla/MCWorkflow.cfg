SPECIFICATION FairSpec
CONSTANTS
    Tasks = {t1}
    Workers = {w1, w2}
    Slots = {1, 2}
    Concurrency = 1
    N <- MCN
    End <- MCEnd
    Functions <- MCFunctions
    MaxFailures = 1
    MaxStops = 1
INVARIANTS
    TypeOK
    CalledOnce
PROPERTIES
    ImplementsOrder
    FinishedIsFinal
    Settles
CHECK_DEADLOCK FALSE
