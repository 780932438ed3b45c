CONSTANTS
    BodySize = 5
    MaxData = 3
    MaxTyped = 2
SPECIFICATION FairSpec
CHECK_DEADLOCK FALSE
INVARIANTS
    StaysInStep
    ScreenIsOutput
    TwoPiecesAreRead
    RequestsAreTextOnlyOnceRefused
PROPERTIES
    VisitsEnd
    ExitIsServed
