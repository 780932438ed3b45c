CONSTANTS
    ChunkSize = 2
    Keys = {"Q", "1", "2", "5", "0", "+", "_", "space", "x", "enter", "back", "esc"}
    MaxTyped = 4
SPECIFICATION FairSpec
CHECK_DEADLOCK FALSE
INVARIANTS
    LineIsWhatWasTyped
PROPERTIES
    KeysActInOrder
    QuitIsServed
