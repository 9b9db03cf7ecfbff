SPECIFICATION Spec
CONSTANTS
    MaxMarks = 5
    MaxValue = 2
    Tables <- MCTables
INVARIANTS NothingSkipped ExactRangesMatch CheckIsSound
CHECK_DEADLOCK FALSE
