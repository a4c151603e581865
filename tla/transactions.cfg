SPECIFICATION FairSpec
CONSTANTS
    Procs = {p1, p2, p3}
    Seat <- TwoSeats
    Named = {ann}
INVARIANTS DecisionStillRight NoDuplicateRows
PROPERTIES StoreSpec OperationEnds
