SPECIFICATION FairSpec
CONSTANTS
    left = left
    right = right
    fresh = fresh
    None = None
    Existing <- MCExisting
    NewIds <- MCNewIds
    MaxBodies = 3
    MaxUser = 2
    MaxTrouble = 1
INVARIANTS OverwritesShown OwnWritesStay
PROPERTIES DraftKept ChangeNoticed
CHECK_DEADLOCK FALSE
