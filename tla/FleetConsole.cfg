SPECIFICATION FairSpec
CONSTANTS
    Key <- MCKey
    Apps <- MCApps
    Tagged <- MCTagged
    PageSize = 1
    Replicas = {r1, r2}
    MaxChanges = 1
    MaxSent = 2
    MaxUser = 3
    MaxFaults = 1
    MaxFails = 1
    None = None
INVARIANTS
    ConsoleInv
    PagesContinue
PROPERTIES
    NeverOlder
    CatchesUp
CHECK_DEADLOCK FALSE
