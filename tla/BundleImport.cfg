SPECIFICATION Spec
CONSTANTS
    board = board
    target = target
    latency = latency
    prom = prom
    mimir = mimir
    None = None
    Bundle <- MCBundle
    Definitions <- MCDefinitions
    Uses <- MCUses
    Links <- MCLinks
    Providers <- MCProviders
    Home = prom
    Accepts = {Old}
    Old = Old
    Edited = Edited
    Capacity = 4
    MaxIds = 2
    MaxTries = 2
    MaxClicks = 2
    MaxTrouble = 2
    Saved = {board, target}
INVARIANTS ImportInv ReplacesReviewed LinksAgree
PROPERTIES SavedAgainstVerified ImplementsLedger
CHECK_DEADLOCK FALSE
