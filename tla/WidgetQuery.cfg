SPECIFICATION FairSpec
CONSTANTS
    poller = poller
    edited = edited
    tip = tip
    cpu = cpu
    blank = blank
    None = None
    Blank = blank
    Widgets <- MCWidgets
    Tips <- MCTips
    Keys <- MCKeys
    FirstKey <- MCFirstKey
    Debounced <- MCDebounced
    Polls <- MCPolls
    Concurrency = 2
    CacheSize = 1
    MaxChanges = 2
    MaxData = 2
    MaxTrouble = 1
INVARIANTS SchedulerInv OwnAnswer
PROPERTIES NeverOlder LoadingEnds
CHECK_DEADLOCK FALSE
