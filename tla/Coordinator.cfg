SPECIFICATION FairSpec
CONSTANTS
    Replicas <- MCReplicas
    Namespaces <- MCNamespaces
    Rank <- MCRank
    NoPod = NoPod
    MaxEvents = 4

INVARIANTS NoSelfEviction
PROPERTIES EventuallyCovered DeadReplicasForgotten
CHECK_DEADLOCK FALSE
