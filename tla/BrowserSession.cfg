SPECIFICATION Spec
CONSTANTS
    ta = ta
    tb = tb
    ann = ann
    bob = bob
    NoUser = NoUser
    Tabs <- MCTabs
    OidcUsers <- MCOidc
    BasicUsers <- MCBasic
    RefreshEnabled = TRUE
    LockKinds = {"web", "lease"}
    Inputs <- MCInputs
    MaxEvents = 4
    MaxTokens = 3
INVARIANTS
    SessionInv
    SignedOutStays
    TabsFollow
    CacheIsOwn
    LogoutNotCancelled
PROPERTIES
    PasswordStandsAlone
SYMMETRY MCSymmetry
CHECK_DEADLOCK FALSE
