SPECIFICATION FairSpec
CONSTANTS
    serve = serve
    cli = cli
    api = api
    Writers = {serve, cli, api}
    Syncers = {serve, cli}
    Serve = serve
    Api = api
    Contacts = {ada, bob}
    MaxChanges = 3
    Profiles = {p, q}
    Elsewhere = Elsewhere
    NoUrl = NoUrl
    Budgets <- MCBudgets
INVARIANTS
    TypeOK
    TokenHonest
    MirrorWithinLedger
    MirrorLossBounded
    MisfiledOnlyIfMoved
PROPERTIES
    RepeatOnlyIfTwin
    EveryChangeArrives
    FullSyncHeals
    ShownProfileArrives
CHECK_DEADLOCK FALSE
