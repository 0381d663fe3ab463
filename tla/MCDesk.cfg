SPECIFICATION FairSpec
CONSTANTS
    ada = ada
    bob = bob
    acme = acme
    serve = serve
    cli = cli
    tui = tui
    Refs = {"[[Acme]]", "[[Acme.md]]", "Acme Inc"}
    Link <- MCLink
    Paths = {"Acme.md", "Acme", "Acme.md.md"}
    Entities = {ada, bob, acme}
    Noted = {acme}
    Nobody = Nobody
    Commands = {serve, cli, tui}
    Serve = serve
    Screen = tui
    People = {ada, bob}
    TierWeight <- MCTierWeight
    CadenceDefault <- MCCadenceDefault
    Profiles <- MCProfiles
    Given <- MCGiven
    Unset = Unset
    Volatile = {"job.title", "person.lives"}
    EventWeight <- MCEventWeight
    Unit = 20
    Days = 2
    Nap = 1
    Budgets <- MCBudgets
INVARIANTS
    TypeOK
    AppliedStaysAway
    IdleGraphIsExact
    PinnedFirst
PROPERTIES
    OnlyDealingCalms
    GraphConverges
    MembersAreFound
CHECK_DEADLOCK FALSE
