\* Two operations on the run at once, five in all, two crashes or failed saves.
CHECK_DEADLOCK FALSE  \* at rest once every operation is made and is over
SPECIFICATION Spec
CONSTANTS
    plan = plan
    approval = approval
    lint = lint
    build = build
    verify = verify
    lead = lead
    other = other
    NoStep = NoStep
    Step <- MCStep
    Approval = {approval}
    DependsOn <- MCDependsOn
    Place <- MCPlace
    MaxAttempts <- MCMaxAttempts
    Person = {lead, other}
    Approvers <- MCApprovers
    Cost <- MCCost
    Limit = 3
    Catalog <- MCCatalog
    Activation = {a1, a2}
    MaxBegun = 5
    MaxFaults = 2
SYMMETRY Alike
INVARIANTS
    TypeOK
    DependenciesFirst
    AttemptsBounded
    BudgetKept
    ReturnsBlocked
PROPERTIES
    SucceedsOnce
    SettledStays
    WalksTheGraph
