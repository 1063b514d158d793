SPECIFICATION Spec
CONSTANTS
    t1 = t1
    t2 = t2
    t3 = t3
    w1 = w1
    w2 = w2
    lead = lead
    other = other
    Task = {t1, t2, t3}
    NoTask = NoTask
    Worker = {w1, w2}
    NoWorker = NoWorker
    Person = {lead, other}
    Nobody = Nobody
    Execution = {x1}
    NoExecution = NoExecution
    Approvers <- MCApprovers
    Suits <- MCSuits
    Denied <- MCDenied
    Priority <- MCPriority
    Age <- MCAge
    Cost <- MCCost
    MaxTokens = 4
    MaxListed = 2
INVARIANTS
    TypeOK
    AssignedIsHeld
    ApprovalGate
    PlainTaskHolder
    BudgetKept
    CompletedExecutionRan
PROPERTIES
    PlainTaskSettlesOnce
