\* Each of the three components on its own small instance.
SPECIFICATION Spec
CONSTANTS
    Operators = {o1, o2}
    Kinds = {policies, profiles}
    Propagation = 2
    MaxSession = 4
    ProbeAge = 1
    LastTime = 8
    MaxSessions = 3
    MaxDrifts = 1
    Attempts = {a1, a2}
    Callbacks = {c1, c2, c3}
    Humans = {h1, h2}
    Approved = {h1}
    Nobody = Nobody
    ServiceCount = 1
    DesiredCount = 1
    MaxTasks = 3
    MaxRevisions = 2
    Exact = {1, 2}
INVARIANTS
    DenyOutlivesSessions
    FailedDeletionRestores
    OneSessionPerAttempt
    NothingElseRuns
PROPERTIES
    NoSessionAfterQualification
    SessionsOfTheActive
CHECK_DEADLOCK FALSE
