\* A retrieval and a worker against the owner, the administrator and the clock;
\* three of the transactions of the engagement at a time.
SPECIFICATION MCSpec
CONSTANTS
    Retrievals = {r1}
    Workers = {w1}
    Segments = 2
    Free = Free
    MaxTime = 3
    MaxGrants = 2
    MaxTtl = 1
    RetentionDays = 2
    DeploymentUntil = 3
    Requests = {q1, q2, q3}
    Populations <- MCPopulations
INVARIANTS
    OutputsRestOnAuthority
    OnlyNewestLive
    ExposureBounded
    AggregateFirstIsSafe
    DeadlocksAreKnown
