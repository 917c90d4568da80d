\* Two workers and two reviewers on two files, every fault, one crash.
SPECIFICATION Spec
CONSTANTS
    JobCount = 2
    Workers = {w1, w2}
    Reviewers = {r1, r2}
    Claims <- AcmeClaims
    NoClaim = NoClaim
    Source <- TwoFiles
    Conflicts <- RuleAndException
    MaxAttempts = 3
    MaxCrashes = 1
    Faults = {"transient", "permanent", "slow"}
SYMMETRY Symmetry
INVARIANTS
    ExclusiveProcessing
    IngestedOnce
    AssetTracksJob
    ReviewStateExact
    Inv
PROPERTIES
    ImplementsLifecycle
    FencedByToken
    SettledForever
\* The uploads are bounded: the run ends when all are reviewed.
CHECK_DEADLOCK FALSE
