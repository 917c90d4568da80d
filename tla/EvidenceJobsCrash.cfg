\* Three crashes, every fault and a refused commit: a job settles or is stranded.
SPECIFICATION FairSpec
CONSTANTS
    JobCount = 2
    Workers = {w1, w2}
    Reviewers = {r1}
    Claims <- AcmeClaims
    NoClaim = NoClaim
    Source <- OneFile
    Conflicts <- RuleAndException
    MaxAttempts = 3
    MaxCrashes = 3
    Faults = {"transient", "permanent", "slow"}
PROPERTIES JobsSettleOrStrand
\* The uploads are bounded: the run ends when all are reviewed.
CHECK_DEADLOCK FALSE
