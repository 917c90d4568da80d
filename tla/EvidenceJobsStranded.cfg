\* A crash on the last attempt: the job never settles.
SPECIFICATION FairSpec
CONSTANTS
    JobCount = 2
    Workers = {w1}
    Reviewers = {r1}
    Claims <- AcmeClaims
    NoClaim = NoClaim
    Source <- TwoFiles
    Conflicts <- RuleAndException
    MaxAttempts = 2
    MaxCrashes = 1
    Faults = {"transient"}
PROPERTIES JobsSettle
\* The uploads are bounded: the run ends when all are reviewed.
CHECK_DEADLOCK FALSE
