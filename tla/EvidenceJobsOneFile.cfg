\* A rule and its exception in one file.
SPECIFICATION FairSpec
CONSTANTS
    JobCount = 2
    Workers = {w1}
    Reviewers = {r1}
    Claims <- AcmeClaims
    NoClaim = NoClaim
    Source <- OneFile
    Conflicts <- RuleAndException
    MaxAttempts = 2
    MaxCrashes = 0
    Faults = {}
PROPERTIES EvidenceIngested
\* The uploads are bounded: the run ends when all are reviewed.
CHECK_DEADLOCK FALSE
