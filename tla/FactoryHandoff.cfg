\* A row of every kind and one more of any kind, under every upstream
\* change.
SPECIFICATION Spec
CONSTANTS
    Models = {m1, m2}
    Opportunities = {o1, o2}
    Readinesses = {r1, r2}
    Packages = {p1, p2}
    Keys = {k1, k2}
    NoKey = NoKey
    MaxVersion <- MCMaxVersion
    MaxCited = 1
    MaxRows = 5
CONSTRAINT FewRows
SYMMETRY Symmetry
INVARIANTS
    PackagesRestOnCurrentSources
    Inv
PROPERTIES
    ImplementsTriggers
    PublicationEndsForCause
\* Every row is used up in the end.
CHECK_DEADLOCK FALSE
