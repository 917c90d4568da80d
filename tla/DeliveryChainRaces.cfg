\* Two requests overlap.
SPECIFICATION Spec
CONSTANTS
    Requests = {q1, q2}
    Claims = {k1, k2}
    Currents = {c1, c2}
    Targets = {t1}
    Cases = {e1, e2}
    Packets = {p1, p2}
    NoRow = NoRow
SYMMETRY Symmetry
VIEW Seen
INVARIANTS
    OneApprovedCase
    OneCurrentPacket
    FreshUnlessRaced
PROPERTIES
    StaleForever
\* Rows and claims are used up in the end.
CHECK_DEADLOCK FALSE
