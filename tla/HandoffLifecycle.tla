-------------------------- MODULE HandoffLifecycle --------------------------
(***************************************************************************)
(* What the database itself enforces on the handoff rows of an engagement: *)
(* the status transitions the triggers of migration 9b0d4e7c2f11 let       *)
(* through, and the partial unique indexes.  A transaction that did        *)
(* anything else would end in an exception.                                *)
(***************************************************************************)
CONSTANTS Models, Readinesses, Opportunities, Packages

VARIABLE status

Rows == Models \cup Readinesses \cup Opportunities \cup Packages

(* The same trigger guards models and readiness assessments.               *)
VersionMoves ==
    {<<"ABSENT", "DRAFT">>, <<"DRAFT", "APPROVED">>, <<"DRAFT", "STALE">>,
     <<"APPROVED", "STALE">>}

OpportunityMoves ==
    {<<"ABSENT", "ASSESSED">>, <<"ASSESSED", "SELECTED">>,
     <<"ASSESSED", "REJECTED">>, <<"ASSESSED", "STALE">>,
     <<"SELECTED", "STALE">>}

PackageMoves ==
    {<<"ABSENT", "DRAFT">>, <<"DRAFT", "READY_FOR_REVIEW">>,
     <<"READY_FOR_REVIEW", "APPROVED">>, <<"APPROVED", "PUBLISHED">>,
     <<"PUBLISHED", "SUPERSEDED">>, <<"PUBLISHED", "REVOKED">>}
    \cup ({"DRAFT", "READY_FOR_REVIEW", "APPROVED"} \X {"REJECTED"})
    \cup ({"DRAFT", "READY_FOR_REVIEW", "APPROVED", "PUBLISHED"} \X {"STALE"})

MayMove(rows, moves) ==
    \A x \in rows : status'[x] # status[x] => <<status[x], status'[x]>> \in moves

(* At most one row of a kind is in force.                                  *)
Unique(rows, inForce) ==
    \A x, y \in rows : status[x] = inForce /\ status[y] = inForce => x = y

UniqueIndexes ==
    /\ Unique(Models, "APPROVED")
    /\ Unique(Readinesses, "APPROVED")
    /\ Unique(Opportunities, "SELECTED")
    /\ Unique(Packages, "PUBLISHED")

Init == status = [x \in Rows |-> "ABSENT"]

Next ==
    /\ MayMove(Models \cup Readinesses, VersionMoves)
    /\ MayMove(Opportunities, OpportunityMoves)
    /\ MayMove(Packages, PackageMoves)
    /\ UniqueIndexes'

Spec == Init /\ [][Next]_status
=============================================================================
