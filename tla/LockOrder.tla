------------------------------- MODULE LockOrder -------------------------------
(***************************************************************************)
(* The order in which the transactions of one engagement lock its rows.    *)
(* PostgreSQL ends a cycle of transactions that wait for each other by     *)
(* failing one of them, so a request or a worker loses its work although   *)
(* nothing was wrong with it.  Two conventions meet here: the factory, the *)
(* qualification and the retrieval service lock the engagement first; the  *)
(* staleness cascade comes to the engagement last, through the workflows,  *)
(* the cases and the artifacts.                                            *)
(*                                                                         *)
(* A table's rows of the engagement are one row.  `populated` has the      *)
(* tables in which a bulk UPDATE finds something.                          *)
(***************************************************************************)
EXTENDS Naturals, Sequences

CONSTANTS
    Requests,
    Populations     \* which sets of tables may have rows for a bulk UPDATE

\* The lock modes of PostgreSQL: of an INSERT on what it references, of FOR SHARE, of
\* an UPDATE that leaves the key alone, and of FOR UPDATE and DELETE.
Modes == {"key", "share", "no_key", "update"}

Conflicting(a, b) ==
    \/ "update" \in {a, b}
    \/ {a, b} = {"share", "no_key"}
    \/ a = "no_key" /\ b = "no_key"

Lock(row) == <<row, "update", FALSE>>
Insert(row) == <<row, "key", FALSE>>
Share(row) == <<row, "share", FALSE>>
Change(row) == <<row, "no_key", FALSE>>
BulkUpdate(row) == <<row, "no_key", TRUE>>

\* _stale_economics_and_artifacts, and what every cascade does to the handoff.
Handoff == <<Lock("engagement"), BulkUpdate("factory")>>
EconomicsAndArtifacts == <<BulkUpdate("case"), BulkUpdate("artifact")>>
Authority == <<Lock("engagement"), Share("operator"), Lock("qualification")>>
WorkerAuthority ==
    <<Lock("engagement"), Share("binding"), Share("operator"), Lock("qualification")>>

review_claim ==
    <<Lock("claim"), Insert("engagement"), BulkUpdate("workflow")>>
    \o EconomicsAndArtifacts \o Handoff \o <<Lock("asset")>>

resolve_contradiction == <<Lock("contradiction")>> \o Handoff

generate_workflow ==
    <<BulkUpdate("workflow")>> \o EconomicsAndArtifacts \o Handoff

\* As approve_economic_case has it.
approve_workflow_first ==
    <<Lock("engagement"), Lock("workflow")>> \o EconomicsAndArtifacts \o Handoff
approve_workflow == <<Lock("workflow")>> \o EconomicsAndArtifacts \o Handoff

\* calculate_economic_case with a draft, and without one.
recalculate_case == <<Lock("case"), BulkUpdate("artifact")>> \o Handoff
calculate_case == <<Insert("engagement"), BulkUpdate("artifact")>> \o Handoff

approve_economic_case ==
    <<Lock("engagement"), Lock("case"), BulkUpdate("artifact")>> \o Handoff

generate_packet == <<BulkUpdate("artifact")>> \o Handoff

\* The operations of the handoff, and publication with its qualification.
change_handoff == <<Lock("engagement"), Lock("factory")>>
publish_package == <<Lock("engagement"), Lock("factory")>> \o Authority

transition_qualification == <<Lock("engagement"), Lock("qualification")>>

\* The grants are found with FOR UPDATE and revoked one by one.
GrantsThenEngagement == <<Lock("grant"), Lock("engagement")>>
LockGrants == <<Lock("engagement"), Lock("grant")>>
rotate_grant == LockGrants \o <<Lock("engagement"), Lock("grant")>>
revoke_grant == LockGrants
retrieve_package == LockGrants \o Authority

\* An upload to a qualified engagement.
upload_evidence == Authority \o <<Insert("engagement")>>

\* A worker's last transaction for a file, qualified or synthetic.
stage_qualified ==
    <<Lock("job")>> \o WorkerAuthority \o <<Change("asset"), Insert("engagement")>>
stage_synthetic == <<Lock("job"), Change("asset"), Insert("engagement")>>

bind_worker == <<Lock("binding"), Insert("engagement")>>

deactivate_service == <<Change("operator")>>

\* The rows go with the engagement, by ON DELETE CASCADE.
delete_engagement ==
    <<Lock("engagement"), Lock("job"), Lock("asset"), Lock("claim"), Lock("contradiction"),
      Lock("workflow"), Lock("case"), Lock("artifact"), Lock("factory"), Lock("grant"),
      Lock("qualification"), Lock("binding")>>

Plan ==
    [review_claim |-> review_claim, resolve_contradiction |-> resolve_contradiction,
     generate_workflow |-> generate_workflow, approve_workflow |-> approve_workflow,
     recalculate_case |-> recalculate_case, calculate_case |-> calculate_case,
     approve_economic_case |-> approve_economic_case, generate_packet |-> generate_packet,
     change_handoff |-> change_handoff, publish_package |-> publish_package,
     transition_qualification |-> transition_qualification, rotate_grant |-> rotate_grant,
     revoke_grant |-> revoke_grant, retrieve_package |-> retrieve_package,
     upload_evidence |-> upload_evidence, stage_qualified |-> stage_qualified,
     stage_synthetic |-> stage_synthetic, bind_worker |-> bind_worker,
     deactivate_service |-> deactivate_service, delete_engagement |-> delete_engagement]

Operations == DOMAIN Plan

VARIABLES
    populated,
    doing,      \* the operation of each request
    step,       \* how many of its locks it is past
    held        \* the locks of its transaction: <<row, mode>>

lockVars == <<populated, doing, step, held>>

LockInit ==
    /\ populated \in Populations
    /\ doing = [r \in Requests |-> "none"]
    /\ step = [r \in Requests |-> 0]
    /\ held = [r \in Requests |-> {}]

Underway(r) == doing[r] # "none" /\ step[r] < Len(Plan[doing[r]])

Wanted(r) == Plan[doing[r]][step[r] + 1]

\* The requests that r has to wait for.
Blockers(r) ==
    {q \in Requests \ {r} :
        /\ Underway(r)
        /\ \E lock \in held[q] :
              lock[1] = Wanted(r)[1] /\ Conflicting(lock[2], Wanted(r)[2])}

BeginRequest(r) ==
    /\ doing[r] = "none"
    /\ \E op \in Operations : doing' = [doing EXCEPT ![r] = op]
    /\ UNCHANGED <<populated, step, held>>

TakeLock(r) ==
    /\ Underway(r)
    /\ Blockers(r) = {}
    /\ Wanted(r)[3] => Wanted(r)[1] \in populated
    /\ held' = [held EXCEPT ![r] = @ \cup {<<Wanted(r)[1], Wanted(r)[2]>>}]
    /\ step' = [step EXCEPT ![r] = @ + 1]
    /\ UNCHANGED <<populated, doing>>

\* A bulk UPDATE of a table that has nothing to update.
FindNothing(r) ==
    /\ Underway(r)
    /\ Wanted(r)[3] /\ Wanted(r)[1] \notin populated
    /\ step' = [step EXCEPT ![r] = @ + 1]
    /\ UNCHANGED <<populated, doing, held>>

\* The commit; or a rollback, of a request that fails or that the database picks to
\* break a cycle.
EndRequest(r) ==
    /\ doing[r] # "none"
    /\ doing' = [doing EXCEPT ![r] = "none"]
    /\ step' = [step EXCEPT ![r] = 0]
    /\ held' = [held EXCEPT ![r] = {}]
    /\ UNCHANGED populated

LocksNext ==
    \E r \in Requests : BeginRequest(r) \/ TakeLock(r) \/ FindNothing(r) \/ EndRequest(r)

LockSpec == LockInit /\ [][LocksNext]_lockVars

-----------------------------------------------------------------------------
Waiting(S) == S # {} /\ \A r \in S : Blockers(r) \cap S # {}

\* Requests of which each waits for the next.
Cycle(S) == Waiting(S) /\ \A T \in SUBSET S : Waiting(T) => T = S

AggregateFirst ==
    {"change_handoff", "publish_package", "transition_qualification", "rotate_grant",
     "revoke_grant", "retrieve_package", "upload_evidence"}

\* The operations that lock the engagement and go back to a row which others lock
\* before it, or that have an INSERT's lock on the engagement to begin with.
OutOfOrder == {"review_claim", "calculate_case", "approve_economic_case", "bind_worker",
               "delete_engagement"}

\* An operation that locks the engagement before anything else is never part of a
\* deadlock, whatever runs beside it; the comment in rotate_retrieval_grant gives this
\* as the reason for its order.
AggregateFirstIsSafe ==
    \A S \in SUBSET Requests : Cycle(S) => \A r \in S : doing[r] \notin AggregateFirst

\* The others deadlock only with one of five that take the engagement out of order:
\* the rest of the cascade, and the worker, are safe among themselves.
DeadlocksAreKnown ==
    \A S \in SUBSET Requests : Cycle(S) => \E r \in S : doing[r] \in OutOfOrder
=============================================================================
