------------------------- MODULE EvidenceLifecycle --------------------------
(***************************************************************************)
(* What the evidence pipeline promises its operators, with no workers,     *)
(* leases, retries or locks: an uploaded asset is ingested once or fails   *)
(* for good, all its claims appear together, each claim is decided once,   *)
(* and the asset is complete from the moment its last claim is decided.    *)
(***************************************************************************)
CONSTANTS Assets, Claims, Source, Decisions

VARIABLES
    status,     \* the status of each asset on the evidence page
    verdict     \* the status of each claim in the review queue

vars == <<status, verdict>>

ClaimsOf(a) == {c \in Claims : Source[c] = a}

Init ==
    /\ status = [a \in Assets |-> "absent"]
    /\ verdict = [c \in Claims |-> "absent"]

Upload(a) ==
    /\ status[a] = "absent"
    /\ status' = [status EXCEPT ![a] = "queued"]
    /\ UNCHANGED verdict

Ingest(a) ==
    /\ status[a] = "queued"
    /\ status' = [status EXCEPT ![a] =
                    IF ClaimsOf(a) = {} THEN "complete" ELSE "needs_review"]
    /\ verdict' = [c \in Claims |->
                     IF c \in ClaimsOf(a) THEN "candidate" ELSE verdict[c]]

Fail(a) ==
    /\ status[a] = "queued"
    /\ status' = [status EXCEPT ![a] = "failed"]
    /\ UNCHANGED verdict

LastUndecided(c) == \A d \in ClaimsOf(Source[c]) \ {c} : verdict[d] # "candidate"

Decide(c, d) ==
    /\ status[Source[c]] = "needs_review"
    /\ verdict[c] = "candidate"
    /\ verdict' = [verdict EXCEPT ![c] = d]
    /\ status' = IF LastUndecided(c)
                 THEN [status EXCEPT ![Source[c]] = "complete"]
                 ELSE status

Next ==
    \/ \E a \in Assets : Upload(a) \/ Ingest(a) \/ Fail(a)
    \/ \E c \in Claims, d \in Decisions : Decide(c, d)

Spec == Init /\ [][Next]_vars
=============================================================================
