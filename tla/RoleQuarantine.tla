--------------------------- MODULE RoleQuarantine ---------------------------
(***************************************************************************)
(* The retirement of the IAM role of a superseded worker: its quarantine,  *)
(* the evidence for it, the authorisation to drop it from the state of     *)
(* Terraform, the qualification of the next release on the strength of it, *)
(* and its deletion.                                                       *)
(*                                                                         *)
(* A command is a sequence of IAM calls; it can fail or die after any of   *)
(* them and be run again, and two operators can run commands at a time.    *)
(* A session is named by the time of its issue.  What a change of IAM      *)
(* takes to reach every session is bounded by the wait that the receipt    *)
(* records, counted as the code counts it, from the time the command has   *)
(* begun: Elapse lets no command that is applying a quarantine outlast it. *)
(* The operator of the runbook runs one quarantine at a time (Dedicated).  *)
(***************************************************************************)
EXTENDS Naturals, FiniteSets

CONSTANTS
    Operators,      \* who runs the commands
    Kinds,          \* kinds of grants a role can have: policies, instance profiles, ...
    Propagation,    \* propagation_wait_seconds
    MaxSession,     \* max_session_duration_seconds
    ProbeAge,       \* maximum_probe_age_seconds
    LastTime,       \* bound on the clock
    MaxSessions,    \* bound on the sessions that live at a time
    MaxDrifts       \* bound on how often Terraform puts the role back

ASSUME QuarantineAssumption ==
    /\ {Propagation, MaxSession, ProbeAge, LastTime, MaxSessions, MaxDrifts} \subseteq Nat
    /\ Propagation > 0 /\ MaxSession > 0 /\ LastTime > 0

\* No time: nothing denied, nothing captured.
Never == 0

VARIABLES
    now,
    role,           \* "present" or "deleted"
    trust,          \* "open": the role can be assumed; "closed"
    settled,        \* when the closing of the trust policy is in force everywhere
    deny,           \* the cutoff of the inline policy AWSRevokeOlderSessions
    granted,        \* the kinds of grants that the role has
    sessions,       \* the sessions that have not expired
    managed,        \* Terraform has the role in its state
    drifts,
    receipts,       \* what successful quarantines have returned
    evidence,       \* what has been sealed
    authorized,     \* verify-state-rm has authorised the removal from the state
    published,      \* the next release is qualified
    stranded,       \* a deletion was cut short
    at,             \* where the command of each operator is
    cutoff,         \* the cutoff that it installs or has read from its evidence
    captured,       \* the session captured for a quarantine
    left            \* the kinds of grants a quarantine has yet to strip

iam == <<role, trust, settled, deny, granted>>
outcomes == <<receipts, evidence, authorized, published>>
command == <<at, cutoff, captured, left>>
quarantineVars == <<now, role, trust, settled, deny, granted, sessions, managed, drifts, receipts,
                    evidence, authorized, published, stranded, at, cutoff, captured, left>>

Times == 1 .. LastTime

QuarantineTypeOK ==
    /\ now \in Times
    /\ role \in {"present", "deleted"} /\ trust \in {"open", "closed"}
    /\ settled \in Nat /\ deny \in {Never} \cup Times
    /\ granted \subseteq Kinds /\ sessions \subseteq Times
    /\ managed \in BOOLEAN /\ drifts \in 0 .. MaxDrifts
    /\ receipts \subseteq [cutoff : Times, captured : Times]
    /\ evidence \subseteq [cutoff : Times, probe : Times, state : {"retained", "deleted"}]
    /\ authorized \in BOOLEAN /\ published \in BOOLEAN /\ stranded \in BOOLEAN
    /\ at \in [Operators -> {"ready", "deny", "close", "strip", "verify",
                             "drop", "delete", "restore"}]
    /\ cutoff \in [Operators -> {Never} \cup Times]
    /\ captured \in [Operators -> {Never} \cup Times]
    /\ left \in [Operators -> SUBSET Kinds]

\* A worker of the prior release has been running, and holds a session.
QuarantineInit ==
    /\ now = 1
    /\ role = "present" /\ trust = "open" /\ settled = Never /\ deny = Never
    /\ granted = Kinds
    /\ sessions = {1}
    /\ managed = TRUE /\ drifts = 0
    /\ receipts = {} /\ evidence = {} /\ authorized = FALSE /\ published = FALSE
    /\ stranded = FALSE
    /\ at = [o \in Operators |-> "ready"]
    /\ cutoff = [o \in Operators |-> Never]
    /\ captured = [o \in Operators |-> Never]
    /\ left = [o \in Operators |-> {}]

\* Where a command is that has not returned the receipt of its quarantine.
Applying == {"deny", "close", "strip", "verify"}

Live(s, t) == t < s + MaxSession
PropagationDeadline(c) == c + Propagation
SessionExpiry(c) == c + Propagation + MaxSession

Finish(o) ==
    /\ at' = [at EXCEPT ![o] = "ready"]
    /\ cutoff' = [cutoff EXCEPT ![o] = Never]
    /\ captured' = [captured EXCEPT ![o] = Never]
    /\ left' = [left EXCEPT ![o] = {}]

GoTo(o, place) ==
    /\ at' = [at EXCEPT ![o] = place]
    /\ UNCHANGED <<cutoff, captured, left>>

\* Mutant: whether the role can still be assumed is not looked at.
LiveQuarantineGrants(c) ==
    /\ role = "present" /\ granted = {} /\ deny = c

\* The role as it is now agrees with the quarantine whose cutoff is c.
LiveQuarantine(c) ==
    /\ role = "present"
    /\ trust = "closed"
    /\ granted = {}
    /\ deny = c

-----------------------------------------------------------------------------
(* The surroundings: STS, Terraform, the clock.                            *)

Assume ==
    /\ role = "present"
    /\ trust = "open" \/ now < settled
    /\ Cardinality(sessions \cup {now}) <= MaxSessions
    /\ sessions' = sessions \cup {now}
    /\ UNCHANGED <<now, iam, managed, drifts, outcomes, stranded, command>>

\* Sessions expire.
Elapse ==
    /\ now < LastTime
    /\ \A o \in Operators :
        at[o] \in Applying => now + 1 < PropagationDeadline(cutoff[o])
    /\ now' = now + 1
    /\ sessions' = {s \in sessions : Live(s, now + 1)}
    /\ UNCHANGED <<iam, managed, drifts, outcomes, stranded, command>>

\* Somebody applies the configuration of the prior release again.
Drift ==
    /\ managed /\ role = "present"
    /\ drifts < MaxDrifts
    /\ drifts' = drifts + 1
    /\ trust' = "open" /\ granted' = Kinds
    /\ UNCHANGED <<now, role, settled, deny, sessions, managed, outcomes, stranded, command>>

-----------------------------------------------------------------------------
(* quarantine                                                              *)

\* "under the dedicated role-lifecycle operator"; the code keeps nobody else from it.
Dedicated == \A o \in Operators : at[o] \notin Applying

\* The cutoff is the time of the command.  The captured session must outlive the
\* propagation, for the probes are made with it.
StartQuarantine(o) ==
    /\ at[o] = "ready"
    /\ Dedicated
    /\ role = "present"
    /\ \E s \in sessions :
        /\ s < now
        /\ Live(s, PropagationDeadline(now))
        /\ captured' = [captured EXCEPT ![o] = s]
    /\ cutoff' = [cutoff EXCEPT ![o] = now]
    /\ left' = [left EXCEPT ![o] = Kinds]
    /\ at' = [at EXCEPT ![o] = "deny"]
    /\ UNCHANGED <<now, iam, sessions, managed, drifts, outcomes, stranded>>

PutRolePolicy(o) ==
    /\ at[o] = "deny" /\ role = "present"
    /\ deny' = cutoff[o]
    /\ GoTo(o, "close")
    /\ UNCHANGED <<now, role, trust, settled, granted, sessions, managed, drifts, outcomes,
                   stranded>>

UpdateAssumeRolePolicy(o) ==
    /\ at[o] = "close" /\ role = "present"
    /\ trust' = "closed"
    /\ settled' = IF trust = "open" THEN PropagationDeadline(cutoff[o]) ELSE settled
    /\ GoTo(o, "strip")
    /\ UNCHANGED <<now, role, deny, granted, sessions, managed, drifts, outcomes, stranded>>

\* One kind of grant after the other; nobody looks again at what has been stripped.
Strip(o) ==
    /\ at[o] = "strip" /\ role = "present"
    /\ \E k \in left[o] :
        /\ granted' = granted \ {k}
        /\ left' = [left EXCEPT ![o] = @ \ {k}]
    /\ at' = [at EXCEPT ![o] = IF left'[o] = {} THEN "verify" ELSE "strip"]
    /\ UNCHANGED <<now, role, trust, settled, deny, sessions, managed, drifts, outcomes, stranded,
                   cutoff, captured>>

\* The command reads everything back before it returns a receipt.
VerifyQuarantine(o) ==
    /\ at[o] = "verify"
    /\ LiveQuarantine(cutoff[o])
    /\ receipts' = receipts \cup {[cutoff |-> cutoff[o], captured |-> captured[o]]}
    /\ Finish(o)
    /\ UNCHANGED <<now, iam, sessions, managed, drifts, evidence, authorized, published, stranded>>

-----------------------------------------------------------------------------
(* Evidence, and what it authorises.                                       *)

\* The probes with the captured session are denied, after the propagation and before the
\* session expires.
ProbesDenied(r) ==
    /\ PropagationDeadline(r.cutoff) <= now
    /\ Live(r.captured, now)
    /\ role = "deleted" \/ r.captured < deny \/ granted = {}

Seal ==
    \E r \in receipts :
        /\ ProbesDenied(r)
        /\ evidence' = evidence \cup {[cutoff |-> r.cutoff, probe |-> now, state |-> "retained"]}
        /\ UNCHANGED <<now, iam, sessions, managed, drifts, receipts, authorized, published,
                       stranded, command>>

\* Evidence that the role is retained and quarantined, from recent probes, and so it is.
Retained(e) ==
    /\ e.state = "retained"
    /\ PropagationDeadline(e.cutoff) <= now
    /\ now <= e.probe + ProbeAge
    /\ LiveQuarantine(e.cutoff)

VerifyStateRm ==
    /\ managed
    /\ \E e \in evidence : Retained(e)
    /\ authorized' = TRUE
    /\ UNCHANGED <<now, iam, sessions, managed, drifts, receipts, evidence, published, stranded,
                   command>>

\* terraform state rm, some time after it was authorised.
RemoveFromState ==
    /\ authorized /\ managed
    /\ managed' = FALSE
    /\ UNCHANGED <<now, iam, sessions, drifts, outcomes, stranded, command>>

\* The record of the next release.  It cannot be applied while its configuration would
\* destroy the role (prevent_destroy).
Qualify ==
    /\ ~managed
    /\ \E e \in evidence : Retained(e) \/ (e.state = "deleted" /\ role = "deleted")
    /\ published' = TRUE
    /\ UNCHANGED <<now, iam, sessions, managed, drifts, receipts, evidence, authorized, stranded,
                   command>>

-----------------------------------------------------------------------------
(* cleanup                                                                 *)

\* Mutant: the propagation is waited for, and no session.
CleanupEarly(e) == PropagationDeadline(e.cutoff) <= now

\* The time from which a role may be deleted, from the signed evidence.
CleanupAllowed(e) == SessionExpiry(e.cutoff) <= now

SealDeletion(e) == evidence' = evidence \cup {[e EXCEPT !.state = "deleted"]}

StartCleanup(o) ==
    /\ at[o] = "ready"
    /\ ~managed
    /\ \E e \in evidence :
        /\ CleanupAllowed(e)
        /\ e.state = "retained"
        /\ LiveQuarantine(e.cutoff)
        /\ cutoff' = [cutoff EXCEPT ![o] = e.cutoff]
    /\ at' = [at EXCEPT ![o] = "drop"]
    /\ UNCHANGED <<now, iam, sessions, managed, drifts, outcomes, stranded, captured, left>>

\* A cleanup of a role that is gone only reports it.
ReportDeleted ==
    /\ role = "deleted"
    /\ \E e \in evidence : CleanupAllowed(e) /\ SealDeletion(e)
    /\ UNCHANGED <<now, iam, sessions, managed, drifts, receipts, authorized, published, stranded,
                   command>>

\* A role cannot be deleted while it has an inline policy.
DropDeny(o) ==
    /\ at[o] = "drop"
    /\ deny' = Never
    /\ GoTo(o, "delete")
    /\ UNCHANGED <<now, role, trust, settled, granted, sessions, managed, drifts, outcomes,
                   stranded>>

\* The call was made and its answer is lost; the command ends, and restores nothing.
DropUnacknowledged(o) ==
    /\ at[o] = "drop"
    /\ deny' = Never
    /\ stranded' = TRUE
    /\ Finish(o)
    /\ UNCHANGED <<now, role, trust, settled, granted, sessions, managed, drifts, outcomes>>

DeleteRole(o) ==
    /\ at[o] = "delete"
    /\ \/ role = "deleted"
       \/ deny = Never /\ granted = {}
    /\ role' = "deleted"
    /\ \E e \in evidence : e.cutoff = cutoff[o] /\ SealDeletion(e)
    /\ Finish(o)
    /\ UNCHANGED <<now, trust, settled, deny, granted, sessions, managed, drifts, receipts,
                   authorized, published, stranded>>

\* IAM refuses, does not answer, or shows the role afterwards.
DeleteFails(o) ==
    /\ at[o] = "delete"
    /\ GoTo(o, "restore")
    /\ UNCHANGED <<now, iam, sessions, managed, drifts, outcomes, stranded>>

\* Mutant: a deletion that fails is reported only.
ReportOnly(o) ==
    /\ at[o] = "restore"
    /\ Finish(o)
    /\ UNCHANGED <<now, iam, sessions, managed, drifts, outcomes, stranded>>

Restore(o) ==
    /\ at[o] = "restore"
    /\ deny' = IF role = "present" THEN cutoff[o] ELSE deny
    /\ Finish(o)
    /\ UNCHANGED <<now, role, trust, settled, granted, sessions, managed, drifts, outcomes,
                   stranded>>

\* A call that fails ends its command, and so does the death of the process; in the middle
\* of a deletion it leaves a role without its deny.
Fail(o) ==
    /\ at[o] # "ready"
    /\ stranded' = (stranded \/ at[o] \in {"delete", "restore"})
    /\ Finish(o)
    /\ UNCHANGED <<now, iam, sessions, managed, drifts, outcomes>>

-----------------------------------------------------------------------------
CommandStep(o) ==
    \/ StartQuarantine(o) \/ PutRolePolicy(o) \/ UpdateAssumeRolePolicy(o) \/ Strip(o)
    \/ VerifyQuarantine(o)
    \/ StartCleanup(o) \/ DropDeny(o) \/ DropUnacknowledged(o)
    \/ DeleteRole(o) \/ DeleteFails(o) \/ Restore(o) \/ Fail(o)

QuarantineNext ==
    \/ Assume \/ Elapse \/ Drift
    \/ Seal \/ VerifyStateRm \/ RemoveFromState \/ Qualify \/ ReportDeleted
    \/ \E o \in Operators : CommandStep(o)

QuarantineSpec == QuarantineInit /\ [][QuarantineNext]_quarantineVars

-----------------------------------------------------------------------------
(* Properties.                                                             *)

\* The deny is taken away, and the role deleted, only when no session of the prior worker
\* lives any more, whatever was quarantined again, put back or cut short in between
\* (cleanup_prior_worker_role and its live verification).
DenyOutlivesSessions ==
    role = "deleted" \/ (~managed /\ deny = Never) => sessions = {}

\* A deletion that fails leaves the role quarantined, unless the command died in the middle
\* of it or could not put the deny back (_restore_quarantine_policy).
FailedDeletionRestores ==
    /\ role = "present" /\ ~managed /\ ~stranded
    /\ \A o \in Operators : at[o] \notin {"delete", "restore"}
    => deny # Never

\* Once the next release is qualified, no session of the prior worker is issued any more
\* (_verify_prior_worker_identity_denials and verify_live_prior_worker_quarantine).
NoSessionAfterQualification ==
    [][published => sessions' \subseteq sessions]_quarantineVars
=============================================================================
