------------------------- MODULE CustomerAuthority -------------------------
(***************************************************************************)
(* The authority under which customer data leaves a sanitized engagement:  *)
(* a published package over a retrieval grant, or the claims that a worker *)
(* extracts with a hosted model.  It rests on the design-partner           *)
(* qualification and its retention, on the qualification record of the     *)
(* deployment, on the grant and on the binding of the worker, and any of   *)
(* these can end while a retrieval or an extraction is under way.          *)
(*                                                                         *)
(* Every operation that locks the engagement row and finishes in the same  *)
(* breath is one action.  A retrieval keeps the lock from its              *)
(* authentication to its commit and a worker from its last check before    *)
(* staging to its commit; time passes in between (`holder`).  What a       *)
(* worker checks before that, it reads without a lock.                     *)
(***************************************************************************)
EXTENDS Naturals, FiniteSets

CONSTANTS
    Retrievals,     \* requests that present a retrieval token
    Workers,        \* workers that process a file of the engagement
    Segments,       \* how many segments the file has, a call of the model for each
    Free,           \* nobody has the engagement row locked
    MaxTime,        \* bound on the clock
    MaxGrants,      \* bound on the grants ever issued
    MaxTtl,         \* MAX_RETRIEVAL_GRANT_TTL
    RetentionDays,  \* of the qualification
    DeploymentUntil \* expiry of the qualification record of the deployment

ASSUME AuthorityAssumption ==
    /\ Retrievals \cap Workers = {}
    /\ Free \notin Retrievals \cup Workers
    /\ MaxTime \in Nat \ {0}
    /\ {Segments, MaxGrants, MaxTtl, RetentionDays, DeploymentUntil} \subseteq Nat

Statuses == {"ACTIVE", "SUSPENDED", "REVOKED"}
States == {"CONFIGURED", "IN_PROGRESS", "BLOCKED", "QUALIFIED"}
Grants == 1 .. MaxGrants
Processes == Retrievals \cup Workers

\* A deadline that is not set, and a qualification, grant or token that is not there.
Unset == 0
Absent == "ABSENT"

VARIABLES
    clock,
    lifecycle,      \* "active", or "deleting" once a deletion has begun
    retention,      \* Engagement.retention_expires_at
    ceiling,        \* DesignPartnerQualification.retention_expires_at
    status,         \* DesignPartnerQualification.status
    state,          \* DesignPartnerQualification.qualification_state
    bound,          \* the worker is active, a member and bound to its database login
    package,        \* FactoryDeploymentPackageVersion.status: "approved", "published", "withdrawn"
    issued,         \* how many grants there are; they are numbered as they are issued
    expires,        \* PackageRetrievalGrant.expires_at
    revoked,        \* the grants with a revoked_at
    undelivered,    \* grants whose token the rotating command has yet to deliver
    known,          \* grants whose token has been in the receiving secret
    holder,         \* who has the engagement row locked
    pc,             \* where each process is
    token,          \* the grant whose token a retrieval presents
    calls,          \* how often a worker has called the model for its file
    decidedAt,      \* when each process that has the lock has decided last
    late            \* calls of the model since the authority ended

qualification == <<retention, ceiling, status, state>>
grants == <<issued, expires, revoked, undelivered, known>>
environment == <<clock, lifecycle, retention, ceiling, status, state, bound, package, issued,
                 expires, revoked, undelivered, known>>
processes == <<pc, token, calls, decidedAt, late>>
vars == <<clock, lifecycle, retention, ceiling, status, state, bound, package, issued,
          expires, revoked, undelivered, known, holder, pc, token, calls, decidedAt, late>>

TypeOK ==
    /\ clock \in 1 .. MaxTime
    /\ lifecycle \in {"active", "deleting"}
    /\ retention \in Nat /\ ceiling \in Nat
    /\ status \in Statuses \cup {Absent}
    /\ state \in States \cup {Absent}
    /\ bound \in BOOLEAN
    /\ package \in {"approved", "published", "withdrawn"}
    /\ issued \in 0 .. MaxGrants
    /\ expires \in [Grants -> Nat]
    /\ revoked \subseteq Grants /\ undelivered \subseteq Grants /\ known \subseteq Grants
    /\ holder \in Processes \cup {Free}
    /\ pc \in [Processes -> {"idle", "presented", "authenticated", "allowed",
                             "reading", "parsed", "cleared", "called", "staged", "checked"}]
    /\ token \in [Processes -> 0 .. MaxGrants]
    /\ calls \in [Processes -> 0 .. Segments]
    /\ decidedAt \in [Processes -> 0 .. MaxTime]
    /\ late \in [Processes -> Nat]

\* A sanitized engagement with a bound worker, before its qualification; a deadline
\* for its retention may have been set.
Init ==
    /\ clock = 1
    /\ lifecycle = "active"
    /\ retention \in {Unset, 2}
    /\ ceiling = Unset
    /\ status = Absent /\ state = Absent
    /\ bound = TRUE
    /\ package = "approved"
    /\ issued = 0
    /\ expires = [g \in Grants |-> Unset]
    /\ revoked = {} /\ undelivered = {} /\ known = {}
    /\ holder = Free
    /\ pc = [p \in Processes |-> "idle"]
    /\ token = [p \in Processes |-> 0]
    /\ calls = [p \in Processes |-> 0]
    /\ decidedAt = [p \in Processes |-> 0]
    /\ late = [p \in Processes |-> 0]

\* Waiting for the engagement row.
Unlocked == holder = Free

-----------------------------------------------------------------------------
(* What is authorised at time t.                                           *)

RetentionAuthorised(t) ==
    /\ retention # Unset
    /\ retention <= ceiling
    /\ t < retention

Qualified(t) ==
    /\ status = "ACTIVE"
    /\ state = "QUALIFIED"
    /\ RetentionAuthorised(t)

DeploymentCurrent(t) == t < DeploymentUntil

\* For a worker; without its binding, row-level security hides the engagement from it.
ProcessingAuthorised(t) ==
    /\ bound
    /\ lifecycle = "active"
    /\ Qualified(t)
    /\ DeploymentCurrent(t)

GrantValid(g, t) == g \notin revoked /\ t < expires[g]

RetrievalAuthorised(g, t) ==
    /\ package = "published"
    /\ GrantValid(g, t)
    /\ Qualified(t)
    /\ DeploymentCurrent(t)

-----------------------------------------------------------------------------
(* The owner of the engagement and the administrator.                      *)

\* The deadline is capped by the retention of the qualification, and never missing.
Provision ==
    /\ Unlocked
    /\ status = Absent
    /\ LET maximum == clock + RetentionDays IN
        /\ \/ retention = Unset /\ retention' = maximum
           \/ clock < retention /\ retention <= maximum /\ UNCHANGED retention
        /\ ceiling' = maximum
    /\ status' = "ACTIVE" /\ state' = "CONFIGURED"
    /\ UNCHANGED <<clock, lifecycle, bound, package, grants, holder, processes>>

StatusTransitions ==
    {<<s, s>> : s \in Statuses} \cup
    {<<"ACTIVE", "SUSPENDED">>, <<"ACTIVE", "REVOKED">>,
     <<"SUSPENDED", "ACTIVE">>, <<"SUSPENDED", "REVOKED">>}

StateTransitions ==
    {<<s, s>> : s \in States} \cup
    {<<"CONFIGURED", "IN_PROGRESS">>, <<"CONFIGURED", "BLOCKED">>,
     <<"IN_PROGRESS", "BLOCKED">>, <<"IN_PROGRESS", "QUALIFIED">>,
     <<"BLOCKED", "IN_PROGRESS">>, <<"QUALIFIED", "BLOCKED">>}

\* A lapse is over when the authority is back: the calls made during it no longer count.
ForgetLateIfRestored ==
    late' = [p \in Processes |-> IF ProcessingAuthorised(clock)' THEN 0 ELSE late[p]]

\* One request may move both; becoming qualified takes an active partner and its retention.
Transition ==
    /\ Unlocked
    /\ status # Absent
    /\ \E s \in Statuses, q \in States :
        /\ <<status, s>> \in StatusTransitions
        /\ <<state, q>> \in StateTransitions
        /\ q = "QUALIFIED" /\ state # "QUALIFIED" =>
                s = "ACTIVE" /\ RetentionAuthorised(clock)
        /\ status' = s /\ state' = q
    /\ UNCHANGED <<clock, lifecycle, retention, ceiling, bound, package, grants, holder,
                   pc, token, calls, decidedAt>>
    /\ ForgetLateIfRestored

\* The owner extends the retention; the trigger refuses more than the ceiling.
ExtendRetention ==
    /\ Unlocked
    /\ lifecycle = "active"
    /\ \E d \in (clock + 1) .. (MaxTime + RetentionDays) :
        /\ retention # Unset => d > retention
        /\ status # Absent => d <= ceiling
        /\ retention' = d
    /\ UNCHANGED <<clock, lifecycle, ceiling, status, state, bound, package, grants,
                   holder, pc, token, calls, decidedAt>>
    /\ ForgetLateIfRestored

BeginDeletion ==
    /\ Unlocked
    /\ lifecycle = "active"
    /\ retention # Unset /\ retention <= clock
    /\ lifecycle' = "deleting"
    /\ UNCHANGED <<clock, qualification, bound, package, grants, holder, processes>>

\* Deactivating the worker, or binding another release, changes rows that a worker
\* which has locked its authority shares to its commit.
Unbind ==
    /\ bound
    /\ holder \notin Workers
    /\ bound' = FALSE
    /\ UNCHANGED <<clock, lifecycle, qualification, package, grants, holder, processes>>

Bind ==
    /\ ~bound
    /\ bound' = TRUE
    /\ UNCHANGED <<clock, lifecycle, qualification, package, grants, holder,
                   pc, token, calls, decidedAt>>
    /\ ForgetLateIfRestored

Publish ==
    /\ Unlocked
    /\ lifecycle = "active"
    /\ package = "approved"
    /\ Qualified(clock)
    /\ package' = "published"
    /\ UNCHANGED <<clock, lifecycle, qualification, bound, grants, holder, processes>>

\* A revocation, a supersession or a cascade: all of them lock the engagement.
Withdraw ==
    /\ Unlocked
    /\ package = "published"
    /\ package' = "withdrawn"
    /\ UNCHANGED <<clock, lifecycle, qualification, bound, grants, holder, processes>>

Tick ==
    /\ clock < MaxTime
    /\ clock' = clock + 1
    /\ UNCHANGED <<lifecycle, qualification, bound, package, grants, holder, processes>>

-----------------------------------------------------------------------------
(* Retrieval grants.                                                       *)

\* Mutant: a rotation revokes the grants that were delivered.
ReplacedDelivered == known

\* The grants that a rotation revokes.
Replaced == 1 .. issued

Rotate ==
    /\ Unlocked
    /\ lifecycle = "active"
    /\ issued < MaxGrants
    /\ \E e \in (clock + 1) .. (clock + MaxTtl) :
        expires' = [expires EXCEPT ![issued + 1] = e]
    /\ revoked' = revoked \cup Replaced
    /\ issued' = issued + 1
    /\ undelivered' = undelivered \cup {issued + 1}
    /\ UNCHANGED <<clock, lifecycle, qualification, bound, package, known, holder, processes>>

\* After its commit the command puts the token into the secret of the receiver.
Deliver ==
    \E g \in undelivered :
        /\ undelivered' = undelivered \ {g}
        /\ known' = known \cup {g}
        /\ UNCHANGED <<clock, lifecycle, qualification, bound, package, issued, expires,
                       revoked, holder, processes>>

DeliveryFails ==
    \E g \in undelivered :
        /\ undelivered' = undelivered \ {g}
        /\ UNCHANGED <<clock, lifecycle, qualification, bound, package, issued, expires,
                       revoked, known, holder, processes>>

RevokeGrant ==
    /\ Unlocked
    /\ lifecycle = "active"
    /\ \E g \in (1 .. issued) \ revoked : revoked' = revoked \cup {g}
    /\ UNCHANGED <<clock, lifecycle, qualification, bound, package, issued, expires,
                   undelivered, known, holder, processes>>

-----------------------------------------------------------------------------
(* A retrieval: authenticate_retrieval_token and retrieve_published_package *)
(* in one transaction.                                                     *)

\* What a process has in hand besides its place: a token, how many calls it has made.
inHand == <<token, calls, late>>

\* Where the engagement row is locked.
Locked == {"authenticated", "allowed", "staged", "checked"}

Move(p, to) ==
    /\ pc' = [pc EXCEPT ![p] = to]
    /\ decidedAt' = [decidedAt EXCEPT ![p] = IF to \in Locked THEN clock ELSE 0]

\* A denial, a commit or a rollback.
End(p) ==
    /\ pc' = [pc EXCEPT ![p] = "idle"]
    /\ decidedAt' = [decidedAt EXCEPT ![p] = 0]
    /\ token' = [token EXCEPT ![p] = 0]
    /\ calls' = [calls EXCEPT ![p] = 0]
    /\ late' = [late EXCEPT ![p] = 0]
    /\ holder' = IF holder = p THEN Free ELSE holder

\* Process p goes on to `to` if it is authorised and ends otherwise.
Proceed(p, authorised, to) ==
    \/ authorised /\ Move(p, to) /\ UNCHANGED <<inHand, holder>>
    \/ ~authorised /\ End(p)

\* The same, waiting for the engagement row, which the process keeps.
LockAndProceed(p, authorised, to) ==
    /\ Unlocked
    /\ \/ authorised /\ Move(p, to) /\ holder' = p /\ UNCHANGED inHand
       \/ ~authorised /\ End(p)

\* The token names its grant; the engagement of the grant is read without a lock.
Present(r) ==
    /\ pc[r] = "idle"
    /\ \E g \in known : token' = [token EXCEPT ![r] = g]
    /\ Move(r, "presented")
    /\ UNCHANGED <<environment, holder, calls, late>>

Authenticate(r) ==
    /\ pc[r] = "presented"
    /\ LockAndProceed(r, lifecycle = "active" /\ GrantValid(token[r], clock), "authenticated")
    /\ UNCHANGED environment

\* Mutant: the decision takes the time of the authentication.
AuthenticationTime(r) == decidedAt[r]

\* The time the decision looks at, taken after the last lock.
DecisionTime(r) == clock

Decide(r) ==
    /\ pc[r] = "authenticated"
    /\ Proceed(r, RetrievalAuthorised(token[r], DecisionTime(r)), "allowed")
    /\ UNCHANGED environment

\* The commit; then the package is sent.
Release(r) ==
    /\ pc[r] = "allowed"
    /\ End(r)
    /\ UNCHANGED environment

-----------------------------------------------------------------------------
(* A worker on a file of the engagement: process_job.                      *)

\* A check of the authority without a lock; a refusal fails the job.
Check(w, from, to) ==
    /\ pc[w] = from
    /\ Proceed(w, ProcessingAuthorised(clock), to)
    /\ UNCHANGED environment

\* Mutant: the authority is checked when the file is read and when its claims are staged.
RecheckSkipped(w, from, to) ==
    /\ pc[w] = from
    /\ Move(w, to)
    /\ UNCHANGED <<environment, inHand, holder>>

\* On the way to the model and back.
Recheck(w, from, to) == Check(w, from, to)

StartJob(w) == ProcessingAuthorised(clock) /\ Check(w, "idle", "reading")

\* The object has been read, and its digest agrees.
ReadObject(w) == Check(w, "reading", "parsed")

BeforeCall(w) == calls[w] < Segments /\ Recheck(w, "parsed", "cleared")

Call(w) ==
    /\ pc[w] = "cleared"
    /\ pc' = [pc EXCEPT ![w] = "called"]
    /\ calls' = [calls EXCEPT ![w] = @ + 1]
    /\ late' = [late EXCEPT ![w] = IF ProcessingAuthorised(clock) THEN 0 ELSE @ + 1]
    /\ UNCHANGED <<environment, holder, token, decidedAt>>

AfterCall(w) == Recheck(w, "called", "parsed")

\* The last check before anything is staged locks the engagement, the binding and the
\* qualification, and keeps them to the commit.
LockAuthority(w) ==
    /\ pc[w] = "parsed"
    /\ calls[w] = Segments
    /\ LockAndProceed(w, ProcessingAuthorised(clock), "staged")
    /\ UNCHANGED environment

\* Staging has taken time, and the deadlines are looked at again.
CheckStaged(w) == Check(w, "staged", "checked")

CommitClaims(w) ==
    /\ pc[w] = "checked"
    /\ End(w)
    /\ UNCHANGED environment

\* A transaction that fails, or whose process dies, rolls back.
Abort(p) ==
    /\ pc[p] # "idle"
    /\ End(p)
    /\ UNCHANGED environment

-----------------------------------------------------------------------------
Administration ==
    \/ Provision \/ Transition \/ ExtendRetention \/ BeginDeletion
    \/ Unbind \/ Bind \/ Publish \/ Withdraw
    \/ Rotate \/ Deliver \/ DeliveryFails \/ RevokeGrant

RetrievalStep(r) == Present(r) \/ Authenticate(r) \/ Decide(r) \/ Release(r)

WorkerStep(w) ==
    \/ StartJob(w) \/ ReadObject(w) \/ BeforeCall(w) \/ Call(w) \/ AfterCall(w)
    \/ LockAuthority(w) \/ CheckStaged(w) \/ CommitClaims(w)

Next ==
    \/ Administration
    \/ Tick
    \/ \E r \in Retrievals : RetrievalStep(r)
    \/ \E w \in Workers : WorkerStep(w)
    \/ \E p \in Processes : Abort(p)

Spec == Init /\ [][Next]_vars

-----------------------------------------------------------------------------
(* Properties.                                                             *)

\* A process that keeps the engagement locked, and nobody else, is past its lock.
LockAgrees ==
    \A p \in Processes :
        pc[p] \in Locked <=> holder = p

\* What is about to be committed or sent is still authorised: nothing but time may have
\* ended since the decision, and at the decision no deadline had passed
\* (retrieve_published_package decides after its locks, process_job looks again after
\* staging, and transitions take the engagement first).
OutputsRestOnAuthority ==
    /\ LockAgrees
    /\ \A r \in Retrievals : pc[r] = "allowed" =>
            lifecycle = "active" /\ RetrievalAuthorised(token[r], decidedAt[r])
    /\ \A w \in Workers : pc[w] = "checked" => ProcessingAuthorised(decidedAt[w])

\* A rotation leaves one live credential, the newest, also when earlier tokens were never
\* delivered or are delivered after it (rotate_retrieval_grant).
OnlyNewestLive == (1 .. issued) \ revoked \subseteq {issued}

\* Once the authority has ended, a worker calls the model at most once more for a file, the
\* call between its check and the withdrawal (process_job checks around every call).
ExposureBounded == \A w \in Workers : late[w] <= 1
=============================================================================
