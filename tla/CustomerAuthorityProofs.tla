----------------------- MODULE CustomerAuthorityProofs -----------------------
(***************************************************************************)
(* Theorems about CustomerAuthority for any number of retrievals, workers, *)
(* grants and segments, and any deadlines.  A process that has the         *)
(* engagement locked keeps everything but time from moving, and a worker   *)
(* that has been cleared to call the model was authorised when it was.     *)
(***************************************************************************)
EXTENDS CustomerAuthority, TLAPS

USE DEF qualification, grants, environment, processes, inHand, Statuses, States, Processes,
        Locked, Unset, Absent, Unlocked

(* A retrieval that has been authenticated found its engagement active.    *)
AuthenticationHolds ==
    \A r \in Retrievals : pc[r] = "authenticated" => lifecycle = "active"

(* Calls are late only while the authority has ended, and a worker that is *)
(* cleared for a call has not been late.                                   *)
LateAgrees ==
    \A w \in Workers :
        /\ ProcessingAuthorised(clock) => late[w] = 0
        /\ pc[w] = "cleared" => late[w] = 0

(* A worker is cleared only for a segment that is left.                    *)
CallsRemain == \A w \in Workers : pc[w] = "cleared" => calls[w] < Segments

AuthorityInv ==
    /\ TypeOK
    /\ CallsRemain
    /\ AuthenticationHolds
    /\ LateAgrees
    /\ OutputsRestOnAuthority
    /\ OnlyNewestLive
    /\ ExposureBounded

(* Nothing is qualified, granted or under way in the beginning.            *)
LEMMA AuthorityInitial == Init => AuthorityInv
<1> SUFFICES ASSUME Init PROVE AuthorityInv
    OBVIOUS
<1> USE AuthorityAssumption DEF Init
<1>1. TypeOK
  BY DEF TypeOK, Grants
<1>2. /\ CallsRemain /\ AuthenticationHolds /\ LateAgrees
      /\ OutputsRestOnAuthority /\ ExposureBounded
  BY DEF CallsRemain, AuthenticationHolds, LateAgrees, OutputsRestOnAuthority, ExposureBounded,
         LockAgrees
<1>3. OnlyNewestLive
  BY DEF OnlyNewestLive
<1> QED BY <1>1, <1>2, <1>3 DEF AuthorityInv

(* The moves of a process stay within the types.                           *)
LEMMA MovesTyped ==
    ASSUME TypeOK, NEW p \in Processes,
           NEW to \in {"presented", "authenticated", "allowed", "reading", "parsed", "cleared",
                       "called", "staged", "checked"}
    PROVE  /\ Move(p, to) =>
                /\ pc' \in [Processes -> {"idle", "presented", "authenticated", "allowed",
                              "reading", "parsed", "cleared", "called", "staged", "checked"}]
                /\ decidedAt' \in [Processes -> 0 .. MaxTime]
           /\ End(p) =>
                /\ pc' \in [Processes -> {"idle", "presented", "authenticated", "allowed",
                              "reading", "parsed", "cleared", "called", "staged", "checked"}]
                /\ decidedAt' \in [Processes -> 0 .. MaxTime]
                /\ token' \in [Processes -> 0 .. MaxGrants]
                /\ calls' \in [Processes -> 0 .. Segments]
                /\ late' \in [Processes -> Nat]
                /\ holder' \in Processes \cup {Free}
BY AuthorityAssumption DEF TypeOK, Move, End

(* Calls that were late are forgotten when the authority is back.          *)
LEMMA Forgotten ==
    ASSUME TypeOK, ForgetLateIfRestored
    PROVE  /\ late' \in [Processes -> Nat]
           /\ \A p \in Processes :
                 late'[p] = 0 \/ (~ProcessingAuthorised(clock)' /\ late'[p] = late[p])
<1>1. late \in [Processes -> Nat]
  BY DEF TypeOK
<1>2. CASE ProcessingAuthorised(clock)'
  <2>1. late' = [p \in Processes |-> 0]
    BY <1>2 DEF ForgetLateIfRestored
  <2> QED BY <2>1
<1>3. CASE ~ProcessingAuthorised(clock)'
  <2>1. late' = [p \in Processes |-> late[p]]
    BY <1>3 DEF ForgetLateIfRestored
  <2> QED BY <1>1, <1>3, <2>1
<1> QED BY <1>2, <1>3

(* No step leaves the types.                                               *)
LEMMA TypeStep == TypeOK /\ CallsRemain /\ [Next]_vars => TypeOK'
<1> SUFFICES ASSUME TypeOK, CallsRemain, [Next]_vars PROVE TypeOK'
    OBVIOUS
<1> USE AuthorityAssumption
<1>1. CASE Provision
  BY <1>1 DEF TypeOK, Provision
<1>2. CASE Transition \/ ExtendRetention \/ Bind
  <2>1. late' \in [Processes -> Nat]
    BY <1>2, Forgotten DEF Transition, ExtendRetention, Bind
  <2>2. CASE Transition
    BY <2>1, <2>2 DEF TypeOK, Transition
  <2>3. CASE ExtendRetention
    BY <2>1, <2>3 DEF TypeOK, ExtendRetention
  <2>4. CASE Bind
    BY <2>1, <2>4 DEF TypeOK, Bind
  <2> QED BY <1>2, <2>2, <2>3, <2>4
<1>9. CASE BeginDeletion \/ Unbind \/ Publish \/ Withdraw
  BY <1>9 DEF TypeOK, BeginDeletion, Unbind, Publish, Withdraw
<1>11. CASE Tick
  BY <1>11 DEF TypeOK, Tick
<1>3. CASE Rotate
  <2>1. issued' \in 0 .. MaxGrants /\ issued + 1 \in Grants /\ Replaced \subseteq Grants
    BY <1>3 DEF TypeOK, Rotate, Replaced, Grants
  <2>2. expires' \in [Grants -> Nat]
    BY <1>3, <2>1 DEF TypeOK, Rotate
  <2> QED BY <1>3, <2>1, <2>2 DEF TypeOK, Rotate
<1>10. CASE RevokeGrant
  BY <1>10 DEF TypeOK, RevokeGrant, Grants
<1>4. CASE Deliver \/ DeliveryFails
  BY <1>4 DEF TypeOK, Deliver, DeliveryFails
<1>5. ASSUME NEW r \in Retrievals, RetrievalStep(r) PROVE TypeOK'
  <2>1. CASE Present(r)
    <3>1. token' \in [Processes -> 0 .. MaxGrants]
      BY <2>1 DEF TypeOK, Present, Grants
    <3> QED BY <2>1, <3>1, MovesTyped DEF TypeOK, Present
  <2>2. CASE Authenticate(r) \/ Decide(r) \/ Release(r)
    BY <2>2, MovesTyped DEF TypeOK, Authenticate, Decide, Release, Proceed, LockAndProceed
  <2> QED BY <1>5, <2>1, <2>2 DEF RetrievalStep
<1>6. ASSUME NEW w \in Workers, WorkerStep(w) PROVE TypeOK'
  <2>1. CASE StartJob(w) \/ ReadObject(w) \/ BeforeCall(w) \/ AfterCall(w) \/ CheckStaged(w)
    BY <2>1, MovesTyped
       DEF TypeOK, StartJob, ReadObject, BeforeCall, AfterCall, CheckStaged, Recheck, Check,
           Proceed
  <2>2. CASE Call(w)
    <3>1. late' \in [Processes -> Nat]
      <4>1. CASE ProcessingAuthorised(clock)
        BY <2>2, <4>1 DEF TypeOK, Call
      <4>2. CASE ~ProcessingAuthorised(clock)
        BY <2>2, <4>2 DEF TypeOK, Call
      <4> QED BY <4>1, <4>2
    <3>2. calls' \in [Processes -> 0 .. Segments]
      BY <2>2 DEF TypeOK, CallsRemain, Call
    <3> QED BY <2>2, <3>1, <3>2 DEF TypeOK, Call
  <2>3. CASE LockAuthority(w) \/ CommitClaims(w)
    BY <2>3, MovesTyped DEF TypeOK, LockAuthority, CommitClaims, LockAndProceed
  <2> QED BY <1>6, <2>1, <2>2, <2>3 DEF WorkerStep
<1>7. ASSUME NEW p \in Processes, Abort(p) PROVE TypeOK'
  BY <1>7, MovesTyped DEF TypeOK, Abort
<1>8. CASE UNCHANGED vars
  BY <1>8 DEF TypeOK, vars
<1> QED
  BY <1>1, <1>2, <1>3, <1>4, <1>5, <1>6, <1>7, <1>8, <1>9, <1>10, <1>11
     DEF Next, Administration

(* The owner, the administrator and the clock: what they change while a    *)
(* process has the engagement locked is nothing that its decision took.    *)
LEMMA AdministrationStep ==
    ASSUME AuthorityInv, TypeOK', Administration \/ Tick \/ UNCHANGED vars
    PROVE  AuthorityInv'
<1> USE AuthorityAssumption DEF AuthorityInv
<1>0. CallsRemain'
  BY DEF CallsRemain, Administration, Provision, Transition, ExtendRetention, BeginDeletion,
     Unbind, Bind, Publish, Withdraw, Rotate, Deliver, DeliveryFails, RevokeGrant, Tick, vars
<1> USE <1>0
<1> DEFINE Rest == /\ AuthenticationHolds' /\ LateAgrees'
                   /\ OutputsRestOnAuthority' /\ ExposureBounded'
<1>1. CASE Rotate
  <2>1. OnlyNewestLive'
    BY <1>1 DEF OnlyNewestLive, Rotate, Replaced, TypeOK
  <2>2. Rest
    BY <1>1 DEF Rotate, AuthenticationHolds, LateAgrees, OutputsRestOnAuthority,
       ExposureBounded, LockAgrees, ProcessingAuthorised, Qualified, RetentionAuthorised, TypeOK
  <2> QED BY <2>1, <2>2
<1>2. CASE RevokeGrant
  <2>1. OnlyNewestLive'
    BY <1>2 DEF OnlyNewestLive, RevokeGrant, TypeOK
  <2>2. Rest
    BY <1>2 DEF RevokeGrant, AuthenticationHolds, LateAgrees, OutputsRestOnAuthority,
       ExposureBounded, LockAgrees, ProcessingAuthorised, Qualified, RetentionAuthorised, TypeOK
  <2> QED BY <2>1, <2>2
<1>3. CASE Provision \/ BeginDeletion \/ Publish \/ Withdraw
  <2>1. OnlyNewestLive'
    BY <1>3 DEF OnlyNewestLive, Provision, BeginDeletion, Publish, Withdraw
  <2>2. Rest
    BY <1>3 DEF Provision, BeginDeletion, Publish, Withdraw, AuthenticationHolds, LateAgrees,
       OutputsRestOnAuthority, ExposureBounded, LockAgrees, ProcessingAuthorised, Qualified,
       RetentionAuthorised, DeploymentCurrent, TypeOK
  <2> QED BY <2>1, <2>2
<1>4. CASE Transition \/ ExtendRetention
  <2>1. OnlyNewestLive'
    BY <1>4 DEF OnlyNewestLive, Transition, ExtendRetention
  <2>2. \A p \in Processes :
            late'[p] = 0 \/ (~ProcessingAuthorised(clock)' /\ late'[p] = late[p])
    BY <1>4, Forgotten DEF Transition, ExtendRetention
  <2>3. Unlocked /\ UNCHANGED <<lifecycle, holder, pc, clock>>
    BY <1>4 DEF Transition, ExtendRetention
  <2>4. Rest
    BY <2>2, <2>3 DEF AuthenticationHolds, LateAgrees, OutputsRestOnAuthority, ExposureBounded,
       LockAgrees, TypeOK
  <2> QED BY <2>1, <2>4
<1>5. CASE Bind
  <2>1. OnlyNewestLive'
    BY <1>5 DEF OnlyNewestLive, Bind
  <2>2. \A p \in Processes :
            late'[p] = 0 \/ (~ProcessingAuthorised(clock)' /\ late'[p] = late[p])
    BY <1>5, Forgotten DEF Bind
  <2>3. Rest
    BY <1>5, <2>2 DEF Bind, AuthenticationHolds, LateAgrees, OutputsRestOnAuthority,
       ExposureBounded, LockAgrees, RetrievalAuthorised, GrantValid, ProcessingAuthorised,
       Qualified, RetentionAuthorised, DeploymentCurrent, TypeOK
  <2> QED BY <2>1, <2>3
<1>6. CASE Unbind \/ Deliver \/ DeliveryFails \/ Tick
  <2>1. OnlyNewestLive'
    BY <1>6 DEF OnlyNewestLive, Unbind, Deliver, DeliveryFails, Tick
  <2>2. Rest
    BY <1>6 DEF Unbind, Deliver, DeliveryFails, Tick, AuthenticationHolds, LateAgrees,
       OutputsRestOnAuthority, ExposureBounded, LockAgrees, RetrievalAuthorised, GrantValid,
       ProcessingAuthorised, Qualified, RetentionAuthorised, DeploymentCurrent, TypeOK
  <2> QED BY <2>1, <2>2
<1>7. CASE UNCHANGED vars
  BY <1>7 DEF vars, AuthenticationHolds, LateAgrees, OutputsRestOnAuthority, ExposureBounded,
     OnlyNewestLive, LockAgrees, RetrievalAuthorised, GrantValid, ProcessingAuthorised,
     Qualified, RetentionAuthorised, DeploymentCurrent
<1> QED BY <1>1, <1>2, <1>3, <1>4, <1>5, <1>6, <1>7 DEF Administration

(* What a process decides, it decides under the engagement's lock.         *)
LEMMA ProcessStep ==
    ASSUME AuthorityInv, TypeOK', NEW p \in Processes,
           \/ p \in Retrievals /\ RetrievalStep(p)
           \/ p \in Workers /\ WorkerStep(p)
           \/ Abort(p)
    PROVE  AuthorityInv'
<1> USE AuthorityAssumption DEF AuthorityInv
<1>1. /\ UNCHANGED environment
      /\ \A q \in Processes \ {p} :
            /\ pc'[q] = pc[q] /\ token'[q] = token[q] /\ calls'[q] = calls[q]
            /\ decidedAt'[q] = decidedAt[q] /\ late'[q] = late[q]
  BY DEF RetrievalStep, Present, Authenticate, Decide, Release, WorkerStep, StartJob, ReadObject,
     BeforeCall, Call, AfterCall, LockAuthority, CheckStaged, CommitClaims, Abort, Recheck,
     Check, Proceed, LockAndProceed, Move, End, TypeOK
<1>2. OnlyNewestLive'
  BY <1>1 DEF OnlyNewestLive
<1>3. \A t \in Nat, g \in Nat :
        /\ ProcessingAuthorised(t)' <=> ProcessingAuthorised(t)
        /\ RetrievalAuthorised(g, t)' <=> RetrievalAuthorised(g, t)
  BY <1>1 DEF RetrievalAuthorised, GrantValid, ProcessingAuthorised, Qualified,
     RetentionAuthorised, DeploymentCurrent
<1>4. LockAgrees'
  BY <1>1 DEF RetrievalStep, Present, Authenticate, Decide, Release, WorkerStep, StartJob,
     ReadObject, BeforeCall, Call, AfterCall, LockAuthority, CheckStaged, CommitClaims, Abort,
     Recheck, Check, Proceed, LockAndProceed, Move, End, TypeOK, OutputsRestOnAuthority,
     LockAgrees
<1>5. AuthenticationHolds'
  BY <1>1 DEF AuthenticationHolds, RetrievalStep, Authenticate, Decide, Release, Present,
     WorkerStep, StartJob, ReadObject, BeforeCall, Call, AfterCall, LockAuthority, CheckStaged,
     CommitClaims, Abort, Recheck, Check, Proceed, LockAndProceed, Move, End, TypeOK
<1>6. ASSUME NEW r \in Retrievals, pc'[r] = "allowed"
      PROVE  lifecycle' = "active" /\ RetrievalAuthorised(token[r], decidedAt[r])'
  <2>1. CASE pc[r] = "allowed" /\ r # p
    BY <1>1, <1>3, <1>6, <2>1 DEF OutputsRestOnAuthority, TypeOK
  <2>2. CASE r = p
    BY <1>1, <1>3, <1>6, <2>2
       DEF OutputsRestOnAuthority, AuthenticationHolds, RetrievalStep, Authenticate, Decide,
           Release, Present, DecisionTime, Abort, Proceed, LockAndProceed, Move, End, TypeOK
  <2> QED BY <1>1, <1>6, <2>1, <2>2
<1>7. ASSUME NEW w \in Workers, pc'[w] = "checked"
      PROVE  ProcessingAuthorised(decidedAt[w])'
  <2>1. CASE pc[w] = "checked" /\ w # p
    BY <1>1, <1>3, <1>7, <2>1 DEF OutputsRestOnAuthority, TypeOK
  <2>2. CASE w = p
    BY <1>1, <1>3, <1>7, <2>2
       DEF OutputsRestOnAuthority, WorkerStep, StartJob, ReadObject, BeforeCall, Call,
           AfterCall, LockAuthority, CheckStaged, CommitClaims, Abort, Recheck, Check, Proceed,
           LockAndProceed, Move, End, TypeOK
  <2> QED BY <1>1, <1>7, <2>1, <2>2
<1>8. LateAgrees' /\ ExposureBounded'
  <2>1. \A w \in Workers : w # p => late'[w] = late[w] /\ pc'[w] = pc[w]
    BY <1>1
  <2>2. ASSUME p \in Workers
        PROVE  /\ ProcessingAuthorised(clock) => late'[p] = 0
               /\ pc'[p] = "cleared" => late'[p] = 0
               /\ late'[p] <= 1
    <3>1. CASE Call(p)
      BY <2>2, <3>1 DEF Call, LateAgrees, TypeOK
    <3>2. CASE late'[p] = 0
      BY <2>2, <3>2
    <3>3. CASE BeforeCall(p) /\ late'[p] # 0
      BY <2>2, <3>3 DEF BeforeCall, Recheck, Check, Proceed, Move, End, LateAgrees, TypeOK
    <3>4. CASE late'[p] = late[p] /\ pc'[p] # "cleared"
      BY <2>2, <3>4 DEF LateAgrees, ExposureBounded, TypeOK
    <3> QED
      BY <2>2, <3>1, <3>2, <3>3, <3>4
         DEF WorkerStep, StartJob, ReadObject, AfterCall, LockAuthority, CheckStaged,
             CommitClaims, Abort, Recheck, Check, Proceed, LockAndProceed, Move, End, TypeOK
  <2> QED BY <1>1, <1>3, <2>1, <2>2 DEF LateAgrees, ExposureBounded, TypeOK
<1>9. CallsRemain'
  BY <1>1 DEF CallsRemain, RetrievalStep, Present, Authenticate, Decide, Release, WorkerStep,
     StartJob, ReadObject, BeforeCall, Call, AfterCall, LockAuthority, CheckStaged,
     CommitClaims, Abort, Recheck, Check, Proceed, LockAndProceed, Move, End, TypeOK
<1> QED BY <1>2, <1>4, <1>5, <1>6, <1>7, <1>8, <1>9 DEF OutputsRestOnAuthority

(* The authority, the locks and the grants agree.                          *)
THEOREM AuthorityInvariant == Spec => []AuthorityInv
<1>1. AuthorityInv /\ [Next]_vars => AuthorityInv'
  <2> SUFFICES ASSUME AuthorityInv, [Next]_vars PROVE AuthorityInv'
      OBVIOUS
  <2>1. TypeOK'
    BY TypeStep DEF AuthorityInv
  <2> QED BY <2>1, AdministrationStep, ProcessStep DEF Next
<1> QED BY <1>1, AuthorityInitial, PTL DEF Spec

(* What leaves the engagement was authorised when it was last decided      *)
(* upon, and nothing but time can have changed that since.                 *)
THEOREM OutputsAreAuthorised == Spec => []OutputsRestOnAuthority
BY AuthorityInvariant, PTL DEF AuthorityInv

(* However many rotations, failed deliveries and revocations there are,    *)
(* one token lives at most, and it is the newest.                          *)
THEOREM OneLiveGrant == Spec => []OnlyNewestLive
BY AuthorityInvariant, PTL DEF AuthorityInv

(* However many segments a file has and however often the authority comes  *)
(* and goes, one call at most follows the end of it.                       *)
THEOREM ExposureIsBounded == Spec => []ExposureBounded
BY AuthorityInvariant, PTL DEF AuthorityInv
=============================================================================
