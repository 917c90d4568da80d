--------------------------- MODULE LockOrderProofs ---------------------------
(***************************************************************************)
(* Theorems about LockOrder for any number of requests and any contents of *)
(* the tables.  The rows that depend on the engagement, and the operator,  *)
(* block nobody who has the engagement locked; the other operations, but   *)
(* for the five that are out of order, take their rows by a rank in which  *)
(* the engagement is the last, so that a chain of those who wait for each  *)
(* other ends.                                                             *)
(***************************************************************************)
EXTENDS LockOrder, TLAPS

(* What a plan is made of.                                                 *)
Rows == {"engagement", "claim", "contradiction", "workflow", "case", "artifact", "factory",
         "grant", "qualification", "binding", "operator", "job", "asset"}

Entries ==
    UNION {{Lock(row), Insert(row), Share(row), Change(row), BulkUpdate(row)} : row \in Rows}

(* The rows that nobody locks who has not locked the engagement.           *)
Dependent == {"factory", "grant", "qualification"}

Orderly(p) ==
    /\ p \in Seq(Entries)
    /\ \A k \in 1 .. Len(p) :
        /\ p[k][1] \in Dependent => \E j \in 1 .. k - 1 : p[j] = Lock("engagement")
        /\ p[k][1] = "operator" => p[k][2] = "share"

(* What an entry asks for.                                                 *)
LEMMA EntryFields ==
    /\ \A row \in Rows : /\ Lock(row) \in Entries /\ Insert(row) \in Entries
                         /\ Share(row) \in Entries /\ Change(row) \in Entries
                         /\ BulkUpdate(row) \in Entries
    /\ \A row : /\ Lock(row)[1] = row /\ Lock(row)[2] = "update"
                /\ Insert(row)[1] = row /\ Insert(row)[2] = "key"
                /\ Share(row)[1] = row /\ Share(row)[2] = "share"
                /\ Change(row)[1] = row /\ Change(row)[2] = "no_key"
                /\ BulkUpdate(row)[1] = row /\ BulkUpdate(row)[2] = "no_key"
<1>1. \A row \in Rows : /\ Lock(row) \in Entries /\ Insert(row) \in Entries
                        /\ Share(row) \in Entries /\ Change(row) \in Entries
                        /\ BulkUpdate(row) \in Entries
  BY DEF Entries
<1> QED BY <1>1 DEF Lock, Insert, Share, Change, BulkUpdate

(* A plan made of two.                                                     *)
LEMMA Joined ==
    ASSUME NEW S, NEW s \in Seq(S), NEW t \in Seq(S)
    PROVE  /\ s \o t \in Seq(S)
           /\ Len(s \o t) = Len(s) + Len(t)
           /\ \A k \in 1 .. Len(s) : (s \o t)[k] = s[k]
           /\ \A k \in 1 .. Len(t) : (s \o t)[Len(s) + k] = t[k]
           /\ \A k \in 1 .. Len(s \o t) :
               k \in 1 .. Len(s) \/ \E m \in 1 .. Len(t) : k = Len(s) + m
<1>1. /\ Len(s) \in Nat /\ Len(t) \in Nat /\ Len(s \o t) = Len(s) + Len(t)
      /\ s \o t \in Seq(S)
      /\ \A k \in 1 .. Len(s) : (s \o t)[k] = s[k]
      /\ \A k \in 1 .. Len(t) : (s \o t)[Len(s) + k] = t[k]
  OBVIOUS
<1>2. ASSUME NEW k \in 1 .. Len(s) + Len(t), k \notin 1 .. Len(s)
      PROVE  \E m \in 1 .. Len(t) : k = Len(s) + m
  <2>1. k - Len(s) \in 1 .. Len(t) /\ k = Len(s) + (k - Len(s))
    BY <1>1, <1>2
  <2> QED BY <2>1
<1> QED BY <1>1, <1>2

(* Two orderly plans make an orderly one.                                  *)
LEMMA OrderlyJoined ==
    ASSUME NEW s, NEW t, Orderly(s), Orderly(t)
    PROVE  Orderly(s \o t)
<1>1. /\ s \in Seq(Entries) /\ t \in Seq(Entries) /\ Len(s) \in Nat /\ Len(t) \in Nat
  BY DEF Orderly
<1>2. s \o t \in Seq(Entries)
  BY <1>1, Joined
<1>3. ASSUME NEW k \in 1 .. Len(s)
      PROVE  /\ (s \o t)[k][1] \in Dependent
                => \E j \in 1 .. k - 1 : (s \o t)[j] = Lock("engagement")
             /\ (s \o t)[k][1] = "operator" => (s \o t)[k][2] = "share"
  <2>1. (s \o t)[k] = s[k] /\ \A j \in 1 .. k - 1 : (s \o t)[j] = s[j]
    BY <1>1, Joined
  <2> QED BY <2>1 DEF Orderly
<1>4. ASSUME NEW m \in 1 .. Len(t)
      PROVE  /\ (s \o t)[Len(s) + m][1] \in Dependent
                => \E j \in 1 .. Len(s) + m - 1 : (s \o t)[j] = Lock("engagement")
             /\ (s \o t)[Len(s) + m][1] = "operator" => (s \o t)[Len(s) + m][2] = "share"
  <2>1. (s \o t)[Len(s) + m] = t[m]
    BY <1>1, Joined
  <2>2. ASSUME NEW j \in 1 .. m - 1, t[j] = Lock("engagement")
        PROVE  \E i \in 1 .. Len(s) + m - 1 : (s \o t)[i] = Lock("engagement")
    <3>1. j \in 1 .. Len(t) /\ Len(s) + j \in 1 .. Len(s) + m - 1
      BY <1>1
    <3>2. (s \o t)[Len(s) + j] = t[j]
      BY <1>1, <3>1, Joined
    <3> QED BY <2>2, <3>1, <3>2
  <2> QED BY <2>1, <2>2 DEF Orderly
<1>5. ASSUME NEW k \in 1 .. Len(s \o t)
      PROVE  /\ (s \o t)[k][1] \in Dependent
                => \E j \in 1 .. k - 1 : (s \o t)[j] = Lock("engagement")
             /\ (s \o t)[k][1] = "operator" => (s \o t)[k][2] = "share"
  <2>1. CASE k \in 1 .. Len(s)
    BY <1>3, <2>1
  <2>2. CASE \E m \in 1 .. Len(t) : k = Len(s) + m
    <3>1. PICK m \in 1 .. Len(t) : k = Len(s) + m
      BY <2>2
    <3> DEFINE u == s \o t
    <3>2. /\ u[Len(s) + m][1] \in Dependent
                => \E j \in 1 .. Len(s) + m - 1 : u[j] = Lock("engagement")
          /\ u[Len(s) + m][1] = "operator" => u[Len(s) + m][2] = "share"
      BY <1>4
    <3> HIDE DEF u
    <3>3. /\ u[k][1] \in Dependent => \E j \in 1 .. k - 1 : u[j] = Lock("engagement")
          /\ u[k][1] = "operator" => u[k][2] = "share"
      BY ONLY <3>1, <3>2
    <3> QED BY <3>3 DEF u
  <2>3. \A i \in 1 .. Len(s \o t) :
            i \in 1 .. Len(s) \/ \E m \in 1 .. Len(t) : i = Len(s) + m
    BY <1>1, Joined
  <2> QED BY <2>1, <2>2, <2>3
<1> QED BY <1>2, <1>5 DEF Orderly

(* A lock that depends on no other.                                        *)
Free(e) == e \in Entries /\ e[1] \notin Dependent /\ (e[1] = "operator" => e[2] = "share")

(* Such locks can be taken in any order.                                   *)
LEMMA FreeOrderly ==
    /\ \A a : Free(a) => Orderly(<<a>>)
    /\ \A a, b : Free(a) /\ Free(b) => Orderly(<<a, b>>)
    /\ \A a, b, c : Free(a) /\ Free(b) /\ Free(c) => Orderly(<<a, b, c>>)
<1> SUFFICES ASSUME NEW a, NEW b, NEW c
             PROVE  /\ Free(a) => Orderly(<<a>>)
                    /\ Free(a) /\ Free(b) => Orderly(<<a, b>>)
                    /\ Free(a) /\ Free(b) /\ Free(c) => Orderly(<<a, b, c>>)
  OBVIOUS
<1>1. ASSUME Free(a) PROVE Orderly(<<a>>)
  BY <1>1 DEF Free, Orderly
<1>2. ASSUME Free(a), Free(b) PROVE Orderly(<<a, b>>)
  BY <1>2 DEF Free, Orderly
<1>3. ASSUME Free(a), Free(b), Free(c) PROVE Orderly(<<a, b, c>>)
  BY <1>3 DEF Free, Orderly
<1> QED BY <1>1, <1>2, <1>3

(* The locks on the rows that depend on nothing.                           *)
LEMMA FreeLocks ==
    \A row \in Rows \ Dependent :
        /\ row # "operator" => Free(Lock(row)) /\ Free(Insert(row)) /\ Free(Change(row))
                               /\ Free(BulkUpdate(row))
        /\ Free(Share(row))
BY EntryFields DEF Free

(* The engagement, and then what depends on it.                            *)
LEMMA DependentOrderly ==
    ASSUME NEW row \in Dependent
    PROVE  /\ Orderly(<<Lock("engagement"), Lock(row)>>)
           /\ Orderly(<<Lock("engagement"), BulkUpdate(row)>>)
<1>1. /\ Lock("engagement") \in Entries /\ Lock(row) \in Entries /\ BulkUpdate(row) \in Entries
      /\ Lock(row)[1] = row /\ BulkUpdate(row)[1] = row /\ row # "operator"
      /\ Lock("engagement")[1] = "engagement"
  BY EntryFields DEF Rows, Dependent
<1>2. "engagement" \notin Dependent
  BY DEF Dependent
<1> QED BY <1>1, <1>2 DEF Orderly

(* The parts of the plans.                                                 *)
LEMMA PartsOrderly ==
    /\ Orderly(Handoff) /\ Orderly(EconomicsAndArtifacts) /\ Orderly(LockGrants)
    /\ Orderly(Authority) /\ Orderly(WorkerAuthority)
<1>1. Orderly(Handoff) /\ Orderly(LockGrants)
  BY DependentOrderly DEF Handoff, LockGrants, Dependent
<1>2. Orderly(EconomicsAndArtifacts)
  BY FreeLocks, FreeOrderly DEF EconomicsAndArtifacts, Rows, Dependent
<1>3. /\ Free(Lock("engagement")) /\ Free(Share("operator")) /\ Free(Share("binding"))
      /\ Lock("qualification") \in Entries
      /\ Lock("qualification")[1] = "qualification"
  BY FreeLocks, EntryFields DEF Rows, Dependent
<1>4. Orderly(Authority)
  <2> DEFINE p == Authority
  <2>1. /\ p \in Seq(Entries) /\ Len(p) = 3
        /\ p[1] = Lock("engagement") /\ p[2] = Share("operator") /\ p[3] = Lock("qualification")
    BY <1>3 DEF Authority, Free
  <2> HIDE DEF p
  <2>2. Orderly(p)
    BY <1>3, <2>1 DEF Orderly, Free
  <2> QED BY <2>2 DEF p
<1>5. Orderly(WorkerAuthority)
  <2> DEFINE p == WorkerAuthority
  <2>1. /\ p \in Seq(Entries) /\ Len(p) = 4
        /\ p[1] = Lock("engagement") /\ p[2] = Share("binding") /\ p[3] = Share("operator")
        /\ p[4] = Lock("qualification")
    BY <1>3 DEF WorkerAuthority, Free
  <2> HIDE DEF p
  <2>2. Orderly(p)
    BY <1>3, <2>1 DEF Orderly, Free
  <2> QED BY <2>2 DEF p
<1> QED BY <1>1, <1>2, <1>4, <1>5

(* The plans are orderly, but for that of deactivate_service.              *)
LEMMA PlansOrderly ==
    \A op \in Operations \ {"deactivate_service"} : Orderly(Plan[op])
<1>f. /\ Free(Lock("engagement")) /\ Free(Insert("engagement")) /\ Free(Lock("claim"))
      /\ Free(Lock("contradiction")) /\ Free(Lock("workflow")) /\ Free(BulkUpdate("workflow"))
      /\ Free(Lock("case")) /\ Free(BulkUpdate("artifact")) /\ Free(Lock("binding"))
      /\ Free(Lock("job")) /\ Free(Lock("asset")) /\ Free(Change("asset"))
  BY FreeLocks DEF Rows, Dependent
<1>d. /\ Orderly(<<Lock("engagement"), Lock("factory")>>)
      /\ Orderly(<<Lock("engagement"), Lock("grant")>>)
      /\ Orderly(<<Lock("engagement"), Lock("qualification")>>)
  BY DependentOrderly DEF Dependent
<1>1. Orderly(review_claim)
  <2>1. /\ Orderly(<<Lock("claim"), Insert("engagement"), BulkUpdate("workflow")>>)
        /\ Orderly(<<Lock("asset")>>)
    BY <1>f, FreeOrderly
  <2> QED BY <2>1, PartsOrderly, OrderlyJoined DEF review_claim
<1>2. Orderly(resolve_contradiction) /\ Orderly(generate_packet)
  <2>1. Orderly(<<Lock("contradiction")>>) /\ Orderly(<<BulkUpdate("artifact")>>)
    BY <1>f, FreeOrderly
  <2> QED BY <2>1, PartsOrderly, OrderlyJoined DEF resolve_contradiction, generate_packet
<1>3. Orderly(generate_workflow) /\ Orderly(approve_workflow)
  <2>1. Orderly(<<BulkUpdate("workflow")>>) /\ Orderly(<<Lock("workflow")>>)
    BY <1>f, FreeOrderly
  <2> QED BY <2>1, PartsOrderly, OrderlyJoined DEF generate_workflow, approve_workflow
<1>4. Orderly(recalculate_case) /\ Orderly(calculate_case) /\ Orderly(approve_economic_case)
  <2>1. /\ Orderly(<<Lock("case"), BulkUpdate("artifact")>>)
        /\ Orderly(<<Insert("engagement"), BulkUpdate("artifact")>>)
        /\ Orderly(<<Lock("engagement"), Lock("case"), BulkUpdate("artifact")>>)
    BY <1>f, FreeOrderly
  <2> QED BY <2>1, PartsOrderly, OrderlyJoined
          DEF recalculate_case, calculate_case, approve_economic_case
<1>5. Orderly(change_handoff) /\ Orderly(publish_package) /\ Orderly(transition_qualification)
  BY <1>d, PartsOrderly, OrderlyJoined
     DEF change_handoff, publish_package, transition_qualification
<1>6. Orderly(rotate_grant) /\ Orderly(revoke_grant) /\ Orderly(retrieve_package)
  BY <1>d, PartsOrderly, OrderlyJoined DEF rotate_grant, revoke_grant, retrieve_package
<1>7. Orderly(upload_evidence) /\ Orderly(bind_worker)
  <2>1. Orderly(<<Insert("engagement")>>) /\ Orderly(<<Lock("binding"), Insert("engagement")>>)
    BY <1>f, FreeOrderly
  <2> QED BY <2>1, PartsOrderly, OrderlyJoined DEF upload_evidence, bind_worker
<1>8. Orderly(stage_qualified) /\ Orderly(stage_synthetic)
  <2>1. /\ Orderly(<<Lock("job")>>) /\ Orderly(<<Change("asset"), Insert("engagement")>>)
        /\ Orderly(<<Lock("job"), Change("asset"), Insert("engagement")>>)
    BY <1>f, FreeOrderly
  <2> QED BY <2>1, PartsOrderly, OrderlyJoined DEF stage_qualified, stage_synthetic
<1>9. Orderly(delete_engagement)
  <2> DEFINE p == delete_engagement
  <2>1. \A row \in Rows : Lock(row) \in Entries /\ Lock(row)[1] = row
    BY EntryFields
  <2>2. /\ p \in Seq(Entries) /\ Len(p) = 12
        /\ p[1] = Lock("engagement")
        /\ \A k \in 2 .. 12 : p[k][1] # "operator"
    BY <2>1 DEF delete_engagement, Rows
  <2> HIDE DEF p
  <2>3. Lock("engagement")[1] = "engagement" /\ "engagement" \notin Dependent
    BY EntryFields DEF Dependent
  <2>4. Orderly(p)
    BY <2>2, <2>3 DEF Orderly
  <2> QED BY <2>4 DEF p
<1> QED BY <1>1, <1>2, <1>3, <1>4, <1>5, <1>6, <1>7, <1>8, <1>9 DEF Operations, Plan

-----------------------------------------------------------------------------
LockTypeOK ==
    /\ doing \in [Requests -> Operations \cup {"none"}]
    /\ step \in [Requests -> Nat]
    /\ held \in [Requests -> SUBSET (Rows \X Modes)]

(* A request holds what it has come past in its plan, but for the bulk     *)
(* updates that found nothing, and nothing else.                           *)
HoldsWhatItTook ==
    \A r \in Requests :
        /\ doing[r] = "none" => held[r] = {} /\ step[r] = 0
        /\ doing[r] # "none" =>
            /\ step[r] <= Len(Plan[doing[r]])
            /\ \A lock \in held[r] : \E j \in 1 .. step[r] :
                  lock = <<Plan[doing[r]][j][1], Plan[doing[r]][j][2]>>
            /\ \A j \in 1 .. step[r] : \A row \in Rows :
                  Plan[doing[r]][j] = Lock(row) => <<row, "update">> \in held[r]

(* What the database grants: no two locks that conflict.                   *)
NoneConflict ==
    \A r, q \in Requests : \A lock \in held[r], other \in held[q] :
        r # q /\ lock[1] = other[1] => ~Conflicting(lock[2], other[2])

LocksInv == LockTypeOK /\ HoldsWhatItTook /\ NoneConflict

(* The plans are sequences of entries.                                     *)
LEMMA PlanEntries ==
    ASSUME NEW op \in Operations
    PROVE  /\ Plan[op] \in Seq(Entries) /\ Len(Plan[op]) \in Nat
           /\ \A k \in 1 .. Len(Plan[op]) : Plan[op][k] \in Entries
           /\ op # "none"
<1>1. "none" \notin Operations
  BY DEF Operations, Plan
<1>2. Plan[op] \in Seq(Entries)
  <2>1. CASE op = "deactivate_service"
    BY <2>1, EntryFields DEF Plan, deactivate_service, Rows
  <2>2. CASE op # "deactivate_service"
    BY <2>2, PlansOrderly DEF Orderly
  <2> QED BY <2>1, <2>2
<1> QED BY <1>1, <1>2

(* An entry names a row and a mode.                                        *)
LEMMA EntryOf ==
    ASSUME NEW e \in Entries
    PROVE  <<e[1], e[2]>> \in Rows \X Modes
<1>1. PICK row \in Rows : e \in {Lock(row), Insert(row), Share(row), Change(row), BulkUpdate(row)}
  BY DEF Entries
<1> QED BY <1>1, EntryFields DEF Modes

(* Locking goes along the plan and waits for what conflicts.               *)
LEMMA LocksStep ==
    ASSUME LocksInv, [LocksNext]_lockVars
    PROVE  LocksInv'
<1>0. LockTypeOK /\ HoldsWhatItTook /\ NoneConflict
  BY DEF LocksInv
<1>1. ASSUME NEW r \in Requests, BeginRequest(r) PROVE LocksInv'
  <2>1. PICK op \in Operations : doing' = [doing EXCEPT ![r] = op]
    BY <1>1 DEF BeginRequest
  <2>2. UNCHANGED <<step, held>> /\ doing[r] = "none"
    BY <1>1 DEF BeginRequest
  <2>3. /\ doing'[r] = op /\ op # "none" /\ held'[r] = {} /\ step'[r] = 0
        /\ Len(Plan[op]) \in Nat
    BY <1>0, <2>1, <2>2, PlanEntries DEF LockTypeOK, HoldsWhatItTook
  <2>4. \A q \in Requests \ {r} : doing'[q] = doing[q] /\ held'[q] = held[q] /\ step'[q] = step[q]
    BY <1>0, <2>1, <2>2 DEF LockTypeOK
  <2>5. LockTypeOK'
    BY <1>0, <2>1, <2>2 DEF LockTypeOK
  <2>6. HoldsWhatItTook'
    BY <1>0, <2>3, <2>4 DEF HoldsWhatItTook
  <2>7. NoneConflict'
    BY <1>0, <2>2 DEF NoneConflict
  <2> QED BY <2>5, <2>6, <2>7 DEF LocksInv
<1>2. ASSUME NEW r \in Requests, TakeLock(r) PROVE LocksInv'
  <2> DEFINE p == Plan[doing[r]] k == step[r] + 1 new == <<p[k][1], p[k][2]>>
  <2>1. /\ Underway(r) /\ Blockers(r) = {} /\ doing' = doing
        /\ held' = [held EXCEPT ![r] = @ \cup {new}]
        /\ step' = [step EXCEPT ![r] = @ + 1]
    BY <1>2 DEF TakeLock, Wanted
  <2>2. /\ doing[r] \in Operations /\ doing[r] # "none"
        /\ k \in 1 .. Len(p) /\ k \in Nat /\ step[r] \in Nat
    BY <1>0, <2>1, PlanEntries DEF Underway, LockTypeOK
  <2>3. p[k] \in Entries /\ new \in Rows \X Modes
    BY <2>2, PlanEntries, EntryOf
  <2>4. held'[r] = held[r] \cup {new} /\ step'[r] = k
    BY <1>0, <2>1 DEF LockTypeOK
  <2>5. \A q \in Requests \ {r} : held'[q] = held[q] /\ step'[q] = step[q]
    BY <1>0, <2>1 DEF LockTypeOK
  <2>6. LockTypeOK'
    BY <1>0, <2>1, <2>2, <2>3 DEF LockTypeOK
  <2>7. \A j \in 1 .. k : j \in 1 .. step[r] \/ j = k
    BY <2>2
  <2>8. \A row : p[k] = Lock(row) => new = <<row, "update">>
    BY EntryFields
  <2>9. HoldsWhatItTook'
    <3>1. ASSUME NEW lock \in held'[r] PROVE \E j \in 1 .. k : lock = <<p[j][1], p[j][2]>>
      BY <1>0, <2>2, <2>4, <3>1 DEF HoldsWhatItTook
    <3>2. ASSUME NEW j \in 1 .. k, NEW row \in Rows, p[j] = Lock(row)
          PROVE  <<row, "update">> \in held'[r]
      BY <1>0, <2>2, <2>4, <2>7, <2>8, <3>2 DEF HoldsWhatItTook
    <3>3. k <= Len(p)
      BY <2>2
    <3> HIDE DEF p, k, new
    <3>4. p = Plan[doing[r]]
      BY DEF p
    <3> QED BY <1>0, <2>1, <2>2, <2>4, <2>5, <3>1, <3>2, <3>3, <3>4 DEF HoldsWhatItTook
  <2>10. NoneConflict'
    <3>1. ASSUME NEW q \in Requests \ {r}, NEW other \in held[q], other[1] = new[1]
          PROVE  ~Conflicting(other[2], new[2]) /\ ~Conflicting(new[2], other[2])
      <4>1. ~Conflicting(other[2], Wanted(r)[2])
        BY <2>1, <3>1 DEF Blockers, Wanted
      <4> QED BY <4>1 DEF Wanted, Conflicting
    <3> HIDE DEF new
    <3> QED BY <1>0, <2>4, <2>5, <3>1 DEF NoneConflict
  <2> QED BY <2>6, <2>9, <2>10 DEF LocksInv
<1>3. ASSUME NEW r \in Requests, FindNothing(r) PROVE LocksInv'
  <2> DEFINE p == Plan[doing[r]] k == step[r] + 1
  <2>1. /\ Underway(r) /\ UNCHANGED <<doing, held>> /\ p[k][3]
        /\ step' = [step EXCEPT ![r] = @ + 1]
    BY <1>3 DEF FindNothing, Wanted
  <2>2. /\ doing[r] \in Operations /\ doing[r] # "none"
        /\ k \in 1 .. Len(p) /\ k \in Nat /\ step[r] \in Nat
    BY <1>0, <2>1, PlanEntries DEF Underway, LockTypeOK
  <2>3. \A q \in Requests \ {r} : step'[q] = step[q]
    BY <1>0, <2>1 DEF LockTypeOK
  <2>4. step'[r] = k /\ \A j \in 1 .. k : j \in 1 .. step[r] \/ j = k
    BY <1>0, <2>1, <2>2 DEF LockTypeOK
  <2>5. ASSUME NEW row, p[k] = Lock(row) PROVE FALSE
    <3>1. Lock(row)[3] = FALSE
      BY DEF Lock
    <3>2. p[k][3] = FALSE
      BY <2>5, <3>1
    <3> HIDE DEF p, k
    <3> QED BY <2>1, <3>2
  <2>6. LockTypeOK'
    BY <1>0, <2>1, <2>2 DEF LockTypeOK
  <2>7. HoldsWhatItTook'
    <3>1. ASSUME NEW lock \in held[r] PROVE \E j \in 1 .. k : lock = <<p[j][1], p[j][2]>>
      <4>1. \A j \in 1 .. step[r] : j \in 1 .. k
        BY <2>2
      <4> QED BY <1>0, <2>2, <4>1 DEF HoldsWhatItTook
    <3>2. ASSUME NEW j \in 1 .. k, NEW row \in Rows, p[j] = Lock(row)
          PROVE  <<row, "update">> \in held[r]
      BY <1>0, <2>2, <2>4, <2>5, <3>2 DEF HoldsWhatItTook
    <3>3. k <= Len(p)
      BY <2>2
    <3> HIDE DEF p, k
    <3>4. p = Plan[doing[r]]
      BY DEF p
    <3> QED BY <1>0, <2>1, <2>2, <2>3, <2>4, <3>1, <3>2, <3>3, <3>4 DEF HoldsWhatItTook
  <2>8. NoneConflict'
    BY <1>0, <2>1 DEF NoneConflict
  <2> QED BY <2>6, <2>7, <2>8 DEF LocksInv
<1>4. ASSUME NEW r \in Requests, EndRequest(r) PROVE LocksInv'
  <2>1. LockTypeOK'
    BY <1>0, <1>4 DEF EndRequest, LockTypeOK
  <2>2. doing'[r] = "none" /\ held'[r] = {} /\ step'[r] = 0
    BY <1>0, <1>4 DEF EndRequest, LockTypeOK
  <2>3. \A q \in Requests \ {r} : doing'[q] = doing[q] /\ held'[q] = held[q] /\ step'[q] = step[q]
    BY <1>0, <1>4 DEF EndRequest, LockTypeOK
  <2>4. HoldsWhatItTook'
    BY <1>0, <2>2, <2>3 DEF HoldsWhatItTook
  <2>5. NoneConflict'
    BY <1>0, <2>2, <2>3 DEF NoneConflict
  <2> QED BY <2>1, <2>4, <2>5 DEF LocksInv
<1>5. CASE UNCHANGED lockVars
  BY <1>0, <1>5 DEF lockVars, LocksInv, LockTypeOK, HoldsWhatItTook, NoneConflict
<1> QED BY <1>1, <1>2, <1>3, <1>4, <1>5 DEF LocksNext

(* Nobody holds a lock in the beginning.                                   *)
LEMMA LocksStart == LockInit => LocksInv
<1> SUFFICES ASSUME LockInit PROVE LocksInv
  OBVIOUS
<1>1. LockTypeOK
  BY DEF LockInit, LockTypeOK
<1> QED BY <1>1 DEF LockInit, LocksInv, HoldsWhatItTook, NoneConflict

-----------------------------------------------------------------------------
(* Who waits is under way, and what it wants is in its plan.               *)
LEMMA WaitsInItsPlan ==
    ASSUME LocksInv, NEW r \in Requests, Underway(r)
    PROVE  /\ doing[r] \in Operations /\ doing[r] # "none" /\ step[r] \in Nat
           /\ step[r] + 1 \in 1 .. Len(Plan[doing[r]])
           /\ Wanted(r) = Plan[doing[r]][step[r] + 1] /\ Wanted(r) \in Entries
<1>1. doing[r] \in Operations /\ doing[r] # "none" /\ step[r] \in Nat
  BY DEF LocksInv, LockTypeOK, Underway
<1>2. Len(Plan[doing[r]]) \in Nat
  BY <1>1, PlanEntries
<1>3. step[r] + 1 \in 1 .. Len(Plan[doing[r]])
  BY <1>1, <1>2 DEF Underway
<1> QED BY <1>1, <1>3, PlanEntries DEF Wanted

(* What blocks a request that waits.                                       *)
LEMMA BlockedBy ==
    ASSUME NEW r \in Requests, NEW q \in Blockers(r)
    PROVE  /\ Underway(r) /\ q \in Requests /\ q # r
           /\ \E lock \in held[q] : lock[1] = Wanted(r)[1] /\ Conflicting(lock[2], Wanted(r)[2])
BY DEF Blockers

(* Whoever has a row that depends on the engagement has the engagement,    *)
(* and whoever has the operator for more than sharing has done all of      *)
(* deactivate_service.                                                     *)
LEMMA DependentsHeld ==
    ASSUME LocksInv, NEW r \in Requests, NEW lock \in held[r]
    PROVE  /\ lock[1] \in Dependent => <<"engagement", "update">> \in held[r]
           /\ lock[1] = "operator" => lock[2] = "share" \/ ~Underway(r)
<1> DEFINE p == Plan[doing[r]]
<1>1. doing[r] \in Operations /\ doing[r] # "none" /\ step[r] \in Nat /\ step[r] <= Len(p)
  BY DEF LocksInv, LockTypeOK, HoldsWhatItTook
<1>2. PICK j \in 1 .. step[r] : lock = <<p[j][1], p[j][2]>>
  BY <1>1 DEF LocksInv, HoldsWhatItTook
<1>3. Len(p) \in Nat /\ j \in 1 .. Len(p)
  BY <1>1, <1>2, PlanEntries
<1>4. lock[1] = p[j][1] /\ lock[2] = p[j][2]
  BY <1>2
<1>5. CASE doing[r] = "deactivate_service"
  <2>1. Len(p) = 1 /\ p[1] = Change("operator")
    BY <1>5 DEF Plan, deactivate_service
  <2>2. p[j][1] = "operator" /\ step[r] = 1
    BY <1>1, <1>2, <1>3, <2>1, EntryFields
  <2>3. ~Underway(r)
    BY <2>1, <2>2 DEF Underway
  <2> QED BY <1>4, <2>2, <2>3 DEF Dependent
<1>6. CASE doing[r] # "deactivate_service"
  <2>1. Orderly(p)
    BY <1>1, <1>6, PlansOrderly
  <2>2. ASSUME p[j][1] \in Dependent PROVE <<"engagement", "update">> \in held[r]
    <3>1. PICK i \in 1 .. j - 1 : p[i] = Lock("engagement")
      BY <1>3, <2>1, <2>2 DEF Orderly
    <3>2. i \in 1 .. step[r] /\ "engagement" \in Rows
      BY <1>1 DEF Rows
    <3> QED BY <1>1, <3>1, <3>2 DEF LocksInv, HoldsWhatItTook
  <2>3. p[j][1] = "operator" => p[j][2] = "share"
    BY <1>3, <2>1 DEF Orderly
  <2> QED BY <1>4, <2>2, <2>3
<1> QED BY <1>5, <1>6

(* Who has the engagement locked has it alone, and nobody else has a row   *)
(* that depends on it.                                                     *)
LEMMA EngagementAlone ==
    ASSUME LocksInv, NEW r \in Requests, <<"engagement", "update">> \in held[r],
           NEW q \in Requests \ {r}, NEW lock \in held[q]
    PROVE  lock[1] \notin Dependent \cup {"engagement"}
<1>1. \A other \in held[q] : other[1] # "engagement"
  <2> SUFFICES ASSUME NEW other \in held[q], other[1] = "engagement" PROVE FALSE
    OBVIOUS
  <2> DEFINE own == <<"engagement", "update">>
  <2>1. own[1] = other[1] /\ own \in held[r] /\ Conflicting(own[2], other[2])
    BY DEF Conflicting
  <2> HIDE DEF own
  <2> QED BY <2>1 DEF LocksInv, NoneConflict
<1>2. <<"engagement", "update">> \notin held[q]
  BY <1>1
<1> QED BY <1>1, <1>2, DependentsHeld

(* In a cycle everybody is waited for by somebody in it: the others would  *)
(* be a smaller one.                                                       *)
LEMMA CycleBlocks ==
    ASSUME NEW S \in SUBSET Requests, Cycle(S), NEW r \in S
    PROVE  \E q \in S : r \in Blockers(q)
<1> SUFFICES ASSUME \A q \in S : r \notin Blockers(q) PROVE FALSE
  OBVIOUS
<1>1. \A q \in S : Blockers(q) \cap S # {}
  BY DEF Cycle, Waiting
<1>2. S \ {r} # {}
  BY <1>1
<1>3. \A q \in S \ {r} : Blockers(q) \cap (S \ {r}) # {}
  BY <1>1
<1>4. S \ {r} = S
  BY <1>2, <1>3 DEF Cycle, Waiting
<1> QED BY <1>4

(* What needs nothing but the engagement, or shares the operator.          *)
Within ==
    {e \in Entries : e[1] \in Dependent \cup {"engagement"} \/ e = Share("operator")}

(* The plans that lock the engagement before anything else.                *)
LEMMA AggregateFirstPlans ==
    ASSUME NEW op \in AggregateFirst
    PROVE  /\ op \in Operations
           /\ Plan[op] \in Seq(Within) /\ Len(Plan[op]) > 0
           /\ Plan[op][1] = Lock("engagement")
<1>0. op \in Operations
  BY DEF AggregateFirst, Operations, Plan
<1>1. /\ Lock("engagement") \in Within /\ Insert("engagement") \in Within
      /\ Lock("factory") \in Within /\ Lock("grant") \in Within /\ Lock("qualification") \in Within
      /\ Share("operator") \in Within
  BY EntryFields DEF Within, Rows, Dependent
<1>2. /\ Authority \in Seq(Within) /\ Len(Authority) = 3 /\ Authority[1] = Lock("engagement")
      /\ LockGrants \in Seq(Within) /\ Len(LockGrants) = 2 /\ LockGrants[1] = Lock("engagement")
  BY <1>1 DEF Authority, LockGrants
<1>3. ASSUME NEW s \in Seq(Within), NEW t \in Seq(Within), Len(s) > 0, s[1] = Lock("engagement")
      PROVE  s \o t \in Seq(Within) /\ Len(s \o t) > 0 /\ (s \o t)[1] = Lock("engagement")
  BY <1>3
<1>4. /\ change_handoff \in Seq(Within) /\ Len(change_handoff) > 0
      /\ change_handoff[1] = Lock("engagement")
      /\ transition_qualification \in Seq(Within) /\ Len(transition_qualification) > 0
      /\ transition_qualification[1] = Lock("engagement")
  BY <1>1 DEF change_handoff, transition_qualification
<1>5. /\ publish_package \in Seq(Within) /\ Len(publish_package) > 0
      /\ publish_package[1] = Lock("engagement")
  BY <1>2, <1>3, <1>4 DEF publish_package, change_handoff
<1>6. /\ rotate_grant \in Seq(Within) /\ Len(rotate_grant) > 0
      /\ rotate_grant[1] = Lock("engagement")
  <2>1. <<Lock("engagement"), Lock("grant")>> \in Seq(Within)
    BY <1>1
  <2> QED BY <1>2, <1>3, <2>1 DEF rotate_grant
<1>7. /\ retrieve_package \in Seq(Within) /\ Len(retrieve_package) > 0
      /\ retrieve_package[1] = Lock("engagement")
  <2>1. LockGrants \in Seq(Within) /\ Authority \in Seq(Within) /\ Len(LockGrants) > 0
    BY <1>2
  <2>2. /\ LockGrants \o Authority \in Seq(Within) /\ Len(LockGrants \o Authority) > 0
        /\ (LockGrants \o Authority)[1] = Lock("engagement")
    BY ONLY <1>2, <1>3, <2>1
  <2> QED BY <2>2 DEF retrieve_package
<1>8. /\ upload_evidence \in Seq(Within) /\ Len(upload_evidence) > 0
      /\ upload_evidence[1] = Lock("engagement")
  <2>1. <<Insert("engagement")>> \in Seq(Within)
    BY <1>1
  <2> QED BY <1>2, <1>3, <2>1 DEF upload_evidence
<1>9. /\ revoke_grant \in Seq(Within) /\ Len(revoke_grant) > 0
      /\ revoke_grant[1] = Lock("engagement")
  BY <1>2 DEF revoke_grant
<1>10. /\ Plan["change_handoff"] = change_handoff /\ Plan["publish_package"] = publish_package
       /\ Plan["transition_qualification"] = transition_qualification
       /\ Plan["rotate_grant"] = rotate_grant /\ Plan["revoke_grant"] = revoke_grant
       /\ Plan["retrieve_package"] = retrieve_package
       /\ Plan["upload_evidence"] = upload_evidence
  BY DEF Plan
<1>11. op \in {"change_handoff", "publish_package", "transition_qualification", "rotate_grant",
               "revoke_grant", "retrieve_package", "upload_evidence"}
  BY DEF AggregateFirst
<1> HIDE DEF Plan
<1> QED BY <1>0, <1>4, <1>5, <1>6, <1>7, <1>8, <1>9, <1>10, <1>11

(* Whoever waits with the engagement locked first waits for nobody.        *)
LEMMA AggregateFirstNeverInCycle ==
    ASSUME LocksInv, NEW S \in SUBSET Requests, Cycle(S), NEW r \in S,
           doing[r] \in AggregateFirst
    PROVE  FALSE
<1> DEFINE p == Plan[doing[r]]
<1>1. PICK b \in S : b \in Blockers(r)
  BY DEF Cycle, Waiting
<1>2. Underway(r) /\ Underway(b) /\ b \in Requests \ {r}
  BY <1>1, BlockedBy DEF Cycle, Waiting
<1>3. /\ Wanted(r) \in Within /\ step[r] \in Nat
      /\ p[1] = Lock("engagement") /\ doing[r] # "none"
  <2>1. step[r] + 1 \in 1 .. Len(p) /\ Wanted(r) = p[step[r] + 1] /\ step[r] \in Nat
    BY <1>2, WaitsInItsPlan
  <2>2. p \in Seq(Within) /\ p[1] = Lock("engagement")
    BY AggregateFirstPlans
  <2> QED BY <1>2, <2>1, <2>2 DEF Underway
<1>4. <<"engagement", "update">> \in held[r]
  <2>1. PICK q \in S : r \in Blockers(q)
    BY CycleBlocks
  <2>2. held[r] # {}
    BY <2>1, BlockedBy
  <2>3. step[r] > 0
    BY <1>3, <2>2 DEF LocksInv, HoldsWhatItTook
  <2>4. 1 \in 1 .. step[r] /\ "engagement" \in Rows
    BY <1>3, <2>3 DEF Rows
  <2> QED BY <1>3, <2>4 DEF LocksInv, HoldsWhatItTook
<1>5. PICK lock \in held[b] : lock[1] = Wanted(r)[1] /\ Conflicting(lock[2], Wanted(r)[2])
  BY <1>1, BlockedBy
<1>6. lock[1] \notin Dependent \cup {"engagement"}
  BY <1>2, <1>4, EngagementAlone
<1>7. Wanted(r) = Share("operator")
  BY <1>3, <1>5, <1>6 DEF Within
<1>8. lock[1] = "operator" /\ lock[2] # "share"
  BY <1>5, <1>7, EntryFields DEF Conflicting
<1> QED BY <1>2, <1>8, DependentsHeld

(* The order of the cascade, and of a worker's transaction, in which the   *)
(* engagement is the last.                                                 *)
Rank(row) ==
    IF row \in {"contradiction", "workflow", "job"} THEN 1
    ELSE IF row \in {"case", "asset"} THEN 2
    ELSE IF row = "artifact" THEN 3 ELSE 4

(* A plan goes up in rank until it has the engagement locked, and then     *)
(* takes only what nobody has who has not locked the engagement or the job.*)
Ascending(p) ==
    \A k \in 1 .. Len(p) :
        LET Passed(e) == \E j \in 1 .. k - 1 : p[j] = e
        IN  /\ p[k][1] = "asset" => Passed(Lock("job"))
            /\ p[k][1] = "binding" => Passed(Lock("engagement"))
            /\ Passed(Lock("engagement")) =>
                \/ p[k][1] \in Dependent \cup {"engagement", "binding", "asset"}
                \/ p[k] = Share("operator")
            /\ \A j \in 1 .. k - 1 :
                Passed(Lock("engagement")) \/ Rank(p[j][1]) < Rank(p[k][1])

(* The plans that are left.                                                *)
Rest == Operations \ (AggregateFirst \cup OutOfOrder)

(* They are ascending.                                                     *)
LEMMA RestAscends ==
    ASSUME NEW op \in Rest
    PROVE  op \in Operations /\ Ascending(Plan[op])
<1>1. Ascending(resolve_contradiction)
  <2> DEFINE p == resolve_contradiction
  <2>1. /\ Len(p) = 3
        /\ p[1] = Lock("contradiction")
        /\ p[2] = Lock("engagement")
        /\ p[3] = BulkUpdate("factory")
    BY DEF resolve_contradiction, Handoff
  <2> HIDE DEF p
  <2>2. Ascending(p)
    BY <2>1, EntryFields DEF Ascending, Rank, Dependent
  <2> QED BY <2>2 DEF p
<1>2. Ascending(generate_packet)
  <2> DEFINE p == generate_packet
  <2>1. /\ Len(p) = 3
        /\ p[1] = BulkUpdate("artifact")
        /\ p[2] = Lock("engagement")
        /\ p[3] = BulkUpdate("factory")
    BY DEF generate_packet, Handoff
  <2> HIDE DEF p
  <2>2. Ascending(p)
    BY <2>1, EntryFields DEF Ascending, Rank, Dependent
  <2> QED BY <2>2 DEF p
<1>3. Ascending(generate_workflow)
  <2> DEFINE p == generate_workflow
  <2>1. /\ Len(p) = 5
        /\ p[1] = BulkUpdate("workflow")
        /\ p[2] = BulkUpdate("case")
        /\ p[3] = BulkUpdate("artifact")
        /\ p[4] = Lock("engagement")
        /\ p[5] = BulkUpdate("factory")
    BY DEF generate_workflow, Handoff, EconomicsAndArtifacts
  <2> HIDE DEF p
  <2>2. Ascending(p)
    BY <2>1, EntryFields DEF Ascending, Rank, Dependent
  <2> QED BY <2>2 DEF p
<1>4. Ascending(approve_workflow)
  <2> DEFINE p == approve_workflow
  <2>1. /\ Len(p) = 5
        /\ p[1] = Lock("workflow")
        /\ p[2] = BulkUpdate("case")
        /\ p[3] = BulkUpdate("artifact")
        /\ p[4] = Lock("engagement")
        /\ p[5] = BulkUpdate("factory")
    BY DEF approve_workflow, Handoff, EconomicsAndArtifacts
  <2> HIDE DEF p
  <2>2. Ascending(p)
    BY <2>1, EntryFields DEF Ascending, Rank, Dependent
  <2> QED BY <2>2 DEF p
<1>5. Ascending(recalculate_case)
  <2> DEFINE p == recalculate_case
  <2>1. /\ Len(p) = 4
        /\ p[1] = Lock("case")
        /\ p[2] = BulkUpdate("artifact")
        /\ p[3] = Lock("engagement")
        /\ p[4] = BulkUpdate("factory")
    BY DEF recalculate_case, Handoff
  <2> HIDE DEF p
  <2>2. Ascending(p)
    BY <2>1, EntryFields DEF Ascending, Rank, Dependent
  <2> QED BY <2>2 DEF p
<1>6. Ascending(stage_synthetic)
  <2> DEFINE p == stage_synthetic
  <2>1. /\ Len(p) = 3
        /\ p[1] = Lock("job")
        /\ p[2] = Change("asset")
        /\ p[3] = Insert("engagement")
    BY DEF stage_synthetic
  <2> HIDE DEF p
  <2>2. Ascending(p)
    BY <2>1, EntryFields DEF Ascending, Rank, Dependent
  <2> QED BY <2>2 DEF p
<1>7. Ascending(stage_qualified)
  <2> DEFINE p == stage_qualified
  <2>1. /\ Len(p) = 7
        /\ p[1] = Lock("job")
        /\ p[2] = Lock("engagement")
        /\ p[3] = Share("binding")
        /\ p[4] = Share("operator")
        /\ p[5] = Lock("qualification")
        /\ p[6] = Change("asset")
        /\ p[7] = Insert("engagement")
    BY DEF stage_qualified, WorkerAuthority
  <2> HIDE DEF p
  <2>2. Ascending(p)
    BY <2>1, EntryFields DEF Ascending, Rank, Dependent
  <2> QED BY <2>2 DEF p
<1>8. Ascending(deactivate_service)
  <2> DEFINE p == deactivate_service
  <2>1. /\ Len(p) = 1
        /\ p[1] = Change("operator")
    BY DEF deactivate_service
  <2> HIDE DEF p
  <2>2. Ascending(p)
    BY <2>1, EntryFields DEF Ascending, Rank, Dependent
  <2> QED BY <2>2 DEF p
<1>9. op \in {"resolve_contradiction", "generate_packet", "generate_workflow",
              "approve_workflow", "recalculate_case", "stage_synthetic", "stage_qualified",
              "deactivate_service"}
  BY DEF Rest, Operations, Plan, AggregateFirst, OutOfOrder
<1>10. /\ Plan["resolve_contradiction"] = resolve_contradiction
       /\ Plan["generate_packet"] = generate_packet
       /\ Plan["generate_workflow"] = generate_workflow
       /\ Plan["approve_workflow"] = approve_workflow
       /\ Plan["recalculate_case"] = recalculate_case
       /\ Plan["stage_synthetic"] = stage_synthetic
       /\ Plan["stage_qualified"] = stage_qualified
       /\ Plan["deactivate_service"] = deactivate_service
  BY DEF Plan
<1>11. op \in Operations
  BY DEF Rest
<1> QED BY <1>1, <1>2, <1>3, <1>4, <1>5, <1>6, <1>7, <1>8, <1>9, <1>10, <1>11

(* Only Lock asks for an update.                                           *)
LEMMA UpdateIsLock ==
    ASSUME NEW e \in Entries, e[2] = "update"
    PROVE  e = Lock(e[1])
<1>1. PICK row \in Rows : e \in {Lock(row), Insert(row), Share(row), Change(row), BulkUpdate(row)}
  BY DEF Entries
<1>2. e = Lock(row)
  BY <1>1, EntryFields
<1> QED BY <1>2, EntryFields

(* A lock that a request is past in its plan is one that it holds.         *)
LEMMA PassedIsHeld ==
    ASSUME LocksInv, NEW r \in Requests, doing[r] # "none", NEW row \in Rows,
           NEW j \in 1 .. step[r], Plan[doing[r]][j] = Lock(row)
    PROVE  <<row, "update">> \in held[r]
BY DEF LocksInv, HoldsWhatItTook

(* Among these nobody who waits for another has the engagement locked, and *)
(* whoever blocks another waits for a row of a higher rank.                *)
LEMMA RestClimbs ==
    ASSUME LocksInv, NEW r \in Requests, doing[r] \in Rest, Underway(r),
           NEW q \in Blockers(r), doing[q] \in Rest, Underway(q)
    PROVE  /\ <<"engagement", "update">> \notin held[r]
           /\ <<"engagement", "update">> \notin held[q]
              => Rank(Wanted(r)[1]) < Rank(Wanted(q)[1])
<1>0. q \in Requests \ {r} /\ "engagement" \in Rows /\ "job" \in Rows
  BY BlockedBy DEF Rows
<1>1. PICK lock \in held[q] : lock[1] = Wanted(r)[1] /\ Conflicting(lock[2], Wanted(r)[2])
  BY BlockedBy
<1>2. ASSUME NEW x \in {r, q}
      PROVE  LET p == Plan[doing[x]]
                 k == step[x] + 1
             IN  /\ x \in Requests /\ doing[x] # "none" /\ step[x] \in Nat
                 /\ k \in 1 .. Len(p) /\ Len(p) \in Nat /\ Wanted(x) = p[k] /\ Ascending(p)
  BY <1>0, WaitsInItsPlan, PlanEntries, RestAscends
<1>3. ASSUME NEW x \in {r, q}, NEW row \in Rows,
             NEW j \in 1 .. step[x], Plan[doing[x]][j] = Lock(row)
      PROVE  <<row, "update">> \in held[x]
  <2>1. x \in Requests /\ doing[x] # "none"
    BY <1>2
  <2> QED BY <1>3, <2>1, PassedIsHeld
<1>4. PICK i \in 1 .. step[q] : lock = <<Plan[doing[q]][i][1], Plan[doing[q]][i][2]>>
  BY <1>2 DEF LocksInv, HoldsWhatItTook
<1>5. ~ \E row \in Rows : <<row, "update">> \in held[r] /\ <<row, "update">> \in held[q]
  <2> SUFFICES ASSUME NEW row \in Rows,
                      <<row, "update">> \in held[r], <<row, "update">> \in held[q]
               PROVE  FALSE
    OBVIOUS
  <2> DEFINE both == <<row, "update">>
  <2>1. both \in held[r] /\ both \in held[q] /\ Conflicting(both[2], both[2])
    BY DEF Conflicting
  <2> HIDE DEF both
  <2> QED BY <1>0, <2>1 DEF LocksInv, NoneConflict
<1>6. ASSUME <<"engagement", "update">> \in held[r] PROVE FALSE
  <2> DEFINE p == Plan[doing[r]] k == step[r] + 1
  <2>1. \E j \in 1 .. k - 1 : p[j] = Lock("engagement")
    <3>1. PICK j \in 1 .. step[r] : <<"engagement", "update">> = <<p[j][1], p[j][2]>>
      BY <1>2, <1>6 DEF LocksInv, HoldsWhatItTook
    <3>2. p[j] \in Entries /\ p[j][1] = "engagement" /\ p[j][2] = "update"
      BY <1>2, <3>1, PlanEntries, RestAscends
    <3>3. p[j] = Lock("engagement")
      BY <3>2, UpdateIsLock
    <3> QED BY <1>2, <3>3
  <2>2. \/ Wanted(r)[1] \in Dependent \cup {"engagement", "binding", "asset"}
        \/ Wanted(r) = Share("operator")
    BY <1>2, <2>1 DEF Ascending
  <2>3. Wanted(r)[1] \notin Dependent \cup {"engagement"}
    BY <1>0, <1>1, <1>6, EngagementAlone
  <2>4. Wanted(r)[1] # "binding"
    <3> SUFFICES ASSUME lock[1] = "binding" PROVE FALSE
      BY <1>1
    <3>1. Plan[doing[q]][i][1] = "binding" /\ i \in 1 .. Len(Plan[doing[q]])
      BY <1>2, <1>4
    <3>2. PICK j \in 1 .. i - 1 : Plan[doing[q]][j] = Lock("engagement")
      BY <1>2, <3>1 DEF Ascending
    <3>3. <<"engagement", "update">> \in held[q]
      <4>1. j \in 1 .. step[q]
        BY <1>2
      <4> QED BY <1>0, <1>3, <3>2, <4>1
    <3> QED BY <1>0, <1>5, <1>6, <3>3
  <2>5. Wanted(r)[1] # "asset"
    <3> SUFFICES ASSUME lock[1] = "asset", Wanted(r)[1] = "asset" PROVE FALSE
      BY <1>1
    <3>1. Plan[doing[q]][i][1] = "asset" /\ i \in 1 .. Len(Plan[doing[q]])
      BY <1>2, <1>4
    <3>2. PICK j \in 1 .. i - 1 : Plan[doing[q]][j] = Lock("job")
      BY <1>2, <3>1 DEF Ascending
    <3>3. PICK m \in 1 .. k - 1 : p[m] = Lock("job")
      BY <1>2 DEF Ascending
    <3>4. <<"job", "update">> \in held[q]
      <4>1. j \in 1 .. step[q]
        BY <1>2
      <4> QED BY <1>0, <1>3, <3>2, <4>1
    <3>5. <<"job", "update">> \in held[r]
      <4>1. m \in 1 .. step[r]
        BY <1>2
      <4> QED BY <1>0, <1>3, <3>3, <4>1
    <3> QED BY <1>0, <1>5, <3>4, <3>5
  <2>6. Wanted(r) = Share("operator")
    BY <2>2, <2>3, <2>4, <2>5
  <2>7. lock[1] = "operator" /\ lock[2] # "share"
    BY <1>1, <2>6, EntryFields DEF Conflicting
  <2> QED BY <1>0, <2>7, DependentsHeld
<1>7. ASSUME <<"engagement", "update">> \notin held[q]
      PROVE  Rank(Wanted(r)[1]) < Rank(Wanted(q)[1])
  <2> DEFINE p == Plan[doing[q]] k == step[q] + 1
  <2>1. ~ \E j \in 1 .. k - 1 : p[j] = Lock("engagement")
    <3>1. \A j \in 1 .. k - 1 : j \in 1 .. step[q]
      BY <1>2
    <3> QED BY <1>0, <1>3, <1>7, <3>1
  <2>2. i \in 1 .. k - 1 /\ k \in 1 .. Len(p) /\ Wanted(q) = p[k] /\ Ascending(p)
    BY <1>2, <1>4
  <2>3. Rank(p[i][1]) < Rank(p[k][1])
    BY <2>1, <2>2 DEF Ascending
  <2>4. Wanted(r)[1] = p[i][1]
    BY <1>1, <1>4
  <2> QED BY <2>2, <2>3, <2>4
<1> QED BY <1>6, <1>7

(* A cycle of these would have no end.                                     *)
LEMMA RestNeverInCycle ==
    ASSUME LocksInv, NEW S \in SUBSET Requests, Waiting(S), \A r \in S : doing[r] \in Rest
    PROVE  FALSE
<1> DEFINE W(r) == Rank(Wanted(r)[1])
<1>1. \A r \in S : Underway(r) /\ \E q \in S : q \in Blockers(r)
  BY DEF Waiting, Blockers
<1>2. \A r \in S : <<"engagement", "update">> \notin held[r]
  BY <1>1, RestClimbs
<1>3. \A r \in S : W(r) \in 1 .. 4 /\ \E q \in S : W(r) < W(q)
  <2> SUFFICES ASSUME NEW r \in S PROVE W(r) \in 1 .. 4 /\ \E q \in S : W(r) < W(q)
    OBVIOUS
  <2>1. PICK q \in S : q \in Blockers(r)
    BY <1>1
  <2>2. Rank(Wanted(r)[1]) < Rank(Wanted(q)[1])
    BY <1>1, <1>2, <2>1, RestClimbs
  <2>3. W(r) \in 1 .. 4
    BY DEF Rank
  <2> QED BY <2>2, <2>3
<1> HIDE DEF W
<1>4. ~ \E r \in S : W(r) = 4
  BY <1>3
<1>5. ~ \E r \in S : W(r) = 3
  BY <1>3, <1>4
<1>6. ~ \E r \in S : W(r) = 2
  BY <1>3, <1>4, <1>5
<1>7. ~ \E r \in S : W(r) = 1
  BY <1>3, <1>4, <1>5, <1>6
<1> QED BY <1>3, <1>4, <1>5, <1>6, <1>7 DEF Waiting

-----------------------------------------------------------------------------
(* The locks that are held are those of the plans, and none conflict.      *)
THEOREM LocksInvariant == LockSpec => []LocksInv
<1>1. LocksInv /\ [LocksNext]_lockVars => LocksInv'
  BY LocksStep
<1> QED BY <1>1, LocksStart, PTL DEF LockSpec

(* An operation that locks the engagement before anything else is never    *)
(* part of a deadlock, with any number of requests and whatever the tables *)
(* have (the comment in rotate_retrieval_grant).                           *)
THEOREM AggregateFirstSafe == LockSpec => []AggregateFirstIsSafe
<1>1. LocksInv => AggregateFirstIsSafe
  BY AggregateFirstNeverInCycle DEF AggregateFirstIsSafe
<1> QED BY <1>1, LocksInvariant, PTL

(* Every deadlock has one of the five operations in it that take the       *)
(* engagement out of order.                                                *)
THEOREM DeadlocksKnown == LockSpec => []DeadlocksAreKnown
<1>1. ASSUME LocksInv, NEW S \in SUBSET Requests, Cycle(S)
      PROVE  \E r \in S : doing[r] \in OutOfOrder
  <2> SUFFICES ASSUME \A r \in S : doing[r] \notin OutOfOrder PROVE FALSE
    OBVIOUS
  <2>1. Waiting(S) /\ \A r \in S : Underway(r)
    BY <1>1 DEF Cycle, Waiting, Blockers
  <2>2. \A r \in S : doing[r] \in Operations
    BY <1>1, <2>1, WaitsInItsPlan
  <2>3. \A r \in S : doing[r] \notin AggregateFirst
    BY <1>1, AggregateFirstNeverInCycle
  <2> QED BY <1>1, <2>1, <2>2, <2>3, RestNeverInCycle DEF Rest
<1>2. LocksInv => DeadlocksAreKnown
  BY <1>1 DEF DeadlocksAreKnown
<1> QED BY <1>2, LocksInvariant, PTL
==============================================================================
