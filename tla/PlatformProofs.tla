--------------------------- MODULE PlatformProofs ---------------------------
(***************************************************************************)
(* Theorems about the systems beside the delivery chain.                   *)
(*                                                                         *)
(* OperatorSessions, for any number of login attempts, callbacks and       *)
(* identities: a callback that consumes an attempt holds its row, and one  *)
(* that has consumed it has left it gone for good; one that has enrolled   *)
(* its operator holds the operator's row to its commit.                    *)
(*                                                                         *)
(* TaskInventory, for any number of services, tasks and revisions: a task  *)
(* that was there when the cluster was listed was then RUNNING and is in   *)
(* that list; or it was not, stays so, and is in the STOPPED list, which   *)
(* is read afterwards, unless it is gone.                                  *)
(*                                                                         *)
(* RoleQuarantine, for any operators, kinds of grants and waits: a role is *)
(* Dead when Terraform has let go of it, its trust policy is closed and in *)
(* force, and its last session has ended.  Nothing brings a dead role back *)
(* to life, and only a dead role is ever without its deny or deleted.      *)
(***************************************************************************)
EXTENDS OperatorSessions, TaskInventory, RoleQuarantine, FiniteSetTheorems, TLAPS

-----------------------------------------------------------------------------
(* OperatorSessions.                                                       *)

USE DEF callbackVars

(* The callbacks that have used up the attempt they present.               *)
Past(c) == callback[c] \in {"exchanging", "named", "enrolled"} \/ sessionRows[c] # "none"

(* A session belongs to a callback that has ended, and a logout to a       *)
(* session; the state is an attempt as soon as there is one.               *)
CallbacksAgree ==
    \A c \in Callbacks :
        /\ sessionRows[c] # "none" => callback[c] = "done"
        /\ c \in logout => sessionRows[c] # "none"
        /\ callback[c] # "idle" => state[c] \in Attempts

(* An attempt is consumed under its lock, once.                            *)
AttemptsAgree ==
    /\ \A c \in Callbacks :
        /\ callback[c] = "consuming" =>
               attemptLock[state[c]] = c /\ attempts[state[c]] # "gone"
        /\ Past(c) => attempts[state[c]] = "gone"
    /\ \A c, d \in Callbacks : c # d /\ Past(c) /\ Past(d) => state[c] # state[d]

(* An operator stays as it was enrolled until the session is committed.    *)
EnrollmentsAgree ==
    \A c \in Callbacks : callback[c] = "enrolled" =>
        /\ human[c] \in Humans
        /\ operators[human[c]] # "inactive"
        /\ operatorLock[human[c]] = c

LoginInv == SessionsTypeOK /\ CallbacksAgree /\ AttemptsAgree /\ EnrollmentsAgree

(* Nothing is under way in the beginning.                                  *)
LEMMA LoginInitial == SessionsInit => LoginInv
BY SessionsAssumption
   DEF SessionsInit, LoginInv, SessionsTypeOK, CallbacksAgree, AttemptsAgree, EnrollmentsAgree,
       Past

(* No step leaves the types.                                               *)
LEMMA LoginTypeStep == SessionsTypeOK /\ [SessionsNext]_loginVars => SessionsTypeOK'
<1> SUFFICES ASSUME SessionsTypeOK, [SessionsNext]_loginVars PROVE SessionsTypeOK'
    OBVIOUS
<1> USE DEF SessionsTypeOK
<1>1. ASSUME NEW a \in Attempts, ExpireAttempt(a) \/ CreateLoginAttempt(a)
      PROVE  SessionsTypeOK'
  BY <1>1 DEF ExpireAttempt, CreateLoginAttempt
<1>2. ASSUME NEW h \in Humans, NEW b \in BOOLEAN, SetOperatorActive(h, b)
      PROVE  SessionsTypeOK'
  BY <1>2 DEF SetOperatorActive
<1>3. ASSUME NEW c \in Callbacks,
             ExpireSession(c) \/ BeginLogout(c) \/ RevokeOperatorSession(c)
      PROVE  SessionsTypeOK'
  BY <1>3 DEF ExpireSession, BeginLogout, RevokeOperatorSession
<1>4. ASSUME NEW c \in Callbacks, NEW a \in Attempts, PresentState(c, a)
      PROVE  SessionsTypeOK'
  BY <1>4 DEF PresentState, CallbackGoes
<1>5. ASSUME NEW c \in Callbacks,
             LockAttempt(c) \/ RefuseAttempt(c) \/ ExchangeCode(c) \/ EnrollOperator(c)
      PROVE  SessionsTypeOK'
  BY <1>5 DEF LockAttempt, RefuseAttempt, ExchangeCode, EnrollOperator, CallbackGoes
<1>6. ASSUME NEW c \in Callbacks, ConsumeLoginAttempt(c) \/ CallbackFails(c)
      PROVE  SessionsTypeOK'
  BY <1>6 DEF ConsumeLoginAttempt, CallbackFails, CallbackGoes, EndTransaction
<1>7. ASSUME NEW c \in Callbacks, CreateOperatorSession(c)
      PROVE  SessionsTypeOK'
  BY <1>7 DEF CreateOperatorSession, CallbackGoes, EndTransaction
<1>8. CASE UNCHANGED loginVars
  BY <1>8 DEF loginVars
<1> QED BY <1>1, <1>2, <1>3, <1>4, <1>5, <1>6, <1>7, <1>8 DEF SessionsNext

(* A step on the attempts, the sessions and the callbacks agrees with      *)
(* both: what is consumed was not gone, so nobody is past it yet.          *)
LEMMA LoginStep == LoginInv /\ [SessionsNext]_loginVars => LoginInv'
<1> SUFFICES ASSUME LoginInv, [SessionsNext]_loginVars PROVE LoginInv'
    OBVIOUS
<1>0. SessionsTypeOK /\ SessionsTypeOK'
  BY LoginTypeStep DEF LoginInv
<1> SUFFICES CallbacksAgree' /\ AttemptsAgree' /\ EnrollmentsAgree'
  BY <1>0 DEF LoginInv
<1> USE <1>0, SessionsAssumption
        DEF LoginInv, SessionsTypeOK, CallbacksAgree, AttemptsAgree, EnrollmentsAgree, Past
<1>1. ASSUME NEW a \in Attempts, ExpireAttempt(a) \/ CreateLoginAttempt(a)
      PROVE  CallbacksAgree' /\ AttemptsAgree' /\ EnrollmentsAgree'
  BY <1>1 DEF ExpireAttempt, CreateLoginAttempt
<1>2. ASSUME NEW h \in Humans, NEW b \in BOOLEAN, SetOperatorActive(h, b)
      PROVE  CallbacksAgree' /\ AttemptsAgree' /\ EnrollmentsAgree'
  BY <1>2 DEF SetOperatorActive
<1>3. ASSUME NEW c \in Callbacks,
             ExpireSession(c) \/ BeginLogout(c) \/ RevokeOperatorSession(c)
      PROVE  CallbacksAgree' /\ AttemptsAgree' /\ EnrollmentsAgree'
  BY <1>3 DEF ExpireSession, BeginLogout, RevokeOperatorSession, Resolves
<1>4. ASSUME NEW c \in Callbacks, NEW a \in Attempts, PresentState(c, a)
      PROVE  CallbacksAgree' /\ AttemptsAgree' /\ EnrollmentsAgree'
  BY <1>4 DEF PresentState, CallbackGoes
<1>5. ASSUME NEW c \in Callbacks, LockAttempt(c) \/ RefuseAttempt(c) \/ ExchangeCode(c)
      PROVE  CallbacksAgree' /\ AttemptsAgree' /\ EnrollmentsAgree'
  BY <1>5 DEF LockAttempt, RefuseAttempt, ExchangeCode, CallbackGoes
<1>6. ASSUME NEW c \in Callbacks, ConsumeLoginAttempt(c)
      PROVE  CallbacksAgree' /\ AttemptsAgree' /\ EnrollmentsAgree'
  BY <1>6 DEF ConsumeLoginAttempt, CallbackGoes, EndTransaction
<1>7. ASSUME NEW c \in Callbacks, CallbackFails(c)
      PROVE  CallbacksAgree' /\ AttemptsAgree' /\ EnrollmentsAgree'
  BY <1>7 DEF CallbackFails, EndTransaction
<1>8. ASSUME NEW c \in Callbacks, EnrollOperator(c)
      PROVE  CallbacksAgree' /\ AttemptsAgree' /\ EnrollmentsAgree'
  BY <1>8 DEF EnrollOperator, CallbackGoes
<1>9. ASSUME NEW c \in Callbacks, CreateOperatorSession(c)
      PROVE  CallbacksAgree' /\ AttemptsAgree' /\ EnrollmentsAgree'
  BY <1>9 DEF CreateOperatorSession, CallbackGoes, EndTransaction
<1>10. CASE UNCHANGED loginVars
  BY <1>10 DEF loginVars
<1> QED
  BY <1>1, <1>2, <1>3, <1>4, <1>5, <1>6, <1>7, <1>8, <1>9, <1>10 DEF SessionsNext

(* Attempts, callbacks, operators and sessions agree.                      *)
THEOREM LoginInvariant == SessionsSpec => []LoginInv
BY LoginInitial, LoginStep, PTL DEF SessionsSpec

(* consume_login_attempt lets one callback of an attempt through, for any  *)
(* number of callbacks that present its state.                             *)
THEOREM AttemptsAreSingleUse == SessionsSpec => []OneSessionPerAttempt
<1>1. LoginInv => OneSessionPerAttempt
  BY DEF LoginInv, AttemptsAgree, Past, OneSessionPerAttempt
<1> QED BY <1>1, LoginInvariant, PTL

(* enroll_operator writes the row it reads, so the deactivation of an      *)
(* operator comes before the enrollment or after the session.              *)
THEOREM SessionsAreOfTheActive == SessionsSpec => SessionsOfTheActive
<1>1. ASSUME LoginInv, [SessionsNext]_loginVars, NEW c \in Callbacks,
             sessionRows[c] = "none", sessionRows'[c] = "open"
      PROVE  operators'[human[c]] = "active"
  <2> USE <1>1 DEF LoginInv, SessionsTypeOK, EnrollmentsAgree
  <2>1. ASSUME NEW d \in Callbacks, CreateOperatorSession(d)
        PROVE  operators'[human[c]] = "active"
    BY <2>1 DEF CreateOperatorSession, CallbackGoes
  <2>2. ASSUME NEW d \in Callbacks, ExpireSession(d) \/ RevokeOperatorSession(d)
        PROVE  sessionRows'[c] # "open"
    BY <2>2 DEF ExpireSession, RevokeOperatorSession
  <2>3. CASE UNCHANGED sessionRows
    BY <2>3
  <2> QED
    BY <2>1, <2>2, <2>3
       DEF SessionsNext, loginVars, ExpireAttempt, CreateLoginAttempt, SetOperatorActive,
           PresentState, LockAttempt, RefuseAttempt, ConsumeLoginAttempt, ExchangeCode,
           CallbackFails, EnrollOperator, BeginLogout
<1>2. LoginInv /\ [SessionsNext]_loginVars =>
        [\A c \in Callbacks :
            sessionRows[c] = "none" /\ sessionRows'[c] = "open"
                => operators'[human[c]] = "active"]_loginVars
  BY <1>1
<1> QED BY <1>2, LoginInvariant, PTL DEF SessionsSpec, SessionsOfTheActive

HIDE DEF callbackVars


-----------------------------------------------------------------------------
(* TaskInventory.                                                          *)

USE DEF cluster, readings

(* The lists that the verifier has read at each of its steps.              *)
ClusterListed == step \in {"stopped", "service", "ended", "describe", "drained"}
StoppedListed == step \in {"service", "ended", "describe", "drained"}

(* The tasks that a service still runs, of those that its list had.        *)
Remaining(s) == {t \in ofServices : owner[t] = s /\ Alive(t)}

(* The lists are of the tasks that there were, and the services are listed *)
(* one after the other.                                                    *)
ListsAgree ==
    /\ \A t \in Tasks : Alive(t) => t <= launched
    /\ listed <= launched
    /\ runningSeen \subseteq 1 .. listed /\ ofServices \subseteq 1 .. listed
    /\ step \in {"idle", "running", "stopped"} => turn = 1 /\ ofServices = {}
    /\ step \in {"service", "ended"} => turn <= ServiceCount

(* Nothing that was there is in neither list.                              *)
NothingMissed ==
    /\ ClusterListed => \A t \in 1 .. listed : t \in wanted => t \in runningSeen
    /\ StoppedListed => \A t \in 1 .. listed : Alive(t) => t \in runningSeen \cup stoppedSeen

(* What a service was listed with, and its count.                          *)
ServicesListed ==
    /\ \A t \in ofServices : Alive(t) => owner[t] \in Services
    /\ \A s \in Services :
        /\ IsFiniteSet(Remaining(s))
        /\ Cardinality(Remaining(s)) <= DesiredCount
        /\ s > turn \/ (s = turn /\ step # "ended") => Remaining(s) = {}

(* What the descriptions of the tasks have shown.                          *)
Described ==
    step = "drained" =>
        /\ \A t \in 1 .. listed : Alive(t) => t \in ofServices /\ revision[t] = approved[owner[t]]
        /\ activating => SameRelease

InventoryInv ==
    InventoryTypeOK /\ ListsAgree /\ NothingMissed /\ ServicesListed /\ Described

(* The bounds are positive.                                                *)
LEMMA Positive ==
    /\ ServiceCount \in Nat /\ ServiceCount > 0
    /\ DesiredCount \in Nat /\ DesiredCount > 0
    /\ MaxTasks \in Nat /\ MaxTasks > 0
    /\ MaxRevisions \in Nat /\ MaxRevisions > 0
BY InventoryAssumption

(* What there is to number.                                                *)
LEMMA Numbers ==
    /\ 1 \in Tasks /\ 1 \in Revisions /\ 0 \in 0 .. MaxRevisions
    /\ Standalone \in Runtimes /\ Standalone \notin Services
    /\ Web \in Services /\ Services \subseteq Runtimes
    /\ Revisions \subseteq 0 .. MaxRevisions
    /\ Unqualified \in [Runtimes -> 0 .. MaxRevisions]
BY Positive DEF Tasks, Revisions, Standalone, Runtimes, Services, Web, Unqualified

(* What the other lemmas need to know of the types.                        *)
LEMMA TypeFacts ==
    ASSUME InventoryTypeOK
    PROVE  /\ launched \in Nat /\ listed \in Nat /\ turn \in Nat /\ turn <= ServiceCount + 1
           /\ launched <= MaxTasks /\ listed <= MaxTasks /\ turn > 0
           /\ wanted \subseteq 1 .. launched /\ wanted \subseteq Tasks
           /\ 1 .. launched \subseteq Tasks /\ 1 .. listed \subseteq Tasks
           /\ owner \in [Tasks -> Runtimes]
           /\ revision \in [Tasks -> 0 .. MaxRevisions]
           /\ phase \in [Tasks -> {"none", "pending", "running", "stopped", "forgotten"}]
BY Positive DEF InventoryTypeOK, Tasks

(* Nothing has been read in the beginning.                                 *)
LEMMA InventoryInitial == InventoryInit => InventoryInv
<1> SUFFICES ASSUME InventoryInit PROVE InventoryInv
    OBVIOUS
<1>1. InventoryTypeOK
  <2>1. /\ definition \in [Runtimes -> Revisions]
        /\ owner \in [Tasks -> Runtimes]
        /\ revision \in [Tasks -> 0 .. MaxRevisions]
    BY Numbers DEF InventoryInit
  <2>2. /\ launched \in 0 .. MaxTasks /\ wanted \subseteq 1 .. launched
        /\ turn \in 1 .. ServiceCount + 1 /\ listed \in 0 .. MaxTasks
    BY Positive DEF InventoryInit
  <2>3. phase \in [Tasks -> {"none", "pending", "running", "stopped", "forgotten"}]
    BY DEF InventoryInit
  <2> QED BY <2>1, <2>2, <2>3, Numbers DEF InventoryInit, InventoryTypeOK
<1>2. ListsAgree /\ NothingMissed /\ Described
  BY Positive DEF InventoryInit, ListsAgree, NothingMissed, Described, ClusterListed,
     StoppedListed, Alive
<1>3. ServicesListed
  <2>1. \A s \in Services : Remaining(s) = {}
    BY DEF InventoryInit, Remaining
  <2>2. IsFiniteSet({}) /\ Cardinality({}) <= DesiredCount
    BY FS_EmptySet, Positive
  <2> QED BY <2>1, <2>2 DEF InventoryInit, ServicesListed
<1> QED BY <1>1, <1>2, <1>3 DEF InventoryInv

(* What the cluster does with the tasks that there are.                    *)
TasksMove ==
    /\ UNCHANGED <<step, readings, qualified>>
    /\ launched <= launched'
    /\ \A t \in Tasks : Alive(t)' => t <= launched'
    /\ \A t \in 1 .. launched :
          /\ t \in wanted' => t \in wanted
          /\ Alive(t)' => Alive(t) /\ owner'[t] = owner[t] /\ revision'[t] = revision[t]

(* A task that starts is a new one.                                        *)
LEMMA StartMoves ==
    ASSUME InventoryTypeOK, ListsAgree, NEW r \in Runtimes, NEW v \in Revisions, Start(r, v)
    PROVE  InventoryTypeOK' /\ TasksMove
<1> DEFINE n == launched + 1
<1>1. n \in Tasks /\ n \in Nat /\ launched' = n /\ launched < n
  BY Positive, TypeFacts DEF Start, Tasks
<1>2. /\ launched' \in 0 .. MaxTasks /\ wanted' \subseteq 1 .. launched'
  BY Positive, TypeFacts DEF Start
<1>3. owner' \in [Tasks -> Runtimes] /\ revision' \in [Tasks -> 0 .. MaxRevisions]
  BY <1>1, TypeFacts, Numbers DEF Start
<1>4. phase' \in [Tasks -> {"none", "pending", "running", "stopped", "forgotten"}]
  BY <1>1, TypeFacts DEF Start
<1>5. InventoryTypeOK'
  BY <1>2, <1>3, <1>4 DEF Start, InventoryTypeOK
<1>6. \A t \in Tasks : t # n =>
        phase'[t] = phase[t] /\ owner'[t] = owner[t] /\ revision'[t] = revision[t]
  BY TypeFacts DEF Start
<1>7. \A t \in 1 .. launched : t \in Tasks /\ t # n
  BY <1>1, TypeFacts
<1>8. \A t \in Tasks : Alive(t)' => t <= launched'
  <2>1. \A t \in Tasks : t \in Nat
    BY DEF Tasks
  <2> QED BY <1>1, <1>6, <2>1, TypeFacts DEF ListsAgree, Alive
<1>9. wanted' = wanted \cup {n} /\ UNCHANGED <<step, readings, qualified>>
  BY DEF Start
<1>10. \A t \in 1 .. launched :
          /\ t \in wanted' => t \in wanted
          /\ Alive(t)' => Alive(t) /\ owner'[t] = owner[t] /\ revision'[t] = revision[t]
  <2> SUFFICES ASSUME NEW t \in 1 .. launched
               PROVE  /\ t \in wanted' => t \in wanted
                      /\ Alive(t)' => /\ Alive(t)
                                     /\ owner'[t] = owner[t]
                                     /\ revision'[t] = revision[t]
    OBVIOUS
  <2>1. t \in Tasks /\ t # n
    BY <1>7
  <2> QED BY <1>6, <1>9, <2>1 DEF Alive
<1>11. launched <= launched'
  BY <1>1, TypeFacts
<1> QED BY <1>5, <1>8, <1>9, <1>10, <1>11 DEF TasksMove

(* Whatever the cluster does, a task that was there is not wanted again,   *)
(* does not live again and, as long as it lives, stays what it is.         *)
LEMMA ClusterMoves ==
    ASSUME InventoryTypeOK, ListsAgree, ClusterStep
    PROVE  InventoryTypeOK' /\ TasksMove
<1>1. CASE Deploy
  <2>1. definition' \in [Runtimes -> Revisions]
    BY <1>1 DEF Deploy, InventoryTypeOK
  <2>2. UNCHANGED <<launched, owner, revision, wanted, phase, succeeded, step, readings,
                    qualified>>
    BY <1>1 DEF Deploy
  <2>3. InventoryTypeOK'
    BY <2>1, <2>2 DEF InventoryTypeOK
  <2> QED BY <2>2, <2>3, TypeFacts DEF TasksMove, ListsAgree, Alive
<1>2. CASE LaunchService
  <2>1. PICK s \in Services : Start(s, definition[s])
    BY <1>2 DEF LaunchService
  <2>2. s \in Runtimes /\ definition[s] \in Revisions
    BY Numbers DEF InventoryTypeOK
  <2> QED BY <2>1, <2>2, StartMoves
<1>3. CASE RunTask
  BY <1>3, Numbers, StartMoves DEF RunTask
<1>4. ASSUME NEW t \in Tasks,
             BecomesRunning(t) \/ StopTask(t) \/ ExitTask(t) \/ BecomesStopped(t)
      PROVE  InventoryTypeOK' /\ TasksMove
  <2>1. /\ UNCHANGED <<definition, launched, owner, revision, step, readings, qualified>>
        /\ wanted' \subseteq wanted
        /\ succeeded' \subseteq succeeded \cup {t}
    BY <1>4 DEF BecomesRunning, StopTask, ExitTask, BecomesStopped
  <2>2. /\ phase' \in [Tasks -> {"none", "pending", "running", "stopped", "forgotten"}]
        /\ \A u \in Tasks : Alive(u)' => Alive(u)
    BY <1>4, TypeFacts DEF BecomesRunning, StopTask, ExitTask, BecomesStopped, Alive
  <2>3. InventoryTypeOK'
    BY <2>1, <2>2 DEF InventoryTypeOK
  <2> QED BY <2>1, <2>2, <2>3, TypeFacts DEF TasksMove, ListsAgree
<1>5. ASSUME NEW t \in Tasks, Forget(t)
      PROVE  InventoryTypeOK' /\ TasksMove
  <2>1. /\ UNCHANGED <<definition, launched, wanted, step, readings, qualified>>
        /\ succeeded' \subseteq succeeded
        /\ owner' = [owner EXCEPT ![t] = Standalone]
        /\ revision' = [revision EXCEPT ![t] = 0]
        /\ phase' = [phase EXCEPT ![t] = "forgotten"]
    BY <1>5 DEF Forget
  <2>2. /\ owner' \in [Tasks -> Runtimes] /\ revision' \in [Tasks -> 0 .. MaxRevisions]
        /\ phase' \in [Tasks -> {"none", "pending", "running", "stopped", "forgotten"}]
    BY <2>1, TypeFacts, Numbers
  <2>3. \A u \in Tasks : Alive(u)' =>
            Alive(u) /\ owner'[u] = owner[u] /\ revision'[u] = revision[u]
    BY <2>1, TypeFacts DEF Alive
  <2>4. InventoryTypeOK'
    BY <2>1, <2>2 DEF InventoryTypeOK
  <2> QED BY <2>1, <2>3, <2>4, TypeFacts DEF TasksMove, ListsAgree
<1> QED BY <1>1, <1>2, <1>3, <1>4, <1>5 DEF ClusterStep

(* So nothing that the verifier has read becomes wrong.                    *)
LEMMA ClusterStepKeeps == InventoryInv /\ ClusterStep => InventoryInv'
<1> SUFFICES ASSUME InventoryInv, ClusterStep PROVE InventoryInv'
    OBVIOUS
<1>0. InventoryTypeOK /\ ListsAgree /\ InventoryTypeOK' /\ TasksMove
  BY ClusterMoves DEF InventoryInv
<1>1. ListsAgree'
  <2>1. UNCHANGED <<step, listed, runningSeen, ofServices, turn>>
    BY <1>0 DEF TasksMove
  <2>2. launched' \in Nat /\ launched \in Nat /\ listed \in Nat /\ launched <= launched'
    BY <1>0, TypeFacts DEF TasksMove, InventoryTypeOK
  <2>3. listed' <= launched'
    BY <1>0, <2>1, <2>2 DEF ListsAgree
  <2>4. \A t \in Tasks : Alive(t)' => t <= launched'
    BY <1>0 DEF TasksMove
  <2> QED BY <1>0, <2>1, <2>3, <2>4 DEF ListsAgree
<1>2. 1 .. listed \subseteq 1 .. launched /\ 1 .. launched \subseteq Tasks
  BY <1>0, TypeFacts DEF ListsAgree
<1>3. NothingMissed'
  BY <1>0, <1>2 DEF InventoryInv, NothingMissed, ClusterListed, StoppedListed, TasksMove
<1>4. ServicesListed'
  <2>1. ofServices \subseteq 1 .. launched /\ ofServices' = ofServices
    BY <1>0, <1>2 DEF ListsAgree, TasksMove
  <2>2. \A s \in Services : Remaining(s)' \in SUBSET Remaining(s)
    BY <1>0, <2>1 DEF Remaining, TasksMove
  <2>3. ASSUME NEW s \in Services
        PROVE  IsFiniteSet(Remaining(s)') /\ Cardinality(Remaining(s)') <= DesiredCount
    <3>1. /\ IsFiniteSet(Remaining(s)) /\ Cardinality(Remaining(s)) <= DesiredCount
      BY DEF InventoryInv, ServicesListed
    <3>2. /\ IsFiniteSet(Remaining(s)') /\ Cardinality(Remaining(s)') <= Cardinality(Remaining(s))
      BY <2>2, <3>1, FS_Subset
    <3>3. Cardinality(Remaining(s)') \in Nat /\ Cardinality(Remaining(s)) \in Nat
      BY <3>1, <3>2, FS_CardinalityType
    <3> QED BY <3>1, <3>2, <3>3, Positive
  <2>4. \A t \in ofServices' : Alive(t)' => owner'[t] \in Services
    BY <1>0, <2>1 DEF InventoryInv, ServicesListed, TasksMove
  <2>5. UNCHANGED <<turn, step>>
    BY <1>0 DEF TasksMove
  <2>6. ASSUME NEW s \in Services, s > turn \/ (s = turn /\ step # "ended")
        PROVE  Remaining(s)' = {}
    BY <2>2, <2>6 DEF InventoryInv, ServicesListed
  <2> QED BY <2>3, <2>4, <2>5, <2>6 DEF ServicesListed
<1>5. Described'
  BY <1>0, <1>2 DEF InventoryInv, Described, SameRelease, TasksMove
<1> QED BY <1>0, <1>1, <1>3, <1>4, <1>5 DEF InventoryInv

(* Without a list of a service there is nothing to count.                  *)
LEMMA NoneListed == ofServices' = {} => ServicesListed'
<1> SUFFICES ASSUME ofServices' = {} PROVE ServicesListed'
    OBVIOUS
<1>1. \A s \in Services : Remaining(s)' = {}
  BY DEF Remaining
<1>2. IsFiniteSet({}) /\ Cardinality({}) <= DesiredCount
  BY FS_EmptySet, Positive
<1> QED BY <1>1, <1>2 DEF ServicesListed

(* Reading a service's list adds its tasks, at its count.                  *)
LEMMA ServiceListed ==
    ASSUME InventoryTypeOK, ListsAgree, ServicesListed, ListServiceRunning
    PROVE  ServicesListed'
<1>1. turn \in Services /\ Remaining(turn) = {} /\ turn' = turn
  BY TypeFacts, Positive DEF ListServiceRunning, ListsAgree, ServicesListed, Services
<1>2. IsFiniteSet(OfService(turn))
  <2>1. OfService(turn) \in SUBSET (1 .. launched)
    BY TypeFacts DEF OfService
  <2>2. IsFiniteSet(1 .. launched)
    BY TypeFacts, FS_Interval
  <2> QED BY <2>1, <2>2, FS_Subset
<1>3. /\ ofServices' = ofServices \cup OfService(turn)
      /\ Cardinality(OfService(turn)) = DesiredCount
      /\ UNCHANGED <<owner, phase>> /\ step' = "ended"
  BY DEF ListServiceRunning
<1>4. Remaining(turn)' \in SUBSET OfService(turn)
  BY <1>1, <1>3 DEF Remaining, Alive
<1>5. \A s \in Services : s # turn => Remaining(s)' = Remaining(s)
  BY <1>3 DEF Remaining, OfService, Alive
<1>6. IsFiniteSet(Remaining(turn)') /\ Cardinality(Remaining(turn)') <= DesiredCount
  BY <1>2, <1>3, <1>4, FS_Subset
<1>7. \A t \in ofServices' : Alive(t)' => owner'[t] \in Services
  BY <1>1, <1>3 DEF ServicesListed, OfService, Alive
<1>8. \A s \in Services : s \in Nat
  BY DEF Services
<1> QED BY <1>1, <1>3, <1>5, <1>6, <1>7, <1>8, TypeFacts DEF ServicesListed

(* The steps of the verifier.                                              *)
LEMMA VerifierStepKeeps == InventoryInv /\ VerifierStep => InventoryInv'
<1> SUFFICES ASSUME InventoryInv, VerifierStep PROVE InventoryInv'
    OBVIOUS
<1>0. InventoryTypeOK /\ ListsAgree /\ NothingMissed /\ ServicesListed /\ Described
  BY DEF InventoryInv
<1> SUFFICES InventoryTypeOK' /\ ListsAgree' /\ NothingMissed' /\ ServicesListed' /\ Described'
  BY DEF InventoryInv
<1>c. UNCHANGED cluster
  BY DEF VerifierStep, VerifyEcs, ListRunning, ListStopped, ListServiceRunning,
     ListServiceStopped, DescribeTasks, PublishRecord, GiveUp
<1>a. \A t : Alive(t)' <=> Alive(t)
  BY <1>c DEF Alive
<1>l. \A t \in Tasks : Alive(t)' => t <= launched'
  BY <1>0, <1>c, <1>a DEF ListsAgree
<1>r. 1 .. listed \subseteq 1 .. launched
  BY <1>0, TypeFacts DEF ListsAgree
<1>1. CASE VerifyEcs
  <2>1. InventoryTypeOK'
    <3>1. approved' \in [Runtimes -> 0 .. MaxRevisions]
      BY <1>0, <1>1, Numbers DEF VerifyEcs, InventoryTypeOK
    <3>2. activating' \in BOOLEAN /\ step' = "running"
      BY <1>1 DEF VerifyEcs
    <3> QED BY <1>0, <1>1, <3>1, <3>2 DEF VerifyEcs, InventoryTypeOK
  <2>2. ofServices' = {}
    BY <1>0, <1>1 DEF VerifyEcs, ListsAgree
  <2>3. ListsAgree'
    BY <1>0, <1>1, <1>l DEF VerifyEcs, ListsAgree
  <2>4. NothingMissed' /\ Described'
    BY <1>1 DEF VerifyEcs, NothingMissed, Described, ClusterListed, StoppedListed
  <2> QED BY <2>1, <2>2, <2>3, <2>4, NoneListed
<1>2. CASE ListRunning
  <2>1. InventoryTypeOK'
    BY <1>0, <1>2, TypeFacts DEF ListRunning, InventoryTypeOK
  <2>2. ListsAgree' /\ ofServices' = {}
    BY <1>0, <1>2, <1>a, TypeFacts DEF ListRunning, ListsAgree
  <2>3. NothingMissed' /\ Described'
    BY <1>2 DEF ListRunning, NothingMissed, Described, ClusterListed, StoppedListed
  <2> QED BY <2>1, <2>2, <2>3, NoneListed
<1>3. CASE ListStopped
  <2>1. InventoryTypeOK'
    <3>1. NotWanted \subseteq Tasks
      BY <1>0, TypeFacts DEF NotWanted
    <3> QED BY <1>0, <1>3, <3>1 DEF ListStopped, InventoryTypeOK
  <2>2. ListsAgree' /\ ofServices' = {}
    <3>1. /\ step = "stopped" /\ step' = "service"
          /\ UNCHANGED <<launched, listed, runningSeen, ofServices, turn>>
      BY <1>3 DEF ListStopped
    <3>2. turn = 1 /\ ofServices = {}
      BY <1>0, <3>1 DEF ListsAgree
    <3> QED BY <1>0, <1>l, <3>1, <3>2, Positive DEF ListsAgree
  <2>3. \A t \in 1 .. listed : Alive(t) => t \in runningSeen \cup NotWanted
    BY <1>0, <1>3, <1>r DEF ListStopped, NothingMissed, ClusterListed, NotWanted, Alive
  <2>4. NothingMissed'
    BY <1>0, <1>3, <1>a, <2>3 DEF ListStopped, NothingMissed, ClusterListed, StoppedListed
  <2>5. Described'
    BY <1>3 DEF ListStopped, Described
  <2> QED BY <2>1, <2>2, <2>4, <2>5, NoneListed
<1>4. CASE ListServiceRunning
  <2>1. InventoryTypeOK'
    <3>1. OfService(turn) \subseteq Tasks
      BY <1>0, TypeFacts DEF OfService
    <3> QED BY <1>0, <1>4, <3>1 DEF ListServiceRunning, InventoryTypeOK
  <2>2. ListsAgree'
    BY <1>0, <1>4, <1>a DEF ListServiceRunning, ListsAgree
  <2>3. NothingMissed' /\ Described'
    BY <1>0, <1>4, <1>a
       DEF ListServiceRunning, NothingMissed, ClusterListed, StoppedListed, Described
  <2> QED BY <1>0, <1>4, <2>1, <2>2, <2>3, ServiceListed
<1>5. CASE ListServiceStopped
  <2>1. /\ turn' = turn + 1 /\ turn <= ServiceCount /\ turn \in Nat /\ turn > 0
        /\ step' = IF turn = ServiceCount THEN "describe" ELSE "service"
        /\ UNCHANGED <<ofServices, runningSeen, stoppedSeen, listed, approved, activating>>
    BY <1>0, <1>5, TypeFacts DEF ListServiceStopped, ListsAgree
  <2>2. turn' \in 1 .. ServiceCount + 1 /\ (step' = "service" => turn' <= ServiceCount)
    BY <2>1, Positive
  <2>3. InventoryTypeOK'
    BY <1>0, <1>5, <2>1, <2>2 DEF ListServiceStopped, InventoryTypeOK
  <2>4. ListsAgree'
    BY <1>0, <1>c, <1>a, <2>1, <2>2 DEF ListsAgree
  <2>5. NothingMissed' /\ Described'
    BY <1>0, <1>5, <1>c, <1>a, <2>1
       DEF ListServiceStopped, NothingMissed, ClusterListed, StoppedListed, Described
  <2>6. \A s \in Services : Remaining(s)' = Remaining(s) /\ s \in Nat
    BY <1>c, <1>a, <2>1 DEF Remaining, Services
  <2>7. ServicesListed'
    BY <1>0, <1>5, <1>c, <1>a, <2>1, <2>6 DEF ListServiceStopped, ServicesListed
  <2> QED BY <2>3, <2>4, <2>5, <2>7
<1>6. CASE DescribeTasks
  <2>1. InventoryTypeOK' /\ ListsAgree' /\ NothingMissed'
    BY <1>0, <1>6, <1>a
       DEF DescribeTasks, InventoryTypeOK, ListsAgree, NothingMissed, ClusterListed,
           StoppedListed
  <2>2. Described'
    BY <1>0, <1>6, <1>a
       DEF DescribeTasks, Described, NothingMissed, ClusterListed, StoppedListed,
           InventoriesAgree, CurrentTask, FullyStopped, SameRelease, Alive
  <2>3. \A s \in Services : Remaining(s)' = Remaining(s)
    BY <1>6, <1>a DEF DescribeTasks, Remaining
  <2> QED BY <1>0, <1>6, <1>a, <2>1, <2>2, <2>3 DEF DescribeTasks, ServicesListed
<1>7. CASE PublishRecord \/ GiveUp
  <2>1. /\ step' = "idle" /\ activating' = FALSE /\ turn' = 1 /\ approved' = Unqualified
        /\ listed' = 0 /\ runningSeen' = {} /\ stoppedSeen' = {} /\ ofServices' = {}
        /\ qualified' \in {qualified, approved}
    BY <1>7 DEF PublishRecord, GiveUp, ForgetReadings
  <2>2. InventoryTypeOK'
    <3>1. 0 \in 0 .. MaxTasks /\ 1 \in 1 .. ServiceCount + 1
      BY Positive
    <3>2. /\ approved' \in [Runtimes -> 0 .. MaxRevisions]
          /\ qualified' \in [Runtimes -> 0 .. MaxRevisions]
      BY <1>0, <2>1, Numbers DEF InventoryTypeOK
    <3> QED BY <1>0, <1>c, <2>1, <3>1, <3>2 DEF InventoryTypeOK
  <2>3. ListsAgree'
    <3>1. listed' <= launched'
      BY <1>0, <1>c, <2>1, TypeFacts
    <3> QED BY <1>l, <2>1, <3>1 DEF ListsAgree
  <2>4. NothingMissed' /\ Described'
    BY <2>1 DEF NothingMissed, ClusterListed, StoppedListed, Described
  <2> QED BY <2>1, <2>2, <2>3, <2>4, NoneListed
<1> QED BY <1>1, <1>2, <1>3, <1>4, <1>5, <1>6, <1>7 DEF VerifierStep

(* The lists and the cluster agree, whatever starts and stops in between.  *)
THEOREM InventoryInvariant == InventorySpec => []InventoryInv
<1>1. InventoryInv /\ UNCHANGED inventoryVars => InventoryInv'
  BY DEF inventoryVars, InventoryInv, InventoryTypeOK, ListsAgree, NothingMissed,
     ServicesListed, Described, ClusterListed, StoppedListed, Remaining, Alive, SameRelease
<1>2. InventoryInv /\ [InventoryNext]_inventoryVars => InventoryInv'
  BY <1>1, ClusterStepKeeps, VerifierStepKeeps DEF InventoryNext
<1> QED BY <1>2, InventoryInitial, PTL DEF InventorySpec

(* _verify_standalone_task_drain leaves nothing else running of what there *)
(* was when it listed the cluster, however many tasks there are.           *)
THEOREM InventoryIsComplete == InventorySpec => []NothingElseRuns
<1>1. InventoryInv => NothingElseRuns
  <2> SUFFICES ASSUME InventoryInv, step = "drained" PROVE NothingElseRuns
    BY DEF NothingElseRuns
  <2> DEFINE remaining == {t \in 1 .. listed : Alive(t)}
  <2>0. Described /\ ServicesListed
    BY DEF InventoryInv
  <2>1. \A t \in remaining :
            t \in ofServices /\ owner[t] \in Services /\ revision[t] = approved[owner[t]]
    BY <2>0 DEF Described, ServicesListed
  <2>2. ASSUME NEW s \in Services
        PROVE  Cardinality({t \in remaining : owner[t] = s}) <= DesiredCount
    <3> DEFINE T == {t \in remaining : owner[t] = s}
    <3>1. T \in SUBSET Remaining(s)
      BY <2>1 DEF Remaining
    <3>2. /\ IsFiniteSet(Remaining(s)) /\ Cardinality(Remaining(s)) <= DesiredCount
          /\ Cardinality(Remaining(s)) \in Nat
      BY <2>0, FS_CardinalityType DEF ServicesListed
    <3>3. IsFiniteSet(T) /\ Cardinality(T) <= Cardinality(Remaining(s))
      BY <3>1, <3>2, FS_Subset
    <3>4. Cardinality(T) \in Nat
      BY <3>3, FS_CardinalityType
    <3> QED BY <3>2, <3>3, <3>4, Positive
  <2>3. activating => \A t \in remaining : owner[t] = Web => revision[t] = qualified[Web]
    BY <2>0, <2>1 DEF Described, SameRelease
  <2> QED BY <2>1, <2>2, <2>3 DEF NothingElseRuns
<1> QED BY <1>1, InventoryInvariant, PTL

HIDE DEF cluster, readings

-----------------------------------------------------------------------------
(* RoleQuarantine.                                                         *)

USE DEF iam, outcomes, command

(* Where a command is that deletes the role.                               *)
Cleaning == {"drop", "delete", "restore"}

(* No session is left and none can begin, as Terraform has let go of it.   *)
Dead ==
    /\ ~managed
    /\ trust = "closed" /\ settled <= now
    /\ sessions = {}

(* One quarantine is applied at a time, within its wait and with its       *)
(* captured session alive; the role is deleted when it is dead.            *)
CommandsAgree ==
    /\ \A o, p \in Operators : at[o] \in Applying /\ at[p] \in Applying => o = p
    /\ \A o \in Operators :
        /\ at[o] # "ready" => cutoff[o] \in Times /\ cutoff[o] <= now
        /\ at[o] \in Applying =>
            /\ now < PropagationDeadline(cutoff[o])
            /\ captured[o] \in sessions /\ Live(captured[o], PropagationDeadline(cutoff[o]))
            /\ deny <= cutoff[o]
        /\ at[o] \in {"close", "strip", "verify"} => deny = cutoff[o]
        /\ at[o] \in Cleaning => Dead

(* A trust policy that is closed was closed by the command that installed  *)
(* the deny, or earlier, and no session began when that was in force.      *)
SessionsBounded ==
    /\ deny <= now
    /\ \A s \in sessions : s <= now /\ Live(s, now) /\ (trust = "closed" => s < settled)
    /\ trust = "closed" => Dead \/ (deny # Never /\ settled <= PropagationDeadline(deny))

(* Terraform lets go of a role that has its deny, and qualification and    *)
(* deletion come after.                                                    *)
HandedOver ==
    /\ authorized /\ managed => deny # Never
    /\ role = "deleted" => Dead
    /\ ~managed /\ deny = Never => Dead
    /\ published => ~managed /\ (role = "deleted" \/ (trust = "closed" /\ settled <= now))

QuarantineInv ==
    /\ QuarantineTypeOK
    /\ CommandsAgree
    /\ SessionsBounded
    /\ HandedOver
    /\ FailedDeletionRestores

-----------------------------------------------------------------------------
(* The times are natural numbers, and Never is before all of them.         *)
LEMMA QuarantineTimes ==
    /\ Propagation \in Nat /\ Propagation > 0 /\ MaxSession \in Nat /\ MaxSession > 0
    /\ ProbeAge \in Nat /\ LastTime \in Nat /\ LastTime > 0 /\ MaxDrifts \in Nat
    /\ \A t \in Times : t \in Nat /\ t > 0 /\ t # Never
    /\ Never \in Nat /\ 1 \in Times
BY QuarantineAssumption DEF Times, Never

(* Every step keeps the types.                                             *)
LEMMA QuarantineTypeStep ==
    ASSUME QuarantineTypeOK, CommandsAgree, [QuarantineNext]_quarantineVars
    PROVE  QuarantineTypeOK'
<1> USE DEF QuarantineTypeOK
<1>0. /\ now + 1 \in Nat /\ (now < LastTime => now + 1 \in Times)
      /\ \A o \in Operators : PropagationDeadline(cutoff[o]) \in Nat
  BY QuarantineTimes DEF Times, PropagationDeadline
<1>1. CASE Assume \/ Elapse \/ Drift
  <2>1. CASE Assume
    BY <2>1 DEF Assume
  <2>2. CASE Elapse
    BY <1>0, <2>2 DEF Elapse
  <2>3. CASE Drift
    BY <2>3, QuarantineTimes DEF Drift
  <2> QED BY <1>1, <2>1, <2>2, <2>3
<1>2. CASE Seal \/ ReportDeleted
  BY <1>2 DEF Seal, ReportDeleted, SealDeletion
<1>3. CASE VerifyStateRm \/ RemoveFromState \/ Qualify
  BY <1>3 DEF VerifyStateRm, RemoveFromState, Qualify
<1>4. ASSUME NEW o \in Operators, StartQuarantine(o) PROVE QuarantineTypeOK'
  BY <1>4 DEF StartQuarantine
<1>5. ASSUME NEW o \in Operators, PutRolePolicy(o) \/ UpdateAssumeRolePolicy(o)
      PROVE QuarantineTypeOK'
  BY <1>0, <1>5 DEF PutRolePolicy, UpdateAssumeRolePolicy, GoTo
<1>6. ASSUME NEW o \in Operators, Strip(o) PROVE QuarantineTypeOK'
  BY <1>6 DEF Strip
<1>7. ASSUME NEW o \in Operators, VerifyQuarantine(o) PROVE QuarantineTypeOK'
  <2>1. cutoff[o] \in Times /\ captured[o] \in Times
    BY <1>7 DEF VerifyQuarantine, CommandsAgree, Applying
  <2> QED BY <1>7, <2>1 DEF VerifyQuarantine, Finish
<1>8. ASSUME NEW o \in Operators, StartCleanup(o) PROVE QuarantineTypeOK'
  BY <1>8 DEF StartCleanup
<1>9. ASSUME NEW o \in Operators, DropDeny(o) \/ DropUnacknowledged(o) PROVE QuarantineTypeOK'
  BY <1>9 DEF DropDeny, DropUnacknowledged, GoTo, Finish
<1>10. ASSUME NEW o \in Operators, DeleteRole(o) PROVE QuarantineTypeOK'
  BY <1>10 DEF DeleteRole, SealDeletion, Finish
<1>11. ASSUME NEW o \in Operators, DeleteFails(o) \/ Restore(o) \/ Fail(o)
       PROVE QuarantineTypeOK'
  <2>1. CASE DeleteFails(o)
    BY <2>1 DEF DeleteFails, GoTo
  <2>2. CASE Restore(o)
    BY <2>2 DEF Restore, Finish
  <2>3. CASE Fail(o)
    BY <2>3 DEF Fail, Finish
  <2> QED BY <1>11, <2>1, <2>2, <2>3
<1>12. CASE UNCHANGED quarantineVars
  BY <1>12 DEF quarantineVars
<1> QED BY <1>1, <1>2, <1>3, <1>4, <1>5, <1>6, <1>7, <1>8, <1>9, <1>10, <1>11, <1>12
        DEF QuarantineNext, CommandStep

(* The captured session of a quarantine is a session that lives.           *)
LEMMA DeadIsLeftAlone ==
    ASSUME CommandsAgree, Dead
    PROVE  \A o \in Operators : at[o] \notin Applying
BY DEF CommandsAgree, Dead

(* Nothing brings a dead role to life: neither Terraform nor a command nor *)
(* STS.                                                                    *)
LEMMA DeadStays ==
    ASSUME QuarantineTypeOK, CommandsAgree, Dead, [QuarantineNext]_quarantineVars
    PROVE  Dead'
<1>0. /\ ~managed /\ trust = "closed" /\ settled <= now /\ sessions = {}
      /\ now \in Nat /\ settled \in Nat
  BY QuarantineTimes DEF Dead, QuarantineTypeOK
<1>1. CASE Assume \/ Elapse \/ Drift
  BY <1>0, <1>1 DEF Assume, Elapse, Drift, Dead
<1>2. CASE Seal \/ ReportDeleted \/ VerifyStateRm \/ RemoveFromState \/ Qualify
  BY <1>0, <1>2 DEF Seal, ReportDeleted, VerifyStateRm, RemoveFromState, Qualify, Dead
<1>3. ASSUME NEW o \in Operators, CommandStep(o) PROVE Dead'
  <2>1. ~StartQuarantine(o)
    BY <1>0 DEF StartQuarantine
  <2>2. ~(PutRolePolicy(o) \/ UpdateAssumeRolePolicy(o) \/ Strip(o) \/ VerifyQuarantine(o))
    BY DeadIsLeftAlone
       DEF PutRolePolicy, UpdateAssumeRolePolicy, Strip, VerifyQuarantine, Applying
  <2>3. UNCHANGED <<now, trust, settled, sessions, managed>>
    BY <1>3, <2>1, <2>2
       DEF CommandStep, StartCleanup, DropDeny, DropUnacknowledged, DeleteRole, DeleteFails,
           Restore, Fail
  <2> QED BY <1>0, <2>3 DEF Dead
<1>4. CASE UNCHANGED quarantineVars
  BY <1>0, <1>4 DEF quarantineVars, Dead
<1> QED BY <1>1, <1>2, <1>3, <1>4 DEF QuarantineNext

(* What a live verification says of a role: no session begins any more.    *)
LEMMA LiveMeansSettled ==
    ASSUME QuarantineTypeOK, SessionsBounded, NEW e \in evidence, LiveQuarantine(e.cutoff),
           PropagationDeadline(e.cutoff) <= now
    PROVE  trust = "closed" /\ settled <= now /\ deny # Never
<1>1. e.cutoff \in Times /\ now \in Nat /\ settled \in Nat
  BY QuarantineTimes DEF QuarantineTypeOK
<1> QED BY <1>1, QuarantineTimes
        DEF LiveQuarantine, SessionsBounded, Dead, PropagationDeadline

(* When a cleanup is allowed, the sessions are over.                       *)
LEMMA CleanupFindsDead ==
    ASSUME QuarantineTypeOK, SessionsBounded, NEW e \in evidence, ~managed,
           LiveQuarantine(e.cutoff), CleanupAllowed(e)
    PROVE  Dead /\ e.cutoff \in Times /\ e.cutoff <= now
<1>1. /\ e.cutoff \in Times /\ now \in Nat /\ settled \in Nat /\ sessions \subseteq Nat
      /\ e.cutoff \in Nat /\ Propagation \in Nat /\ MaxSession \in Nat /\ MaxSession > 0
  BY QuarantineTimes DEF QuarantineTypeOK
<1>2. e.cutoff + Propagation + MaxSession <= now
  BY DEF CleanupAllowed, SessionExpiry
<1>3. PropagationDeadline(e.cutoff) <= now
  BY <1>1, <1>2 DEF PropagationDeadline
<1>4. trust = "closed" /\ settled <= now
  BY <1>3, LiveMeansSettled
<1>5. sessions = {}
  <2> SUFFICES ASSUME NEW s \in sessions PROVE FALSE
    OBVIOUS
  <2>1. settled <= e.cutoff + Propagation
    BY DEF LiveQuarantine, SessionsBounded, Dead, PropagationDeadline
  <2>2. s < settled /\ now < s + MaxSession /\ s \in Nat
    BY <1>1, <1>4 DEF SessionsBounded, Live
  <2> QED BY <1>1, <1>2, <2>1, <2>2
<1> QED BY <1>1, <1>2, <1>4, <1>5 DEF Dead

(* What the commands of others look like when one moves on: as they were.  *)
Others(o) ==
    \A p \in Operators \ {o} :
        at'[p] = at[p] /\ cutoff'[p] = cutoff[p] /\ captured'[p] = captured[p]

(* Who moves on, and where to.                                             *)
LEMMA CommandMoves ==
    ASSUME QuarantineTypeOK, NEW o \in Operators
    PROVE  /\ Finish(o) => Others(o) /\ at'[o] = "ready"
           /\ \A place : GoTo(o, place) =>
                  Others(o) /\ at'[o] = place /\ cutoff' = cutoff /\ captured' = captured
BY DEF QuarantineTypeOK, Finish, GoTo, Others

(* Commands that do not move agree with a role whose deny, sessions and    *)
(* time are as they were.                                                  *)
LEMMA CommandsStay ==
    ASSUME QuarantineTypeOK, CommandsAgree, [QuarantineNext]_quarantineVars,
           UNCHANGED <<now, sessions, deny, at, cutoff, captured>>
    PROVE  CommandsAgree'
BY DeadStays DEF CommandsAgree, Live, PropagationDeadline

(* Neither do they mind when another ends.                                 *)
LEMMA CommandsOthers ==
    ASSUME QuarantineTypeOK, CommandsAgree, [QuarantineNext]_quarantineVars,
           NEW o \in Operators, Others(o), UNCHANGED <<now, sessions>>,
           deny' = deny \/ \A p \in Operators \ {o} : at[p] \notin Applying,
           at'[o] \in Applying => at[o] \in Applying,
           LET here == at'[o]
           IN  /\ here # "ready" => cutoff'[o] \in Times /\ cutoff'[o] <= now
               /\ here \in Applying =>
                   /\ now < PropagationDeadline(cutoff'[o])
                   /\ captured'[o] \in sessions
                   /\ Live(captured'[o], PropagationDeadline(cutoff'[o]))
                   /\ deny' <= cutoff'[o]
               /\ here \in {"close", "strip", "verify"} => deny' = cutoff'[o]
               /\ here \in Cleaning => Dead
    PROVE  CommandsAgree'
<1>1. Dead => Dead'
  BY DeadStays
<1>2. \A p, r \in Operators : at'[p] \in Applying /\ at'[r] \in Applying => p = r
  BY DEF CommandsAgree, Others
<1>3. ASSUME NEW p \in Operators
      PROVE  /\ at'[p] # "ready" => cutoff'[p] \in Times /\ cutoff'[p] <= now
             /\ at'[p] \in Applying =>
                 /\ now < PropagationDeadline(cutoff'[p])
                 /\ captured'[p] \in sessions
                 /\ Live(captured'[p], PropagationDeadline(cutoff'[p]))
                 /\ deny' <= cutoff'[p]
             /\ at'[p] \in {"close", "strip", "verify"} => deny' = cutoff'[p]
             /\ at'[p] \in Cleaning => Dead
  BY DEF CommandsAgree, Others, Applying
<1> QED BY <1>1, <1>2, <1>3 DEF CommandsAgree, Live, PropagationDeadline

(* The agreement of the commands with the role.                            *)
LEMMA CommandsStep ==
    ASSUME QuarantineInv, [QuarantineNext]_quarantineVars
    PROVE  CommandsAgree'
<1>0. /\ QuarantineTypeOK /\ CommandsAgree /\ SessionsBounded
      /\ now \in Nat /\ deny \in Nat /\ sessions \subseteq Nat
      /\ \A o \in Operators : cutoff[o] \in Nat
  BY QuarantineTimes DEF QuarantineInv, QuarantineTypeOK
<1>d. Dead => Dead'
  BY <1>0, DeadStays
<1>1. CASE Assume
  BY <1>0, <1>1, <1>d DEF Assume, CommandsAgree, Live, PropagationDeadline
<1>2. CASE Elapse
  <2>1. ASSUME NEW o \in Operators, at[o] \in Applying
        PROVE  now + 1 < PropagationDeadline(cutoff[o]) /\ captured[o] \in sessions'
    <3>1. now + 1 < PropagationDeadline(cutoff[o])
      BY <1>2, <2>1 DEF Elapse
    <3>2. captured[o] \in sessions /\ Live(captured[o], PropagationDeadline(cutoff[o]))
      BY <1>0, <2>1 DEF CommandsAgree
    <3>3. Live(captured[o], now + 1)
      <4> DEFINE deadline == PropagationDeadline(cutoff[o])
      <4>1. deadline \in Nat
        BY <1>0, QuarantineTimes DEF PropagationDeadline
      <4>2. captured[o] \in Nat /\ deadline < captured[o] + MaxSession /\ now + 1 < deadline
        BY <1>0, <3>1, <3>2 DEF Live
      <4> HIDE DEF deadline
      <4> QED BY <1>0, <4>1, <4>2, QuarantineTimes DEF Live
    <3> QED BY <1>2, <3>1, <3>2, <3>3 DEF Elapse
  <2>2. /\ now' = now + 1
        /\ UNCHANGED <<deny, at, cutoff, captured>>
    BY <1>2 DEF Elapse
  <2>3. \A o \in Operators : cutoff[o] <= now => cutoff[o] <= now + 1
    BY <1>0
  <2> QED BY <1>0, <1>d, <2>1, <2>2, <2>3 DEF CommandsAgree, Live, PropagationDeadline
<1>3. CASE Drift \/ Seal \/ VerifyStateRm \/ RemoveFromState \/ Qualify \/ ReportDeleted
  <2>1. UNCHANGED <<now, sessions, deny, at, cutoff, captured>>
    BY <1>3 DEF Drift, Seal, VerifyStateRm, RemoveFromState, Qualify, ReportDeleted
  <2> QED BY <1>0, <2>1, CommandsStay
<1>4. ASSUME NEW o \in Operators, StartQuarantine(o) PROVE CommandsAgree'
  <2>1. PICK s \in sessions : /\ s < now /\ Live(s, PropagationDeadline(now))
                              /\ captured' = [captured EXCEPT ![o] = s]
    BY <1>4 DEF StartQuarantine
  <2>2. /\ at' = [at EXCEPT ![o] = "deny"] /\ cutoff' = [cutoff EXCEPT ![o] = now]
        /\ UNCHANGED <<now, sessions, deny>>
        /\ \A p \in Operators : at[p] \notin Applying
    BY <1>4 DEF StartQuarantine, Dedicated
  <2>3. /\ at'[o] = "deny" /\ cutoff'[o] = now /\ captured'[o] = s /\ Others(o)
    BY <1>0, <2>1, <2>2 DEF QuarantineTypeOK, Others
  <2>4. /\ now \in Times /\ now < PropagationDeadline(now) /\ deny <= now
    BY <1>0, QuarantineTimes DEF QuarantineTypeOK, PropagationDeadline, SessionsBounded
  <2>5. \A p, r \in Operators : at'[p] \in Applying /\ at'[r] \in Applying => p = r
    BY <2>2, <2>3 DEF Others
  <2>6. ASSUME NEW p \in Operators \ {o}
        PROVE  /\ at'[p] # "ready" => cutoff'[p] \in Times /\ cutoff'[p] <= now'
               /\ at'[p] \notin Applying
               /\ at'[p] \in Cleaning => Dead'
    BY <1>0, <1>d, <2>2, <2>3 DEF CommandsAgree, Others
  <2>7. ASSUME NEW p \in Operators
        PROVE  /\ at'[p] # "ready" => cutoff'[p] \in Times /\ cutoff'[p] <= now'
               /\ at'[p] \in Applying =>
                   /\ now' < PropagationDeadline(cutoff'[p])
                   /\ captured'[p] \in sessions'
                   /\ Live(captured'[p], PropagationDeadline(cutoff'[p]))
                   /\ deny' <= cutoff'[p]
               /\ at'[p] \in {"close", "strip", "verify"} => deny' = cutoff'[p]
               /\ at'[p] \in Cleaning => Dead'
    <3>1. CASE p = o
      <4>1. now <= now
        BY <1>0
      <4> QED BY <2>1, <2>2, <2>3, <2>4, <3>1, <4>1 DEF Cleaning
    <3>2. CASE p # o
      BY <2>6, <3>2 DEF Applying
    <3> QED BY <3>1, <3>2
  <2> QED BY <2>5, <2>7 DEF CommandsAgree, Live, PropagationDeadline
<1>5. ASSUME NEW o \in Operators, PutRolePolicy(o) PROVE CommandsAgree'
  <2>1. /\ at[o] = "deny" /\ deny' = cutoff[o] /\ GoTo(o, "close")
        /\ UNCHANGED <<now, sessions>>
    BY <1>5 DEF PutRolePolicy
  <2>2. \A p \in Operators \ {o} : at[p] \notin Applying
    BY <1>0, <2>1 DEF CommandsAgree, Applying
  <2> QED BY <1>0, <2>1, <2>2, CommandMoves, CommandsOthers
          DEF CommandsAgree, Applying, Cleaning
<1>6. ASSUME NEW o \in Operators, UpdateAssumeRolePolicy(o) PROVE CommandsAgree'
  <2>1. /\ at[o] = "close" /\ GoTo(o, "strip")
        /\ UNCHANGED <<now, sessions, deny>>
    BY <1>6 DEF UpdateAssumeRolePolicy
  <2> QED BY <1>0, <2>1, CommandMoves, CommandsOthers DEF CommandsAgree, Applying, Cleaning
<1>7. ASSUME NEW o \in Operators, Strip(o) PROVE CommandsAgree'
  <2>1. /\ at[o] = "strip" /\ at'[o] \in {"strip", "verify"} /\ Others(o)
        /\ UNCHANGED <<now, sessions, deny, cutoff, captured>>
    BY <1>0, <1>7 DEF Strip, Others, QuarantineTypeOK
  <2> QED BY <1>0, <2>1, CommandsOthers DEF CommandsAgree, Applying, Cleaning
<1>8. ASSUME NEW o \in Operators, VerifyQuarantine(o) \/ Fail(o) PROVE CommandsAgree'
  <2>1. Finish(o) /\ UNCHANGED <<now, sessions, deny>>
    BY <1>8 DEF VerifyQuarantine, Fail
  <2> QED BY <1>0, <2>1, CommandMoves, CommandsOthers DEF Applying, Cleaning
<1>9. ASSUME NEW o \in Operators, StartCleanup(o) PROVE CommandsAgree'
  <2>1. PICK e \in evidence : /\ CleanupAllowed(e) /\ LiveQuarantine(e.cutoff)
                              /\ cutoff' = [cutoff EXCEPT ![o] = e.cutoff]
    BY <1>9 DEF StartCleanup
  <2>2. /\ ~managed /\ at' = [at EXCEPT ![o] = "drop"]
        /\ UNCHANGED <<now, sessions, deny, captured>>
    BY <1>9 DEF StartCleanup
  <2>3. Dead /\ e.cutoff \in Times /\ e.cutoff <= now
    BY <1>0, <2>1, <2>2, CleanupFindsDead
  <2>4. at'[o] = "drop" /\ cutoff'[o] = e.cutoff /\ Others(o)
    BY <1>0, <2>1, <2>2 DEF QuarantineTypeOK, Others
  <2> QED BY <1>0, <2>2, <2>3, <2>4, CommandsOthers DEF Applying
<1>10. ASSUME NEW o \in Operators,
              DropDeny(o) \/ DropUnacknowledged(o) \/ DeleteRole(o) \/ DeleteFails(o) \/ Restore(o)
       PROVE  CommandsAgree'
  <2>1. at[o] \in Cleaning /\ UNCHANGED <<now, sessions>>
    BY <1>10 DEF DropDeny, DropUnacknowledged, DeleteRole, DeleteFails, Restore, Cleaning
  <2>2. Dead /\ \A p \in Operators : at[p] \notin Applying
    BY <1>0, <2>1, DeadIsLeftAlone DEF CommandsAgree
  <2>3. Finish(o) \/ GoTo(o, "delete") \/ GoTo(o, "restore")
    BY <1>10 DEF DropDeny, DropUnacknowledged, DeleteRole, DeleteFails, Restore
  <2>4. /\ Others(o)
        /\ at'[o] = "ready" \/ (at'[o] \in {"delete", "restore"} /\ cutoff'[o] = cutoff[o])
    BY <1>0, <2>3, CommandMoves
  <2>5. cutoff[o] \in Times /\ cutoff[o] <= now
    BY <1>0, <2>1 DEF CommandsAgree, Cleaning
  <2> QED BY <1>0, <2>1, <2>2, <2>4, <2>5, CommandsOthers DEF Applying, Cleaning
<1>11. CASE UNCHANGED quarantineVars
  BY <1>0, <1>11, CommandsStay DEF quarantineVars
<1> QED BY <1>1, <1>2, <1>3, <1>4, <1>5, <1>6, <1>7, <1>8, <1>9, <1>10, <1>11
        DEF QuarantineNext, CommandStep

(* The bound on the sessions.                                              *)
LEMMA SessionsStep ==
    ASSUME QuarantineInv, [QuarantineNext]_quarantineVars
    PROVE  SessionsBounded'
<1>0. /\ QuarantineTypeOK /\ CommandsAgree /\ SessionsBounded
      /\ now \in Nat /\ deny \in Nat /\ settled \in Nat /\ sessions \subseteq Nat
      /\ Never <= now /\ now <= now /\ now <= now + 1
  BY QuarantineTimes DEF QuarantineInv, QuarantineTypeOK, Never
<1>d. Dead => Dead'
  BY <1>0, DeadStays
<1>1. CASE Assume
  <2>1. /\ UNCHANGED <<now, trust, settled, deny, managed>>
        /\ sessions' = sessions \cup {now}
        /\ trust = "open" \/ now < settled
    BY <1>1 DEF Assume
  <2>2. Live(now, now)
    BY <1>0, QuarantineTimes DEF Live
  <2>3. \A s \in sessions' : s <= now /\ Live(s, now) /\ (trust = "closed" => s < settled)
    BY <1>0, <2>1, <2>2 DEF SessionsBounded
  <2> QED BY <1>0, <1>d, <2>1, <2>3 DEF SessionsBounded, Live, PropagationDeadline
<1>2. CASE Elapse
  <2>1. /\ now' = now + 1 /\ UNCHANGED <<trust, settled, deny, managed>>
        /\ sessions' = {s \in sessions : Live(s, now + 1)}
    BY <1>2 DEF Elapse
  <2>2. deny <= now + 1 /\ \A s \in sessions' : s <= now + 1
    BY <1>0, <2>1 DEF SessionsBounded
  <2> QED BY <1>0, <1>d, <2>1, <2>2 DEF SessionsBounded, Live, PropagationDeadline
<1>3. CASE Drift
  BY <1>0, <1>3 DEF Drift, SessionsBounded, Live
<1>4. CASE UNCHANGED <<now, trust, settled, deny, sessions>>
  BY <1>0, <1>d, <1>4 DEF SessionsBounded, Live, PropagationDeadline
<1>5. ASSUME NEW o \in Operators, PutRolePolicy(o) PROVE SessionsBounded'
  <2>1. /\ deny' = cutoff[o] /\ UNCHANGED <<now, trust, settled, sessions>>
        /\ cutoff[o] \in Times /\ cutoff[o] <= now /\ deny <= cutoff[o] /\ cutoff[o] # Never
    BY <1>0, <1>5, QuarantineTimes DEF PutRolePolicy, CommandsAgree, Applying
  <2>2. PropagationDeadline(deny) <= PropagationDeadline(cutoff[o])
    BY <1>0, <2>1, QuarantineTimes DEF PropagationDeadline
  <2>3. /\ PropagationDeadline(deny) \in Nat /\ PropagationDeadline(cutoff[o]) \in Nat
    BY <1>0, <2>1, QuarantineTimes DEF PropagationDeadline
  <2>4. settled <= PropagationDeadline(deny) => settled <= PropagationDeadline(cutoff[o])
    BY <1>0, <2>2, <2>3
  <2> QED BY <1>0, <1>d, <2>1, <2>4 DEF SessionsBounded, Live, PropagationDeadline
<1>6. ASSUME NEW o \in Operators, UpdateAssumeRolePolicy(o) PROVE SessionsBounded'
  <2>1. /\ trust' = "closed" /\ UNCHANGED <<now, deny, sessions>>
        /\ settled' = IF trust = "open" THEN PropagationDeadline(cutoff[o]) ELSE settled
        /\ deny = cutoff[o] /\ cutoff[o] \in Times /\ now < PropagationDeadline(cutoff[o])
        /\ cutoff[o] # Never
    BY <1>0, <1>6, QuarantineTimes DEF UpdateAssumeRolePolicy, CommandsAgree, Applying
  <2>2. CASE trust = "open"
    <3>1. settled' = PropagationDeadline(deny) /\ settled' \in Nat /\ now < settled'
      BY <1>0, <2>1, <2>2, QuarantineTimes DEF PropagationDeadline
    <3>2. \A s \in sessions : s < settled'
      BY <1>0, <3>1 DEF SessionsBounded
    <3>3. settled' <= PropagationDeadline(deny')
      BY <2>1, <3>1
    <3> QED BY <1>0, <2>1, <3>2, <3>3 DEF SessionsBounded, Live
  <2>3. CASE trust = "closed"
    BY <1>0, <1>d, <2>1, <2>3 DEF SessionsBounded, Live, PropagationDeadline
  <2> QED BY <1>0, <2>2, <2>3 DEF QuarantineTypeOK
<1>7. ASSUME NEW o \in Operators, at[o] \in Cleaning, UNCHANGED <<now, trust, settled, sessions>>,
             deny' \in {deny, Never, cutoff[o]}
      PROVE  SessionsBounded'
  <2>1. Dead /\ cutoff[o] <= now
    BY <1>0, <1>7 DEF CommandsAgree, Cleaning
  <2>2. deny' <= now
    BY <1>0, <1>7, <2>1 DEF SessionsBounded
  <2> QED BY <1>7, <1>d, <2>1, <2>2 DEF SessionsBounded, Dead
<1>8. ASSUME NEW o \in Operators, CommandStep(o) PROVE SessionsBounded'
  <2>1. CASE StartQuarantine(o) \/ Strip(o) \/ VerifyQuarantine(o) \/ StartCleanup(o) \/ Fail(o)
    BY <1>4, <2>1 DEF StartQuarantine, Strip, VerifyQuarantine, StartCleanup, Fail
  <2>2. CASE DropDeny(o) \/ DropUnacknowledged(o) \/ DeleteRole(o) \/ DeleteFails(o) \/ Restore(o)
    BY <1>7, <2>2 DEF DropDeny, DropUnacknowledged, DeleteRole, DeleteFails, Restore, Cleaning
  <2> QED BY <1>5, <1>6, <1>8, <2>1, <2>2 DEF CommandStep
<1> QED BY <1>1, <1>2, <1>3, <1>4, <1>8
        DEF QuarantineNext, Seal, VerifyStateRm, RemoveFromState, Qualify, ReportDeleted,
            quarantineVars

(* What it takes to hand over, to publish, and to delete.                  *)
LEMMA HandoverStep ==
    ASSUME QuarantineInv, [QuarantineNext]_quarantineVars
    PROVE  HandedOver'
<1>0. /\ QuarantineTypeOK /\ CommandsAgree /\ SessionsBounded /\ HandedOver
      /\ now \in Nat /\ settled \in Nat
  BY QuarantineTimes DEF QuarantineInv, QuarantineTypeOK
<1>d. Dead => Dead'
  BY <1>0, DeadStays
<1>1. CASE Assume \/ Elapse \/ Drift \/ Seal \/ ReportDeleted \/ UNCHANGED quarantineVars
  <2>1. /\ UNCHANGED <<managed, role, deny, authorized, published, settled>>
        /\ now' \in Nat /\ now <= now'
        /\ trust' = trust \/ (managed /\ role = "present")
    BY <1>0, <1>1
       DEF Assume, Elapse, Drift, Seal, ReportDeleted, quarantineVars
  <2>2. settled <= now => settled <= now'
    BY <1>0, <2>1
  <2> QED BY <1>0, <1>d, <2>1, <2>2 DEF HandedOver
<1>2. CASE VerifyStateRm
  <2>1. PICK e \in evidence : Retained(e)
    BY <1>2 DEF VerifyStateRm
  <2>2. deny # Never
    BY <1>0, <2>1, LiveMeansSettled DEF Retained
  <2> QED BY <1>0, <1>2, <1>d, <2>2 DEF VerifyStateRm, HandedOver
<1>3. CASE RemoveFromState
  BY <1>0, <1>3, <1>d DEF RemoveFromState, HandedOver
<1>4. CASE Qualify
  <2>1. PICK e \in evidence : Retained(e) \/ (e.state = "deleted" /\ role = "deleted")
    BY <1>4 DEF Qualify
  <2>2. role = "deleted" \/ (trust = "closed" /\ settled <= now)
    BY <1>0, <2>1, LiveMeansSettled DEF Retained
  <2> QED BY <1>0, <1>4, <1>d, <2>2 DEF Qualify, HandedOver
<1>5. ASSUME NEW o \in Operators, CommandStep(o) PROVE HandedOver'
  <2>1. UNCHANGED <<now, managed, authorized, published>>
    BY <1>5 DEF CommandStep, StartQuarantine, PutRolePolicy, UpdateAssumeRolePolicy, Strip,
                VerifyQuarantine, StartCleanup, DropDeny, DropUnacknowledged, DeleteRole,
                DeleteFails, Restore, Fail
  <2>2. CASE UNCHANGED <<role, trust, settled, deny>>
    BY <1>0, <1>d, <2>1, <2>2 DEF HandedOver
  <2>3. CASE PutRolePolicy(o)
    <3>1. deny' \in Times /\ UNCHANGED <<role, trust, settled>>
      BY <1>0, <2>3 DEF PutRolePolicy, CommandsAgree, Applying
    <3>2. deny' # Never
      BY <3>1, QuarantineTimes
    <3> QED BY <1>0, <1>d, <2>1, <3>1, <3>2 DEF HandedOver
  <2>4. CASE UpdateAssumeRolePolicy(o)
    BY <1>0, <1>d, <2>1, <2>4 DEF UpdateAssumeRolePolicy, HandedOver
  <2>5. CASE at[o] \in Cleaning /\ UNCHANGED <<trust, settled>> /\ role' \in {role, "deleted"}
    <3>1. Dead
      BY <1>0, <2>5 DEF CommandsAgree
    <3> QED BY <1>0, <1>d, <2>1, <2>5, <3>1 DEF HandedOver, Dead
  <2>6. CASE StartQuarantine(o) \/ Strip(o) \/ VerifyQuarantine(o) \/ StartCleanup(o) \/ Fail(o)
    BY <2>2, <2>6 DEF StartQuarantine, Strip, VerifyQuarantine, StartCleanup, Fail
  <2>7. CASE DropDeny(o) \/ DropUnacknowledged(o) \/ DeleteRole(o) \/ DeleteFails(o) \/ Restore(o)
    BY <2>5, <2>7 DEF DropDeny, DropUnacknowledged, DeleteRole, DeleteFails, Restore, Cleaning
  <2> QED BY <1>5, <2>3, <2>4, <2>6, <2>7 DEF CommandStep
<1> QED BY <1>1, <1>2, <1>3, <1>4, <1>5 DEF QuarantineNext

(* Who takes the deny away is in the middle of a deletion, dies there, or   *)
(* puts it back.                                                           *)
LEMMA RestoresStep ==
    ASSUME QuarantineInv, [QuarantineNext]_quarantineVars
    PROVE  FailedDeletionRestores'
<1>0. QuarantineTypeOK /\ CommandsAgree /\ HandedOver /\ FailedDeletionRestores
  BY DEF QuarantineInv
<1>1. ASSUME UNCHANGED <<role, deny, managed>>, stranded => stranded',
             \A p \in Operators : at[p] \in {"delete", "restore"}
                                  => stranded' \/ at'[p] \in {"delete", "restore"}
      PROVE  FailedDeletionRestores'
  BY <1>0, <1>1 DEF FailedDeletionRestores
<1>2. CASE RemoveFromState
  BY <1>0, <1>2 DEF RemoveFromState, HandedOver, FailedDeletionRestores
<1>3. ASSUME NEW o \in Operators, CommandStep(o) PROVE FailedDeletionRestores'
  <2>1. CASE PutRolePolicy(o) \/ Restore(o)
    <3>1. cutoff[o] \in Times
      BY <1>0, <2>1 DEF PutRolePolicy, Restore, CommandsAgree
    <3>2. role' = "present" => deny' # Never
      BY <2>1, <3>1, QuarantineTimes DEF PutRolePolicy, Restore
    <3> QED BY <3>2 DEF FailedDeletionRestores
  <2>2. CASE DropDeny(o)
    BY <1>0, <2>2, CommandMoves DEF DropDeny, FailedDeletionRestores
  <2>3. CASE DropUnacknowledged(o) \/ DeleteRole(o)
    BY <2>3 DEF DropUnacknowledged, DeleteRole, FailedDeletionRestores
  <2>4. CASE StartQuarantine(o) \/ StartCleanup(o)
    BY <1>0, <1>1, <2>4 DEF StartQuarantine, StartCleanup, QuarantineTypeOK
  <2>5. CASE UpdateAssumeRolePolicy(o) \/ VerifyQuarantine(o)
    BY <1>0, <1>1, <2>5, CommandMoves DEF UpdateAssumeRolePolicy, VerifyQuarantine, Others
  <2>6. CASE Strip(o)
    BY <1>0, <1>1, <2>6 DEF Strip, QuarantineTypeOK
  <2>7. CASE DeleteFails(o)
    BY <1>0, <1>1, <2>7, CommandMoves DEF DeleteFails, Others
  <2>8. CASE Fail(o)
    BY <1>0, <1>1, <2>8, CommandMoves DEF Fail, Others
  <2> QED BY <1>3, <2>1, <2>2, <2>3, <2>4, <2>5, <2>6, <2>7, <2>8 DEF CommandStep
<1> QED BY <1>1, <1>2, <1>3
        DEF QuarantineNext, Assume, Elapse, Drift, Seal, VerifyStateRm, Qualify, ReportDeleted,
            quarantineVars

(* A worker that runs, and a role that nobody has touched.                 *)
LEMMA QuarantineStarts == QuarantineInit => QuarantineInv
<1> SUFFICES ASSUME QuarantineInit PROVE QuarantineInv
  OBVIOUS
<1> USE DEF QuarantineInit
<1>1. 1 \in Nat /\ 0 \in Nat /\ Never = 0 /\ 0 \in 0 .. MaxDrifts /\ 1 < 1 + MaxSession
  BY QuarantineTimes DEF Never
<1>2. QuarantineTypeOK
  BY <1>1, QuarantineTimes DEF QuarantineTypeOK
<1>3. CommandsAgree
  BY DEF CommandsAgree, Applying, Cleaning
<1>4. SessionsBounded
  BY <1>1 DEF SessionsBounded, Live
<1>5. HandedOver /\ FailedDeletionRestores
  BY DEF HandedOver, FailedDeletionRestores
<1> QED BY <1>2, <1>3, <1>4, <1>5 DEF QuarantineInv

(* Every step keeps the invariant.                                         *)
LEMMA QuarantineStep ==
    ASSUME QuarantineInv, [QuarantineNext]_quarantineVars
    PROVE  QuarantineInv'
BY QuarantineTypeStep, CommandsStep, SessionsStep, HandoverStep, RestoresStep DEF QuarantineInv

-----------------------------------------------------------------------------
(* The inductive invariant holds: commands that agree with the role,       *)
(* sessions that end, and nothing handed over before its time.             *)
THEOREM QuarantineInvariant == QuarantineSpec => []QuarantineInv
<1>1. QuarantineInv /\ [QuarantineNext]_quarantineVars => QuarantineInv'
  BY QuarantineStep
<1> QED BY <1>1, QuarantineStarts, PTL DEF QuarantineSpec

(* The types of the role, its sessions, its evidence and the commands.     *)
THEOREM QuarantineTypes == QuarantineSpec => []QuarantineTypeOK
<1>1. QuarantineInv => QuarantineTypeOK
  BY DEF QuarantineInv
<1> QED BY <1>1, QuarantineInvariant, PTL

(* The deny is taken away, and the role deleted, only when no session of   *)
(* the prior worker lives any more (cleanup_prior_worker_role).            *)
THEOREM DenyOutlives == QuarantineSpec => []DenyOutlivesSessions
<1>1. QuarantineInv => DenyOutlivesSessions
  BY DEF QuarantineInv, HandedOver, DenyOutlivesSessions, Dead
<1> QED BY <1>1, QuarantineInvariant, PTL

(* A deletion that fails leaves the role quarantined, unless the command   *)
(* died in the middle of it (_restore_quarantine_policy).                  *)
THEOREM DeletionRestores == QuarantineSpec => []FailedDeletionRestores
<1>1. QuarantineInv => FailedDeletionRestores
  BY DEF QuarantineInv
<1> QED BY <1>1, QuarantineInvariant, PTL

(* Once the next release is qualified, no session of the prior worker is   *)
(* issued any more (_verify_prior_worker_identity_denials).                *)
THEOREM NoSessionAfter == QuarantineSpec => NoSessionAfterQualification
<1>1. ASSUME QuarantineInv, [QuarantineNext]_quarantineVars, published
      PROVE  sessions' \subseteq sessions
  <2>1. ~Assume
    <3>1. role = "deleted" \/ (trust = "closed" /\ settled <= now)
      BY <1>1 DEF QuarantineInv, HandedOver
    <3>2. now \in Nat /\ settled \in Nat
      BY <1>1, QuarantineTimes DEF QuarantineInv, QuarantineTypeOK
    <3> QED BY <3>1, <3>2 DEF Assume
  <2>2. CASE Elapse
    BY <2>2 DEF Elapse
  <2>3. CASE ~Elapse
    BY <1>1, <2>1, <2>3
       DEF QuarantineNext, CommandStep, Drift, Seal, VerifyStateRm, RemoveFromState, Qualify,
           ReportDeleted, StartQuarantine, PutRolePolicy, UpdateAssumeRolePolicy, Strip,
           VerifyQuarantine, StartCleanup, DropDeny, DropUnacknowledged, DeleteRole,
           DeleteFails, Restore, Fail, quarantineVars
  <2> QED BY <2>2, <2>3
<1>2. QuarantineInv /\ [QuarantineNext]_quarantineVars
      => [published => sessions' \subseteq sessions]_quarantineVars
  BY <1>1
<1> QED BY <1>2, QuarantineInvariant, PTL DEF QuarantineSpec, NoSessionAfterQualification
=============================================================================
