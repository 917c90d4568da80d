--------------------------- MODULE FactoryHandoff ---------------------------
(***************************************************************************)
(* The factory handoff of one engagement: customer model versions, scored  *)
(* opportunities, readiness assessments and deployment packages, and what  *)
(* a change of their upstream sources (verified truth, workflows, economic *)
(* case, artifacts) does to them.                                          *)
(*                                                                         *)
(* Every operation takes the engagement row FOR UPDATE before it reads a   *)
(* handoff row (_lock_active_engagement), so each is one action.  A row is *)
(* immutable but for its status, which an action moves together with the   *)
(* whole cascade it triggers.  ASSESSED stands for RECOMMENDED too: no     *)
(* operation tells them apart.  A blocked opportunity is one nobody        *)
(* selects, and an assessment that is not READY one nobody approves.       *)
(*                                                                         *)
(* The economics and the evidence of an opportunity are references of the  *)
(* caller's choice.  Evidence, assumptions and verified claims are not     *)
(* state here: an asset stays complete, and a verified claim only changes  *)
(* when another is accepted, which stales everything (AcceptClaim).  The   *)
(* references inside a model, an assessment or a package contract are      *)
(* checked when the row is created and never looked at again.              *)
(***************************************************************************)
EXTENDS Naturals, FiniteSets

CONSTANTS
    Models,         \* customer factory model versions that can be drafted
    Opportunities,  \* opportunity versions
    Readinesses,    \* readiness assessments
    Packages,       \* deployment package versions
    Keys,           \* opportunity keys
    NoKey,
    MaxVersion,     \* for every kind of upstream row, a bound on its versions
    MaxCited        \* bound on the approved inputs an opportunity refers to

Rows == Models \cup Readinesses \cup Opportunities \cup Packages
Kinds == {"current", "target", "economics", "packet"}

ASSUME RowsAssumption ==
    /\ MaxVersion \in [Kinds -> Nat]
    /\ MaxCited \in Nat
    /\ NoKey \notin Keys
    /\ Models \cap Readinesses = {}
    /\ Models \cap Opportunities = {}
    /\ Models \cap Packages = {}
    /\ Readinesses \cap Opportunities = {}
    /\ Readinesses \cap Packages = {}
    /\ Opportunities \cap Packages = {}

VARIABLES
    status,     \* the status of every handoff row, "ABSENT" before it exists
    sources,    \* the handoff rows a row was created from
    pins,       \* the upstream versions a row pins or refers to, 0 for none
    cites,      \* the handoff rows an opportunity's references name
    key,        \* FactoryOpportunity.opportunity_key
    version,    \* the newest version of each kind of upstream row
    stage,      \* its status: "none", "draft", "approved" (or current) or "stale"
    costed      \* some economic case of the target workflow is approved

rows == <<status, sources, pins, cites, key>>
upstream == <<version, stage, costed>>
vars == <<rows, upstream>>

VersionStatuses == {"ABSENT", "DRAFT", "APPROVED", "STALE"}
OpportunityStatuses == {"ABSENT", "ASSESSED", "SELECTED", "REJECTED", "STALE"}
PackageStatuses == {"ABSENT", "DRAFT", "READY_FOR_REVIEW", "APPROVED", "PUBLISHED",
                    "SUPERSEDED", "REJECTED", "REVOKED", "STALE"}
Statuses == VersionStatuses \cup OpportunityStatuses \cup PackageStatuses

(* Every row keeps to the statuses of its table, is made of rows and pins   *)
(* versions that exist.                                                     *)
TypeOK ==
    /\ status \in [Rows -> Statuses]
    /\ \A x \in Models \cup Readinesses : status[x] \in VersionStatuses
    /\ \A o \in Opportunities : status[o] \in OpportunityStatuses
    /\ \A p \in Packages : status[p] \in PackageStatuses
    /\ sources \in [Rows -> SUBSET Rows]
    /\ pins \in [Rows -> [Kinds -> Nat]]
    /\ cites \in [Opportunities -> SUBSET (Rows \ Packages)]
    /\ key \in [Opportunities -> Keys \cup {NoKey}]
    /\ version \in [Kinds -> Nat]
    /\ stage \in [Kinds -> {"none", "draft", "approved", "stale"}]
    /\ costed \in BOOLEAN

Init ==
    /\ status = [x \in Rows |-> "ABSENT"]
    /\ sources = [x \in Rows |-> {}]
    /\ pins = [x \in Rows |-> [k \in Kinds |-> 0]]
    /\ cites = [o \in Opportunities |-> {}]
    /\ key = [o \in Opportunities |-> NoKey]
    /\ version = [k \in Kinds |-> 0]
    /\ stage = [k \in Kinds |-> "none"]
    /\ costed = FALSE

-----------------------------------------------------------------------------
(* What is current                                                         *)

Open(rs, closed) == {x \in rs : status[x] \notin closed \cup {"ABSENT", "STALE"}}

LiveReadinesses == Open(Readinesses, {})
LiveOpportunities == Open(Opportunities, {"REJECTED"})
LivePackages == Open(Packages, {"REVOKED", "SUPERSEDED", "REJECTED"})

(* The version a new row pins and validation expects: approved and newest. *)
InForce(k) == IF stage[k] = "approved" THEN version[k] ELSE 0

(* The row pins, for every kind of ks, the version in force.               *)
PinsHold(x, ks) == \A k \in ks : InForce(k) # 0 /\ pins[x][k] = InForce(k)

WorkflowKinds == {"current", "target"}

KindsInForce == {k \in Kinds : InForce(k) # 0}

RowInForce(y) == status[y] = IF y \in Opportunities THEN "SELECTED" ELSE "APPROVED"

Rests(x) == \A y \in sources[x] : RowInForce(y)

RowsInForce == {y \in Rows \ Packages : RowInForce(y)}

(* The kinds a row pins or refers to.                                      *)
Pinned(x) == {k \in Kinds : pins[x][k] # 0}

(* The current workflow of an opportunity and whatever its economics and   *)
(* evidence refer to are still in force.                                   *)
OpportunitySourcesValid(o) ==
    /\ PinsHold(o, {"current"} \cup Pinned(o))
    /\ \A y \in cites[o] : RowInForce(y)

PackageSourcesValid(p) ==
    /\ Rests(p)
    /\ \A o \in sources[p] \cap Opportunities : OpportunitySourcesValid(o)
    /\ PinsHold(p, WorkflowKinds)

-----------------------------------------------------------------------------
(* The staleness cascade: seed holds the rows an operation stales itself,  *)
(* and _stale_customer_model, _stale_opportunity and _stale_readiness      *)
(* reach the open rows that depend on them.                                *)

StaledOpportunities(seed) ==
    {o \in LiveOpportunities : o \in seed \/ sources[o] \cap seed # {}}

StaledReadinesses(seed) ==
    {r \in LiveReadinesses :
        r \in seed \/ sources[r] \cap (seed \cup StaledOpportunities(seed)) # {}}

(* Mutant: the packages of a stale opportunity or model are forgotten.     *)
StaledPackagesDirect(seed) ==
    {p \in LivePackages : p \in seed \/ sources[p] \cap seed \cap Readinesses # {}}

StaledPackages(seed) ==
    {p \in LivePackages :
        p \in seed \/ sources[p] \cap (StaledReadinesses(seed)
                                       \cup StaledOpportunities(seed)) # {}}

Staled(seed) ==
    (seed \cap Models) \cup StaledOpportunities(seed)
    \cup StaledReadinesses(seed) \cup StaledPackages(seed)

StatusAfter(seed) == [x \in Rows |-> IF x \in Staled(seed) THEN "STALE" ELSE status[x]]

(* Row x moves to s and the rows of seed become stale with it.             *)
Move(x, s, seed) == status' = [StatusAfter(seed) EXCEPT ![x] = s]

OthersIn(x, rs, s) == {y \in rs \ {x} : status[y] = s}

-----------------------------------------------------------------------------
(* Customer factory models                                                 *)

CreateModel(m) ==
    /\ status[m] = "ABSENT"
    /\ Move(m, "DRAFT", {})
    /\ UNCHANGED <<sources, pins, cites, key, upstream>>

ApproveModel(m) ==
    /\ status[m] = "DRAFT"
    /\ Move(m, "APPROVED", OthersIn(m, Models, "APPROVED"))
    /\ UNCHANGED <<sources, pins, cites, key, upstream>>

-----------------------------------------------------------------------------
(* Opportunities                                                           *)

FirstStatus == "ASSESSED"

(* The opportunity refers to the upstream versions of ks and the rows ys;  *)
(* when both are empty, to evidence, assumptions or claims alone.          *)
CreateOpportunity(o, m, k, ks, ys) ==
    /\ status[o] = "ABSENT"
    /\ status[m] = "APPROVED"
    /\ {"current"} \cup ks \subseteq KindsInForce
    /\ ys \subseteq RowsInForce
    /\ Cardinality(ks) + Cardinality(ys) <= MaxCited
    /\ Move(o, FirstStatus, {q \in LiveOpportunities : key[q] = k})
    /\ sources' = [sources EXCEPT ![o] = {m}]
    /\ pins' = [pins EXCEPT ![o] =
                  [kind \in Kinds |->
                     IF kind \in {"current"} \cup ks THEN InForce(kind) ELSE 0]]
    /\ cites' = [cites EXCEPT ![o] = ys]
    /\ key' = [key EXCEPT ![o] = k]
    /\ UNCHANGED upstream

SelectOpportunity(o) ==
    /\ status[o] = "ASSESSED"
    /\ OpportunitySourcesValid(o)
    /\ Move(o, "SELECTED", OthersIn(o, Opportunities, "SELECTED"))
    /\ UNCHANGED <<sources, pins, cites, key, upstream>>

RejectOpportunity(o) ==
    /\ status[o] = "ASSESSED"
    /\ Move(o, "REJECTED", {})
    /\ UNCHANGED <<sources, pins, cites, key, upstream>>

-----------------------------------------------------------------------------
(* Readiness assessments                                                   *)

CreateReadiness(r, m, o) ==
    /\ status[r] = "ABSENT"
    /\ status[m] = "APPROVED"
    /\ status[o] = "SELECTED"
    /\ m \in sources[o]
    /\ OpportunitySourcesValid(o)
    /\ \A kind \in WorkflowKinds : InForce(kind) # 0
    /\ Move(r, "DRAFT", {})
    /\ sources' = [sources EXCEPT ![r] = {m, o}]
    /\ pins' = [pins EXCEPT ![r] =
                  [kind \in Kinds |-> IF kind \in WorkflowKinds THEN InForce(kind) ELSE 0]]
    /\ UNCHANGED <<cites, key, upstream>>

ApproveReadiness(r) ==
    /\ status[r] = "DRAFT"
    /\ Rests(r)
    /\ PinsHold(r, WorkflowKinds)
    /\ Move(r, "APPROVED", OthersIn(r, Readinesses, "APPROVED"))
    /\ UNCHANGED <<sources, pins, cites, key, upstream>>

-----------------------------------------------------------------------------
(* Deployment packages                                                     *)

CreatePackage(p, m, r, o) ==
    /\ status[p] = "ABSENT"
    /\ status[m] = "APPROVED"
    /\ status[r] = "APPROVED"
    /\ status[o] = "SELECTED"
    /\ sources[r] = {m, o}
    /\ m \in sources[o]
    /\ Move(p, "DRAFT", {})
    /\ sources' = [sources EXCEPT ![p] = {m, r, o}]
    /\ pins' = [pins EXCEPT ![p] = pins[r]]
    /\ UNCHANGED <<cites, key, upstream>>

SubmitPackage(p) ==
    /\ status[p] = "DRAFT"
    /\ PackageSourcesValid(p)
    /\ Move(p, "READY_FOR_REVIEW", {})
    /\ UNCHANGED <<sources, pins, cites, key, upstream>>

(* Mutant: the published package is superseded by the approval already.    *)
ApprovePackageInPlace(p) ==
    /\ status[p] = "READY_FOR_REVIEW"
    /\ PackageSourcesValid(p)
    /\ status' = [x \in Rows |-> IF x = p THEN "APPROVED"
                                 ELSE IF x \in OthersIn(p, Packages, "PUBLISHED")
                                      THEN "SUPERSEDED" ELSE status[x]]
    /\ UNCHANGED <<sources, pins, cites, key, upstream>>

ApprovePackage(p) ==
    /\ status[p] = "READY_FOR_REVIEW"
    /\ PackageSourcesValid(p)
    /\ Move(p, "APPROVED", {})
    /\ UNCHANGED <<sources, pins, cites, key, upstream>>

(* Mutant: the package that was published before stays so.                 *)
SupersededNever(p) == {}

Superseded(p) == OthersIn(p, Packages, "PUBLISHED")

PublishPackage(p) ==
    /\ status[p] = "APPROVED"
    /\ PackageSourcesValid(p)
    /\ status' = [x \in Rows |-> IF x = p THEN "PUBLISHED"
                                 ELSE IF x \in Superseded(p) THEN "SUPERSEDED" ELSE status[x]]
    /\ UNCHANGED <<sources, pins, cites, key, upstream>>

RejectPackage(p) ==
    /\ status[p] \in {"DRAFT", "READY_FOR_REVIEW", "APPROVED"}
    /\ Move(p, "REJECTED", {})
    /\ UNCHANGED <<sources, pins, cites, key, upstream>>

RevokePackage(p) ==
    /\ status[p] = "PUBLISHED"
    /\ Move(p, "REVOKED", {})
    /\ UNCHANGED <<sources, pins, cites, key, upstream>>

-----------------------------------------------------------------------------
(* Upstream changes, one request at a time                                 *)

LiveModels == Open(Models, {})

StageAfter(staled) ==
    [k \in Kinds |-> IF k \in staled /\ stage[k] \in {"draft", "approved"}
                     THEN "stale" ELSE stage[k]]

(* Mutant: only the selected opportunity is taken to have a source.        *)
EconomicSeedSelected == {o \in Opportunities : status[o] = "SELECTED"}

(* stale_after_economic_change, which every other change of workflows or   *)
(* truth ends in too.                                                      *)
EconomicSeed == LiveOpportunities

(* stale_after_current_workflow_change, stale_after_target_workflow_change *)
WorkflowSeed == EconomicSeed \cup LiveReadinesses

(* stale_after_model_change                                                *)
TruthSeed == EconomicSeed \cup LiveModels

(* review_claim accepts a claim.                                           *)
AcceptClaim ==
    /\ stage' = StageAfter(Kinds)
    /\ costed' = FALSE
    /\ status' = StatusAfter(TruthSeed)
    /\ UNCHANGED <<sources, pins, cites, key, version>>

ResolveContradiction ==
    /\ status' = StatusAfter(LiveModels)
    /\ UNCHANGED <<sources, pins, cites, key, upstream>>

GenerateCurrent ==
    /\ stage["current"] # "draft"
    /\ version["current"] < MaxVersion["current"]
    /\ version' = [version EXCEPT !["current"] = @ + 1]
    /\ stage' = [StageAfter(Kinds) EXCEPT !["current"] = "draft"]
    /\ costed' = FALSE
    /\ status' = StatusAfter(WorkflowSeed)
    /\ UNCHANGED <<sources, pins, cites, key>>

ApproveCurrent ==
    /\ stage["current"] = "draft"
    /\ stage' = [StageAfter({"target", "economics", "packet"}) EXCEPT !["current"] = "approved"]
    /\ costed' = FALSE
    /\ status' = StatusAfter(WorkflowSeed)
    /\ UNCHANGED <<sources, pins, cites, key, version>>

GenerateTarget ==
    /\ stage["current"] = "approved"
    /\ stage["target"] # "draft"
    /\ version["target"] < MaxVersion["target"]
    /\ version' = [version EXCEPT !["target"] = @ + 1]
    /\ stage' = [StageAfter({"target", "economics", "packet"}) EXCEPT !["target"] = "draft"]
    /\ costed' = FALSE
    /\ status' = StatusAfter(WorkflowSeed)
    /\ UNCHANGED <<sources, pins, cites, key>>

ApproveTarget ==
    /\ stage["target"] = "draft"
    /\ stage["current"] = "approved"
    /\ stage' = [StageAfter({"economics", "packet"}) EXCEPT !["target"] = "approved"]
    /\ costed' = FALSE
    /\ status' = StatusAfter(WorkflowSeed)
    /\ UNCHANGED <<sources, pins, cites, key, version>>

(* A draft case of the target is recalculated in place; an approved one    *)
(* stays approved but is no longer the newest.                             *)
CalculateEconomics ==
    /\ stage["target"] = "approved"
    /\ IF stage["economics"] = "draft"
       THEN version' = version
       ELSE /\ version["economics"] < MaxVersion["economics"]
            /\ version' = [version EXCEPT !["economics"] = @ + 1]
    /\ stage' = [StageAfter({"packet"}) EXCEPT !["economics"] = "draft"]
    /\ status' = StatusAfter(EconomicSeed)
    /\ UNCHANGED <<sources, pins, cites, key, costed>>

ApproveEconomics ==
    /\ stage["economics"] = "draft"
    /\ stage["target"] = "approved"
    /\ stage' = [StageAfter({"packet"}) EXCEPT !["economics"] = "approved"]
    /\ costed' = TRUE
    /\ status' = StatusAfter(EconomicSeed)
    /\ UNCHANGED <<sources, pins, cites, key, version>>

(* A packet that is current already pins the same versions and is returned *)
(* as it is.                                                               *)
GeneratePacket ==
    /\ \A k \in WorkflowKinds : stage[k] = "approved"
    /\ costed
    /\ stage["packet"] # "approved"
    /\ version["packet"] < MaxVersion["packet"]
    /\ version' = [version EXCEPT !["packet"] = @ + 1]
    /\ stage' = [stage EXCEPT !["packet"] = "approved"]
    /\ status' = StatusAfter(LivePackages)
    /\ UNCHANGED <<sources, pins, cites, key, costed>>

-----------------------------------------------------------------------------
UpstreamChange ==
    \/ AcceptClaim
    \/ ResolveContradiction
    \/ GenerateCurrent
    \/ ApproveCurrent
    \/ GenerateTarget
    \/ ApproveTarget
    \/ CalculateEconomics
    \/ ApproveEconomics
    \/ GeneratePacket

PackageStep(p) ==
    \/ SubmitPackage(p)
    \/ ApprovePackage(p)
    \/ PublishPackage(p)
    \/ RejectPackage(p)
    \/ RevokePackage(p)

Next ==
    \/ \E m \in Models : CreateModel(m) \/ ApproveModel(m)
    \/ \E o \in Opportunities, m \in Models, k \in Keys :
          \E ks \in SUBSET KindsInForce, ys \in SUBSET RowsInForce :
             CreateOpportunity(o, m, k, ks, ys)
    \/ \E o \in Opportunities : SelectOpportunity(o) \/ RejectOpportunity(o)
    \/ \E r \in Readinesses, m \in Models, o \in Opportunities : CreateReadiness(r, m, o)
    \/ \E r \in Readinesses : ApproveReadiness(r)
    \/ \E p \in Packages, m \in Models, r \in Readinesses, o \in Opportunities :
          CreatePackage(p, m, r, o)
    \/ \E p \in Packages : PackageStep(p)
    \/ UpstreamChange

Spec == Init /\ [][Next]_vars

-----------------------------------------------------------------------------
(* Properties                                                              *)

(* Whatever changes upstream, and in whichever order, a package that can   *)
(* still be submitted, approved, published or retrieved rests on the       *)
(* approved model, the selected opportunity, the approved readiness and    *)
(* the approved workflows, and every upstream version or handoff row the   *)
(* opportunity refers to, whatever its author chose, is still in force:    *)
(* the cascade never misses one.                                           *)
PackagesRestOnCurrentSources == \A p \in LivePackages : PackageSourcesValid(p)

(* The same for what packages are made of.  The handoff rows an            *)
(* opportunity refers to, other than its own model, may go without it: a   *)
(* selected opportunity has outlived the rival it cites, and without that  *)
(* rival nothing is assessed against it.                                   *)
OpportunitiesCurrent ==
    \A o \in LiveOpportunities :
       /\ Rests(o)
       /\ PinsHold(o, {"current"} \cup Pinned(o))
       /\ cites[o] \cap Models \subseteq sources[o]

RivalsGone ==
    /\ \A o \in Opportunities : status[o] = "SELECTED" =>
          \A y \in cites[o] \ Models : status[y] = "STALE"
    /\ \A r \in LiveReadinesses, o \in Opportunities :
          o \in sources[r] => cites[o] \subseteq Models

ReadinessesCurrent == \A r \in LiveReadinesses : Rests(r) /\ PinsHold(r, WorkflowKinds)

OneInForce(rs, s) == \A x, y \in rs : status[x] = s /\ status[y] = s => x = y

OneOfEachInForce ==
    /\ OneInForce(Models, "APPROVED")
    /\ OneInForce(Readinesses, "APPROVED")
    /\ OneInForce(Opportunities, "SELECTED")
    /\ OneInForce(Packages, "PUBLISHED")

(* A row is created from rows of the kinds the code takes them from, which *)
(* agree on what they were created from themselves.                        *)
OpportunityOf(o, m) ==
    /\ status[o] # "ABSENT"
    /\ sources[o] = {m}

ReadinessOf(r, m, o) ==
    /\ status[r] # "ABSENT"
    /\ sources[r] = {m, o}
    /\ OpportunityOf(o, m)

PackageOf(p, m, r, o) ==
    /\ sources[p] = {m, r, o}
    /\ ReadinessOf(r, m, o)

SourcesShaped ==
    /\ \A o \in Opportunities : status[o] # "ABSENT" =>
          \E m \in Models : OpportunityOf(o, m)
    /\ \A r \in Readinesses : status[r] # "ABSENT" =>
          \E m \in Models, o \in Opportunities : ReadinessOf(r, m, o)
    /\ \A p \in Packages : status[p] # "ABSENT" =>
          \E m \in Models, r \in Readinesses, o \in Opportunities : PackageOf(p, m, r, o)

(* The inductive invariant behind them: at any time at most one row of a  *)
(* kind is in force, and whatever is open rests on rows that are.          *)
Inv ==
    /\ TypeOK
    /\ SourcesShaped
    /\ OneOfEachInForce
    /\ OpportunitiesCurrent
    /\ RivalsGone
    /\ ReadinessesCurrent
    /\ PackagesRestOnCurrentSources

(* No transaction of the service runs into a trigger or a unique index of  *)
(* the database: each moves its rows the way the migration allows.         *)
Lifecycle == INSTANCE HandoffLifecycle

ImplementsTriggers == Lifecycle!Spec

(* A published package leaves publication for a reason: a successor is     *)
(* published, it is revoked, a row it was made from became stale, or a new *)
(* implementation packet was generated.                                    *)
PublicationEndsForCause ==
    [][\A p \in Packages : status[p] = "PUBLISHED" /\ status'[p] # "PUBLISHED" =>
          \/ status'[p] = "REVOKED"
          \/ /\ status'[p] = "SUPERSEDED"
             /\ \E q \in Packages : status[q] = "APPROVED" /\ status'[q] = "PUBLISHED"
          \/ /\ status'[p] = "STALE"
             /\ \/ \E x \in sources[p] : status'[x] = "STALE"
                \/ version'["packet"] # version["packet"]]_vars
=============================================================================
