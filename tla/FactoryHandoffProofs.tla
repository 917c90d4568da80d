------------------------ MODULE FactoryHandoffProofs ------------------------
(***************************************************************************)
(* Theorems about FactoryHandoff for any number of versions of every kind. *)
(* A handoff operation moves one row x and stales what a cascade from a    *)
(* seed reaches; HandoffStep says so once for all thirteen of them, and    *)
(* the lemmas show what such a step keeps of the other rows.  Upstream     *)
(* changes stale so much that nothing open is left to talk about.          *)
(***************************************************************************)
EXTENDS FactoryHandoff, TLAPS

USE DEF Rows

Closed == {"REVOKED", "SUPERSEDED", "REJECTED"}

(* What every action on a handoff row has in common.                       *)
HandoffStep(x, s, seed) ==
    /\ \A y \in Rows : status'[y] = IF y = x THEN s
                                    ELSE IF y \in Staled(seed) THEN "STALE" ELSE status[y]
    /\ \A y \in Rows \ {x} : sources'[y] = sources[y] /\ pins'[y] = pins[y]
    /\ status[x] # "ABSENT" => sources'[x] = sources[x] /\ pins'[x] = pins[x]
    /\ \A o \in Opportunities \ {x} : cites'[o] = cites[o]
    /\ x \in Opportunities /\ status[x] # "ABSENT" => cites'[x] = cites[x]
    /\ status[x] # "STALE"
    /\ s # "ABSENT"
    /\ \A m \in seed \cap Models : status[m] \in {"DRAFT", "APPROVED"}
    /\ x \notin Packages => status[x] \notin {"APPROVED", "SELECTED"}
    /\ UNCHANGED upstream

(* A row that is staled was open.                                          *)
LEMMA StaledWasOpen ==
    ASSUME NEW seed, NEW y \in Staled(seed)
    PROVE  \/ y \in seed \cap Models
           \/ y \in LiveOpportunities
           \/ y \in LiveReadinesses
           \/ y \in LivePackages
BY DEF Staled, StaledOpportunities, StaledReadinesses, StaledPackages

(* The cascade reaches nothing from nothing.                               *)
LEMMA StaledFromNothing == Staled({}) = {}
BY DEF Staled, StaledOpportunities, StaledReadinesses, StaledPackages

-----------------------------------------------------------------------------
(* The type invariant                                                      *)

StatusOK ==
    /\ status \in [Rows -> Statuses]
    /\ \A x \in Models \cup Readinesses : status[x] \in VersionStatuses
    /\ \A o \in Opportunities : status[o] \in OpportunityStatuses
    /\ \A p \in Packages : status[p] \in PackageStatuses

(* Moving a row to a status of its kind keeps the statuses well typed.     *)
LEMMA MoveTyped ==
    ASSUME TypeOK, NEW x \in Rows, NEW s, NEW seed, Move(x, s, seed),
           x \in Models \cup Readinesses => s \in VersionStatuses,
           x \in Opportunities => s \in OpportunityStatuses,
           x \in Packages => s \in PackageStatuses
    PROVE  StatusOK'
BY RowsAssumption
   DEF TypeOK, StatusOK, Move, StatusAfter, VersionStatuses, OpportunityStatuses,
       PackageStatuses, Statuses

(* So does a cascade.                                                      *)
LEMMA CascadeTyped ==
    ASSUME TypeOK, NEW seed, status' = StatusAfter(seed)
    PROVE  StatusOK'
BY DEF TypeOK, StatusOK, StatusAfter, VersionStatuses, OpportunityStatuses,
       PackageStatuses, Statuses

(* Pinning the versions in force pins versions.                            *)
LEMMA InForceTyped == TypeOK => \A k \in Kinds : InForce(k) \in Nat
BY DEF TypeOK, InForce

(* No operation leaves the types.                                          *)
LEMMA TypeStep == TypeOK /\ [Next]_vars => TypeOK'
<1> SUFFICES ASSUME TypeOK, [Next]_vars PROVE TypeOK'
    OBVIOUS
<1> USE DEF TypeOK
<1>1. ASSUME NEW m \in Models, CreateModel(m) \/ ApproveModel(m) PROVE TypeOK'
  <2>1. StatusOK'
    BY <1>1, MoveTyped, RowsAssumption DEF CreateModel, ApproveModel, VersionStatuses
  <2> QED BY <1>1, <2>1 DEF CreateModel, ApproveModel, StatusOK, upstream
<1>2. ASSUME NEW o \in Opportunities, NEW m \in Models, NEW k \in Keys, NEW ks, NEW ys,
             CreateOpportunity(o, m, k, ks, ys)
      PROVE  TypeOK'
  <2>1. StatusOK'
    BY <1>2, MoveTyped, RowsAssumption DEF CreateOpportunity, FirstStatus, OpportunityStatuses
  <2>2. pins' \in [Rows -> [Kinds -> Nat]]
    BY <1>2, InForceTyped DEF CreateOpportunity
  <2>3. cites' \in [Opportunities -> SUBSET (Rows \ Packages)]
    BY <1>2 DEF CreateOpportunity, RowsInForce
  <2> QED BY <1>2, <2>1, <2>2, <2>3 DEF CreateOpportunity, StatusOK, upstream
<1>3. ASSUME NEW o \in Opportunities, SelectOpportunity(o) \/ RejectOpportunity(o)
      PROVE  TypeOK'
  <2>1. StatusOK'
    BY <1>3, MoveTyped, RowsAssumption
       DEF SelectOpportunity, RejectOpportunity, OpportunityStatuses
  <2> QED BY <1>3, <2>1 DEF SelectOpportunity, RejectOpportunity, StatusOK, upstream
<1>4. ASSUME NEW r \in Readinesses, NEW m \in Models, NEW o \in Opportunities,
             CreateReadiness(r, m, o)
      PROVE  TypeOK'
  <2>1. StatusOK'
    BY <1>4, MoveTyped, RowsAssumption DEF CreateReadiness, VersionStatuses
  <2>2. pins' \in [Rows -> [Kinds -> Nat]]
    BY <1>4, InForceTyped DEF CreateReadiness
  <2> QED BY <1>4, <2>1, <2>2 DEF CreateReadiness, StatusOK, upstream
<1>5. ASSUME NEW r \in Readinesses, ApproveReadiness(r) PROVE TypeOK'
  <2>1. StatusOK'
    BY <1>5, MoveTyped, RowsAssumption DEF ApproveReadiness, VersionStatuses
  <2> QED BY <1>5, <2>1 DEF ApproveReadiness, StatusOK, upstream
<1>6. ASSUME NEW p \in Packages, NEW m \in Models, NEW r \in Readinesses,
             NEW o \in Opportunities, CreatePackage(p, m, r, o)
      PROVE  TypeOK'
  <2>1. StatusOK'
    BY <1>6, MoveTyped, RowsAssumption DEF CreatePackage, PackageStatuses
  <2> QED BY <1>6, <2>1 DEF CreatePackage, StatusOK, upstream
<1>7. ASSUME NEW p \in Packages, PackageStep(p) PROVE TypeOK'
  <2>1. CASE PublishPackage(p)
    <3>1. StatusOK'
      BY <2>1, RowsAssumption
         DEF PublishPackage, Superseded, OthersIn, StatusOK, PackageStatuses, Statuses
    <3> QED BY <2>1, <3>1 DEF PublishPackage, StatusOK, upstream
  <2>2. CASE SubmitPackage(p) \/ ApprovePackage(p) \/ RejectPackage(p) \/ RevokePackage(p)
    <3>1. StatusOK'
      BY <2>2, MoveTyped, RowsAssumption
         DEF SubmitPackage, ApprovePackage, RejectPackage, RevokePackage, PackageStatuses
    <3> QED
      BY <2>2, <3>1
         DEF SubmitPackage, ApprovePackage, RejectPackage, RevokePackage, StatusOK, upstream
  <2> QED BY <1>7, <2>1, <2>2 DEF PackageStep
<1>8. ASSUME UpstreamChange PROVE TypeOK'
  <2>1. StatusOK'
    BY <1>8, CascadeTyped
       DEF UpstreamChange, AcceptClaim, ResolveContradiction, GenerateCurrent, ApproveCurrent,
           GenerateTarget, ApproveTarget, CalculateEconomics, ApproveEconomics, GeneratePacket
  <2>2. sources' = sources /\ pins' = pins /\ cites' = cites /\ key' = key
    BY <1>8
       DEF UpstreamChange, AcceptClaim, ResolveContradiction, GenerateCurrent, ApproveCurrent,
           GenerateTarget, ApproveTarget, CalculateEconomics, ApproveEconomics, GeneratePacket
  <2>3. version' \in [Kinds -> Nat]
    BY <1>8
       DEF UpstreamChange, AcceptClaim, ResolveContradiction, GenerateCurrent, ApproveCurrent,
           GenerateTarget, ApproveTarget, CalculateEconomics, ApproveEconomics, GeneratePacket,
           Kinds, upstream
  <2>4. stage' \in [Kinds -> {"none", "draft", "approved", "stale"}]
    BY <1>8
       DEF UpstreamChange, AcceptClaim, ResolveContradiction, GenerateCurrent, ApproveCurrent,
           GenerateTarget, ApproveTarget, CalculateEconomics, ApproveEconomics, GeneratePacket,
           StageAfter, Kinds, upstream
  <2>5. costed' \in BOOLEAN
    BY <1>8
       DEF UpstreamChange, AcceptClaim, ResolveContradiction, GenerateCurrent, ApproveCurrent,
           GenerateTarget, ApproveTarget, CalculateEconomics, ApproveEconomics, GeneratePacket,
           upstream
  <2> QED BY <2>1, <2>2, <2>3, <2>4, <2>5 DEF StatusOK
<1>9. CASE UNCHANGED vars
  BY <1>9 DEF vars, rows, upstream
<1> QED
  BY <1>1, <1>2, <1>3, <1>4, <1>5, <1>6, <1>7, <1>8, <1>9 DEF Next
-----------------------------------------------------------------------------
(* What a step keeps of the rows it does not move                          *)

(* What a row was created from does not change once it exists.             *)
LEMMA ShapeKept ==
    ASSUME Inv, NEW x \in Rows, NEW s, NEW seed, HandoffStep(x, s, seed)
    PROVE  /\ \A y \in Rows : status[y] # "ABSENT" => status'[y] # "ABSENT"
           /\ \A y \in Rows \ {x} : status'[y] # "ABSENT" => status[y] # "ABSENT"
           /\ \A o \in Opportunities, m \in Models :
                 OpportunityOf(o, m) => OpportunityOf(o, m)'
           /\ \A r \in Readinesses, m \in Models, o \in Opportunities :
                 ReadinessOf(r, m, o) => ReadinessOf(r, m, o)'
           /\ \A p \in Packages, m \in Models, r \in Readinesses, o \in Opportunities :
                 status[p] # "ABSENT" /\ PackageOf(p, m, r, o) => PackageOf(p, m, r, o)'
<1>1. \A y \in Rows : status[y] # "ABSENT" => status'[y] # "ABSENT"
  BY DEF HandoffStep
<1>2. \A y \in Rows \ {x} : status'[y] # "ABSENT" => status[y] # "ABSENT"
  <2> SUFFICES ASSUME NEW y \in Rows \ {x}, y \in Staled(seed) PROVE status[y] # "ABSENT"
      BY DEF HandoffStep
  <2> QED
    BY StaledWasOpen DEF HandoffStep, LiveOpportunities, LiveReadinesses, LivePackages, Open
<1>3. \A y \in Rows : status[y] # "ABSENT" => sources'[y] = sources[y]
  BY DEF HandoffStep
<1> QED BY <1>1, <1>2, <1>3 DEF OpportunityOf, ReadinessOf, PackageOf

(* An opportunity that stays open keeps what it rests on.                  *)
LEMMA OpportunityKept ==
    ASSUME Inv, NEW x \in Rows, NEW s, NEW seed, HandoffStep(x, s, seed),
           NEW o \in Opportunities \ {x}, o \in LiveOpportunities'
    PROVE  /\ o \in LiveOpportunities
           /\ o \notin StaledOpportunities(seed)
           /\ status'[o] = status[o]
           /\ Rests(o)'
           /\ PinsHold(o, {"current"} \cup Pinned(o))'
           /\ cites'[o] \cap Models \subseteq sources'[o]
<1>1. o \notin Staled(seed) /\ status'[o] = status[o]
  BY DEF HandoffStep, LiveOpportunities, Open
<1>2. o \in LiveOpportunities
  BY <1>1 DEF LiveOpportunities, Open
<1>3. o \notin StaledOpportunities(seed)
  BY <1>1 DEF Staled
<1>4. PICK m \in Models : OpportunityOf(o, m)
  BY <1>2 DEF Inv, SourcesShaped, LiveOpportunities, Open
<1>5. status[m] = "APPROVED"
  BY <1>2, <1>4, RowsAssumption DEF Inv, OpportunitiesCurrent, Rests, RowInForce, OpportunityOf
<1>6. m \notin Staled(seed)
  BY <1>2, <1>3, <1>4, RowsAssumption
     DEF Staled, StaledOpportunities, StaledReadinesses, StaledPackages, OpportunityOf,
         LiveOpportunities, LiveReadinesses, LivePackages, Open
<1>7. status'[m] = "APPROVED"
  BY <1>5, <1>6, RowsAssumption DEF HandoffStep
<1>8. sources'[o] = {m} /\ pins'[o] = pins[o] /\ cites'[o] = cites[o]
  BY <1>4 DEF HandoffStep, OpportunityOf
<1>9. Rests(o)'
  BY <1>7, <1>8, RowsAssumption DEF Rests, RowInForce
<1>10. PinsHold(o, {"current"} \cup Pinned(o))'
  BY <1>2, <1>8
     DEF Inv, OpportunitiesCurrent, PinsHold, Pinned, InForce, HandoffStep, upstream
<1>11. cites'[o] \cap Models \subseteq sources'[o]
  BY <1>2, <1>4, <1>8 DEF Inv, OpportunitiesCurrent, OpportunityOf
<1> QED BY <1>1, <1>2, <1>3, <1>9, <1>10, <1>11

(* A readiness assessment that stays open keeps what it rests on.          *)
LEMMA ReadinessKept ==
    ASSUME Inv, NEW x \in Rows, NEW s, NEW seed, HandoffStep(x, s, seed),
           NEW r \in Readinesses \ {x}, r \in LiveReadinesses'
    PROVE  /\ r \in LiveReadinesses
           /\ r \notin StaledReadinesses(seed)
           /\ status'[r] = status[r]
           /\ Rests(r)'
           /\ PinsHold(r, WorkflowKinds)'
<1>1. r \notin Staled(seed) /\ status'[r] = status[r]
  BY DEF HandoffStep, LiveReadinesses, Open
<1>2. r \in LiveReadinesses
  BY <1>1 DEF LiveReadinesses, Open
<1>3. r \notin StaledReadinesses(seed)
  BY <1>1 DEF Staled
<1>4. PICK m \in Models, o \in Opportunities : ReadinessOf(r, m, o)
  BY <1>2 DEF Inv, SourcesShaped, LiveReadinesses, Open
<1>5. sources[r] = {m, o}
  BY <1>4 DEF ReadinessOf
<1>6. status[m] = "APPROVED" /\ status[o] = "SELECTED"
  BY <1>2, <1>5, RowsAssumption DEF Inv, ReadinessesCurrent, Rests, RowInForce
<1>7. m \notin seed /\ o \notin StaledOpportunities(seed)
  BY <1>2, <1>3, <1>5 DEF StaledReadinesses
<1>8. m \notin Staled(seed) /\ o \notin Staled(seed)
  BY <1>7, RowsAssumption
     DEF Staled, StaledOpportunities, StaledReadinesses, StaledPackages,
         LiveOpportunities, LiveReadinesses, LivePackages, Open
<1>9. status'[m] = "APPROVED" /\ status'[o] = "SELECTED"
  BY <1>6, <1>8, RowsAssumption DEF HandoffStep
<1>10. sources'[r] = {m, o} /\ pins'[r] = pins[r]
  BY <1>5 DEF HandoffStep
<1>11. Rests(r)'
  BY <1>9, <1>10, RowsAssumption DEF Rests, RowInForce
<1>12. PinsHold(r, WorkflowKinds)'
  BY <1>2, <1>10
     DEF Inv, ReadinessesCurrent, PinsHold, InForce, HandoffStep, upstream, WorkflowKinds
<1> QED BY <1>1, <1>2, <1>3, <1>11, <1>12

(* A package that stays open keeps what it rests on.                       *)
LEMMA PackageKept ==
    ASSUME Inv, NEW x \in Rows, NEW s, NEW seed, HandoffStep(x, s, seed),
           NEW p \in Packages \ {x}, p \in LivePackages'
    PROVE  /\ p \in LivePackages
           /\ status'[p] = status[p]
           /\ PackageSourcesValid(p)'
<1>1. p \notin Staled(seed) /\ status'[p] = status[p]
  BY DEF HandoffStep, LivePackages, Open
<1>2. p \in LivePackages
  BY <1>1 DEF LivePackages, Open
<1>3. p \notin StaledPackages(seed)
  BY <1>1 DEF Staled
<1>4. PICK m \in Models, r \in Readinesses, o \in Opportunities : PackageOf(p, m, r, o)
  BY <1>2 DEF Inv, SourcesShaped, LivePackages, Open
<1>5. sources[p] = {m, r, o} /\ sources[r] = {m, o}
  BY <1>4 DEF PackageOf, ReadinessOf
<1>6. status[m] = "APPROVED" /\ status[r] = "APPROVED" /\ status[o] = "SELECTED"
  BY <1>2, <1>5, RowsAssumption
     DEF Inv, PackagesRestOnCurrentSources, PackageSourcesValid, Rests, RowInForce
<1>7. r \notin StaledReadinesses(seed) /\ o \notin StaledOpportunities(seed)
  BY <1>2, <1>3, <1>5 DEF StaledPackages
<1>8. m \notin seed
  BY <1>5, <1>6, <1>7 DEF StaledReadinesses, LiveReadinesses, Open
<1>9. m \notin Staled(seed) /\ r \notin Staled(seed) /\ o \notin Staled(seed)
  BY <1>7, <1>8, RowsAssumption
     DEF Staled, StaledOpportunities, StaledReadinesses, StaledPackages,
         LiveOpportunities, LiveReadinesses, LivePackages, Open
<1>10. x \notin {m, r, o}
  BY <1>6, RowsAssumption DEF HandoffStep
<1>11. status'[m] = "APPROVED" /\ status'[r] = "APPROVED" /\ status'[o] = "SELECTED"
  BY <1>6, <1>9, <1>10 DEF HandoffStep
<1>12. /\ sources'[p] = {m, r, o} /\ pins'[p] = pins[p]
       /\ pins'[o] = pins[o] /\ cites'[o] = cites[o]
  BY <1>5, <1>10 DEF HandoffStep
<1>13. Rests(p)'
  BY <1>11, <1>12, RowsAssumption DEF Rests, RowInForce
<1>14. PinsHold(p, WorkflowKinds)'
  BY <1>2, <1>12
     DEF Inv, PackagesRestOnCurrentSources, PackageSourcesValid, PinsHold, InForce,
         HandoffStep, upstream, WorkflowKinds
<1>15. OpportunitySourcesValid(o)
  BY <1>2, <1>5
     DEF Inv, PackagesRestOnCurrentSources, PackageSourcesValid
<1>16. OpportunitySourcesValid(o)'
  <2>1. cites[o] \subseteq {m}
    <3>1. o \in LiveOpportunities /\ r \in LiveReadinesses
      BY <1>6 DEF LiveOpportunities, LiveReadinesses, Open
    <3>2. sources[o] = {m}
      BY <1>4 DEF PackageOf, ReadinessOf, OpportunityOf
    <3> QED BY <1>5, <3>1, <3>2 DEF Inv, OpportunitiesCurrent, RivalsGone
  <2>2. \A y \in cites'[o] : RowInForce(y)'
    BY <1>11, <1>12, <2>1, RowsAssumption DEF RowInForce
  <2>3. PinsHold(o, {"current"} \cup Pinned(o))'
    BY <1>12, <1>15
       DEF OpportunitySourcesValid, PinsHold, Pinned, InForce, HandoffStep, upstream
  <2> QED BY <2>2, <2>3 DEF OpportunitySourcesValid
<1>17. sources'[p] \cap Opportunities = {o}
  BY <1>12, RowsAssumption
<1>18. PackageSourcesValid(p)'
  BY <1>13, <1>14, <1>16, <1>17 DEF PackageSourcesValid
<1> QED BY <1>1, <1>2, <1>18
-----------------------------------------------------------------------------
(* The inductive invariant                                                 *)

(* If the row a step moves rests on what is current, so does every row.    *)
LEMMA StepKeepsInv ==
    ASSUME Inv, TypeOK', NEW x \in Rows, NEW s, NEW seed, HandoffStep(x, s, seed),
           x \in Models /\ s = "APPROVED" => OthersIn(x, Models, "APPROVED") \subseteq seed,
           x \in Readinesses /\ s = "APPROVED" =>
              OthersIn(x, Readinesses, "APPROVED") \subseteq seed,
           x \in Opportunities /\ s = "SELECTED" =>
              OthersIn(x, Opportunities, "SELECTED") \subseteq seed,
           x \in Packages => s # "PUBLISHED",
           x \in Opportunities => \E m \in Models : OpportunityOf(x, m)',
           x \in Readinesses => \E m \in Models, o \in Opportunities : ReadinessOf(x, m, o)',
           x \in Packages =>
              \E m \in Models, r \in Readinesses, o \in Opportunities : PackageOf(x, m, r, o)',
           x \in LiveOpportunities' =>
              /\ Rests(x)'
              /\ PinsHold(x, {"current"} \cup Pinned(x))'
              /\ cites'[x] \cap Models \subseteq sources'[x],
           x \in Opportunities /\ s = "SELECTED" =>
              \A y \in cites'[x] \ Models : status'[y] = "STALE",
           x \in LiveReadinesses' =>
              /\ Rests(x)' /\ PinsHold(x, WorkflowKinds)'
              /\ \A o \in Opportunities : o \in sources'[x] => cites'[o] \subseteq Models,
           x \in LivePackages' => PackageSourcesValid(x)'
    PROVE  Inv'
<1>1. SourcesShaped'
  <2>1. \A o \in Opportunities : status'[o] # "ABSENT" => \E m \in Models : OpportunityOf(o, m)'
    BY ShapeKept DEF Inv, SourcesShaped
  <2>2. \A r \in Readinesses : status'[r] # "ABSENT" =>
           \E m \in Models, o \in Opportunities : ReadinessOf(r, m, o)'
    BY ShapeKept DEF Inv, SourcesShaped
  <2>3. \A p \in Packages : status'[p] # "ABSENT" =>
           \E m \in Models, r \in Readinesses, o \in Opportunities : PackageOf(p, m, r, o)'
    BY ShapeKept DEF Inv, SourcesShaped
  <2> QED BY <2>1, <2>2, <2>3 DEF SourcesShaped
<1>2. OneOfEachInForce'
  <2>1. \A y \in Rows \ {x} : status'[y] # "STALE" =>
           y \notin Staled(seed) /\ status'[y] = status[y]
    BY DEF HandoffStep
  <2>2. OneInForce(Models, "APPROVED")'
    BY <2>1, RowsAssumption
       DEF Inv, OneOfEachInForce, OneInForce, OthersIn, HandoffStep, Staled
  <2>3. OneInForce(Readinesses, "APPROVED")'
    BY <2>1, RowsAssumption
       DEF Inv, OneOfEachInForce, OneInForce, OthersIn, HandoffStep, Staled,
           StaledReadinesses, LiveReadinesses, Open
  <2>4. OneInForce(Opportunities, "SELECTED")'
    BY <2>1, RowsAssumption
       DEF Inv, OneOfEachInForce, OneInForce, OthersIn, HandoffStep, Staled,
           StaledOpportunities, LiveOpportunities, Open
  <2>5. OneInForce(Packages, "PUBLISHED")'
    BY <2>1, RowsAssumption DEF Inv, OneOfEachInForce, OneInForce, HandoffStep
  <2> QED BY <2>2, <2>3, <2>4, <2>5 DEF OneOfEachInForce
<1>3. OpportunitiesCurrent'
  BY OpportunityKept DEF OpportunitiesCurrent, LiveOpportunities, Open
<1>4. ReadinessesCurrent'
  BY ReadinessKept DEF ReadinessesCurrent, LiveReadinesses, Open
<1>5. PackagesRestOnCurrentSources'
  BY PackageKept DEF PackagesRestOnCurrentSources, LivePackages, Open
<1>6. RivalsGone'
  <2>1. ASSUME NEW o \in Opportunities, status'[o] = "SELECTED", NEW y \in cites'[o] \ Models
        PROVE  status'[y] = "STALE"
    <3>1. CASE o = x
      BY <2>1, <3>1 DEF HandoffStep
    <3>2. CASE o # x
      <4>1. status[o] = "SELECTED" /\ cites'[o] = cites[o]
        BY <2>1, <3>2 DEF HandoffStep
      <4>2. status[y] = "STALE" /\ y \in Rows
        BY <2>1, <4>1 DEF Inv, RivalsGone, TypeOK
      <4> QED BY <4>2 DEF HandoffStep
    <3> QED BY <3>1, <3>2
  <2>2. ASSUME NEW r \in LiveReadinesses', NEW o \in Opportunities, o \in sources'[r]
        PROVE  cites'[o] \subseteq Models
    <3>1. r \in Readinesses
      BY DEF LiveReadinesses, Open
    <3>2. CASE r # x
      <4>1. r \in LiveReadinesses /\ sources'[r] = sources[r]
        <5>1. r \in LiveReadinesses
          BY <3>1, <3>2, ReadinessKept
        <5> QED BY <3>1, <3>2, <5>1 DEF HandoffStep
      <4>2. status[o] = "SELECTED" /\ cites[o] \subseteq Models
        BY <2>2, <4>1, RowsAssumption
           DEF Inv, ReadinessesCurrent, RivalsGone, Rests, RowInForce
      <4>3. cites'[o] = cites[o]
        BY <4>2 DEF HandoffStep
      <4> QED BY <4>2, <4>3
    <3> QED BY <2>2, <3>2
  <2> QED BY <2>1, <2>2 DEF RivalsGone
<1> QED BY <1>1, <1>2, <1>3, <1>4, <1>5, <1>6 DEF Inv

(* A cascade that starts from every open opportunity, or from every open   *)
(* model, leaves no opportunity, assessment or package open.               *)
LEMMA NothingStaysOpen ==
    ASSUME Inv, NEW seed, status' = StatusAfter(seed),
           LiveOpportunities \subseteq seed \/ LiveModels \subseteq seed
    PROVE  /\ LiveOpportunities' = {}
           /\ LiveReadinesses' = {}
           /\ LivePackages' = {}
<1>1. \A y \in Rows : status'[y] = IF y \in Staled(seed) THEN "STALE" ELSE status[y]
  BY DEF StatusAfter
<1>2. LiveOpportunities \subseteq StaledOpportunities(seed)
  <2> SUFFICES ASSUME NEW o \in LiveOpportunities, LiveModels \subseteq seed
               PROVE  o \in StaledOpportunities(seed)
      BY DEF StaledOpportunities
  <2>1. PICK m \in Models : OpportunityOf(o, m)
    BY DEF Inv, SourcesShaped, LiveOpportunities, Open
  <2>2. status[m] = "APPROVED"
    BY <2>1, RowsAssumption
       DEF Inv, OpportunitiesCurrent, Rests, RowInForce, OpportunityOf, LiveOpportunities, Open
  <2> QED BY <2>1, <2>2 DEF StaledOpportunities, OpportunityOf, LiveModels, Open
<1>3. LiveReadinesses \subseteq StaledReadinesses(seed)
  <2> SUFFICES ASSUME NEW r \in LiveReadinesses PROVE r \in StaledReadinesses(seed)
      OBVIOUS
  <2>1. PICK m \in Models, o \in Opportunities : ReadinessOf(r, m, o)
    BY DEF Inv, SourcesShaped, LiveReadinesses, Open
  <2>2. status[o] = "SELECTED"
    BY <2>1, RowsAssumption
       DEF Inv, ReadinessesCurrent, Rests, RowInForce, ReadinessOf, LiveReadinesses, Open
  <2>3. o \in StaledOpportunities(seed)
    BY <1>2, <2>2 DEF LiveOpportunities, Open
  <2> QED BY <2>1, <2>3 DEF StaledReadinesses, ReadinessOf
<1>4. LivePackages \subseteq StaledPackages(seed)
  <2> SUFFICES ASSUME NEW p \in LivePackages PROVE p \in StaledPackages(seed)
      OBVIOUS
  <2>1. PICK m \in Models, r \in Readinesses, o \in Opportunities : PackageOf(p, m, r, o)
    BY DEF Inv, SourcesShaped, LivePackages, Open
  <2>2. status[o] = "SELECTED"
    BY <2>1, RowsAssumption
       DEF Inv, PackagesRestOnCurrentSources, PackageSourcesValid, Rests, RowInForce, PackageOf,
           LivePackages, Open
  <2>3. o \in StaledOpportunities(seed)
    BY <1>2, <2>2 DEF LiveOpportunities, Open
  <2> QED BY <2>1, <2>3 DEF StaledPackages, PackageOf
<1>5. \A y \in LiveOpportunities \cup LiveReadinesses \cup LivePackages : status'[y] = "STALE"
  BY <1>1, <1>2, <1>3, <1>4
     DEF Staled, LiveOpportunities, LiveReadinesses, LivePackages, Open
<1>6. LiveOpportunities' = {}
  BY <1>1, <1>5 DEF LiveOpportunities, Open
<1>7. LiveReadinesses' = {}
  BY <1>1, <1>5 DEF LiveReadinesses, Open
<1>8. LivePackages' = {}
  BY <1>1, <1>5 DEF LivePackages, Open
<1> QED BY <1>6, <1>7, <1>8

(* A cascade on its own creates nothing and puts nothing in force.         *)
LEMMA CascadeKeeps ==
    ASSUME Inv, NEW seed, status' = StatusAfter(seed), sources' = sources,
           seed \cap Models \subseteq LiveModels
    PROVE  /\ SourcesShaped'
           /\ OneOfEachInForce'
<1>1. \A y \in Rows : status'[y] = IF y \in Staled(seed) THEN "STALE" ELSE status[y]
  BY DEF StatusAfter
<1>2. \A y \in Rows : status'[y] # "ABSENT" <=> status[y] # "ABSENT"
  BY <1>1, StaledWasOpen
     DEF LiveModels, LiveOpportunities, LiveReadinesses, LivePackages, Open
<1>3. SourcesShaped'
  <2>1. \A o \in Opportunities, m \in Models : OpportunityOf(o, m) => OpportunityOf(o, m)'
    BY <1>2 DEF OpportunityOf
  <2>2. \A r \in Readinesses, m \in Models, o \in Opportunities :
           ReadinessOf(r, m, o) => ReadinessOf(r, m, o)'
    BY <1>2, <2>1 DEF ReadinessOf
  <2>3. \A p \in Packages, m \in Models, r \in Readinesses, o \in Opportunities :
           PackageOf(p, m, r, o) => PackageOf(p, m, r, o)'
    BY <2>2 DEF PackageOf
  <2> QED BY <1>2, <2>1, <2>2, <2>3 DEF Inv, SourcesShaped
<1>4. OneOfEachInForce'
  BY <1>1 DEF Inv, OneOfEachInForce, OneInForce
<1> QED BY <1>3, <1>4

(* Nothing is made from a package: packages may move on their own.         *)
LEMMA OnlyPackagesMove ==
    ASSUME Inv,
           \A y \in Rows \ Packages : status'[y] = status[y],
           \A p \in Packages : status'[p] # "ABSENT" => status[p] # "ABSENT",
           \A p \in Packages : p \in LivePackages' => p \in LivePackages,
           UNCHANGED <<sources, pins, cites>>,
           \A k \in Kinds : InForce(k) # 0 => InForce(k)' = InForce(k),
           OneInForce(Packages, "PUBLISHED")'
    PROVE  /\ SourcesShaped'
           /\ OneOfEachInForce'
           /\ OpportunitiesCurrent'
           /\ RivalsGone'
           /\ ReadinessesCurrent'
           /\ PackagesRestOnCurrentSources'
<1>1. \A y \in Models \cup Readinesses \cup Opportunities : status'[y] = status[y]
  BY RowsAssumption
<1>2. SourcesShaped'
  <2>1. \A o \in Opportunities, m \in Models : OpportunityOf(o, m) => OpportunityOf(o, m)'
    BY <1>1 DEF OpportunityOf
  <2>2. \A r \in Readinesses, m \in Models, o \in Opportunities :
           ReadinessOf(r, m, o) => ReadinessOf(r, m, o)'
    BY <1>1, <2>1 DEF ReadinessOf
  <2>3. \A p \in Packages, m \in Models, r \in Readinesses, o \in Opportunities :
           PackageOf(p, m, r, o) => PackageOf(p, m, r, o)'
    BY <2>2 DEF PackageOf
  <2> QED BY <1>1, <2>1, <2>2, <2>3 DEF Inv, SourcesShaped
<1>3. OneOfEachInForce'
  BY <1>1 DEF Inv, OneOfEachInForce, OneInForce
<1>4. OpportunitiesCurrent'
  <2> SUFFICES ASSUME NEW o \in LiveOpportunities'
               PROVE  /\ Rests(o)'
                      /\ PinsHold(o, {"current"} \cup Pinned(o))'
                      /\ cites'[o] \cap Models \subseteq sources'[o]
      BY DEF OpportunitiesCurrent
  <2>1. o \in LiveOpportunities
    BY <1>1 DEF LiveOpportunities, Open
  <2>2. Rests(o)'
    <3>1. PICK m \in Models : sources[o] = {m}
      BY <2>1 DEF Inv, SourcesShaped, OpportunityOf, LiveOpportunities, Open
    <3>2. Rests(o)
      BY <2>1 DEF Inv, OpportunitiesCurrent
    <3> QED BY <1>1, <3>1, <3>2 DEF Rests, RowInForce
  <2>3. PinsHold(o, {"current"} \cup Pinned(o))'
    BY <2>1 DEF Inv, OpportunitiesCurrent, PinsHold, Pinned, Kinds
  <2>4. cites'[o] \cap Models \subseteq sources'[o]
    BY <2>1 DEF Inv, OpportunitiesCurrent
  <2> QED BY <2>2, <2>3, <2>4
<1>5. ReadinessesCurrent'
  <2> SUFFICES ASSUME NEW r \in LiveReadinesses'
               PROVE  Rests(r)' /\ PinsHold(r, WorkflowKinds)'
      BY DEF ReadinessesCurrent
  <2>1. r \in LiveReadinesses
    BY <1>1 DEF LiveReadinesses, Open
  <2>2. Rests(r)'
    BY <1>1, <2>1 DEF Inv, ReadinessesCurrent, SourcesShaped, ReadinessOf, Rests, RowInForce,
                      LiveReadinesses, Open
  <2>3. PinsHold(r, WorkflowKinds)'
    BY <2>1 DEF Inv, ReadinessesCurrent, PinsHold, WorkflowKinds, Kinds
  <2> QED BY <2>2, <2>3
<1>7. RivalsGone'
  <2>1. ASSUME NEW o \in Opportunities, status'[o] = "SELECTED", NEW y \in cites'[o] \ Models
        PROVE  status'[y] = "STALE"
    <3>1. o \notin Packages /\ y \in Rows /\ status[y] = "STALE"
      BY <1>1, <2>1, RowsAssumption DEF Inv, RivalsGone, TypeOK
    <3>2. y \notin Packages
      BY <2>1 DEF Inv, TypeOK
    <3> QED BY <1>1, <3>1, <3>2
  <2>2. LiveReadinesses' = LiveReadinesses
    BY <1>1 DEF LiveReadinesses, Open
  <2> QED BY <2>1, <2>2 DEF Inv, RivalsGone
<1>6. PackagesRestOnCurrentSources'
  <2> SUFFICES ASSUME NEW p \in LivePackages' PROVE PackageSourcesValid(p)'
      BY DEF PackagesRestOnCurrentSources
  <2>1. p \in LivePackages
    BY DEF LivePackages, Open
  <2>2. PICK m \in Models, r \in Readinesses, o \in Opportunities : PackageOf(p, m, r, o)
    BY <2>1 DEF Inv, SourcesShaped, LivePackages, Open
  <2>3. PackageSourcesValid(p)
    BY <2>1 DEF Inv, PackagesRestOnCurrentSources
  <2>4. Rests(p)'
    BY <1>1, <2>2, <2>3 DEF PackageSourcesValid, Rests, RowInForce, PackageOf
  <2>5. \A o2 \in sources'[p] \cap Opportunities : OpportunitySourcesValid(o2)'
    <3> SUFFICES ASSUME NEW q \in sources[p] \cap Opportunities
                 PROVE  OpportunitySourcesValid(q)'
        OBVIOUS
    <3>1. OpportunitySourcesValid(q)
      BY <2>3 DEF PackageSourcesValid
    <3>2. PinsHold(q, {"current"} \cup Pinned(q))'
      BY <3>1 DEF OpportunitySourcesValid, PinsHold, Pinned, Kinds
    <3>3. \A y \in cites[q] : status'[y] = status[y]
      BY DEF Inv, TypeOK
    <3> QED BY <3>1, <3>2, <3>3 DEF OpportunitySourcesValid, RowInForce
  <2>6. PinsHold(p, WorkflowKinds)'
    BY <2>3 DEF PackageSourcesValid, PinsHold, WorkflowKinds, Kinds
  <2> QED BY <2>4, <2>5, <2>6 DEF PackageSourcesValid
<1> QED BY <1>2, <1>3, <1>4, <1>5, <1>6, <1>7

(* Nothing exists, and nothing is in force, at the start.                  *)
LEMMA InitInv == Init => Inv
<1> SUFFICES ASSUME Init PROVE Inv
    OBVIOUS
<1>1. TypeOK
  <2>1. StatusOK
    BY DEF Init, StatusOK, Statuses, VersionStatuses, OpportunityStatuses, PackageStatuses
  <2> QED BY <2>1 DEF Init, TypeOK, StatusOK
<1>2. \A y \in Rows : status[y] = "ABSENT"
  BY DEF Init
<1>3. SourcesShaped
  BY <1>2 DEF SourcesShaped
<1>4. OneOfEachInForce
  BY <1>2 DEF OneOfEachInForce, OneInForce
<1>5. OpportunitiesCurrent /\ ReadinessesCurrent /\ PackagesRestOnCurrentSources
  BY <1>2
     DEF OpportunitiesCurrent, ReadinessesCurrent, PackagesRestOnCurrentSources,
         LiveOpportunities, LiveReadinesses, LivePackages, Open
<1>6. RivalsGone
  BY <1>2 DEF RivalsGone, LiveReadinesses, Open
<1> QED BY <1>1, <1>3, <1>4, <1>5, <1>6 DEF Inv

(* Every operation on a model keeps the invariant.                         *)
LEMMA ModelStepInv ==
    ASSUME Inv, TypeOK', NEW m \in Models, CreateModel(m) \/ ApproveModel(m)
    PROVE  Inv'
<1>1. m \in Rows /\ m \notin Opportunities \cup Readinesses \cup Packages
  BY RowsAssumption
<1>2. CASE CreateModel(m)
  <2>1. HandoffStep(m, "DRAFT", {})
    BY <1>1, <1>2 DEF CreateModel, Move, StatusAfter, HandoffStep
  <2> QED
    BY <1>1, <2>1, StepKeepsInv DEF LiveOpportunities, LiveReadinesses, LivePackages, Open
<1>3. CASE ApproveModel(m)
  <2> DEFINE older == OthersIn(m, Models, "APPROVED")
  <2>1. HandoffStep(m, "APPROVED", older)
    BY <1>1, <1>3 DEF ApproveModel, Move, StatusAfter, HandoffStep, OthersIn
  <2> QED
    BY <1>1, <2>1, StepKeepsInv DEF LiveOpportunities, LiveReadinesses, LivePackages, Open
<1> QED BY <1>2, <1>3

(* So does every operation on an opportunity.                              *)
LEMMA OpportunityStepInv ==
    ASSUME Inv, TypeOK', NEW o \in Opportunities,
           \/ \E m \in Models, k \in Keys : \E ks, ys : CreateOpportunity(o, m, k, ks, ys)
           \/ SelectOpportunity(o)
           \/ RejectOpportunity(o)
    PROVE  Inv'
<1>1. o \in Rows /\ o \notin Models \cup Readinesses \cup Packages
  BY RowsAssumption
<1>2. ASSUME NEW m \in Models, NEW k \in Keys, NEW ks, NEW ys,
             CreateOpportunity(o, m, k, ks, ys)
      PROVE  Inv'
  <2> DEFINE older == {q \in LiveOpportunities : key[q] = k}
  <2>1. status[o] = "ABSENT" /\ status[m] = "APPROVED" /\ older \cap Models = {}
    BY <1>2, RowsAssumption DEF CreateOpportunity, LiveOpportunities, Open
  <2>2. HandoffStep(o, "ASSESSED", older)
    BY <1>1, <1>2, <2>1
       DEF CreateOpportunity, FirstStatus, Move, StatusAfter, HandoffStep
  <2>3. sources'[o] = {m}
    BY <1>2 DEF CreateOpportunity, Inv, TypeOK
  <2>4. m \notin Staled(older)
    BY <2>1, RowsAssumption
       DEF Staled, StaledOpportunities, StaledReadinesses, StaledPackages,
           LiveOpportunities, LiveReadinesses, LivePackages, Open
  <2>5. status'[m] = "APPROVED" /\ status'[o] = "ASSESSED"
    BY <2>1, <2>2, <2>4 DEF HandoffStep
  <2>6. Rests(o)'
    BY <2>3, <2>5, RowsAssumption DEF Rests, RowInForce
  <2>7. PinsHold(o, {"current"} \cup Pinned(o))'
    BY <1>2 DEF CreateOpportunity, PinsHold, Pinned, KindsInForce, InForce, upstream, Kinds,
                Inv, TypeOK
  <2>8. OpportunityOf(o, m)'
    BY <2>3, <2>5 DEF OpportunityOf
  <2>9. cites'[o] \cap Models \subseteq sources'[o]
    <3>1. cites'[o] \subseteq RowsInForce
      BY <1>2 DEF CreateOpportunity, Inv, TypeOK
    <3>2. \A y \in RowsInForce \cap Models : y = m
      BY <2>1, RowsAssumption
         DEF RowsInForce, RowInForce, Inv, OneOfEachInForce, OneInForce
    <3> QED BY <2>3, <3>1, <3>2
  <2> HIDE DEF older
  <2> QED
    BY <1>1, <2>2, <2>6, <2>7, <2>8, <2>9, StepKeepsInv
       DEF LiveReadinesses, LivePackages, Open
<1>3. ASSUME SelectOpportunity(o) PROVE Inv'
  <2> DEFINE older == OthersIn(o, Opportunities, "SELECTED")
  <2>1. status[o] = "ASSESSED" /\ older \cap Models = {}
    BY <1>3, RowsAssumption DEF SelectOpportunity, OthersIn
  <2>2. HandoffStep(o, "SELECTED", older)
    BY <1>1, <1>3, <2>1 DEF SelectOpportunity, Move, StatusAfter, HandoffStep
  <2>3. PICK m \in Models : OpportunityOf(o, m)
    BY <2>1 DEF Inv, SourcesShaped
  <2>4. status[m] = "APPROVED"
    BY <2>1, <2>3, RowsAssumption
       DEF Inv, OpportunitiesCurrent, Rests, RowInForce, OpportunityOf, LiveOpportunities, Open
  <2>5. m \notin Staled(older)
    BY <2>1, RowsAssumption
       DEF Staled, StaledOpportunities, StaledReadinesses, StaledPackages,
           LiveOpportunities, LiveReadinesses, LivePackages, Open
  <2>6. OpportunityOf(o, m)'
    BY <1>1, <2>2, <2>3, ShapeKept
  <2>7. status'[m] = "APPROVED"
    BY <1>1, <2>2, <2>4, <2>5 DEF HandoffStep
  <2>8. Rests(o)'
    BY <2>6, <2>7, RowsAssumption DEF Rests, RowInForce, OpportunityOf
  <2>9. PinsHold(o, {"current"} \cup Pinned(o))'
    BY <1>3
       DEF SelectOpportunity, OpportunitySourcesValid, PinsHold, Pinned, InForce, upstream
  <2>10. cites'[o] \cap Models \subseteq sources'[o]
    BY <1>3, <2>1 DEF SelectOpportunity, Inv, OpportunitiesCurrent, LiveOpportunities, Open
  <2>11. \A y \in cites'[o] \ Models : status'[y] = "STALE"
    <3> SUFFICES ASSUME NEW y \in cites[o] \ Models PROVE status'[y] = "STALE"
        BY <1>3 DEF SelectOpportunity
    <3>1. y \in Rows \ Packages /\ RowInForce(y)
      BY <1>3 DEF SelectOpportunity, OpportunitySourcesValid, Inv, TypeOK
    <3>2. CASE y \in Opportunities
      <4>1. y \in older
        BY <2>1, <3>1, <3>2 DEF RowInForce, OthersIn
      <4>2. y \in Staled(older)
        BY <3>1, <3>2, <4>1
           DEF Staled, StaledOpportunities, LiveOpportunities, Open, RowInForce
      <4> QED BY <2>1, <2>2, <3>1, <3>2, <4>2 DEF HandoffStep, RowInForce
    <3>3. CASE y \in Readinesses
      <4>1. y \in LiveReadinesses /\ y # o
        BY <1>1, <3>1, <3>3, RowsAssumption DEF RowInForce, LiveReadinesses, Open
      <4>2. PICK n \in Models, q \in Opportunities : ReadinessOf(y, n, q)
        BY <4>1 DEF Inv, SourcesShaped, LiveReadinesses, Open
      <4>3. status[q] = "SELECTED" /\ q \in sources[y]
        BY <4>1, <4>2, RowsAssumption
           DEF Inv, ReadinessesCurrent, Rests, RowInForce, ReadinessOf
      <4>4. q \in StaledOpportunities(older)
        BY <2>1, <4>3 DEF StaledOpportunities, LiveOpportunities, Open, OthersIn
      <4>5. y \in Staled(older)
        BY <4>1, <4>3, <4>4 DEF Staled, StaledReadinesses
      <4> QED BY <2>2, <3>1, <4>1, <4>5 DEF HandoffStep
    <3> QED BY <3>1, <3>2, <3>3
  <2>12. OthersIn(o, Opportunities, "SELECTED") \subseteq older
    OBVIOUS
  <2> HIDE DEF older
  <2> QED
    BY <1>1, <2>1, <2>2, <2>6, <2>8, <2>9, <2>10, <2>11, <2>12, StepKeepsInv
       DEF LiveReadinesses, LivePackages, Open
<1>4. ASSUME RejectOpportunity(o) PROVE Inv'
  <2>1. HandoffStep(o, "REJECTED", {}) /\ status[o] = "ASSESSED"
    BY <1>1, <1>4 DEF RejectOpportunity, Move, StatusAfter, HandoffStep
  <2>2. \E m \in Models : OpportunityOf(o, m)'
    BY <1>1, <2>1, ShapeKept DEF Inv, SourcesShaped
  <2>3. o \notin LiveOpportunities'
    BY <1>1, <2>1 DEF HandoffStep, LiveOpportunities, Open
  <2> QED
    BY <1>1, <2>1, <2>2, <2>3, StepKeepsInv DEF LiveReadinesses, LivePackages, Open
<1> QED BY <1>2, <1>3, <1>4

(* So does every operation on a readiness assessment.                      *)
LEMMA ReadinessStepInv ==
    ASSUME Inv, TypeOK', NEW r \in Readinesses,
           \/ \E m \in Models, o \in Opportunities : CreateReadiness(r, m, o)
           \/ ApproveReadiness(r)
    PROVE  Inv'
<1>1. r \in Rows /\ r \notin Models \cup Opportunities \cup Packages
  BY RowsAssumption
<1>2. ASSUME NEW m \in Models, NEW o \in Opportunities, CreateReadiness(r, m, o) PROVE Inv'
  <2>1. /\ status[r] = "ABSENT" /\ status[m] = "APPROVED" /\ status[o] = "SELECTED"
        /\ m \in sources[o]
    BY <1>2 DEF CreateReadiness
  <2>2. HandoffStep(r, "DRAFT", {})
    BY <1>1, <1>2, <2>1 DEF CreateReadiness, Move, StatusAfter, HandoffStep
  <2>3. sources'[r] = {m, o}
    BY <1>2 DEF CreateReadiness, Inv, TypeOK
  <2>4. status'[m] = "APPROVED" /\ status'[o] = "SELECTED" /\ status'[r] = "DRAFT"
    BY <1>1, <2>1, <2>2, StaledFromNothing DEF HandoffStep
  <2>5. Rests(r)'
    BY <2>3, <2>4, RowsAssumption DEF Rests, RowInForce
  <2>6. PinsHold(r, WorkflowKinds)'
    BY <1>2 DEF CreateReadiness, PinsHold, InForce, upstream, WorkflowKinds, Kinds, Inv, TypeOK
  <2>7. OpportunityOf(o, m)
    BY <2>1 DEF Inv, SourcesShaped, OpportunityOf
  <2>8. OpportunityOf(o, m)'
    BY <1>1, <2>2, <2>7, ShapeKept
  <2>9. ReadinessOf(r, m, o)'
    BY <2>3, <2>4, <2>8 DEF ReadinessOf
  <2>10. cites[o] \subseteq Models
    <3> SUFFICES ASSUME NEW y \in cites[o], y \notin Models PROVE FALSE
        OBVIOUS
    <3>1. status[y] = "STALE"
      BY <2>1 DEF Inv, RivalsGone
    <3>2. RowInForce(y)
      BY <1>2 DEF CreateReadiness, OpportunitySourcesValid
    <3> QED BY <3>1, <3>2 DEF RowInForce
  <2>11. \A q \in Opportunities : q \in sources'[r] => cites'[q] \subseteq Models
    BY <1>2, <2>3, <2>10, RowsAssumption DEF CreateReadiness
  <2> QED
    BY <1>1, <2>2, <2>5, <2>6, <2>9, <2>11, StepKeepsInv
       DEF LiveOpportunities, LivePackages, Open
<1>3. ASSUME ApproveReadiness(r) PROVE Inv'
  <2> DEFINE older == OthersIn(r, Readinesses, "APPROVED")
  <2>1. status[r] = "DRAFT" /\ Rests(r) /\ older \cap (Models \cup Opportunities) = {}
    BY <1>3, RowsAssumption DEF ApproveReadiness, OthersIn
  <2>2. HandoffStep(r, "APPROVED", older)
    BY <1>1, <1>3, <2>1 DEF ApproveReadiness, Move, StatusAfter, HandoffStep
  <2>3. PICK m \in Models, o \in Opportunities : ReadinessOf(r, m, o)
    BY <2>1 DEF Inv, SourcesShaped
  <2>4. status[m] = "APPROVED" /\ status[o] = "SELECTED"
    BY <2>1, <2>3, RowsAssumption DEF Rests, RowInForce, ReadinessOf
  <2>5. o \notin StaledOpportunities(older)
    BY <2>1, <2>3, RowsAssumption
       DEF StaledOpportunities, ReadinessOf, OpportunityOf, OthersIn
  <2>6. m \notin Staled(older) /\ o \notin Staled(older)
    BY <2>1, <2>5, RowsAssumption
       DEF Staled, StaledOpportunities, StaledReadinesses, StaledPackages,
           LiveOpportunities, LiveReadinesses, LivePackages, Open
  <2>7. status'[m] = "APPROVED" /\ status'[o] = "SELECTED"
    BY <1>1, <2>2, <2>4, <2>6 DEF HandoffStep
  <2>8. ReadinessOf(r, m, o)'
    BY <1>1, <2>2, <2>3, ShapeKept
  <2>9. Rests(r)'
    BY <2>7, <2>8, RowsAssumption DEF Rests, RowInForce, ReadinessOf
  <2>10. PinsHold(r, WorkflowKinds)'
    BY <1>3 DEF ApproveReadiness, PinsHold, InForce, upstream, WorkflowKinds
  <2>11. \A q \in Opportunities : q \in sources'[r] => cites'[q] \subseteq Models
    BY <1>3, <2>1 DEF ApproveReadiness, Inv, RivalsGone, LiveReadinesses, Open
  <2> QED
    BY <1>1, <2>2, <2>8, <2>9, <2>10, <2>11, StepKeepsInv
       DEF LiveOpportunities, LivePackages, Open
<1> QED BY <1>2, <1>3

(* A package that is drafted is made of rows in force.                     *)
LEMMA CreatePackageInv ==
    ASSUME Inv, TypeOK', NEW p \in Packages, NEW m \in Models, NEW r \in Readinesses,
           NEW o \in Opportunities, CreatePackage(p, m, r, o)
    PROVE  Inv'
<1>1. p \in Rows /\ p \notin Models \cup Opportunities \cup Readinesses
  BY RowsAssumption
<1>2. /\ status[p] = "ABSENT" /\ status[m] = "APPROVED"
      /\ status[r] = "APPROVED" /\ status[o] = "SELECTED"
      /\ sources[r] = {m, o} /\ m \in sources[o]
  BY DEF CreatePackage
<1>3. HandoffStep(p, "DRAFT", {})
  BY <1>1, <1>2 DEF CreatePackage, Move, StatusAfter, HandoffStep
<1>4. sources'[p] = {m, r, o} /\ pins'[p] = pins[r]
  BY DEF CreatePackage, Inv, TypeOK
<1>5. OpportunityOf(o, m)
  BY <1>2 DEF Inv, SourcesShaped, OpportunityOf
<1>6. ReadinessOf(r, m, o)
  BY <1>2, <1>5 DEF ReadinessOf
<1>7. ReadinessOf(r, m, o)'
  BY <1>1, <1>3, <1>6, ShapeKept
<1>8. PackageOf(p, m, r, o)'
  BY <1>4, <1>7 DEF PackageOf
<1>9. status'[m] = "APPROVED" /\ status'[r] = "APPROVED" /\ status'[o] = "SELECTED"
  BY <1>1, <1>2, <1>3, StaledFromNothing DEF HandoffStep
<1>10. Rests(p)'
  BY <1>4, <1>9, RowsAssumption DEF Rests, RowInForce
<1>11. PinsHold(r, WorkflowKinds)
  BY <1>2 DEF Inv, ReadinessesCurrent, LiveReadinesses, Open
<1>12. PinsHold(p, WorkflowKinds)'
  BY <1>3, <1>4, <1>11 DEF PinsHold, InForce, HandoffStep, upstream, WorkflowKinds
<1>13. o \in LiveOpportunities' /\ o # p
  BY <1>1, <1>9 DEF LiveOpportunities, Open
<1>14. OpportunitySourcesValid(o)'
  <2>1. cites[o] \subseteq Models /\ cites'[o] = cites[o]
    BY <1>2 DEF Inv, RivalsGone, LiveReadinesses, Open, CreatePackage
  <2>2. sources'[o] = {m}
    BY <1>5, <1>1, <1>3 DEF OpportunityOf, HandoffStep
  <2>3. cites'[o] \subseteq {m} /\ PinsHold(o, {"current"} \cup Pinned(o))'
    BY <1>1, <1>3, <1>13, <2>1, <2>2, OpportunityKept
  <2> QED BY <1>9, <2>3, RowsAssumption DEF OpportunitySourcesValid, RowInForce
<1>15. sources'[p] \cap Opportunities = {o}
  BY <1>4, RowsAssumption
<1>16. PackageSourcesValid(p)'
  BY <1>10, <1>12, <1>14, <1>15 DEF PackageSourcesValid
<1> QED
  BY <1>1, <1>3, <1>8, <1>16, StepKeepsInv DEF LiveOpportunities, LiveReadinesses, Open

(* Publication, approval and the ends of a package touch packages only.    *)
LEMMA PackageStepInv ==
    ASSUME Inv, TypeOK', NEW p \in Packages, PackageStep(p)
    PROVE  Inv'
<1>1. /\ UNCHANGED <<sources, pins, cites>>
      /\ \A k \in Kinds : InForce(k) # 0 => InForce(k)' = InForce(k)
  BY DEF PackageStep, SubmitPackage, ApprovePackage, PublishPackage, RejectPackage,
         RevokePackage, upstream, InForce
<1>2. CASE PublishPackage(p)
  <2>1. \A y \in Rows : status'[y] = IF y = p THEN "PUBLISHED"
                                     ELSE IF y \in Superseded(p) THEN "SUPERSEDED"
                                     ELSE status[y]
    BY <1>2 DEF PublishPackage
  <2>2. status[p] = "APPROVED"
    BY <1>2 DEF PublishPackage
  <2>3. \A y \in Rows \ Packages : status'[y] = status[y]
    BY <2>1 DEF Superseded, OthersIn
  <2>4. \A q \in Packages : q \in LivePackages' => q \in LivePackages
    BY <2>1, <2>2 DEF Superseded, OthersIn, LivePackages, Open
  <2>5. \A q \in Packages : status'[q] # "ABSENT" => status[q] # "ABSENT"
    BY <2>1, <2>2 DEF Superseded, OthersIn
  <2>6. OneInForce(Packages, "PUBLISHED")'
    BY <2>1 DEF OneInForce, Superseded, OthersIn
  <2> QED BY <1>1, <2>3, <2>4, <2>5, <2>6, OnlyPackagesMove DEF Inv
<1>3. ASSUME NEW s \in {"READY_FOR_REVIEW", "APPROVED", "REJECTED", "REVOKED"},
             status[p] \in {"DRAFT", "READY_FOR_REVIEW", "APPROVED", "PUBLISHED"},
             Move(p, s, {})
      PROVE  Inv'
  <2>1. \A y \in Rows : status'[y] = IF y = p THEN s ELSE status[y]
    BY <1>3, StaledFromNothing DEF Move, StatusAfter
  <2>2. \A y \in Rows \ Packages : status'[y] = status[y]
    BY <2>1
  <2>3. \A q \in Packages : q \in LivePackages' => q \in LivePackages
    BY <1>3, <2>1 DEF LivePackages, Open
  <2>4. \A q \in Packages : status'[q] # "ABSENT" => status[q] # "ABSENT"
    BY <1>3, <2>1
  <2>5. OneInForce(Packages, "PUBLISHED")'
    BY <1>3, <2>1 DEF Inv, OneOfEachInForce, OneInForce
  <2> QED BY <1>1, <2>2, <2>3, <2>4, <2>5, OnlyPackagesMove DEF Inv
<1>4. CASE SubmitPackage(p) \/ ApprovePackage(p) \/ RejectPackage(p) \/ RevokePackage(p)
  BY <1>3, <1>4 DEF SubmitPackage, ApprovePackage, RejectPackage, RevokePackage
<1> QED BY <1>2, <1>4 DEF PackageStep

(* Every upstream change cascades from a seed of its own.                  *)
LEMMA UpstreamSeed ==
    ASSUME UpstreamChange
    PROVE  \/ GeneratePacket
           \/ /\ sources' = sources
              /\ \E seed \in {EconomicSeed, WorkflowSeed, TruthSeed, LiveModels} :
                    status' = StatusAfter(seed)
BY DEF UpstreamChange, AcceptClaim, ResolveContradiction, GenerateCurrent, ApproveCurrent,
       GenerateTarget, ApproveTarget, CalculateEconomics, ApproveEconomics

(* After an upstream change nothing that is open rests on what is gone.    *)
LEMMA UpstreamInv ==
    ASSUME Inv, TypeOK', UpstreamChange
    PROVE  Inv'
<1>1. CASE GeneratePacket
  <2>1. Staled(LivePackages) = LivePackages
    BY RowsAssumption
       DEF Staled, StaledOpportunities, StaledReadinesses, StaledPackages,
           LiveOpportunities, LiveReadinesses, LivePackages, Open, Inv, SourcesShaped,
           OpportunityOf, ReadinessOf
  <2>2. \A y \in Rows : status'[y] = IF y \in LivePackages THEN "STALE" ELSE status[y]
    BY <1>1, <2>1 DEF GeneratePacket, StatusAfter
  <2>3. \A y \in Rows \ Packages : status'[y] = status[y]
    BY <2>2 DEF LivePackages, Open
  <2>4. \A q \in Packages : q \in LivePackages' => q \in LivePackages
    BY <2>2 DEF LivePackages, Open
  <2>5. \A q \in Packages : status'[q] # "ABSENT" => status[q] # "ABSENT"
    BY <2>2 DEF LivePackages, Open
  <2>6. OneInForce(Packages, "PUBLISHED")'
    BY <2>2 DEF Inv, OneOfEachInForce, OneInForce
  <2>7. /\ UNCHANGED <<sources, pins, cites>>
        /\ \A k \in Kinds : InForce(k) # 0 => InForce(k)' = InForce(k)
    BY <1>1 DEF GeneratePacket, InForce, Inv, TypeOK
  <2> QED BY <2>3, <2>4, <2>5, <2>6, <2>7, OnlyPackagesMove DEF Inv
<1>2. ASSUME sources' = sources,
             NEW seed \in {EconomicSeed, WorkflowSeed, TruthSeed, LiveModels},
             status' = StatusAfter(seed)
      PROVE  Inv'
  <2>1. LiveOpportunities \subseteq seed \/ LiveModels \subseteq seed
    BY <1>2 DEF EconomicSeed, WorkflowSeed, TruthSeed
  <2>2. seed \cap Models \subseteq LiveModels
    BY <1>2, RowsAssumption
       DEF EconomicSeed, WorkflowSeed, TruthSeed, LiveOpportunities, LiveReadinesses, Open
  <2>3. LiveOpportunities' = {} /\ LiveReadinesses' = {} /\ LivePackages' = {}
    BY <1>2, <2>1, NothingStaysOpen
  <2>4. SourcesShaped' /\ OneOfEachInForce'
    BY <1>2, <2>2, CascadeKeeps
  <2> QED
    BY <2>3, <2>4
       DEF Inv, OpportunitiesCurrent, RivalsGone, ReadinessesCurrent,
           PackagesRestOnCurrentSources, LiveOpportunities, Open
<1> QED BY <1>1, <1>2, UpstreamSeed

(* The invariant is inductive.                                             *)
LEMMA InvStep == Inv /\ [Next]_vars => Inv'
<1> SUFFICES ASSUME Inv, [Next]_vars PROVE Inv'
    OBVIOUS
<1>1. TypeOK'
  BY TypeStep DEF Inv
<1>2. CASE Next
  BY <1>1, <1>2, ModelStepInv, OpportunityStepInv, ReadinessStepInv, CreatePackageInv,
     PackageStepInv, UpstreamInv DEF Next
<1>3. CASE UNCHANGED vars
  <2>1. UNCHANGED <<status, sources, pins, cites, version, stage>>
    BY <1>3 DEF vars, rows, upstream
  <2>2. SourcesShaped' /\ OneOfEachInForce'
    BY <2>1
       DEF Inv, SourcesShaped, OpportunityOf, ReadinessOf, PackageOf, OneOfEachInForce,
           OneInForce
  <2>3. \A x, ks : PinsHold(x, ks)' <=> PinsHold(x, ks)
    BY <2>1 DEF PinsHold, InForce
  <2>4. /\ LiveOpportunities' = LiveOpportunities
        /\ LiveReadinesses' = LiveReadinesses
        /\ LivePackages' = LivePackages
    BY <2>1 DEF LiveOpportunities, LiveReadinesses, LivePackages, Open
  <2>5. \A x : (Rests(x)' <=> Rests(x)) /\ Pinned(x)' = Pinned(x)
    BY <2>1 DEF Rests, RowInForce, Pinned
  <2>6. OpportunitiesCurrent' /\ RivalsGone' /\ ReadinessesCurrent'
    BY <2>1, <2>3, <2>4, <2>5
       DEF Inv, OpportunitiesCurrent, RivalsGone, ReadinessesCurrent, PinsHold, InForce, Pinned
  <2>7. PackagesRestOnCurrentSources'
    BY <2>1, <2>3, <2>4, <2>5
       DEF Inv, PackagesRestOnCurrentSources, PackageSourcesValid, OpportunitySourcesValid,
           RowInForce, PinsHold, InForce, Pinned
  <2> QED BY <1>1, <2>2, <2>6, <2>7 DEF Inv
<1> QED BY <1>2, <1>3

-----------------------------------------------------------------------------
(* The theorems                                                            *)

(* The variables of the handoff keep their types.                          *)
THEOREM HandoffTypes == Spec => []TypeOK
<1>1. Init => TypeOK
  BY InitInv DEF Inv
<1> QED BY <1>1, TypeStep, PTL DEF Spec

(* The inductive invariant holds in every reachable state.                 *)
THEOREM HandoffInvariant == Spec => []Inv
BY InitInv, InvStep, PTL DEF Spec

(* However many versions exist, no cascade of the service leaves a package *)
(* open that rests on a row or on a version that is no longer in force.    *)
THEOREM HandoffCurrent == Spec => []PackagesRestOnCurrentSources
<1>1. Inv => PackagesRestOnCurrentSources
  BY DEF Inv
<1> QED BY <1>1, HandoffInvariant, PTL

-----------------------------------------------------------------------------
(* The database lets every step through                                    *)

(* A cascade moves a row to STALE only from where the triggers allow it.   *)
LEMMA StaledMayMove ==
    ASSUME TypeOK, NEW seed, NEW y \in Staled(seed),
           \A m \in seed \cap Models : status[m] \in {"DRAFT", "APPROVED"}
    PROVE  /\ y \in Models \cup Readinesses => status[y] \in {"DRAFT", "APPROVED"}
           /\ y \in Opportunities => status[y] \in {"ASSESSED", "SELECTED"}
           /\ y \in Packages =>
                 status[y] \in {"DRAFT", "READY_FOR_REVIEW", "APPROVED", "PUBLISHED"}
BY StaledWasOpen, RowsAssumption
   DEF TypeOK, LiveOpportunities, LiveReadinesses, LivePackages, Open, VersionStatuses,
       OpportunityStatuses, PackageStatuses

(* The triggers let row y move as it does in this step.                    *)
MoveAllowed(y) ==
    status'[y] # status[y] =>
       /\ y \in Models \cup Readinesses =>
             <<status[y], status'[y]>> \in Lifecycle!VersionMoves
       /\ y \in Opportunities => <<status[y], status'[y]>> \in Lifecycle!OpportunityMoves
       /\ y \in Packages => <<status[y], status'[y]>> \in Lifecycle!PackageMoves

(* If they let the rows outside the cascade move, they let all rows move.  *)
LEMMA CascadeAllowed ==
    ASSUME TypeOK, Inv', NEW seed, NEW X,
           \A m \in seed \cap Models : status[m] \in {"DRAFT", "APPROVED"},
           \A y \in Rows \ X : status'[y] = IF y \in Staled(seed) THEN "STALE" ELSE status[y],
           \A y \in Rows \cap X : MoveAllowed(y)
    PROVE  Lifecycle!Next
<1>1. \A y \in Staled(seed) : status'[y] = "STALE" => MoveAllowed(y)
  <2> SUFFICES ASSUME NEW y \in Staled(seed), status'[y] = "STALE" PROVE MoveAllowed(y)
      OBVIOUS
  <2>1. y \in Models \cup Readinesses => <<status[y], status'[y]>> \in Lifecycle!VersionMoves
    BY StaledMayMove DEF Lifecycle!VersionMoves
  <2>2. y \in Opportunities => <<status[y], status'[y]>> \in Lifecycle!OpportunityMoves
    BY StaledMayMove DEF Lifecycle!OpportunityMoves
  <2>3. y \in Packages => <<status[y], status'[y]>> \in Lifecycle!PackageMoves
    BY StaledMayMove DEF Lifecycle!PackageMoves
  <2> QED BY <2>1, <2>2, <2>3 DEF MoveAllowed
<1>2. \A y \in Rows : MoveAllowed(y)
  BY <1>1 DEF MoveAllowed
<1>3. Lifecycle!UniqueIndexes'
  BY DEF Inv, OneOfEachInForce, OneInForce, Lifecycle!UniqueIndexes, Lifecycle!Unique
<1> QED BY <1>2, <1>3 DEF Lifecycle!Next, Lifecycle!MayMove, MoveAllowed

(* A handoff operation moves its own row as the triggers allow.            *)
LEMMA MoveImplements ==
    ASSUME TypeOK, Inv', NEW x \in Rows, NEW s, NEW seed, Move(x, s, seed),
           \A m \in seed \cap Models : status[m] \in {"DRAFT", "APPROVED"},
           x \in Models \cup Readinesses => <<status[x], s>> \in Lifecycle!VersionMoves,
           x \in Opportunities => <<status[x], s>> \in Lifecycle!OpportunityMoves,
           x \in Packages => <<status[x], s>> \in Lifecycle!PackageMoves
    PROVE  Lifecycle!Next
<1>1. \A y \in Rows \ {x} : status'[y] = IF y \in Staled(seed) THEN "STALE" ELSE status[y]
  BY DEF Move, StatusAfter
<1>2. status'[x] = s
  BY DEF Move, StatusAfter
<1>3. \A y \in Rows \cap {x} : MoveAllowed(y)
  BY <1>2 DEF MoveAllowed
<1> QED BY <1>1, <1>3, CascadeAllowed

(* Every step of the service is one the database lets through.             *)
LEMMA StepImplements == Inv /\ [Next]_vars => [Lifecycle!Next]_status
<1> SUFFICES ASSUME Inv, [Next]_vars PROVE [Lifecycle!Next]_status
    OBVIOUS
<1>1. TypeOK /\ Inv'
  BY InvStep DEF Inv
<1>2. ASSUME NEW m \in Models, CreateModel(m) \/ ApproveModel(m) PROVE Lifecycle!Next
  <2>1. m \in Rows /\ m \notin Opportunities \cup Packages
    BY RowsAssumption
  <2>2. CASE CreateModel(m)
    <3>1. Move(m, "DRAFT", {}) /\ status[m] = "ABSENT"
      BY <2>2 DEF CreateModel
    <3>2. \A y \in {} \cap Models : status[y] \in {"DRAFT", "APPROVED"}
      OBVIOUS
    <3> QED BY <1>1, <2>1, <3>1, <3>2, MoveImplements DEF Lifecycle!VersionMoves
  <2>3. CASE ApproveModel(m)
    <3> DEFINE older == OthersIn(m, Models, "APPROVED")
    <3>1. \A y \in older \cap Models : status[y] \in {"DRAFT", "APPROVED"}
      BY DEF OthersIn
    <3>2. Move(m, "APPROVED", older) /\ status[m] = "DRAFT"
      BY <2>3 DEF ApproveModel
    <3> QED BY <1>1, <2>1, <3>1, <3>2, MoveImplements DEF Lifecycle!VersionMoves
  <2> QED BY <1>2, <2>2, <2>3
<1>3. ASSUME NEW o \in Opportunities,
             \/ \E m \in Models, k \in Keys : \E ks, ys : CreateOpportunity(o, m, k, ks, ys)
             \/ SelectOpportunity(o)
             \/ RejectOpportunity(o)
      PROVE  Lifecycle!Next
  <2>1. o \in Rows /\ o \notin Models \cup Readinesses \cup Packages
    BY RowsAssumption
  <2>2. PICK seed \in SUBSET Opportunities :
           \/ status[o] = "ABSENT" /\ Move(o, "ASSESSED", seed)
           \/ status[o] = "ASSESSED" /\ Move(o, "SELECTED", seed)
           \/ status[o] = "ASSESSED" /\ Move(o, "REJECTED", seed)
    BY <1>3
       DEF CreateOpportunity, SelectOpportunity, RejectOpportunity, FirstStatus, OthersIn,
           LiveOpportunities, Open
  <2>3. seed \cap Models = {}
    BY <2>2, RowsAssumption
  <2> QED BY <1>1, <2>1, <2>2, <2>3, MoveImplements DEF Lifecycle!OpportunityMoves
<1>4. ASSUME NEW r \in Readinesses,
             \/ \E m \in Models, o \in Opportunities : CreateReadiness(r, m, o)
             \/ ApproveReadiness(r)
      PROVE  Lifecycle!Next
  <2>1. r \in Rows /\ r \notin Opportunities \cup Packages
    BY RowsAssumption
  <2>2. PICK seed \in SUBSET Readinesses :
           \/ status[r] = "ABSENT" /\ Move(r, "DRAFT", seed)
           \/ status[r] = "DRAFT" /\ Move(r, "APPROVED", seed)
    BY <1>4 DEF CreateReadiness, ApproveReadiness, OthersIn
  <2>3. seed \cap Models = {}
    BY <2>2, RowsAssumption
  <2> QED BY <1>1, <2>1, <2>2, <2>3, MoveImplements DEF Lifecycle!VersionMoves
<1>5. ASSUME NEW p \in Packages,
             \/ \E m \in Models, r \in Readinesses, o \in Opportunities :
                   CreatePackage(p, m, r, o)
             \/ SubmitPackage(p) \/ ApprovePackage(p) \/ RejectPackage(p) \/ RevokePackage(p)
      PROVE  Lifecycle!Next
  <2>1. p \in Rows /\ p \notin Models \cup Readinesses \cup Opportunities
    BY RowsAssumption
  <2>2. \/ status[p] = "ABSENT" /\ Move(p, "DRAFT", {})
        \/ status[p] = "DRAFT" /\ Move(p, "READY_FOR_REVIEW", {})
        \/ status[p] = "READY_FOR_REVIEW" /\ Move(p, "APPROVED", {})
        \/ /\ status[p] \in {"DRAFT", "READY_FOR_REVIEW", "APPROVED"}
           /\ Move(p, "REJECTED", {})
        \/ status[p] = "PUBLISHED" /\ Move(p, "REVOKED", {})
    BY <1>5 DEF CreatePackage, SubmitPackage, ApprovePackage, RejectPackage, RevokePackage
  <2>3. PICK s : Move(p, s, {}) /\ <<status[p], s>> \in Lifecycle!PackageMoves
    BY <2>2 DEF Lifecycle!PackageMoves
  <2>4. \A m \in {} \cap Models : status[m] \in {"DRAFT", "APPROVED"}
    OBVIOUS
  <2> QED BY <1>1, <2>1, <2>3, <2>4, MoveImplements
<1>6. ASSUME NEW p \in Packages, PublishPackage(p) PROVE Lifecycle!Next
  <2>1. \A y \in Rows : status'[y] = IF y = p THEN "PUBLISHED"
                                     ELSE IF y \in Superseded(p) THEN "SUPERSEDED"
                                     ELSE status[y]
    BY <1>6 DEF PublishPackage
  <2>2. status[p] = "APPROVED" /\ \A q \in Superseded(p) : status[q] = "PUBLISHED"
    BY <1>6 DEF PublishPackage, Superseded, OthersIn
  <2>3. \A y \in Rows \ Packages : status'[y] = IF y \in Staled({}) THEN "STALE" ELSE status[y]
    BY <2>1, StaledFromNothing DEF Superseded, OthersIn
  <2>4. \A y \in Rows \cap Packages : MoveAllowed(y)
    BY <2>1, <2>2, RowsAssumption DEF MoveAllowed, Lifecycle!PackageMoves
  <2> QED BY <1>1, <2>3, <2>4, CascadeAllowed
<1>7. ASSUME UpstreamChange PROVE Lifecycle!Next
  <2>1. PICK seed \in {EconomicSeed, WorkflowSeed, TruthSeed, LiveModels, LivePackages} :
           status' = StatusAfter(seed)
    BY <1>7, UpstreamSeed DEF GeneratePacket
  <2>2. \A m \in seed \cap Models : status[m] \in {"DRAFT", "APPROVED"}
    BY <1>1, RowsAssumption
       DEF EconomicSeed, WorkflowSeed, TruthSeed, LiveModels, LiveOpportunities,
           LiveReadinesses, LivePackages, Open, TypeOK, VersionStatuses
  <2>3. \A y \in Rows \ {} : status'[y] = IF y \in Staled(seed) THEN "STALE" ELSE status[y]
    BY <2>1 DEF StatusAfter
  <2>4. \A y \in Rows \cap {} : MoveAllowed(y)
    OBVIOUS
  <2> QED BY <1>1, <2>2, <2>3, <2>4, CascadeAllowed
<1>8. CASE UNCHANGED vars
  BY <1>8 DEF vars, rows
<1> QED
  BY <1>2, <1>3, <1>4, <1>5, <1>6, <1>7, <1>8 DEF Next, PackageStep

(* The service implements the lifecycles the database enforces: for any    *)
(* number of versions, no request of it ends in an exception of a trigger  *)
(* or of a unique index.                                                   *)
THEOREM HandoffImplementsTriggers == Spec => ImplementsTriggers
<1>1. Init => Lifecycle!Init
  BY DEF Init, Lifecycle!Init, Lifecycle!Rows
<1> QED
  BY <1>1, StepImplements, HandoffInvariant, PTL DEF Spec, ImplementsTriggers, Lifecycle!Spec

-----------------------------------------------------------------------------
(* Why publication ends                                                    *)

EndsForCause(p) ==
    \/ status'[p] = "REVOKED"
    \/ /\ status'[p] = "SUPERSEDED"
       /\ \E q \in Packages : status[q] = "APPROVED" /\ status'[q] = "PUBLISHED"
    \/ /\ status'[p] = "STALE"
       /\ \/ \E x \in sources[p] : status'[x] = "STALE"
          \/ version'["packet"] # version["packet"]

(* A cascade that does not start at a published package reaches it through *)
(* a row in force that the package was made from.                          *)
LEMMA StaledForCause ==
    ASSUME Inv, NEW p \in Packages, status[p] = "PUBLISHED", NEW seed, p \notin seed,
           p \in Staled(seed)
    PROVE  \E y \in sources[p] \cap (Readinesses \cup Opportunities) :
              y \in Staled(seed) /\ status[y] \in {"APPROVED", "SELECTED"}
<1>1. p \in StaledPackages(seed)
  BY RowsAssumption
     DEF Staled, StaledOpportunities, StaledReadinesses, LiveOpportunities, LiveReadinesses,
         Open
<1>2. PICK y \in sources[p] : y \in StaledReadinesses(seed) \cup StaledOpportunities(seed)
  BY <1>1 DEF StaledPackages
<1>3. y \in Readinesses \cup Opportunities /\ y \in Staled(seed)
  BY <1>2
     DEF Staled, StaledOpportunities, StaledReadinesses, LiveOpportunities, LiveReadinesses,
         Open
<1>4. status[y] \in {"APPROVED", "SELECTED"}
  BY <1>2, <1>3
     DEF Inv, PackagesRestOnCurrentSources, PackageSourcesValid, Rests, RowInForce,
         LivePackages, Open
<1> QED BY <1>2, <1>3, <1>4

(* So a handoff operation on another row than the package has a cause.     *)
LEMMA MoveForCause ==
    ASSUME Inv, NEW p \in Packages, status[p] = "PUBLISHED", status'[p] # "PUBLISHED",
           NEW x \in Rows, x # p, NEW s, NEW seed, p \notin seed, Move(x, s, seed),
           x \in Packages \/ status[x] \notin {"APPROVED", "SELECTED"}
    PROVE  EndsForCause(p)
<1>1. \A y \in Rows \ {x} : status'[y] = IF y \in Staled(seed) THEN "STALE" ELSE status[y]
  BY DEF Move, StatusAfter
<1>2. p \in Staled(seed) /\ status'[p] = "STALE"
  BY <1>1
<1>3. PICK y \in sources[p] \cap (Readinesses \cup Opportunities) :
         y \in Staled(seed) /\ status[y] \in {"APPROVED", "SELECTED"}
  BY <1>2, StaledForCause
<1>4. y # x
  BY <1>3, RowsAssumption
<1>5. status'[y] = "STALE"
  BY <1>1, <1>3, <1>4
<1> QED BY <1>2, <1>3, <1>5 DEF EndsForCause

(* No step takes a package out of publication without a cause.             *)
LEMMA PublicationStep ==
    ASSUME Inv, [Next]_vars, NEW p \in Packages, status[p] = "PUBLISHED",
           status'[p] # "PUBLISHED"
    PROVE  EndsForCause(p)
<1>1. p \notin Models \cup Readinesses \cup Opportunities
  BY RowsAssumption
<1>2. ASSUME NEW m \in Models, CreateModel(m) \/ ApproveModel(m) PROVE EndsForCause(p)
  <2>1. PICK seed \in SUBSET Models :
           (\E s : Move(m, s, seed)) /\ status[m] \in {"ABSENT", "DRAFT"}
    BY <1>2 DEF CreateModel, ApproveModel, OthersIn
  <2> QED BY <1>1, <2>1, MoveForCause
<1>3. ASSUME NEW o \in Opportunities,
             \/ \E m \in Models, k \in Keys : \E ks, ys : CreateOpportunity(o, m, k, ks, ys)
             \/ SelectOpportunity(o)
             \/ RejectOpportunity(o)
      PROVE  EndsForCause(p)
  <2>1. PICK seed \in SUBSET Opportunities :
           (\E s : Move(o, s, seed)) /\ status[o] \in {"ABSENT", "ASSESSED"}
    <3>1. ASSUME NEW m \in Models, NEW k \in Keys, NEW ks, NEW ys,
                 CreateOpportunity(o, m, k, ks, ys)
          PROVE  /\ Move(o, FirstStatus, {q \in LiveOpportunities : key[q] = k})
                 /\ status[o] = "ABSENT"
      BY <3>1 DEF CreateOpportunity
    <3>2. \A k : {q \in LiveOpportunities : key[q] = k} \in SUBSET Opportunities
      BY DEF LiveOpportunities, Open
    <3>3. ASSUME SelectOpportunity(o) \/ RejectOpportunity(o)
          PROVE  /\ status[o] = "ASSESSED"
                 /\ \/ Move(o, "SELECTED", OthersIn(o, Opportunities, "SELECTED"))
                    \/ Move(o, "REJECTED", {})
      BY <3>3 DEF SelectOpportunity, RejectOpportunity
    <3>4. OthersIn(o, Opportunities, "SELECTED") \in SUBSET Opportunities
      BY DEF OthersIn
    <3>5. CASE \E m \in Models, k \in Keys : \E ks, ys : CreateOpportunity(o, m, k, ks, ys)
      BY <3>1, <3>2, <3>5
    <3>6. CASE SelectOpportunity(o) \/ RejectOpportunity(o)
      BY <3>3, <3>4, <3>6
    <3> QED BY <1>3, <3>5, <3>6
  <2> QED BY <1>1, <2>1, MoveForCause
<1>4. ASSUME NEW r \in Readinesses,
             \/ \E m \in Models, o \in Opportunities : CreateReadiness(r, m, o)
             \/ ApproveReadiness(r)
      PROVE  EndsForCause(p)
  <2>1. PICK seed \in SUBSET Readinesses :
           (\E s : Move(r, s, seed)) /\ status[r] \in {"ABSENT", "DRAFT"}
    BY <1>4 DEF CreateReadiness, ApproveReadiness, OthersIn
  <2> QED BY <1>1, <2>1, MoveForCause
<1>5. ASSUME NEW q \in Packages,
             \/ \E m \in Models, r \in Readinesses, o \in Opportunities :
                   CreatePackage(q, m, r, o)
             \/ SubmitPackage(q) \/ ApprovePackage(q) \/ RejectPackage(q)
      PROVE  EndsForCause(p)
  <2>1. PICK s : Move(q, s, {}) /\ status[q] # "PUBLISHED"
    BY <1>5 DEF CreatePackage, SubmitPackage, ApprovePackage, RejectPackage
  <2> QED BY <2>1, MoveForCause
<1>6. ASSUME NEW q \in Packages, RevokePackage(q) PROVE EndsForCause(p)
  <2>1. Move(q, "REVOKED", {})
    BY <1>6 DEF RevokePackage
  <2>2. CASE q = p
    BY <2>1, <2>2 DEF Move, StatusAfter, EndsForCause
  <2>3. CASE q # p
    BY <2>1, <2>3, MoveForCause
  <2> QED BY <2>2, <2>3
<1>7. ASSUME NEW q \in Packages, PublishPackage(q) PROVE EndsForCause(p)
  BY <1>7 DEF PublishPackage, Superseded, OthersIn, EndsForCause
<1>8. CASE GeneratePacket
  <2>1. version'["packet"] # version["packet"]
    BY <1>8 DEF GeneratePacket, Inv, TypeOK, Kinds
  <2>2. status'[p] = "STALE"
    BY <1>8 DEF GeneratePacket, StatusAfter
  <2> QED BY <2>1, <2>2 DEF EndsForCause
<1>9. ASSUME NEW seed \in {EconomicSeed, WorkflowSeed, TruthSeed, LiveModels},
             status' = StatusAfter(seed)
      PROVE  EndsForCause(p)
  <2>1. p \notin seed
    BY <1>1, <1>9
       DEF EconomicSeed, WorkflowSeed, TruthSeed, LiveModels, LiveOpportunities,
           LiveReadinesses, Open
  <2>2. \A y \in Rows : status'[y] = IF y \in Staled(seed) THEN "STALE" ELSE status[y]
    BY <1>9 DEF StatusAfter
  <2>3. p \in Staled(seed) /\ status'[p] = "STALE"
    BY <2>2
  <2>4. PICK y \in sources[p] \cap (Readinesses \cup Opportunities) : y \in Staled(seed)
    BY <2>1, <2>3, StaledForCause
  <2> QED BY <2>2, <2>3, <2>4 DEF EndsForCause
<1>10. CASE UNCHANGED vars
  BY <1>10 DEF vars, rows
<1> QED
  BY <1>2, <1>3, <1>4, <1>5, <1>6, <1>7, <1>8, <1>9, <1>10, UpstreamSeed DEF Next, PackageStep

(* A published package leaves publication only because it is revoked, a    *)
(* successor is published, a row it was made from became stale in the same *)
(* transaction, or a new implementation packet was generated.              *)
THEOREM HandoffPublication == Spec => PublicationEndsForCause
<1>1. Inv /\ [Next]_vars =>
         [\A p \in Packages : status[p] = "PUBLISHED" /\ status'[p] # "PUBLISHED" =>
             EndsForCause(p)]_vars
  BY PublicationStep
<1> QED
  BY <1>1, HandoffInvariant, PTL DEF Spec, PublicationEndsForCause, EndsForCause
=============================================================================
