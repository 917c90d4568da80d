---------------------------- MODULE DeliveryChain ----------------------------
(***************************************************************************)
(* From verified claims to the implementation packet of one engagement:    *)
(* current workflows, target workflows, economic cases and packets, each   *)
(* made from rows of the stage before it.                                  *)
(*                                                                         *)
(* A request is one READ COMMITTED transaction.  It reads what it builds   *)
(* on without a lock, stales what depends on the change with bulk UPDATEs  *)
(* that lock rows, and only then takes the engagement row FOR UPDATE (in   *)
(* the cascade to the factory handoff), which it keeps to its commit.  So  *)
(* the part from that lock to the commit is one action and the parts       *)
(* before it interleave with other requests.  Reads that follow each other *)
(* without a write are one step, and so are the UPDATEs of one cascade.    *)
(*                                                                         *)
(* overtaken and raced record which rows were made from what another       *)
(* request was taking away; no guard reads them, or amended.               *)
(***************************************************************************)
EXTENDS Naturals, FiniteSets

CONSTANTS
    Requests,   \* transactions that can be in flight at a time
    Claims,     \* candidate claims an operator may accept
    Currents,   \* versions of the current workflow
    Targets,    \* versions of the target workflow
    Cases,      \* versions of the economic case
    Packets,    \* implementation packets
    NoRow

Workflows == Currents \cup Targets
Rows == Workflows \cup Cases \cup Packets

ASSUME ChainAssumption ==
    /\ IsFiniteSet(Rows)
    /\ NoRow \notin Rows \cup Claims
    /\ Claims \cap Rows = {}
    /\ Currents \cap Targets = {}
    /\ Workflows \cap Cases = {}
    /\ (Workflows \cup Cases) \cap Packets = {}

VARIABLES
    truth,      \* the claims accepted so far, i.e. the verified assertions
    status,     \* "absent", "draft", "approved" or "stale"; "current" for a packet
    number,     \* version_number
    basis,      \* the assertions, or the rows, a row was made from
    amended,    \* the workflows whose steps have changed since their approval
    request,    \* what each transaction in flight has read and locked
    overtaken,  \* history: the transactions one of whose sources others changed
    raced       \* history: the rows of such transactions

chain == <<truth, status, number, basis, amended>>
history == <<overtaken, raced>>
vars == <<chain, request, history>>

Ops == {"none", "accept_claim", "draft_current", "approve_current", "draft_target",
        "approve_target", "insert_case", "update_case", "generate_packet", "edit_step"}

Idle == [at |-> "idle", op |-> "none", row |-> NoRow, from |-> {}, number |-> 0,
         matched |-> {}, held |-> {}]

Statuses(x) ==
    {"absent", "stale"} \cup (IF x \in Packets THEN {"current"} ELSE {"draft", "approved"})

ChainTypeOK ==
    /\ truth \subseteq Claims
    /\ status \in [Rows -> {"absent", "draft", "approved", "current", "stale"}]
    /\ \A x \in Rows : status[x] \in Statuses(x)
    /\ \A x \in Rows : status[x] = "absent" <=> number[x] = 0
    /\ number \in [Rows -> 0 .. Cardinality(Rows)]
    /\ basis \in [Rows -> SUBSET (Claims \cup Rows)]
    /\ amended \subseteq Workflows
    /\ request \in [Requests ->
          [at : {"idle", "read", "matched", "staled"},
           op : Ops,
           row : Rows \cup Claims \cup {NoRow},
           from : SUBSET (Claims \cup Rows),
           number : 0 .. Cardinality(Rows),
           matched : SUBSET Rows,
           held : SUBSET Rows]]

(* Every row keeps to the statuses of its table, has a number once it is    *)
(* inserted, and a request holds rows and claims that exist.                *)
TypeOK == ChainTypeOK /\ overtaken \subseteq Requests /\ raced \subseteq Rows

Init ==
    /\ truth = {}
    /\ status = [x \in Rows |-> "absent"]
    /\ number = [x \in Rows |-> 0]
    /\ basis = [x \in Rows |-> {}]
    /\ amended = {}
    /\ request = [q \in Requests |-> Idle]
    /\ overtaken = {}
    /\ raced = {}

-----------------------------------------------------------------------------
(* Rows and locks                                                          *)

(* The rows a bulk UPDATE to "stale" selects.                              *)
Live(rs) == {x \in rs : status[x] \in {"draft", "approved", "current"}}

Newest(rs, s) ==
    {x \in rs : status[x] = s /\ \A y \in rs : status[y] = s => number[y] <= number[x]}

NextNumber(rs) ==
    CHOOSE n \in 1 .. Cardinality(Rows) + 1 :
       /\ \A x \in rs : number[x] < n
       /\ n = 1 \/ \E x \in rs : number[x] = n - 1

(* Mutant: the row is read without FOR UPDATE.                             *)
UnlockedAnyway(q, rs) == TRUE

Unlocked(q, rs) == \A r \in Requests \ {q} : request[r].held \cap rs = {}

(* A transaction that has inserted a row with a foreign key to the         *)
(* engagement keeps others from locking the engagement row.                *)
EngagementFree(q) ==
    \A r \in Requests \ {q} : request[r].op \notin {"accept_claim", "insert_case"}

(* Mutant: a new current workflow stales the one before and no more.       *)
ScopeShallow(op) ==
    CASE op = "accept_claim" -> Rows
      [] op = "draft_current" -> Currents
      [] op \in {"approve_current", "draft_target"} -> Targets \cup Cases \cup Packets
      [] op = "approve_target" -> Cases \cup Packets
      [] OTHER -> Packets

(* What the cascade of an operation stales, by the stages it changes.      *)
Scope(op) ==
    CASE op \in {"accept_claim", "draft_current"} -> Rows
      [] op \in {"approve_current", "draft_target"} -> Targets \cup Cases \cup Packets
      [] op = "approve_target" -> Cases \cup Packets
      [] OTHER -> Packets

-----------------------------------------------------------------------------
(* First part of a request: what it checks and reads before its cascade    *)

Begin(q, op, x, from, n, held) ==
    /\ request[q] = Idle
    /\ Unlocked(q, held)
    /\ request' = [request EXCEPT ![q] =
                     [Idle EXCEPT !.at = "read", !.op = op, !.row = x, !.from = from,
                                  !.number = n, !.held = held]]
    /\ UNCHANGED <<chain, history>>

(* review_claim takes the claim row FOR UPDATE.                            *)
BeginAcceptClaim(q) ==
    \E claim \in Claims \ truth :
       /\ \A r \in Requests : request[r].row # claim
       /\ Begin(q, "accept_claim", claim, {}, 0, {})

BeginDraftCurrent(q) ==
    /\ truth # {}
    /\ Newest(Currents, "draft") = {}
    /\ Begin(q, "draft_current", NoRow, truth, 0, {})

BeginApproveCurrent(q) ==
    \E c \in Currents :
       /\ status[c] = "draft"
       /\ Begin(q, "approve_current", c, {}, 0, {c})

BeginDraftTarget(q) ==
    \E c \in Newest(Currents, "approved") :
       /\ ~\E t \in Targets : status[t] = "draft" /\ basis[t] = {c}
       /\ Begin(q, "draft_target", NoRow, {c}, 0, {})

BeginApproveTarget(q) ==
    \E t \in Targets :
       /\ status[t] = "draft"
       /\ \A c \in basis[t] : status[c] = "approved"
       /\ Begin(q, "approve_target", t, {}, 0, {t})

DraftsOf(t) == Newest({e \in Cases : basis[e] = {t}}, "draft")

BeginCalculate(q) ==
    \E t \in Newest(Targets, "approved") :
       \/ \E e \in DraftsOf(t) : Begin(q, "update_case", e, {t}, 0, {e})
       \/ /\ DraftsOf(t) = {}
          /\ Begin(q, "insert_case", NoRow, {t}, NextNumber(Cases), {})

BeginGeneratePacket(q) ==
    \E c \in Newest(Currents, "approved"), t \in Newest(Targets, "approved"),
       e \in Newest(Cases, "approved") :
       /\ basis[t] = {c}
       /\ basis[e] = {t}
       /\ ~\E p \in Packets : status[p] = "current" /\ basis[p] = {c, t, e}
       /\ Begin(q, "generate_packet", NoRow, {c, t, e}, NextNumber(Packets), {})

(* update_workflow_step locks the step, and no request locks its workflow. *)
BeginEditStep(q) ==
    \E w \in Workflows :
       /\ status[w] = "draft"
       /\ Begin(q, "edit_step", w, {}, 0, {})

-----------------------------------------------------------------------------
(* Second part: the UPDATEs of the cascade                                 *)

(* A statement sees the rows committed before it started ...               *)
StartUpdate(q) ==
    /\ request[q].at = "read"
    /\ request[q].op # "edit_step"
    /\ request' = [request EXCEPT ![q].at = "matched",
                                  ![q].matched = Live(Scope(request[q].op))]
    /\ UNCHANGED <<chain, history>>

(* ... waits for the transactions that hold one of them, and stales those  *)
(* that still match.                                                       *)
LockRows(q) ==
    /\ request[q].at = "matched"
    /\ Unlocked(q, request[q].matched)
    /\ request' = [request EXCEPT ![q].at = "staled",
                                  ![q].matched = Live(@),
                                  ![q].held = @ \cup Live(request[q].matched)]
    /\ UNCHANGED <<chain, history>>

-----------------------------------------------------------------------------
(* Third part: the engagement row, the new or approved row, and the commit *)

(* The cascade of r is under way and takes away what q has read.           *)
Takes(r, q) ==
    /\ request[r].at \in {"matched", "staled"}
    /\ \/ request[r].matched \cap request[q].from # {}
       \/ request[r].op = "accept_claim" /\ request[q].op = "draft_current"

Overtaken(q) == q \in overtaken \/ \E r \in Requests \ {q} : Takes(r, q)

Finish(q, op) ==
    /\ request[q].at = "staled"
    /\ request[q].op = op
    /\ EngagementFree(q)
    /\ request' = [request EXCEPT ![q] = Idle]
    /\ overtaken' = (overtaken \cup {r \in Requests : Takes(q, r)}) \ {q}

Staled(q) == [x \in Rows |-> IF x \in request[q].matched THEN "stale" ELSE status[x]]

(* A row of rs is inserted; two with one number violate a constraint.      *)
Insert(q, rs, s, n) ==
    /\ \A x \in rs : number[x] # n
    /\ \E x \in rs :
          /\ status[x] = "absent"
          /\ status' = [Staled(q) EXCEPT ![x] = s]
          /\ number' = [number EXCEPT ![x] = n]
          /\ basis' = [basis EXCEPT ![x] = request[q].from]
          /\ raced' = IF Overtaken(q) THEN raced \cup {x} ELSE raced
    /\ UNCHANGED <<truth, amended>>

FinishAcceptClaim(q) ==
    /\ Finish(q, "accept_claim")
    /\ truth' = truth \cup {request[q].row}
    /\ status' = Staled(q)
    /\ UNCHANGED <<number, basis, amended, raced>>

FinishDraftCurrent(q) ==
    /\ Finish(q, "draft_current")
    /\ Insert(q, Currents, "draft", NextNumber(Currents))

FinishDraftTarget(q) ==
    /\ Finish(q, "draft_target")
    /\ Insert(q, Targets, "draft", NextNumber(Targets))

FinishApproval(q) ==
    /\ Finish(q, "approve_current") \/ Finish(q, "approve_target")
    /\ status' = [Staled(q) EXCEPT ![request[q].row] = "approved"]
    /\ UNCHANGED <<truth, number, basis, amended, raced>>

FinishInsertCase(q) ==
    /\ Finish(q, "insert_case")
    /\ Insert(q, Cases, "draft", request[q].number)

FinishUpdateCase(q) ==
    /\ Finish(q, "update_case")
    /\ status' = Staled(q)
    /\ UNCHANGED <<truth, number, basis, amended, raced>>

(* Mutant: the packet takes its number when it is inserted.                *)
PacketNumberLate(q) == NextNumber(Packets)

PacketNumber(q) == request[q].number

FinishGeneratePacket(q) ==
    /\ Finish(q, "generate_packet")
    /\ Insert(q, Packets, "current", PacketNumber(q))

FinishEditStep(q) ==
    /\ request[q].at = "read"
    /\ request[q].op = "edit_step"
    /\ amended' = amended \cup {w \in {request[q].row} : status[w] = "approved"}
    /\ request' = [request EXCEPT ![q] = Idle]
    /\ UNCHANGED <<truth, status, number, basis, history>>

(* Mutant: the case approved before is left in place.                      *)
ReplacedNever(e) == {}

Replaced(e) == {f \in Cases \ {e} : status[f] = "approved"}

(* approve_economic_case takes the engagement row first of all.            *)
ApproveEconomics(q, e) ==
    /\ request[q] = Idle
    /\ EngagementFree(q)
    /\ status[e] = "draft"
    /\ \A t \in basis[e] : status[t] = "approved"
    /\ LET stales == Replaced(e) \cup Live(Packets)
       IN /\ Unlocked(q, stales \cup {e})
          /\ status' = [x \in Rows |-> IF x = e THEN "approved"
                                       ELSE IF x \in stales THEN "stale" ELSE status[x]]
    /\ overtaken' = overtaken \cup {r \in Requests : request[r].from \cap Replaced(e) # {}}
    /\ UNCHANGED <<truth, number, basis, amended, request, raced>>

(* A deadlock victim, a constraint or a lost connection rolls back.        *)
Abort(q) ==
    /\ request[q] # Idle
    /\ request' = [request EXCEPT ![q] = Idle]
    /\ overtaken' = overtaken \ {q}
    /\ UNCHANGED <<chain, raced>>

-----------------------------------------------------------------------------
BeginRequest(q) ==
    \/ BeginAcceptClaim(q)
    \/ BeginDraftCurrent(q)
    \/ BeginApproveCurrent(q)
    \/ BeginDraftTarget(q)
    \/ BeginApproveTarget(q)
    \/ BeginCalculate(q)
    \/ BeginGeneratePacket(q)
    \/ BeginEditStep(q)

FinishRequest(q) ==
    \/ FinishAcceptClaim(q)
    \/ FinishDraftCurrent(q)
    \/ FinishDraftTarget(q)
    \/ FinishApproval(q)
    \/ FinishInsertCase(q)
    \/ FinishUpdateCase(q)
    \/ FinishGeneratePacket(q)
    \/ FinishEditStep(q)
    \/ \E e \in Cases : ApproveEconomics(q, e)

Next ==
    \E q \in Requests :
       BeginRequest(q) \/ StartUpdate(q) \/ LockRows(q) \/ FinishRequest(q) \/ Abort(q)

Spec == Init /\ [][Next]_vars

-----------------------------------------------------------------------------
(* Properties that hold under any interleaving                             *)

(* What is stale stays so: no approval or recalculation that was on its    *)
(* way when another request staled its row brings the row back.            *)
StaleForever == [][\A x \in Rows : status[x] = "stale" => status'[x] = "stale"]_vars

(* However many operators approve, one economic case is the approved one,  *)
(* and however many generate, one packet is current.                       *)
OneApprovedCase ==
    \A e, f \in Cases : status[e] = "approved" /\ status[f] = "approved" => e = f

OneCurrentPacket ==
    \A p, q \in Packets : status[p] = "current" /\ status[q] = "current" => p = q

(* What an open row was made from: the assertions that are verified now,   *)
(* or rows that are approved.                                              *)
InForce(x) ==
    IF x \in Currents THEN basis[x] = truth ELSE \A y \in basis[x] : status[y] = "approved"

(* Whatever overlaps, an open version rests on what is in force, unless    *)
(* what it was made from was staled while it was being made, or by a       *)
(* cascade that was under way when it committed: nothing that happens      *)
(* later, alone or not, leaves it behind.                                  *)
FreshUnlessRaced == \A x \in Live(Rows) \ raced : InForce(x)

-----------------------------------------------------------------------------
(* What the documents say, and overlapping requests break                  *)

(* Approved versions are immutable: no step of an approved workflow has    *)
(* changed since its approval.                                             *)
ApprovedImmutable == \A w \in amended : status[w] # "approved"
=============================================================================
