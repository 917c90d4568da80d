------------------------- MODULE DeliveryChainProofs -------------------------
(***************************************************************************)
(* Theorems about DeliveryChain for any number of requests and rows, and   *)
(* however requests overlap: that one case is approved and one packet      *)
(* current, that nothing stale comes back, and that what was not raced     *)
(* while it was being made is never left behind by a change upstream.      *)
(*                                                                         *)
(* Two facts carry the first part.  A row that a request is about to stale *)
(* or to approve is in its hands, so nobody else changes it.  And the      *)
(* numbers of a kind have no gaps, so a packet that is inserted under a    *)
(* number that is still free is inserted before any that its request has   *)
(* not seen.                                                               *)
(*                                                                         *)
(* Two facts carry the last part.  What a request has read is still so, or *)
(* the request has been overtaken.  And a cascade that matched the source  *)
(* of an open row matched the row, for it reaches all that is downstream,  *)
(* or the row came later, from a request that the cascade overtook.        *)
(***************************************************************************)
EXTENDS DeliveryChain, FiniteSetTheorems, WellFoundedInduction, TLAPS

USE DEF chain

Kinds == {Currents, Targets, Cases, Packets}

Transaction ==
    [at : {"idle", "read", "matched", "staled"},
     op : Ops,
     row : Rows \cup Claims \cup {NoRow},
     from : SUBSET (Claims \cup Rows),
     number : 0 .. Cardinality(Rows),
     matched : SUBSET Rows,
     held : SUBSET Rows]

Approvals == {"approve_current", "approve_target"}

(* The numbers up to n are taken.                                          *)
Counted(rs, n) == \A m \in 1 .. n : \E y \in rs : number[y] = m

(* The numbers of a kind have no gaps, and neither have those that a       *)
(* request found when it took the next one.                                *)
NumbersClosed ==
    /\ \A rs \in Kinds : \A x \in rs : Counted(rs, number[x])
    /\ \A q \in Requests :
        /\ request[q].op = "insert_case" => Counted(Cases, request[q].number - 1)
        /\ request[q].op = "generate_packet" => Counted(Packets, request[q].number - 1)

(* What a request is about.                                                *)
RequestsShaped ==
    \A q \in Requests :
        /\ request[q].op = "accept_claim" => request[q].row \in Claims
        /\ request[q].op \in {"insert_case", "generate_packet"} => request[q].number > 0
        /\ request[q].op = "edit_step" => request[q].row \in Workflows
        /\ request[q].op = "approve_current" => request[q].row \in Currents
        /\ request[q].op = "approve_target" => request[q].row \in Targets

(* What a request has locked is its own, and what it has matched is there. *)
LocksAgree ==
    /\ \A q, r \in Requests : q # r => request[q].held \cap request[r].held = {}
    /\ \A q \in Requests :
        /\ \A x \in request[q].matched : status[x] # "absent" /\ x \in Scope(request[q].op)
        /\ \A x \in request[q].held : status[x] # "absent"
        /\ request[q].at = "staled" => request[q].matched \subseteq request[q].held
        /\ request[q].op \in Approvals =>
              request[q].row \in request[q].held /\ status[request[q].row] = "draft"

(* A packet that a request has not matched came after it took its number.  *)
PacketsMatched ==
    \A q \in Requests :
        request[q].op = "generate_packet" /\ request[q].at \in {"matched", "staled"} =>
            \A p \in Packets :
                status[p] = "current" /\ number[p] < request[q].number => p \in request[q].matched

ChainInv ==
    /\ ChainTypeOK
    /\ NumbersClosed
    /\ RequestsShaped
    /\ LocksAgree
    /\ PacketsMatched
    /\ OneApprovedCase
    /\ OneCurrentPacket

-----------------------------------------------------------------------------
(* Rows and numbers                                                        *)

(* The kinds are disjoint, and there are finitely many rows.               *)
LEMMA RowFacts ==
    /\ IsFiniteSet(Rows) /\ Cardinality(Rows) \in Nat
    /\ Workflows \subseteq Rows /\ Claims \cap Rows = {} /\ NoRow \notin Rows \cup Claims
    /\ \A rs \in Kinds : rs \subseteq Rows
    /\ Currents \cap Targets = {} /\ Currents \cap Cases = {} /\ Currents \cap Packets = {}
    /\ Targets \cap Cases = {} /\ Targets \cap Packets = {} /\ Cases \cap Packets = {}
<1>1. IsFiniteSet(Rows) /\ Cardinality(Rows) \in Nat
  BY ChainAssumption, FS_CardinalityType
<1>2. /\ Workflows \subseteq Rows /\ Claims \cap Rows = {} /\ NoRow \notin Rows \cup Claims
      /\ \A rs \in Kinds : rs \subseteq Rows
  BY ChainAssumption DEF Rows, Workflows, Kinds
<1> QED BY <1>1, <1>2, ChainAssumption DEF Workflows

(* What the types say of the parts.                                        *)
LEMMA TypeFacts ==
    ASSUME ChainTypeOK
    PROVE  /\ request \in [Requests -> Transaction]
           /\ status \in [Rows -> {"absent", "draft", "approved", "current", "stale"}]
           /\ number \in [Rows -> 0 .. Cardinality(Rows)]
           /\ \A x \in Rows : number[x] \in Nat /\ (status[x] = "absent" <=> number[x] = 0)
BY RowFacts DEF ChainTypeOK, Transaction

(* Every set of positive numbers that is not empty has a least one.        *)
LEMMA LeastNumber ==
    ASSUME NEW T \in SUBSET Nat, T # {}
    PROVE  \E n \in T : \A m \in T : n <= m
<1>1. PICK n \in T : \A m \in T : ~ (<<m, n>> \in OpToRel(<, Nat))
  BY NatLessThanWellFounded, WFMin, Zenon
<1>2. \A m \in T : ~ (m < n)
  BY <1>1 DEF OpToRel
<1> QED BY <1>2

(* As many numbers as are taken, so many rows have one.                    *)
LEMMA NumbersBounded ==
    ASSUME ChainTypeOK, NEW rs \in Kinds, NEW n \in Nat, Counted(rs, n),
           NEW free \in SUBSET Rows, \A x \in free : x \in rs => number[x] \notin 1 .. n
    PROVE  n <= Cardinality(Rows \ free)
<1> DEFINE D == {x \in rs : number[x] \in 1 .. n}
           f == [x \in D |-> number[x]]
<1>1. D \in SUBSET (Rows \ free)
  BY RowFacts
<1>2. IsFiniteSet(Rows \ free) /\ Cardinality(Rows \ free) \in Nat
  BY RowFacts, FS_Difference, FS_CardinalityType
<1>3. IsFiniteSet(D) /\ Cardinality(D) <= Cardinality(Rows \ free) /\ Cardinality(D) \in Nat
  BY <1>1, <1>2, FS_Subset, FS_CardinalityType
<1>4. f \in Surjection(D, 1 .. n)
  <2>1. f \in [D -> 1 .. n]
    OBVIOUS
  <2>2. \A m \in 1 .. n : \E x \in D : f[x] = m
    BY DEF Counted
  <2> QED BY <2>1, <2>2 DEF Surjection
<1>5. Cardinality(1 .. n) <= Cardinality(D)
  BY <1>3, <1>4, FS_Surjection
<1>6. Cardinality(1 .. n) = n
  BY FS_Interval
<1> QED BY <1>2, <1>3, <1>5, <1>6

(* NextNumber is the first number that is free, and past all that are not. *)
LEMMA NextNumberIsNext ==
    ASSUME ChainTypeOK, NumbersClosed, NEW rs \in Kinds
    PROVE  /\ NextNumber(rs) \in Nat \ {0}
           /\ NextNumber(rs) <= Cardinality(Rows) + 1
           /\ \A x \in rs : number[x] < NextNumber(rs)
           /\ Counted(rs, NextNumber(rs) - 1)
<1> DEFINE N == Cardinality(Rows)
           P(n) == /\ \A x \in rs : number[x] < n
                   /\ n = 1 \/ \E x \in rs : number[x] = n - 1
           T == {m \in Nat : m # 0 /\ \A x \in rs : number[x] # m}
<1>1. \A x \in rs : number[x] \in 0 .. N /\ N \in Nat
  BY RowFacts, TypeFacts
<1>2. N + 1 \in T
  BY <1>1, RowFacts
<1>3. PICK n \in T : \A m \in T : n <= m
  BY <1>2, LeastNumber
<1>4. \A m \in 1 .. n - 1 : \E x \in rs : number[x] = m
  BY <1>3
<1>5. \A x \in rs : number[x] < n
  <2> SUFFICES ASSUME NEW x \in rs, ~(number[x] < n) PROVE FALSE
    OBVIOUS
  <2>1. n \in 1 .. number[x]
    BY <1>1, <1>3
  <2>2. \E y \in rs : number[y] = n
    BY <2>1 DEF NumbersClosed, Counted
  <2> QED BY <1>3, <2>2
<1>6. n \in 1 .. N + 1 /\ P(n)
  <2>1. n = 1 \/ \E x \in rs : number[x] = n - 1
    BY <1>3, <1>4
  <2> QED BY <1>2, <1>3, <1>5, <2>1, RowFacts
<1>7. NextNumber(rs) = CHOOSE k \in 1 .. N + 1 : P(k)
  BY DEF NextNumber
<1>8. NextNumber(rs) \in 1 .. N + 1 /\ P(NextNumber(rs))
  <2> HIDE DEF P
  <2> QED BY <1>6, <1>7
<1>9. Counted(rs, NextNumber(rs) - 1)
  <2>1. CASE NextNumber(rs) = 1
    BY <2>1 DEF Counted
  <2>2. CASE \E x \in rs : number[x] = NextNumber(rs) - 1
    BY <2>2 DEF NumbersClosed
  <2> QED BY <1>8, <2>1, <2>2
<1> QED BY <1>8, <1>9, RowFacts

(* A number fits that follows those taken, if a row is left for it.        *)
LEMMA NumberFits ==
    ASSUME ChainTypeOK, NEW rs \in Kinds, NEW n \in Nat \ {0}, Counted(rs, n - 1),
           NEW z \in Rows, z \in rs => number[z] = 0
    PROVE  n \in 0 .. Cardinality(Rows)
<1>1. \A x \in {z} : x \in rs => number[x] \notin 1 .. n - 1
  OBVIOUS
<1>2. n - 1 \in Nat /\ {z} \in SUBSET Rows
  OBVIOUS
<1>3. n - 1 <= Cardinality(Rows \ {z})
  BY <1>1, <1>2, NumbersBounded
<1>4. Cardinality(Rows \ {z}) = Cardinality(Rows) - 1
  BY RowFacts, FS_RemoveElement
<1> QED BY <1>3, <1>4, RowFacts

-----------------------------------------------------------------------------
(* The first two parts of a request                                        *)

(* What a transaction may look like beside the others.                     *)
Fits(q, R) ==
    /\ R \in Transaction
    /\ R.op = "accept_claim" => R.row \in Claims
    /\ R.op = "edit_step" => R.row \in Workflows
    /\ R.op = "approve_current" => R.row \in Currents
    /\ R.op = "approve_target" => R.row \in Targets
    /\ R.op \in Approvals => R.row \in R.held /\ status[R.row] = "draft"
    /\ R.op \in {"insert_case", "generate_packet"} => R.number > 0
    /\ R.op = "insert_case" => Counted(Cases, R.number - 1)
    /\ R.op = "generate_packet" => Counted(Packets, R.number - 1)
    /\ \A r \in Requests \ {q} : R.held \cap request[r].held = {}
    /\ \A x \in R.held : status[x] # "absent"
    /\ \A x \in R.matched : status[x] # "absent" /\ x \in Scope(R.op)
    /\ R.at = "staled" => R.matched \subseteq R.held
    /\ R.op = "generate_packet" /\ R.at \in {"matched", "staled"} =>
          \A p \in Packets : status[p] = "current" /\ number[p] < R.number => p \in R.matched

(* Only a request that begins or moves on changes, and the chain does not. *)
LEMMA RequestMoves ==
    ASSUME ChainInv, NEW q \in Requests, NEW R, Fits(q, R),
           request' = [request EXCEPT ![q] = R], UNCHANGED chain
    PROVE  ChainInv'
<1>0. /\ ChainTypeOK /\ NumbersClosed /\ RequestsShaped /\ LocksAgree /\ PacketsMatched
      /\ OneApprovedCase /\ OneCurrentPacket
  BY DEF ChainInv
<1>1. /\ request'[q] = R /\ request' \in [Requests -> Transaction]
      /\ \A r \in Requests \ {q} : request'[r] = request[r]
  BY <1>0, TypeFacts DEF Fits
<1>2. ChainTypeOK'
  BY <1>0, <1>1 DEF ChainTypeOK, Transaction
<1>3. NumbersClosed'
  <2>1. \A r \in Requests :
          /\ request'[r].op = "insert_case" => Counted(Cases, request'[r].number - 1)
          /\ request'[r].op = "generate_packet" => Counted(Packets, request'[r].number - 1)
    BY <1>0, <1>1 DEF NumbersClosed, Fits
  <2> QED BY <1>0, <2>1 DEF NumbersClosed, Counted
<1>4. RequestsShaped'
  BY <1>0, <1>1 DEF RequestsShaped, Fits
<1>5. LocksAgree'
  <2>1. \A r, t \in Requests : r # t => request'[r].held \cap request'[t].held = {}
    BY <1>0, <1>1 DEF LocksAgree, Fits
  <2>2. ASSUME NEW r \in Requests
        PROVE  /\ \A y \in request'[r].matched :
                     status[y] # "absent" /\ y \in Scope(request'[r].op)
               /\ \A y \in request'[r].held : status[y] # "absent"
               /\ request'[r].at = "staled" => request'[r].matched \subseteq request'[r].held
               /\ request'[r].op \in Approvals =>
                     request'[r].row \in request'[r].held /\ status[request'[r].row] = "draft"
    BY <1>0, <1>1 DEF LocksAgree, Fits
  <2>3. status' = status
    OBVIOUS
  <2> QED BY <2>1, <2>2, <2>3 DEF LocksAgree
<1>6. PacketsMatched'
  BY <1>0, <1>1 DEF PacketsMatched, Fits
<1>7. OneApprovedCase' /\ OneCurrentPacket'
  BY <1>0 DEF OneApprovedCase, OneCurrentPacket
<1> QED BY <1>2, <1>3, <1>4, <1>5, <1>6, <1>7 DEF ChainInv

(* Nothing is held by a request that is not there.                         *)
LEMMA IdleFits ==
    ASSUME ChainInv, NEW q \in Requests
    PROVE  Fits(q, Idle)
BY RowFacts DEF Fits, Idle, Transaction, Ops, Approvals

(* A request that rolls back leaves the others as they are.                *)
LEMMA AbortKeeps ==
    ASSUME ChainInv, NEW q \in Requests, Abort(q)
    PROVE  ChainInv'
BY IdleFits, RequestMoves DEF Abort

(* A transaction as it is has its place.                                   *)
LEMMA RequestFits ==
    ASSUME ChainInv, NEW q \in Requests
    PROVE  Fits(q, request[q])
BY TypeFacts
   DEF ChainInv, Fits, NumbersClosed, RequestsShaped, LocksAgree, PacketsMatched

(* The statement's snapshot.                                               *)
LEMMA StartUpdateKeeps ==
    ASSUME ChainInv, NEW q \in Requests, StartUpdate(q)
    PROVE  ChainInv'
<1> DEFINE old == request[q]
           matched == Live(Scope(old.op))
           R == [old EXCEPT !.at = "matched", !.matched = matched]
<1>0. ChainTypeOK /\ Fits(q, old) /\ old \in Transaction
  BY RequestFits, TypeFacts DEF ChainInv
<1>1. Scope(old.op) \subseteq Rows
  BY ChainAssumption DEF Scope, Rows, Workflows
<1>2. matched \subseteq Rows /\ \A x \in matched : x \in Scope(old.op) /\ status[x] # "absent"
  BY <1>0, <1>1, TypeFacts DEF Live
<1>3. old.op = "generate_packet" =>
          \A p \in Packets : status[p] = "current" => p \in matched
  BY DEF Scope, Live
<1> HIDE DEF matched
<1>4. /\ R \in Transaction /\ R.at = "matched" /\ R.matched = matched
      /\ R.op = old.op /\ R.row = old.row /\ R.from = old.from /\ R.number = old.number
      /\ R.held = old.held
  BY <1>0, <1>2 DEF Transaction
<1>5. Fits(q, R)
  <2> HIDE DEF R, old
  <2> QED BY <1>0, <1>2, <1>3, <1>4 DEF Fits
<1>6. request' = [request EXCEPT ![q] = R] /\ UNCHANGED chain
  BY <1>0, TypeFacts DEF StartUpdate, Transaction, matched
<1> QED BY <1>5, <1>6, RequestMoves

(* The row locks, and the second look at what still matches.               *)
LEMMA LockRowsKeeps ==
    ASSUME ChainInv, NEW q \in Requests, LockRows(q)
    PROVE  ChainInv'
<1> DEFINE old == request[q]
           matched == Live(old.matched)
           R == [old EXCEPT !.at = "staled", !.matched = matched, !.held = @ \cup matched]
<1>0. /\ ChainTypeOK /\ Fits(q, old) /\ old \in Transaction /\ old.at = "matched"
      /\ Unlocked(q, old.matched)
  BY RequestFits, TypeFacts DEF ChainInv, LockRows
<1>1. matched \subseteq old.matched /\ \A x \in matched : status[x] # "absent"
  BY DEF Live
<1>2. old.matched \subseteq Rows /\ old.held \subseteq Rows
  BY <1>0 DEF Transaction
<1>3. \A p \in old.matched : status[p] = "current" => p \in matched
  BY DEF Live
<1>4. \A r \in Requests \ {q} : request[r].held \cap old.matched = {}
  BY <1>0 DEF Unlocked
<1> HIDE DEF matched
<1>5. /\ R \in Transaction /\ R.at = "staled" /\ R.matched = matched
      /\ R.op = old.op /\ R.row = old.row /\ R.from = old.from /\ R.number = old.number
      /\ R.held = old.held \cup matched
  BY <1>0, <1>1, <1>2 DEF Transaction
<1>6. Fits(q, R)
  <2> HIDE DEF R, old
  <2> QED BY <1>0, <1>1, <1>3, <1>4, <1>5 DEF Fits
<1>7. request' = [request EXCEPT ![q] = R] /\ UNCHANGED chain
  BY <1>0, TypeFacts DEF LockRows, Transaction, matched
<1> QED BY <1>6, <1>7, RequestMoves

(* What the guards and reads of a request leave it with.                   *)
Begun(q, op, x, from, n, held) ==
    /\ Begin(q, op, x, from, n, held)
    /\ op \in Ops
    /\ x \in Rows \cup Claims \cup {NoRow} /\ from \subseteq Claims \cup Rows
    /\ n \in 0 .. Cardinality(Rows) /\ held \subseteq Rows
    /\ op = "accept_claim" => x \in Claims
    /\ op = "edit_step" => x \in Workflows
    /\ op = "approve_current" => x \in Currents
    /\ op = "approve_target" => x \in Targets
    /\ op \in Approvals => x \in held /\ status[x] = "draft"
    /\ \A y \in held : status[y] # "absent"
    /\ op \in {"insert_case", "generate_packet"} => n > 0
    /\ op = "insert_case" => Counted(Cases, n - 1)
    /\ op = "generate_packet" => Counted(Packets, n - 1)

(* A request that begins has its place among the others.                   *)
LEMMA BegunKeeps ==
    ASSUME ChainInv, NEW q \in Requests, NEW op, NEW x, NEW from, NEW n, NEW held,
           Begun(q, op, x, from, n, held)
    PROVE  ChainInv'
<1> DEFINE R == [Idle EXCEPT !.at = "read", !.op = op, !.row = x, !.from = from,
                             !.number = n, !.held = held]
<1>1. /\ R \in Transaction
      /\ R.at = "read" /\ R.op = op /\ R.row = x /\ R.from = from /\ R.number = n
      /\ R.held = held /\ R.matched = {}
  BY DEF Begun, Idle, Transaction
<1>2. request' = [request EXCEPT ![q] = R] /\ UNCHANGED chain
  BY DEF Begun, Begin
<1>3. \A r \in Requests \ {q} : held \cap request[r].held = {}
  BY DEF Begun, Begin, Unlocked
<1> HIDE DEF R
<1>4. Fits(q, R)
  BY <1>1, <1>3 DEF Begun, Fits
<1> QED BY <1>2, <1>4, RequestMoves

(* Every request begins so.                                                *)
LEMMA BeginRequestBegins ==
    ASSUME ChainInv, NEW q \in Requests, BeginRequest(q)
    PROVE  \E op, x, from, n, held : Begun(q, op, x, from, n, held)
<1> USE DEF Begun, Ops, Approvals
<1>0. /\ ChainTypeOK /\ NumbersClosed
      /\ 0 \in 0 .. Cardinality(Rows)
      /\ \A rs \in Kinds : rs \subseteq Rows
      /\ Workflows \subseteq Rows
  BY RowFacts DEF ChainInv
<1>t. truth \subseteq Claims
  BY <1>0 DEF ChainTypeOK
<1>k. Currents \in Kinds /\ Targets \in Kinds /\ Cases \in Kinds /\ Packets \in Kinds
  BY DEF Kinds
<1>r. /\ Currents \subseteq Rows /\ Targets \subseteq Rows
      /\ Cases \subseteq Rows /\ Packets \subseteq Rows
  BY <1>0, <1>k
<1>1. CASE BeginAcceptClaim(q)
  <2>1. PICK claim \in Claims : Begin(q, "accept_claim", claim, {}, 0, {})
    BY <1>1 DEF BeginAcceptClaim
  <2>2. Begun(q, "accept_claim", claim, {}, 0, {})
    BY <1>0, <2>1
  <2> QED BY <2>2
<1>2. CASE BeginDraftCurrent(q)
  <2>1. Begun(q, "draft_current", NoRow, truth, 0, {})
    BY <1>0, <1>t, <1>2 DEF BeginDraftCurrent
  <2> QED BY <2>1
<1>3. CASE BeginApproveCurrent(q)
  <2>1. PICK c \in Currents : status[c] = "draft" /\ Begin(q, "approve_current", c, {}, 0, {c})
    BY <1>3 DEF BeginApproveCurrent
  <2>2. Begun(q, "approve_current", c, {}, 0, {c})
    BY <1>0, <1>r, <2>1
  <2> QED BY <2>2
<1>4. CASE BeginDraftTarget(q)
  <2>1. PICK c \in Currents : Begin(q, "draft_target", NoRow, {c}, 0, {})
    BY <1>4 DEF BeginDraftTarget, Newest
  <2>2. Begun(q, "draft_target", NoRow, {c}, 0, {})
    BY <1>0, <1>r, <2>1
  <2> QED BY <2>2
<1>5. CASE BeginApproveTarget(q)
  <2>1. PICK t \in Targets : status[t] = "draft" /\ Begin(q, "approve_target", t, {}, 0, {t})
    BY <1>5 DEF BeginApproveTarget
  <2>2. Begun(q, "approve_target", t, {}, 0, {t})
    BY <1>0, <1>r, <2>1
  <2> QED BY <2>2
<1>6. CASE BeginCalculate(q)
  <2>1. PICK t \in Targets :
            \/ \E e \in Cases : status[e] = "draft" /\ Begin(q, "update_case", e, {t}, 0, {e})
            \/ Begin(q, "insert_case", NoRow, {t}, NextNumber(Cases), {})
    BY <1>6 DEF BeginCalculate, Newest, DraftsOf
  <2>2. CASE \E e \in Cases : status[e] = "draft" /\ Begin(q, "update_case", e, {t}, 0, {e})
    <3>1. PICK e \in Cases : status[e] = "draft" /\ Begin(q, "update_case", e, {t}, 0, {e})
      BY <2>2
    <3>2. Begun(q, "update_case", e, {t}, 0, {e})
      BY <1>0, <1>r, <3>1
    <3> QED BY <3>2
  <2>3. CASE Begin(q, "insert_case", NoRow, {t}, NextNumber(Cases), {})
    <3>1. t \in Rows /\ t \notin Cases
      BY <1>r, RowFacts
    <3>2. /\ NextNumber(Cases) \in Nat \ {0}
          /\ Counted(Cases, NextNumber(Cases) - 1)
      BY <1>0, <1>k, NextNumberIsNext
    <3>3. NextNumber(Cases) \in 0 .. Cardinality(Rows)
      BY <1>0, <1>k, <3>1, <3>2, NumberFits
    <3>4. Begun(q, "insert_case", NoRow, {t}, NextNumber(Cases), {})
      BY <1>0, <2>3, <3>1, <3>2, <3>3
    <3> QED BY <3>4
  <2> QED BY <2>1, <2>2, <2>3
<1>7. CASE BeginGeneratePacket(q)
  <2>1. PICK c \in Currents, t \in Targets, e \in Cases :
            Begin(q, "generate_packet", NoRow, {c, t, e}, NextNumber(Packets), {})
    BY <1>7 DEF BeginGeneratePacket, Newest
  <2>2. c \in Rows /\ t \in Rows /\ e \in Rows /\ c \notin Packets
    BY <1>r, RowFacts
  <2>3. NextNumber(Packets) \in Nat \ {0} /\ Counted(Packets, NextNumber(Packets) - 1)
    BY <1>0, <1>k, NextNumberIsNext
  <2>4. NextNumber(Packets) \in 0 .. Cardinality(Rows)
    BY <1>0, <1>k, <2>2, <2>3, NumberFits
  <2>5. Begun(q, "generate_packet", NoRow, {c, t, e}, NextNumber(Packets), {})
    BY <1>0, <2>1, <2>2, <2>3, <2>4
  <2> QED BY <2>5
<1>8. CASE BeginEditStep(q)
  <2>1. PICK w \in Workflows : Begin(q, "edit_step", w, {}, 0, {})
    BY <1>8 DEF BeginEditStep
  <2>2. Begun(q, "edit_step", w, {}, 0, {})
    BY <1>0, <2>1
  <2> QED BY <2>2
<1> QED BY <1>1, <1>2, <1>3, <1>4, <1>5, <1>6, <1>7, <1>8 DEF BeginRequest

-----------------------------------------------------------------------------
(* The third part of a request                                             *)

(* What a commit does to the rows: those that others hold stay, nothing    *)
(* disappears or comes back, and a current packet was one or has a number  *)
(* that was free.                                                          *)
Commits(q) ==
    /\ request' \in [Requests -> Transaction]
    /\ request'[q] \in {request[q], Idle}
    /\ \A r \in Requests \ {q} :
        /\ request'[r] = request[r]
        /\ \A x \in request[r].held : status'[x] = status[x]
    /\ \A x \in Rows :
        /\ status[x] # "absent" => status'[x] # "absent" /\ number'[x] = number[x]
        /\ status[x] = "stale" => status'[x] = "stale"
    /\ \A p \in Packets : status'[p] = "current" =>
        \/ status[p] = "current"
        \/ number'[p] \in Nat \ {0} /\ \A y \in Packets : number[y] # number'[p]
    /\ request'[q] = request[q] => \A x \in request[q].held : status'[x] = status[x]

(* The numbers that are taken stay so.                                     *)
LEMMA CommitsCount ==
    ASSUME ChainTypeOK, NEW q, Commits(q), NEW rs \in Kinds, NEW n \in Int, Counted(rs, n)
    PROVE  Counted(rs, n)'
<1>1. \A x \in rs : number[x] \in Nat /\ (number[x] # 0 => number'[x] = number[x])
  BY RowFacts, TypeFacts DEF Commits
<1> QED BY <1>1 DEF Counted

(* A commit leaves the other requests in their places.                     *)
LEMMA CommitsKeep ==
    ASSUME ChainInv, NEW q \in Requests, Commits(q)
    PROVE  /\ RequestsShaped' /\ LocksAgree' /\ PacketsMatched'
           /\ \A r \in Requests :
               /\ request'[r].op = "insert_case" => Counted(Cases, request[r].number - 1)'
               /\ request'[r].op = "generate_packet" => Counted(Packets, request[r].number - 1)'
<1>0. /\ ChainTypeOK /\ NumbersClosed /\ RequestsShaped /\ LocksAgree /\ PacketsMatched
      /\ request \in [Requests -> Transaction]
  BY TypeFacts DEF ChainInv
<1>k. Cases \in Kinds /\ Packets \in Kinds
  BY DEF Kinds
<1>i. /\ Idle.op = "none" /\ Idle.at = "idle" /\ Idle.matched = {} /\ Idle.held = {}
  BY DEF Idle
<1>1. \A r \in Requests : request'[r] \in {request[r], Idle}
  BY DEF Commits
<1>2. \A r \in Requests : request'[r] = request[r] =>
          \A x \in request[r].held : status'[x] = status[x]
  BY DEF Commits
<1>3. RequestsShaped'
  BY <1>0, <1>1, <1>i DEF RequestsShaped
<1>4. LocksAgree'
  <2>1. \A r, t \in Requests : r # t => request'[r].held \cap request'[t].held = {}
    BY <1>0, <1>1, <1>i DEF LocksAgree
  <2>2. ASSUME NEW r \in Requests
        PROVE  /\ \A x \in request'[r].matched :
                     status'[x] # "absent" /\ x \in Scope(request'[r].op)
               /\ \A x \in request'[r].held : status'[x] # "absent"
               /\ request'[r].at = "staled" => request'[r].matched \subseteq request'[r].held
               /\ request'[r].op \in Approvals =>
                     request'[r].row \in request'[r].held /\ status'[request'[r].row] = "draft"
    <3>1. CASE request'[r] = Idle
      BY <3>1, <1>i DEF Approvals
    <3>2. CASE request'[r] = request[r]
      <4>1. request[r].matched \subseteq Rows /\ request[r].held \subseteq Rows
        BY <1>0 DEF Transaction
      <4>2. /\ \A x \in request[r].matched : status'[x] # "absent"
            /\ \A x \in request[r].held : status'[x] # "absent"
        BY <1>0, <4>1 DEF LocksAgree, Commits
      <4>3. request[r].op \in Approvals => status'[request[r].row] = "draft"
        BY <1>0, <1>2, <3>2 DEF LocksAgree
      <4> QED BY <1>0, <3>2, <4>2, <4>3 DEF LocksAgree
    <3> QED BY <1>1, <3>1, <3>2
  <2> QED BY <2>1, <2>2 DEF LocksAgree
<1>5. ASSUME NEW r \in Requests
      PROVE  /\ request'[r].op = "insert_case" => Counted(Cases, request[r].number - 1)'
             /\ request'[r].op = "generate_packet" => Counted(Packets, request[r].number - 1)'
  <2>1. CASE request'[r] = Idle
    BY <2>1, <1>i
  <2>2. CASE request'[r] = request[r]
    <3>1. ASSUME NEW n \in Int, n = request[r].number - 1
          PROVE  /\ request[r].op = "insert_case" => Counted(Cases, n)'
                 /\ request[r].op = "generate_packet" => Counted(Packets, n)'
      <4>1. /\ request[r].op = "insert_case" => Counted(Cases, n)
            /\ request[r].op = "generate_packet" => Counted(Packets, n)
        BY <1>0, <3>1 DEF NumbersClosed
      <4> QED BY <1>0, <1>k, <4>1, CommitsCount
    <3>2. request[r].number - 1 \in Int
      BY <1>0, RowFacts DEF Transaction
    <3>3. \E n \in Int : n = request[r].number - 1
      BY <3>2
    <3> QED BY <2>2, <3>1, <3>3 DEF Counted
  <2> QED BY <1>1, <2>1, <2>2
<1>6. PacketsMatched'
  <2> SUFFICES ASSUME NEW r \in Requests, request'[r].op = "generate_packet",
                      request'[r].at \in {"matched", "staled"},
                      NEW p \in Packets, status'[p] = "current",
                      number'[p] < request'[r].number
               PROVE  p \in request'[r].matched
    BY DEF PacketsMatched
  <2>1. request'[r] = request[r]
    BY <1>1, <1>i
  <2>2. p \in Rows
    BY <1>k, RowFacts
  <2>3. CASE status[p] = "current"
    BY <1>0, <2>1, <2>2, <2>3 DEF Commits, PacketsMatched
  <2>4. CASE number'[p] \in Nat \ {0} /\ \A y \in Packets : number[y] # number'[p]
    <3>1. request[r].number \in Nat
      BY <1>0, RowFacts DEF Transaction
    <3>2. number'[p] \in 1 .. request[r].number - 1
      BY <2>1, <2>4, <3>1
    <3>3. Counted(Packets, request[r].number - 1)
      BY <1>0, <2>1 DEF NumbersClosed
    <3> QED BY <2>4, <3>2, <3>3 DEF Counted
  <2> QED BY <2>3, <2>4 DEF Commits
<1> QED BY <1>3, <1>4, <1>5, <1>6

(* The rows that a request has matched, and locked, become stale.          *)
LEMMA StaledRows ==
    ASSUME ChainInv, NEW q \in Requests, request[q].at = "staled"
    PROVE  /\ DOMAIN Staled(q) = Rows
           /\ \A x \in Rows :
               /\ x \in request[q].matched => Staled(q)[x] = "stale"
               /\ x \notin request[q].matched => Staled(q)[x] = status[x]
               /\ Staled(q)[x] \in Statuses(x)
               /\ Staled(q)[x] = "absent" <=> status[x] = "absent"
           /\ \A r \in Requests \ {q} : \A x \in request[r].held : Staled(q)[x] = status[x]
<1>0. ChainTypeOK /\ LocksAgree /\ request \in [Requests -> Transaction]
  BY TypeFacts DEF ChainInv
<1>1. \A x \in Rows : status[x] \in Statuses(x)
  BY <1>0 DEF ChainTypeOK
<1>2. \A x \in request[q].matched : status[x] # "absent"
  BY <1>0 DEF LocksAgree
<1>3. \A r \in Requests \ {q} : \A x \in request[r].held : x \in Rows /\ x \notin request[q].matched
  BY <1>0 DEF LocksAgree, Transaction
<1> QED BY <1>1, <1>2, <1>3 DEF Staled, Statuses

(* Who is not in the way any more.                                         *)
LEMMA IdleAgain ==
    ASSUME ChainInv, NEW q \in Requests, request' = [request EXCEPT ![q] = Idle]
    PROVE  /\ request' \in [Requests -> Transaction]
           /\ request'[q] = Idle
           /\ \A r \in Requests \ {q} : request'[r] = request[r]
           /\ Idle.held = {} /\ Idle.matched = {} /\ Idle.op = "none" /\ Idle.at = "idle"
<1>1. Idle \in Transaction /\ request \in [Requests -> Transaction]
  BY IdleFits, TypeFacts DEF Fits, ChainInv
<1>2. Idle.held = {} /\ Idle.matched = {} /\ Idle.op = "none" /\ Idle.at = "idle"
  BY DEF Idle
<1> HIDE DEF Idle
<1> QED BY <1>1, <1>2

(* What the rows look like after a commit.                                 *)
ChainTyped ==
    /\ truth \subseteq Claims
    /\ status \in [Rows -> {"absent", "draft", "approved", "current", "stale"}]
    /\ \A x \in Rows : status[x] \in Statuses(x)
    /\ \A x \in Rows : status[x] = "absent" <=> number[x] = 0
    /\ number \in [Rows -> 0 .. Cardinality(Rows)]
    /\ basis \in [Rows -> SUBSET (Claims \cup Rows)]
    /\ amended \subseteq Workflows

NoGaps == \A rs \in Kinds : \A x \in rs : Counted(rs, number[x])

(* The rows together with the requests.                                    *)
LEMMA CommitsKeepAll ==
    ASSUME ChainInv, NEW q \in Requests, Commits(q), ChainTyped', NoGaps',
           OneApprovedCase', OneCurrentPacket'
    PROVE  ChainInv'
<1>1. ChainTypeOK'
  BY DEF ChainTyped, ChainTypeOK, Commits, Transaction
<1>2. NumbersClosed'
  BY CommitsKeep DEF NoGaps, NumbersClosed
<1> QED BY <1>1, <1>2, CommitsKeep DEF ChainInv

(* A commit that only stales rows, and may accept a claim.                 *)
LEMMA StalingKeeps ==
    ASSUME ChainInv, NEW q \in Requests, request[q].at = "staled",
           request' = [request EXCEPT ![q] = Idle],
           status' = Staled(q), truth' \subseteq Claims,
           UNCHANGED <<number, basis, amended>>
    PROVE  Commits(q) /\ ChainInv'
<1>0. ChainTypeOK /\ NumbersClosed /\ OneApprovedCase /\ OneCurrentPacket
  BY DEF ChainInv
<1>k. Cases \subseteq Rows /\ Packets \subseteq Rows
  BY RowFacts DEF Kinds
<1>1. Commits(q)
  <2>1. \A x \in Rows :
          /\ status[x] # "absent" => status'[x] # "absent" /\ number'[x] = number[x]
          /\ status[x] = "stale" => status'[x] = "stale"
    BY StaledRows
  <2>2. \A p \in Packets : status'[p] = "current" => status[p] = "current"
    BY <1>k, StaledRows
  <2>3. \A r \in Requests \ {q} : \A x \in request[r].held : status'[x] = status[x]
    BY StaledRows
  <2> QED BY <2>1, <2>2, <2>3, IdleAgain DEF Commits
<1>2. ChainTyped'
  <2>1. \A x \in Rows : status'[x] \in Statuses(x)
    BY StaledRows
  <2>2. status' \in [Rows -> {"absent", "draft", "approved", "current", "stale"}]
    BY <1>0, TypeFacts DEF Staled
  <2>3. \A x \in Rows : status'[x] = "absent" <=> number[x] = 0
    BY <1>0, TypeFacts, StaledRows
  <2> QED BY <1>0, <2>1, <2>2, <2>3 DEF ChainTypeOK, ChainTyped, Statuses
<1>3. NoGaps'
  BY <1>0 DEF NumbersClosed, NoGaps, Counted
<1>4. OneApprovedCase' /\ OneCurrentPacket'
  BY <1>0, <1>k, StaledRows DEF OneApprovedCase, OneCurrentPacket
<1> QED BY <1>1, <1>2, <1>3, <1>4, CommitsKeepAll

(* A commit that inserts a row, under a number that follows those taken.   *)
LEMMA InsertKeeps ==
    ASSUME ChainInv, NEW q \in Requests, request[q].at = "staled",
           request' = [request EXCEPT ![q] = Idle],
           NEW rs \in Kinds, NEW s, NEW n \in Nat \ {0}, Insert(q, rs, s, n),
           s = IF rs = Packets THEN "current" ELSE "draft",
           Counted(rs, n - 1),
           rs = Packets => \A p \in Packets : status[p] = "current" => p \in request[q].matched
    PROVE  Commits(q) /\ ChainInv'
<1>0. /\ ChainTypeOK /\ NumbersClosed /\ OneApprovedCase /\ OneCurrentPacket /\ LocksAgree
      /\ request \in [Requests -> Transaction]
  BY TypeFacts DEF ChainInv
<1>k. /\ rs \subseteq Rows /\ Cases \subseteq Rows /\ Packets \subseteq Rows
      /\ rs # Packets => rs \cap Packets = {}
  BY RowFacts DEF Kinds
<1>1. PICK x \in rs : /\ status[x] = "absent"
                      /\ status' = [Staled(q) EXCEPT ![x] = s]
                      /\ number' = [number EXCEPT ![x] = n]
                      /\ basis' = [basis EXCEPT ![x] = request[q].from]
  BY DEF Insert
<1>2. /\ \A y \in rs : number[y] # n
      /\ UNCHANGED <<truth, amended>>
  BY DEF Insert
<1>3. x \in Rows /\ number[x] = 0 /\ s \in {"draft", "current"} /\ s \in Statuses(x)
  BY <1>0, <1>1, <1>k, TypeFacts DEF Statuses
<1>4. n \in 0 .. Cardinality(Rows)
  BY <1>0, <1>3, NumberFits
<1>5. /\ number' \in [Rows -> 0 .. Cardinality(Rows)] /\ number'[x] = n
      /\ \A y \in Rows \ {x} : number'[y] = number[y]
  BY <1>0, <1>1, <1>3, <1>4, TypeFacts
<1>6. /\ status'[x] = s
      /\ \A y \in Rows \ {x} : status'[y] = Staled(q)[y]
      /\ DOMAIN status' = Rows
  BY <1>1, <1>3, StaledRows
<1>7. \A r \in Requests \ {q} : \A y \in request[r].held : y \in Rows /\ y # x
  BY <1>0, <1>1 DEF LocksAgree, Transaction
<1>8. Commits(q)
  <2>1. \A y \in Rows :
          /\ status[y] # "absent" => status'[y] # "absent" /\ number'[y] = number[y]
          /\ status[y] = "stale" => status'[y] = "stale"
    BY <1>1, <1>5, <1>6, StaledRows
  <2>2. \A r \in Requests \ {q} : \A y \in request[r].held : status'[y] = status[y]
    BY <1>6, <1>7, StaledRows
  <2>3. ASSUME NEW p \in Packets, status'[p] = "current", status[p] # "current"
        PROVE  number'[p] \in Nat \ {0} /\ \A y \in Packets : number[y] # number'[p]
    <3>1. p = x
      BY <1>6, <1>k, <2>3, StaledRows
    <3>2. rs = Packets
      BY <1>1, <1>k, <3>1
    <3> QED BY <1>2, <1>5, <3>1, <3>2
  <2> QED BY <2>1, <2>2, <2>3, IdleAgain DEF Commits
<1>9. ChainTyped'
  <2>1. \A y \in Rows : status'[y] \in Statuses(y)
    BY <1>3, <1>6, StaledRows
  <2>2. status' \in [Rows -> {"absent", "draft", "approved", "current", "stale"}]
    BY <1>1, <1>6, <2>1 DEF Statuses
  <2>3. \A y \in Rows : status'[y] = "absent" <=> number'[y] = 0
    BY <1>0, <1>3, <1>5, <1>6, TypeFacts, StaledRows
  <2>4. basis' \in [Rows -> SUBSET (Claims \cup Rows)]
    BY <1>0, <1>1, <1>3 DEF ChainTypeOK, Transaction
  <2> QED BY <1>0, <1>2, <1>5, <2>1, <2>2, <2>3, <2>4 DEF ChainTypeOK, ChainTyped, Statuses
<1>10. NoGaps'
  <2> SUFFICES ASSUME NEW ks \in Kinds, NEW y \in ks, NEW m \in 1 .. number'[y]
               PROVE  \E z \in ks : number'[z] = m
    BY DEF NoGaps, Counted
  <2>1. ks \subseteq Rows /\ (x \in ks => ks = rs)
    BY <1>1, RowFacts DEF Kinds
  <2>2. ASSUME NEW z \in ks, number[z] = m
        PROVE  number'[z] = m
    BY <1>3, <1>5, <2>1, <2>2
  <2>3. CASE y = x
    <3>1. ks = rs
      BY <2>1, <2>3
    <3>2. m = n \/ m \in 1 .. n - 1
      BY <1>5, <2>3
    <3> QED BY <1>1, <1>5, <2>2, <3>1, <3>2 DEF Counted
  <2>4. CASE y # x
    <3>1. number'[y] = number[y]
      BY <1>5, <2>1, <2>4
    <3>2. \E z \in ks : number[z] = m
      BY <1>0, <3>1 DEF NumbersClosed, Counted
    <3> QED BY <2>2, <3>2
  <2> QED BY <2>3, <2>4
<1>11. OneApprovedCase'
  BY <1>0, <1>3, <1>6, <1>k, StaledRows DEF OneApprovedCase
<1>12. OneCurrentPacket'
  <2>1. CASE rs = Packets
    <3>1. \A p \in Packets : p # x => status'[p] # "current"
      BY <1>6, <1>k, <2>1, StaledRows
    <3> QED BY <3>1 DEF OneCurrentPacket
  <2>2. CASE rs # Packets
    <3>1. \A p \in Packets : p \in Rows \ {x}
      BY <1>1, <1>k, <2>2
    <3>2. \A p \in Packets : status'[p] = "current" => status[p] = "current"
      BY <1>6, <3>1, StaledRows
    <3> QED BY <1>0, <3>2 DEF OneCurrentPacket
  <2> QED BY <2>1, <2>2
<1> QED BY <1>8, <1>9, <1>10, <1>11, <1>12, CommitsKeepAll

(* A commit that also approves a workflow, which was a draft of its own.   *)
LEMMA ApprovalKeeps ==
    ASSUME ChainInv, NEW q \in Requests, FinishApproval(q)
    PROVE  Commits(q) /\ ChainInv'
<1> DEFINE w == request[q].row
<1>0. /\ ChainTypeOK /\ NumbersClosed /\ OneApprovedCase /\ OneCurrentPacket /\ LocksAgree
      /\ RequestsShaped /\ request \in [Requests -> Transaction]
  BY TypeFacts DEF ChainInv
<1>1. /\ request[q].op \in Approvals /\ request[q].at = "staled"
      /\ request' = [request EXCEPT ![q] = Idle]
      /\ status' = [Staled(q) EXCEPT ![w] = "approved"]
      /\ UNCHANGED <<truth, number, basis, amended>>
  BY DEF FinishApproval, Finish, Approvals
<1>2. w \in Workflows /\ w \in request[q].held /\ status[w] = "draft"
  BY <1>0, <1>1 DEF LocksAgree, RequestsShaped, Approvals, Workflows
<1>k. /\ Workflows \subseteq Rows /\ Cases \subseteq Rows /\ Packets \subseteq Rows
      /\ w \in Rows /\ w \notin Cases /\ w \notin Packets
  BY <1>2, RowFacts, ChainAssumption DEF Kinds
<1> HIDE DEF w
<1>3. /\ status'[w] = "approved"
      /\ \A y \in Rows \ {w} : status'[y] = Staled(q)[y]
      /\ DOMAIN status' = Rows
  BY <1>1, <1>k, StaledRows
<1>4. \A r \in Requests \ {q} : \A y \in request[r].held : y \in Rows /\ y # w
  BY <1>0, <1>2 DEF LocksAgree, Transaction
<1>5. Commits(q)
  <2>1. \A x \in Rows :
          /\ status[x] # "absent" => status'[x] # "absent" /\ number'[x] = number[x]
          /\ status[x] = "stale" => status'[x] = "stale"
    BY <1>1, <1>2, <1>3, StaledRows
  <2>2. \A p \in Packets : status'[p] = "current" => status[p] = "current"
    BY <1>1, <1>3, <1>k, StaledRows
  <2>3. \A r \in Requests \ {q} : \A x \in request[r].held : status'[x] = status[x]
    BY <1>1, <1>3, <1>4, StaledRows
  <2> QED BY <1>1, <2>1, <2>2, <2>3, IdleAgain DEF Commits
<1>6. ChainTyped'
  <2>1. \A y \in Rows : status'[y] \in Statuses(y)
    BY <1>1, <1>3, <1>k, StaledRows DEF Statuses
  <2>2. status' \in [Rows -> {"absent", "draft", "approved", "current", "stale"}]
    BY <1>1, <1>3, <2>1 DEF Statuses
  <2>3. \A y \in Rows : status'[y] = "absent" <=> number[y] = 0
    BY <1>0, <1>1, <1>2, <1>3, <1>k, TypeFacts, StaledRows
  <2> QED BY <1>0, <1>1, <2>1, <2>2, <2>3 DEF ChainTypeOK, ChainTyped, Statuses
<1>7. NoGaps'
  BY <1>0, <1>1 DEF NumbersClosed, NoGaps, Counted
<1>8. OneApprovedCase' /\ OneCurrentPacket'
  <2>1. /\ \A e \in Cases : status'[e] = "approved" => status[e] = "approved"
        /\ \A p \in Packets : status'[p] = "current" => status[p] = "current"
    BY <1>1, <1>3, <1>k, StaledRows
  <2> QED BY <1>0, <2>1 DEF OneApprovedCase, OneCurrentPacket
<1> QED BY <1>5, <1>6, <1>7, <1>8, CommitsKeepAll

(* Every step of the cascade's third part is one of these.                 *)
LEMMA FinishKeeps ==
    ASSUME ChainInv, NEW q \in Requests,
           \/ FinishAcceptClaim(q) \/ FinishDraftCurrent(q) \/ FinishDraftTarget(q)
           \/ FinishApproval(q) \/ FinishInsertCase(q) \/ FinishUpdateCase(q)
           \/ FinishGeneratePacket(q)
    PROVE  Commits(q) /\ ChainInv'
<1> USE DEF Finish
<1>0. /\ ChainTypeOK /\ NumbersClosed /\ RequestsShaped /\ PacketsMatched
      /\ request \in [Requests -> Transaction]
  BY TypeFacts DEF ChainInv
<1>k. /\ Currents \in Kinds /\ Targets \in Kinds /\ Cases \in Kinds /\ Packets \in Kinds
      /\ \A rs \in Kinds : rs \subseteq Rows
  BY RowFacts DEF Kinds
<1>1. CASE FinishAcceptClaim(q)
  <2>1. truth' \subseteq Claims
    BY <1>0, <1>1 DEF FinishAcceptClaim, RequestsShaped, ChainTypeOK
  <2> QED BY <1>1, <2>1, StalingKeeps DEF FinishAcceptClaim
<1>2. CASE FinishUpdateCase(q)
  BY <1>0, <1>2, StalingKeeps DEF FinishUpdateCase, ChainTypeOK
<1>3. CASE FinishDraftCurrent(q)
  <2>1. NextNumber(Currents) \in Nat \ {0} /\ Counted(Currents, NextNumber(Currents) - 1)
    BY <1>0, <1>k, NextNumberIsNext
  <2>2. \E x \in Currents : status[x] = "absent"
    BY <1>3 DEF FinishDraftCurrent, Insert
  <2>3. Currents # Packets
    BY <2>2, <1>k, RowFacts
  <2> QED BY <1>k, <1>3, <2>1, <2>3, InsertKeeps DEF FinishDraftCurrent
<1>4. CASE FinishDraftTarget(q)
  <2>1. NextNumber(Targets) \in Nat \ {0} /\ Counted(Targets, NextNumber(Targets) - 1)
    BY <1>0, <1>k, NextNumberIsNext
  <2>2. \E x \in Targets : status[x] = "absent"
    BY <1>4 DEF FinishDraftTarget, Insert
  <2>3. Targets # Packets
    BY <2>2, <1>k, RowFacts
  <2> QED BY <1>k, <1>4, <2>1, <2>3, InsertKeeps DEF FinishDraftTarget
<1>5. CASE FinishInsertCase(q)
  <2>1. request[q].number \in Nat \ {0} /\ Counted(Cases, request[q].number - 1)
    BY <1>0, <1>5, RowFacts
       DEF FinishInsertCase, RequestsShaped, NumbersClosed, Transaction
  <2>2. \E x \in Cases : status[x] = "absent"
    BY <1>5 DEF FinishInsertCase, Insert
  <2>3. Cases # Packets
    BY <2>2, <1>k, RowFacts
  <2> QED BY <1>k, <1>5, <2>1, <2>3, InsertKeeps DEF FinishInsertCase
<1>6. CASE FinishGeneratePacket(q)
  <2> DEFINE n == request[q].number
  <2>1. n \in Nat \ {0} /\ Counted(Packets, n - 1)
    BY <1>0, <1>6, RowFacts
       DEF FinishGeneratePacket, RequestsShaped, NumbersClosed, Transaction
  <2>2. Insert(q, Packets, "current", n)
    BY <1>6 DEF FinishGeneratePacket, PacketNumber
  <2>3. \A p \in Packets : number[p] < n
    <3> SUFFICES ASSUME NEW p \in Packets, ~(number[p] < n) PROVE FALSE
      OBVIOUS
    <3>1. number[p] \in Nat
      BY <1>0, <1>k, TypeFacts
    <3>2. n \in 1 .. number[p]
      BY <2>1, <3>1
    <3>3. \E y \in Packets : number[y] = n
      BY <1>0, <1>k, <3>2 DEF NumbersClosed, Counted
    <3> QED BY <2>2, <3>3 DEF Insert
  <2>4. \A p \in Packets : status[p] = "current" => p \in request[q].matched
    BY <1>0, <1>6, <2>3 DEF FinishGeneratePacket, PacketsMatched
  <2> QED BY <1>k, <1>6, <2>1, <2>2, <2>4, InsertKeeps DEF FinishGeneratePacket
<1> QED BY <1>1, <1>2, <1>3, <1>4, <1>5, <1>6, ApprovalKeeps

(* An edit counts, and ends its request.                                   *)
LEMMA EditKeeps ==
    ASSUME ChainInv, NEW q \in Requests, FinishEditStep(q)
    PROVE  Commits(q) /\ ChainInv'
<1>0. /\ ChainTypeOK /\ NumbersClosed /\ RequestsShaped /\ OneApprovedCase /\ OneCurrentPacket
      /\ request' = [request EXCEPT ![q] = Idle]
      /\ UNCHANGED <<truth, status, number, basis>>
  BY DEF ChainInv, FinishEditStep
<1>1. Commits(q)
  BY <1>0, IdleAgain DEF Commits
<1>2. ChainTyped'
  <2>1. request[q].row \in Workflows
    BY <1>0 DEF FinishEditStep, RequestsShaped
  <2>2. amended' \subseteq Workflows
    BY <1>0, <2>1 DEF ChainTypeOK, FinishEditStep
  <2> QED BY <1>0, <2>2 DEF ChainTypeOK, ChainTyped, Statuses
<1>3. NoGaps' /\ OneApprovedCase' /\ OneCurrentPacket'
  BY <1>0 DEF NumbersClosed, NoGaps, Counted, OneApprovedCase, OneCurrentPacket
<1> QED BY <1>1, <1>2, <1>3, CommitsKeepAll

(* The approval of economics takes its rows and commits in one part.       *)
LEMMA EconomicsKeeps ==
    ASSUME ChainInv, NEW q \in Requests, NEW e \in Cases, ApproveEconomics(q, e)
    PROVE  Commits(q) /\ ChainInv'
<1> DEFINE stales == Replaced(e) \cup Live(Packets)
<1>0. /\ ChainTypeOK /\ NumbersClosed /\ OneApprovedCase /\ OneCurrentPacket /\ LocksAgree
      /\ request \in [Requests -> Transaction]
      /\ Cases \subseteq Rows /\ Packets \subseteq Rows /\ Cases \cap Packets = {}
  BY TypeFacts, RowFacts DEF ChainInv, Kinds
<1>1. /\ request[q] = Idle /\ status[e] = "draft" /\ Unlocked(q, stales \cup {e})
      /\ status' = [x \in Rows |-> IF x = e THEN "approved"
                                   ELSE IF x \in stales THEN "stale" ELSE status[x]]
      /\ UNCHANGED <<truth, number, basis, amended, request>>
  BY DEF ApproveEconomics
<1>2. \A x \in stales : x \in Rows /\ status[x] \in {"draft", "approved", "current"}
  BY <1>0 DEF Replaced, Live
<1>3. \A f \in Cases : f # e /\ status[f] = "approved" => f \in stales
  BY DEF Replaced
<1>4. \A r \in Requests \ {q} : \A x \in request[r].held : x \in Rows /\ x \notin stales /\ x # e
  BY <1>0, <1>1 DEF Unlocked, Transaction
<1> HIDE DEF stales
<1>5. Commits(q)
  <2>1. \A x \in Rows :
          /\ status[x] # "absent" => status'[x] # "absent" /\ number'[x] = number[x]
          /\ status[x] = "stale" => status'[x] = "stale"
    BY <1>1, <1>2
  <2>2. \A p \in Packets : status'[p] = "current" => status[p] = "current"
    BY <1>0, <1>1
  <2>3. \A r \in Requests \ {q} : \A x \in request[r].held : status'[x] = status[x]
    BY <1>1, <1>4
  <2>4. request[q].held = {}
    BY <1>1 DEF Idle
  <2> QED BY <1>0, <1>1, <2>1, <2>2, <2>3, <2>4 DEF Commits
<1>6. ChainTyped'
  <2>1. \A x \in Rows : status'[x] \in Statuses(x)
    BY <1>0, <1>1 DEF ChainTypeOK, Statuses
  <2>2. status' \in [Rows -> {"absent", "draft", "approved", "current", "stale"}]
    BY <1>0, <1>1, TypeFacts
  <2>3. \A x \in Rows : status'[x] = "absent" <=> number[x] = 0
    BY <1>0, <1>1, <1>2, TypeFacts
  <2> QED BY <1>0, <1>1, <2>1, <2>2, <2>3 DEF ChainTypeOK, ChainTyped, Statuses
<1>7. NoGaps'
  BY <1>0, <1>1 DEF NumbersClosed, NoGaps, Counted
<1>8. OneApprovedCase'
  BY <1>0, <1>1, <1>3 DEF OneApprovedCase
<1>9. OneCurrentPacket'
  <2>1. \A p \in Packets : status'[p] = "current" => status[p] = "current"
    BY <1>0, <1>1
  <2> QED BY <1>0, <2>1 DEF OneCurrentPacket
<1> QED BY <1>5, <1>6, <1>7, <1>8, <1>9, CommitsKeepAll

-----------------------------------------------------------------------------
(* Any interleaving                                                        *)

(* At first there is no row and no request.                                *)
LEMMA ChainInit == Init => ChainInv
<1> SUFFICES ASSUME Init PROVE ChainInv
  OBVIOUS
<1>1. \A q \in Requests : request[q] = Idle
  BY DEF Init
<1>2. ChainTypeOK
  BY RowFacts, ChainAssumption DEF Init, ChainTypeOK, Idle, Ops, Statuses
<1>3. NumbersClosed
  BY <1>1, RowFacts DEF Init, NumbersClosed, Counted, Idle
<1>4. RequestsShaped /\ LocksAgree /\ PacketsMatched
  BY <1>1 DEF RequestsShaped, LocksAgree, PacketsMatched, Idle, Approvals
<1>5. OneApprovedCase /\ OneCurrentPacket
  BY RowFacts DEF Init, OneApprovedCase, OneCurrentPacket, Kinds
<1> QED BY <1>2, <1>3, <1>4, <1>5 DEF ChainInv

(* A step moves a request on and leaves the chain, or it commits.          *)
LEMMA ChainStep ==
    ASSUME ChainInv, [Next]_vars
    PROVE  /\ ChainInv'
           /\ UNCHANGED chain \/ \E q \in Requests : Commits(q)
<1>1. CASE UNCHANGED vars
  <2>1. UNCHANGED chain
    BY <1>1 DEF vars
  <2>2. ChainInv'
    BY <1>1 DEF vars, ChainInv, ChainTypeOK, NumbersClosed, Counted, RequestsShaped, LocksAgree,
                PacketsMatched, OneApprovedCase, OneCurrentPacket, Statuses
  <2> QED BY <2>1, <2>2
<1>2. ASSUME NEW q \in Requests, BeginRequest(q)
      PROVE  ChainInv' /\ UNCHANGED chain
  <2>1. PICK op, x, from, n, held : Begun(q, op, x, from, n, held)
    BY <1>2, BeginRequestBegins
  <2>2. ChainInv'
    BY <2>1, BegunKeeps
  <2>3. UNCHANGED chain
    BY <2>1 DEF Begun, Begin
  <2> QED BY <2>2, <2>3
<1>3. ASSUME NEW q \in Requests, StartUpdate(q) \/ LockRows(q) \/ Abort(q)
      PROVE  ChainInv' /\ UNCHANGED chain
  <2>1. UNCHANGED chain
    BY <1>3 DEF StartUpdate, LockRows, Abort
  <2> QED BY <1>3, <2>1, StartUpdateKeeps, LockRowsKeeps, AbortKeeps
<1>4. ASSUME NEW q \in Requests, FinishRequest(q)
      PROVE  ChainInv' /\ Commits(q)
  BY <1>4, FinishKeeps, EditKeeps, EconomicsKeeps DEF FinishRequest
<1> QED BY <1>1, <1>2, <1>3, <1>4 DEF Next

(* Requests share no lock, what they hold is what they found, and the      *)
(* numbers of each kind have no gaps.                                      *)
THEOREM ChainInvariant == Spec => []ChainInv
<1>1. ChainInv /\ [Next]_vars => ChainInv'
  BY ChainStep
<1> QED BY <1>1, ChainInit, PTL DEF Spec

(* The history names requests and rows that exist.                         *)
LEMMA HistoryTyped ==
    ASSUME ChainTypeOK, overtaken \subseteq Requests, raced \subseteq Rows, [Next]_vars
    PROVE  overtaken' \subseteq Requests /\ raced' \subseteq Rows
<1> USE DEF history
<1>1. CASE UNCHANGED vars
  BY <1>1 DEF vars
<1>2. ASSUME NEW q \in Requests, BeginRequest(q) \/ StartUpdate(q) \/ LockRows(q) \/ Abort(q)
      PROVE  overtaken' \subseteq Requests /\ raced' \subseteq Rows
  BY <1>2 DEF BeginRequest, BeginAcceptClaim, BeginDraftCurrent, BeginApproveCurrent,
              BeginDraftTarget, BeginApproveTarget, BeginCalculate, BeginGeneratePacket,
              BeginEditStep, Begin, StartUpdate, LockRows, Abort
<1>3. ASSUME NEW q \in Requests, FinishRequest(q)
      PROVE  overtaken' \subseteq Requests /\ raced' \subseteq Rows
  <2>1. overtaken' \subseteq Requests
    BY <1>3 DEF FinishRequest, FinishAcceptClaim, FinishDraftCurrent, FinishDraftTarget,
                FinishApproval, FinishInsertCase, FinishUpdateCase, FinishGeneratePacket,
                FinishEditStep, ApproveEconomics, Finish
  <2>2. ASSUME NEW rs \in Kinds, NEW s, NEW n, Insert(q, rs, s, n)
        PROVE  raced' \subseteq Rows
    BY <2>2, RowFacts DEF Insert
  <2>3. raced' \subseteq Rows
    BY <1>3, <2>2 DEF FinishRequest, FinishAcceptClaim, FinishDraftCurrent, FinishDraftTarget,
                FinishApproval, FinishInsertCase, FinishUpdateCase, FinishGeneratePacket,
                FinishEditStep, ApproveEconomics, Kinds
  <2> QED BY <2>1, <2>3
<1> QED BY <1>1, <1>2, <1>3 DEF Next

(* Rows and requests keep to their types, and a row has a number exactly   *)
(* when it is there.                                                       *)
THEOREM ChainTypes == Spec => []TypeOK
<1>1. Init => TypeOK
  BY ChainInit DEF ChainInv, TypeOK, Init
<1>2. ChainInv /\ ChainInv' /\ TypeOK /\ [Next]_vars => TypeOK'
  BY HistoryTyped DEF ChainInv, TypeOK
<1> QED BY <1>1, <1>2, ChainInvariant, PTL DEF Spec

(* However many operators approve economics, one case is approved.         *)
THEOREM OneCaseApproved == Spec => []OneApprovedCase
<1>1. ChainInv => OneApprovedCase
  BY DEF ChainInv
<1> QED BY <1>1, ChainInvariant, PTL

(* However many operators generate a packet, one is current.               *)
THEOREM OnePacketCurrent == Spec => []OneCurrentPacket
<1>1. ChainInv => OneCurrentPacket
  BY DEF ChainInv
<1> QED BY <1>1, ChainInvariant, PTL

(* No request that was on its way brings back what another has staled.     *)
THEOREM StaleStays == Spec => StaleForever
<1>1. ChainInv /\ [Next]_vars =>
          [\A x \in Rows : status[x] = "stale" => status'[x] = "stale"]_vars
  BY ChainStep DEF Commits
<1> QED BY <1>1, ChainInvariant, PTL DEF Spec, StaleForever

-----------------------------------------------------------------------------
(* What is left behind, and what is not                                    *)

Open == {"draft", "approved", "current"}

(* What the request of an operation reads and makes a row from; a new      *)
(* current workflow is made from claims.                                   *)
Upstream(op) ==
    CASE op = "draft_target" -> Currents
      [] op = "insert_case" -> Targets
      [] op = "generate_packet" -> Currents \cup Targets \cup Cases
      [] OTHER -> {}

Makers == {"draft_target", "insert_case", "generate_packet"}

SourcesShaped ==
    /\ \A q \in Requests :
          request[q].op \in Makers => request[q].from \subseteq Upstream(request[q].op)
    /\ \A t \in Targets : basis[t] \subseteq Currents
    /\ \A e \in Cases : basis[e] \subseteq Targets
    /\ \A p \in Packets : basis[p] \subseteq Currents \cup Targets \cup Cases

(* What a request that is not overtaken has read is still so.              *)
StillReads(R) ==
    /\ R.op = "draft_current" => R.from = truth
    /\ R.op \in Makers => \A y \in R.from : status[y] = "approved"

(* A cascade that matched the source of an open row matched the row.       *)
Reaches(R) ==
    R.at \in {"matched", "staled"} =>
        \A x \in Rows : status[x] \in Open /\ x \notin raced =>
            /\ R.op = "accept_claim" /\ x \in Currents => x \in R.matched
            /\ x \notin Currents /\ basis[x] \cap R.matched # {} => x \in R.matched

FreshInv ==
    /\ SourcesShaped
    /\ \A q \in Requests : q \notin overtaken => StillReads(request[q])
    /\ \A q \in Requests : Reaches(request[q])
    /\ FreshUnlessRaced

(* FreshUnlessRaced, row by row.                                           *)
LEMMA FreshRows ==
    FreshUnlessRaced <=> \A x \in Rows : status[x] \in Open /\ x \notin raced => InForce(x)
BY DEF FreshUnlessRaced, Live, Open

(* A source is upstream of the row that is made from it, and out of reach  *)
(* of the cascade of the request that makes it.                            *)
LEMMA ScopeFacts ==
    /\ \A op \in Makers : Upstream(op) \cap Scope(op) = {} /\ Upstream(op) \subseteq Rows
    /\ \A op : Scope(op) \subseteq Rows
    /\ Scope("accept_claim") = Rows
<1>1. /\ Targets \subseteq Rows /\ Cases \subseteq Rows /\ Packets \subseteq Rows
      /\ Currents \subseteq Rows
  BY RowFacts DEF Kinds
<1> QED BY <1>1, RowFacts DEF Makers, Upstream, Scope

(* A cascade reaches what is made from the rows that it reaches.           *)
LEMMA ScopeClosed ==
    ASSUME SourcesShaped, NEW op, NEW x \in Rows, x \notin Currents, NEW y \in basis[x],
           y \in Scope(op)
    PROVE  x \in Scope(op)
<1>1. x \in Targets \cup Cases \cup Packets
  BY DEF Rows, Workflows
<1>2. y \in Currents \cup Targets \cup Cases /\ (x \in Targets => y \in Currents)
      /\ (x \in Cases => y \in Targets)
  BY <1>1 DEF SourcesShaped
<1>3. Packets \subseteq Scope(op)
  BY ScopeFacts, RowFacts DEF Scope, Kinds
<1>4. CASE op \in {"accept_claim", "draft_current"}
  BY <1>4 DEF Scope
<1>5. CASE op \in {"approve_current", "draft_target"}
  BY <1>1, <1>5 DEF Scope
<1>6. CASE op = "approve_target"
  BY <1>1, <1>2, <1>6, RowFacts DEF Scope
<1>7. CASE op \notin {"accept_claim", "draft_current", "approve_current", "draft_target",
                      "approve_target"}
  BY <1>2, <1>7, RowFacts DEF Scope
<1> QED BY <1>4, <1>5, <1>6, <1>7

(* A request that begins, goes on or ends without a change of the rows.    *)
LEMMA MovesFresh ==
    ASSUME ChainInv, FreshInv, NEW q \in Requests, NEW R,
           request' = [request EXCEPT ![q] = R],
           UNCHANGED <<truth, status, basis, raced>>,
           overtaken' = overtaken \/ overtaken' = overtaken \ {q},
           R.op \in Makers => R.from \subseteq Upstream(R.op),
           q \notin overtaken' => StillReads(R),
           Reaches(R)
    PROVE  FreshInv'
<1>1. request'[q] = R /\ \A r \in Requests \ {q} : request'[r] = request[r]
  BY TypeFacts DEF ChainInv
<1>2. SourcesShaped'
  BY <1>1 DEF FreshInv, SourcesShaped
<1>3. \A r \in Requests : r \notin overtaken' => StillReads(request[r])'
  <2> SUFFICES ASSUME NEW r \in Requests, r \notin overtaken' PROVE StillReads(request[r])'
    OBVIOUS
  <2>1. StillReads(request'[r])
    BY <1>1 DEF FreshInv
  <2> QED BY <2>1 DEF StillReads
<1>4. \A r \in Requests : Reaches(request[r])'
  <2> SUFFICES ASSUME NEW r \in Requests PROVE Reaches(request[r])'
    OBVIOUS
  <2>1. Reaches(request'[r])
    BY <1>1 DEF FreshInv
  <2> QED BY <2>1 DEF Reaches
<1>5. FreshUnlessRaced'
  BY DEF FreshInv, FreshUnlessRaced, Live, InForce
<1> QED BY <1>2, <1>3, <1>4, <1>5 DEF FreshInv

(* What a request reads when it begins is in force.                        *)
LEMMA BeginsSound ==
    ASSUME ChainInv, FreshInv, NEW q \in Requests, BeginRequest(q)
    PROVE  \E op, x, from, n, held :
              /\ Begin(q, op, x, from, n, held)
              /\ op = "draft_current" => from = truth
              /\ op \in Makers =>
                    from \subseteq Upstream(op) /\ \A y \in from : status[y] = "approved"
<1> USE DEF Makers, Upstream
<1>1. CASE BeginAcceptClaim(q)
  BY <1>1 DEF BeginAcceptClaim
<1>2. CASE BeginDraftCurrent(q)
  BY <1>2 DEF BeginDraftCurrent
<1>3. CASE BeginApproveCurrent(q)
  BY <1>3 DEF BeginApproveCurrent
<1>4. CASE BeginDraftTarget(q)
  <2>1. PICK c \in Currents : /\ status[c] = "approved"
                              /\ Begin(q, "draft_target", NoRow, {c}, 0, {})
    BY <1>4 DEF BeginDraftTarget, Newest
  <2>2. {c} \subseteq Upstream("draft_target") /\ \A y \in {c} : status[y] = "approved"
    BY <2>1
  <2> QED BY <2>1, <2>2
<1>5. CASE BeginApproveTarget(q)
  BY <1>5 DEF BeginApproveTarget
<1>6. CASE BeginCalculate(q)
  <2>1. PICK t \in Targets :
            /\ status[t] = "approved"
            /\ \/ \E e \in Cases : Begin(q, "update_case", e, {t}, 0, {e})
               \/ Begin(q, "insert_case", NoRow, {t}, NextNumber(Cases), {})
    BY <1>6 DEF BeginCalculate, Newest, DraftsOf
  <2>2. CASE \E e \in Cases : Begin(q, "update_case", e, {t}, 0, {e})
    BY <2>2
  <2>3. CASE Begin(q, "insert_case", NoRow, {t}, NextNumber(Cases), {})
    <3>1. {t} \subseteq Upstream("insert_case") /\ \A y \in {t} : status[y] = "approved"
      BY <2>1
    <3> QED BY <2>3, <3>1
  <2> QED BY <2>1, <2>2, <2>3
<1>7. CASE BeginGeneratePacket(q)
  <2>1. PICK c \in Currents, t \in Targets, e \in Cases :
            /\ status[c] = "approved" /\ status[t] = "approved" /\ status[e] = "approved"
            /\ Begin(q, "generate_packet", NoRow, {c, t, e}, NextNumber(Packets), {})
    BY <1>7 DEF BeginGeneratePacket, Newest
  <2>2. /\ {c, t, e} \subseteq Upstream("generate_packet")
        /\ \A y \in {c, t, e} : status[y] = "approved"
    BY <2>1
  <2> QED BY <2>1, <2>2
<1>8. CASE BeginEditStep(q)
  BY <1>8 DEF BeginEditStep
<1> QED BY <1>1, <1>2, <1>3, <1>4, <1>5, <1>6, <1>7, <1>8 DEF BeginRequest

(* A request that begins reads what is in force.                           *)
LEMMA BeginFresh ==
    ASSUME ChainInv, FreshInv, NEW q \in Requests, BeginRequest(q)
    PROVE  FreshInv'
<1>1. PICK op, x, from, n, held :
          /\ Begin(q, op, x, from, n, held)
          /\ op = "draft_current" => from = truth
          /\ op \in Makers =>
                from \subseteq Upstream(op) /\ \A y \in from : status[y] = "approved"
  BY BeginsSound
<1> DEFINE R == [Idle EXCEPT !.at = "read", !.op = op, !.row = x, !.from = from,
                             !.number = n, !.held = held]
<1>2. R.at = "read" /\ R.op = op /\ R.from = from
  BY DEF Idle
<1>3. request' = [request EXCEPT ![q] = R] /\ UNCHANGED <<chain, history>>
  BY <1>1 DEF Begin
<1> HIDE DEF R
<1>4. StillReads(R) /\ Reaches(R)
  BY <1>1, <1>2 DEF StillReads, Reaches
<1>5. R.op \in Makers => R.from \subseteq Upstream(R.op)
  BY <1>1, <1>2
<1>6. UNCHANGED <<truth, status, basis, raced>> /\ overtaken' = overtaken
  BY <1>3 DEF history
<1> QED BY <1>3, <1>4, <1>5, <1>6, MovesFresh

(* The snapshot of a cascade holds what rests on what it takes.            *)
LEMMA StartUpdateFresh ==
    ASSUME ChainInv, FreshInv, NEW q \in Requests, StartUpdate(q)
    PROVE  FreshInv'
<1> DEFINE old == request[q]
           matched == Live(Scope(old.op))
           R == [old EXCEPT !.at = "matched", !.matched = matched]
<1>1. old \in Transaction
  BY TypeFacts DEF ChainInv
<1>2. request' = [request EXCEPT ![q] = R] /\ UNCHANGED <<chain, history>>
  BY <1>1, TypeFacts DEF StartUpdate, Transaction, ChainInv
<1>3. R.at = "matched" /\ R.matched = matched /\ R.op = old.op /\ R.from = old.from
  BY <1>1 DEF Transaction
<1>4. ASSUME NEW x \in Rows, status[x] \in Open
      PROVE  /\ old.op = "accept_claim" => x \in matched
             /\ x \notin Currents /\ basis[x] \cap matched # {} => x \in matched
  <2>1. x \in Scope(old.op) => x \in matched
    BY <1>4 DEF Open, Live
  <2>2. matched \subseteq Scope(old.op)
    BY DEF Live
  <2>3. old.op = "accept_claim" => x \in Scope(old.op)
    BY ScopeFacts
  <2>4. x \notin Currents /\ basis[x] \cap matched # {} => x \in Scope(old.op)
    BY <2>2, ScopeClosed DEF FreshInv
  <2> QED BY <2>1, <2>3, <2>4
<1> HIDE DEF matched
<1>5. Reaches(R)
  <2> HIDE DEF R, old
  <2> QED BY <1>3, <1>4 DEF Reaches
<1>6. q \notin overtaken => StillReads(R)
  <2>1. q \notin overtaken => StillReads(old)
    BY DEF FreshInv
  <2> HIDE DEF R, old
  <2> QED BY <1>3, <2>1 DEF StillReads
<1>7. R.op \in Makers => R.from \subseteq Upstream(R.op)
  <2>1. old.op \in Makers => old.from \subseteq Upstream(old.op)
    BY DEF FreshInv, SourcesShaped
  <2> HIDE DEF R, old
  <2> QED BY <1>3, <2>1
<1>8. UNCHANGED <<truth, status, basis, raced>> /\ overtaken' = overtaken
  BY <1>2 DEF history
<1> HIDE DEF R
<1> QED BY <1>2, <1>5, <1>6, <1>7, <1>8, MovesFresh

(* What has gone stale in the meantime is not locked, and takes nothing.   *)
LEMMA LockRowsFresh ==
    ASSUME ChainInv, FreshInv, NEW q \in Requests, LockRows(q)
    PROVE  FreshInv'
<1> DEFINE old == request[q]
           matched == Live(old.matched)
           R == [old EXCEPT !.at = "staled", !.matched = matched, !.held = @ \cup matched]
<1>1. old \in Transaction /\ old.at = "matched"
  BY TypeFacts DEF ChainInv, LockRows
<1>2. request' = [request EXCEPT ![q] = R] /\ UNCHANGED <<chain, history>>
  BY <1>1, TypeFacts DEF LockRows, Transaction, ChainInv
<1>3. R.at = "staled" /\ R.matched = matched /\ R.op = old.op /\ R.from = old.from
  BY <1>1 DEF Transaction
<1>4. /\ matched \subseteq old.matched
      /\ \A x \in old.matched : status[x] \in Open => x \in matched
  BY DEF Live, Open
<1> HIDE DEF matched
<1>5. Reaches(R)
  <2>1. Reaches(old)
    BY DEF FreshInv
  <2> HIDE DEF R, old
  <2> QED BY <1>1, <1>3, <1>4, <2>1 DEF Reaches
<1>6. q \notin overtaken => StillReads(R)
  <2>1. q \notin overtaken => StillReads(old)
    BY DEF FreshInv
  <2> HIDE DEF R, old
  <2> QED BY <1>3, <2>1 DEF StillReads
<1>7. R.op \in Makers => R.from \subseteq Upstream(R.op)
  <2>1. old.op \in Makers => old.from \subseteq Upstream(old.op)
    BY DEF FreshInv, SourcesShaped
  <2> HIDE DEF R, old
  <2> QED BY <1>3, <2>1
<1>8. UNCHANGED <<truth, status, basis, raced>> /\ overtaken' = overtaken
  BY <1>2 DEF history
<1> HIDE DEF R
<1> QED BY <1>2, <1>5, <1>6, <1>7, <1>8, MovesFresh

(* Nothing is read or matched by a request that is not there.              *)
LEMMA IdleFresh ==
    /\ StillReads(Idle) /\ Reaches(Idle)
    /\ Idle.op \notin Makers /\ Idle.op = "none" /\ Idle.at = "idle"
BY DEF Idle, StillReads, Reaches, Makers

(* A request that rolls back, or edits a step, takes nothing with it.      *)
LEMMA LeavesFresh ==
    ASSUME ChainInv, FreshInv, NEW q \in Requests, Abort(q) \/ FinishEditStep(q)
    PROVE  FreshInv'
<1>1. /\ request' = [request EXCEPT ![q] = Idle]
      /\ UNCHANGED <<truth, status, basis, raced>>
      /\ overtaken' = overtaken \/ overtaken' = overtaken \ {q}
  BY DEF Abort, FinishEditStep, history
<1> QED BY <1>1, IdleFresh, MovesFresh

(* What the commit of a cascade does to the rows other than z, which is    *)
(* the row it inserts, if any.                                             *)
Cascaded(q, z) ==
    /\ request[q].at = "staled"
    /\ request' = [request EXCEPT ![q] = Idle]
    /\ overtaken' = (overtaken \cup {r \in Requests : Takes(q, r)}) \ {q}
    /\ truth' = truth \/ request[q].op = "accept_claim"
    /\ \A x \in Rows \ {z} :
        /\ x \in request[q].matched => status'[x] = "stale"
        /\ x \notin request[q].matched =>
              status'[x] = status[x] \/ (status[x] = "draft" /\ status'[x] = "approved")
        /\ basis'[x] = basis[x]
        /\ x \in raced => x \in raced'

(* What it does to that row.                                               *)
Inserted(q, z) ==
    /\ z \in Rows => status[z] = "absent" /\ basis'[z] = request[q].from
    /\ z \in Rows \ raced' => ~Overtaken(q)
    /\ z \in Currents => request[q].op = "draft_current"
    /\ z \in Targets => request[q].op = "draft_target"
    /\ z \in Cases => request[q].op = "insert_case"
    /\ z \in Packets => request[q].op = "generate_packet"

(* No source is the row that is inserted, and one that the cascade did not *)
(* take is still approved.                                                 *)
LEMMA SourcesStay ==
    ASSUME NEW q, NEW z, Cascaded(q, z), Inserted(q, z),
           NEW y \in Rows, status[y] = "approved", y \notin request[q].matched
    PROVE  status'[y] = "approved"
BY DEF Cascaded, Inserted

(* Every open row rests on what is in force after a cascade has committed, *)
(* unless it was raced.                                                    *)
LEMMA CascadeLeavesFresh ==
    ASSUME ChainInv, FreshInv, NEW q \in Requests, NEW z, Cascaded(q, z), Inserted(q, z)
    PROVE  FreshUnlessRaced'
<1> USE DEF Open
<1> SUFFICES ASSUME NEW x \in Rows, status'[x] \in Open, x \notin raced'
             PROVE  InForce(x)'
  BY DEF FreshUnlessRaced, Live
<1>0. /\ SourcesShaped /\ Reaches(request[q]) /\ LocksAgree
      /\ request[q].at = "staled"
      /\ truth' = truth \/ request[q].op = "accept_claim"
  BY DEF FreshInv, ChainInv, Cascaded
<1>k. /\ Currents \subseteq Rows /\ Targets \subseteq Rows /\ Cases \subseteq Rows
      /\ x \notin Currents => x \in Targets \cup Cases \cup Packets
  BY RowFacts DEF Kinds, Rows, Workflows
<1>1. CASE x # z
  <2>1. /\ x \notin request[q].matched /\ x \notin raced /\ status[x] \in Open
        /\ basis'[x] = basis[x]
    BY <1>1 DEF Cascaded
  <2>2. InForce(x)
    BY <2>1, FreshRows DEF FreshInv
  <2>3. CASE x \in Currents
    <3>1. truth' = truth
      BY <1>0, <2>1, <2>3 DEF Reaches
    <3> QED BY <2>1, <2>2, <2>3, <3>1 DEF InForce
  <2>4. CASE x \notin Currents
    <3>1. \A y \in basis[x] : y \in Rows /\ status[y] = "approved" /\ y \notin request[q].matched
      BY <1>0, <1>k, <2>1, <2>2, <2>4 DEF InForce, Reaches, SourcesShaped
    <3>2. \A y \in basis[x] : status'[y] = "approved"
      BY <3>1, SourcesStay
    <3> QED BY <2>1, <2>4, <3>2 DEF InForce
  <2> QED BY <2>3, <2>4
<1>2. CASE x = z
  <2>1. basis'[z] = request[q].from /\ StillReads(request[q])
    BY <1>2 DEF Inserted, Overtaken, FreshInv
  <2>2. CASE x \in Currents
    BY <1>0, <1>2, <2>1, <2>2 DEF Inserted, StillReads, InForce
  <2>3. CASE x \notin Currents
    <3>1. request[q].op \in Makers
      BY <1>2, <1>k, <2>3 DEF Inserted, Makers
    <3>2. \A y \in request[q].from :
              y \in Rows /\ status[y] = "approved" /\ y \notin request[q].matched
      BY <1>0, <2>1, <3>1, ScopeFacts DEF StillReads, SourcesShaped, LocksAgree
    <3>3. \A y \in request[q].from : status'[y] = "approved"
      BY <3>2, SourcesStay
    <3> QED BY <1>2, <2>1, <2>3, <3>3 DEF InForce
  <2> QED BY <2>2, <2>3
<1> QED BY <1>1, <1>2

(* And the requests that it leaves read and match what they did, unless    *)
(* they were overtaken.                                                    *)
LEMMA CascadeFresh ==
    ASSUME ChainInv, FreshInv, NEW q \in Requests, NEW z, Cascaded(q, z), Inserted(q, z)
    PROVE  FreshInv'
<1>0. /\ SourcesShaped /\ \A r \in Requests : Reaches(request[r])
      /\ request[q].at = "staled"
      /\ truth' = truth \/ request[q].op = "accept_claim"
  BY DEF FreshInv, Cascaded
<1>1. /\ request'[q] = Idle
      /\ \A r \in Requests \ {q} : request'[r] = request[r]
  BY IdleAgain DEF Cascaded
<1>k. /\ \A rs \in Kinds : rs \subseteq Rows
      /\ Currents \in Kinds /\ Targets \in Kinds /\ Cases \in Kinds /\ Packets \in Kinds
  BY RowFacts DEF Kinds
<1>2. SourcesShaped'
  <2>1. \A r \in Requests : request'[r].op \in Makers =>
            request'[r].from \subseteq Upstream(request'[r].op)
    BY <1>0, <1>1, IdleFresh DEF SourcesShaped
  <2>2. \A x \in Rows : basis'[x] = basis[x] \/ x = z
    BY DEF Cascaded
  <2>3. /\ z \in Targets => basis'[z] \subseteq Currents
        /\ z \in Cases => basis'[z] \subseteq Targets
        /\ z \in Packets => basis'[z] \subseteq Currents \cup Targets \cup Cases
    BY <1>0, <1>k DEF Inserted, SourcesShaped, Upstream, Makers
  <2> QED BY <1>0, <1>k, <2>1, <2>2, <2>3 DEF SourcesShaped
<1>3. ASSUME NEW r \in Requests, r \notin overtaken'
      PROVE  StillReads(request[r])'
  <2>1. CASE r = q
    BY <1>1, <2>1, IdleFresh DEF StillReads
  <2>2. CASE r # q
    <3>1. /\ StillReads(request[r]) /\ ~Takes(q, r) /\ request'[r] = request[r]
      BY <1>1, <1>3, <2>2 DEF Cascaded, FreshInv
    <3>2. request[r].op = "draft_current" => truth' = truth
      BY <1>0, <3>1 DEF Takes
    <3>3. request[r].op \in Makers => \A y \in request[r].from : status'[y] = "approved"
      <4> SUFFICES ASSUME request[r].op \in Makers, NEW y \in request[r].from
                   PROVE  status'[y] = "approved"
        OBVIOUS
      <4>1. y \in Rows /\ status[y] = "approved" /\ y \notin request[q].matched
        BY <1>0, <3>1, ScopeFacts DEF Takes, StillReads, SourcesShaped
      <4> QED BY <4>1, SourcesStay
    <3> QED BY <3>1, <3>2, <3>3 DEF StillReads
  <2> QED BY <2>1, <2>2
<1>4. ASSUME NEW r \in Requests
      PROVE  Reaches(request[r])'
  <2>1. CASE r = q
    BY <1>1, <2>1, IdleFresh DEF Reaches
  <2>2. CASE r # q
    <3> SUFFICES ASSUME request[r].at \in {"matched", "staled"},
                        NEW x \in Rows, status'[x] \in Open, x \notin raced'
                 PROVE  /\ request[r].op = "accept_claim" /\ x \in Currents =>
                              x \in request[r].matched
                        /\ x \notin Currents /\ basis'[x] \cap request[r].matched # {} =>
                              x \in request[r].matched
      BY <1>1, <2>2 DEF Reaches
    <3>1. CASE x # z
      <4>1. status[x] \in Open /\ x \notin raced /\ basis'[x] = basis[x]
        BY <3>1 DEF Cascaded, Open
      <4> QED BY <1>0, <4>1 DEF Reaches
    <3>2. CASE x = z
      <4>1. ~Takes(r, q) /\ basis'[x] = request[q].from
        BY <2>2, <3>2 DEF Inserted, Overtaken
      <4>2. request[r].matched \cap request[q].from = {}
        BY <4>1 DEF Takes
      <4>3. x \in Currents => request[r].op # "accept_claim"
        BY <3>2, <4>1 DEF Takes, Inserted
      <4> QED BY <4>1, <4>2, <4>3
    <3> QED BY <3>1, <3>2
  <2> QED BY <2>1, <2>2
<1> QED BY <1>2, <1>3, <1>4, CascadeLeavesFresh DEF FreshInv

(* A commit that inserts a row.                                            *)
LEMMA InsertCascades ==
    ASSUME ChainInv, NEW q \in Requests, NEW op, Finish(q, op),
           NEW rs \in Kinds, NEW s, NEW n, Insert(q, rs, s, n),
           rs = Currents => op = "draft_current",
           rs = Targets => op = "draft_target",
           rs = Cases => op = "insert_case",
           rs = Packets => op = "generate_packet"
    PROVE  \E z : Cascaded(q, z) /\ Inserted(q, z)
<1>1. PICK z \in rs : /\ status[z] = "absent"
                      /\ status' = [Staled(q) EXCEPT ![z] = s]
                      /\ basis' = [basis EXCEPT ![z] = request[q].from]
                      /\ raced' = IF Overtaken(q) THEN raced \cup {z} ELSE raced
                      /\ truth' = truth
  BY DEF Insert
<1>2. /\ z \in Rows /\ basis \in [Rows -> SUBSET (Claims \cup Rows)]
      /\ rs \in {Currents, Targets, Cases, Packets}
  BY RowFacts DEF ChainInv, ChainTypeOK, Kinds
<1>3. /\ request[q].at = "staled" /\ request[q].op = op
      /\ request' = [request EXCEPT ![q] = Idle]
      /\ overtaken' = (overtaken \cup {r \in Requests : Takes(q, r)}) \ {q}
  BY DEF Finish
<1>4. \A x \in Rows \ {z} : status'[x] = Staled(q)[x] /\ basis'[x] = basis[x]
  BY <1>1, <1>2, <1>3, StaledRows
<1>5. Cascaded(q, z)
  BY <1>1, <1>3, <1>4, StaledRows DEF Cascaded
<1>6. Inserted(q, z)
  <2>1. /\ z \in Currents => rs = Currents
        /\ z \in Targets => rs = Targets
        /\ z \in Cases => rs = Cases
        /\ z \in Packets => rs = Packets
    BY <1>1, <1>2, RowFacts
  <2>2. basis'[z] = request[q].from
    BY <1>1, <1>2
  <2>3. z \notin raced' => ~Overtaken(q)
    BY <1>1
  <2> QED BY <1>1, <1>3, <2>1, <2>2, <2>3 DEF Inserted
<1> QED BY <1>5, <1>6

(* Every commit of a cascade is of this form.                              *)
LEMMA FinishCascades ==
    ASSUME ChainInv, NEW q \in Requests,
           \/ FinishAcceptClaim(q) \/ FinishDraftCurrent(q) \/ FinishDraftTarget(q)
           \/ FinishApproval(q) \/ FinishInsertCase(q) \/ FinishUpdateCase(q)
           \/ FinishGeneratePacket(q)
    PROVE  \E z : Cascaded(q, z) /\ Inserted(q, z)
<1>k. /\ Currents \in Kinds /\ Targets \in Kinds /\ Cases \in Kinds /\ Packets \in Kinds
      /\ \A rs \in Kinds : rs \subseteq Rows
      /\ NoRow \notin Rows
  BY RowFacts DEF Kinds
<1>n. Inserted(q, NoRow)
  BY <1>k DEF Inserted
<1>1. CASE FinishAcceptClaim(q) \/ FinishUpdateCase(q)
  <2>1. /\ Finish(q, request[q].op) /\ status' = Staled(q)
        /\ UNCHANGED <<basis, raced>>
        /\ truth' = truth \/ request[q].op = "accept_claim"
    BY <1>1 DEF FinishAcceptClaim, FinishUpdateCase, Finish
  <2>2. Cascaded(q, NoRow)
    BY <2>1, StaledRows DEF Cascaded, Finish
  <2> QED BY <1>n, <2>2
<1>2. CASE FinishApproval(q)
  <2> DEFINE w == request[q].row
  <2>1. /\ Finish(q, request[q].op) /\ request[q].op \in Approvals
        /\ status' = [Staled(q) EXCEPT ![w] = "approved"]
        /\ UNCHANGED <<truth, basis, raced>>
    BY <1>2 DEF FinishApproval, Finish, Approvals
  <2>2. status[w] = "draft" /\ w \notin request[q].matched
    BY <2>1, RowFacts DEF ChainInv, LocksAgree, RequestsShaped, Approvals, Scope
  <2>3. request[q].at = "staled"
    BY <2>1 DEF Finish
  <2> HIDE DEF w
  <2>4. \A x \in Rows : status'[x] = IF x = w THEN "approved" ELSE Staled(q)[x]
    BY <2>1, <2>3, StaledRows
  <2>5. Cascaded(q, NoRow)
    BY <2>1, <2>2, <2>3, <2>4, StaledRows DEF Cascaded, Finish
  <2> QED BY <1>n, <2>5
<1>3. CASE FinishDraftCurrent(q)
  <2>1. PICK x \in Currents : status[x] = "absent"
    BY <1>3 DEF FinishDraftCurrent, Insert
  <2>2. Currents # Targets /\ Currents # Cases /\ Currents # Packets
    BY <1>k, <2>1, RowFacts
  <2>3. Finish(q, "draft_current") /\ Insert(q, Currents, "draft", NextNumber(Currents))
    BY <1>3 DEF FinishDraftCurrent
  <2> QED BY <1>k, <2>2, <2>3, InsertCascades
<1>4. CASE FinishDraftTarget(q)
  <2>1. PICK x \in Targets : status[x] = "absent"
    BY <1>4 DEF FinishDraftTarget, Insert
  <2>2. Targets # Currents /\ Targets # Cases /\ Targets # Packets
    BY <1>k, <2>1, RowFacts
  <2>3. Finish(q, "draft_target") /\ Insert(q, Targets, "draft", NextNumber(Targets))
    BY <1>4 DEF FinishDraftTarget
  <2> QED BY <1>k, <2>2, <2>3, InsertCascades
<1>5. CASE FinishInsertCase(q)
  <2>1. PICK x \in Cases : status[x] = "absent"
    BY <1>5 DEF FinishInsertCase, Insert
  <2>2. Cases # Currents /\ Cases # Targets /\ Cases # Packets
    BY <1>k, <2>1, RowFacts
  <2>3. Finish(q, "insert_case") /\ Insert(q, Cases, "draft", request[q].number)
    BY <1>5 DEF FinishInsertCase
  <2> QED BY <1>k, <2>2, <2>3, InsertCascades
<1>6. CASE FinishGeneratePacket(q)
  <2>1. PICK x \in Packets : status[x] = "absent"
    BY <1>6 DEF FinishGeneratePacket, Insert
  <2>2. Packets # Currents /\ Packets # Targets /\ Packets # Cases
    BY <1>k, <2>1, RowFacts
  <2>3. Finish(q, "generate_packet") /\ Insert(q, Packets, "current", PacketNumber(q))
    BY <1>6 DEF FinishGeneratePacket
  <2> QED BY <1>k, <2>2, <2>3, InsertCascades
<1> QED BY <1>1, <1>2, <1>3, <1>4, <1>5, <1>6

(* The approval of economics stales the packets that are open, and         *)
(* overtakes those that are being made from the case it replaces.          *)
LEMMA EconomicsFresh ==
    ASSUME ChainInv, FreshInv, NEW q \in Requests, NEW e \in Cases, ApproveEconomics(q, e)
    PROVE  FreshInv'
<1> DEFINE stales == Replaced(e) \cup Live(Packets)
<1>0. /\ SourcesShaped /\ \A r \in Requests : Reaches(request[r])
      /\ status[e] = "draft"
      /\ status' = [x \in Rows |-> IF x = e THEN "approved"
                                   ELSE IF x \in stales THEN "stale" ELSE status[x]]
      /\ overtaken' = overtaken \cup {r \in Requests : request[r].from \cap Replaced(e) # {}}
      /\ UNCHANGED <<truth, basis, request, raced>>
  BY DEF FreshInv, ApproveEconomics
<1>k. /\ Currents \subseteq Rows /\ Targets \subseteq Rows /\ Cases \subseteq Rows
      /\ Currents \cap Cases = {} /\ Targets \cap Cases = {} /\ Cases \cap Packets = {}
      /\ Currents \cap Packets = {} /\ Targets \cap Packets = {}
      /\ Rows = Currents \cup Targets \cup Cases \cup Packets
  BY RowFacts DEF Kinds, Rows, Workflows
<1>s. Replaced(e) \subseteq Cases /\ Live(Packets) \subseteq Packets
  BY DEF Replaced, Live
<1>1. ASSUME NEW y \in Rows, status[y] = "approved", y \notin stales
      PROVE  status'[y] = "approved"
  BY <1>0, <1>1
<1>2. ASSUME NEW x \in Rows, status'[x] \in Open
      PROVE  status[x] \in Open /\ x \notin Packets
  BY <1>0, <1>k, <1>2 DEF Open, Live
<1> HIDE DEF stales
<1>3. SourcesShaped'
  BY <1>0 DEF SourcesShaped
<1>4. ASSUME NEW r \in Requests, r \notin overtaken'
      PROVE  StillReads(request[r])'
  <2>1. StillReads(request[r]) /\ request[r].from \cap Replaced(e) = {}
    BY <1>0, <1>4 DEF FreshInv
  <2>2. ASSUME request[r].op \in Makers, NEW y \in request[r].from
        PROVE  status'[y] = "approved"
    <3>1. y \in Rows /\ y \notin Packets /\ status[y] = "approved"
      BY <1>0, <1>k, <2>1, <2>2 DEF SourcesShaped, StillReads, Upstream, Makers
    <3> QED BY <1>1, <1>s, <2>1, <3>1 DEF stales
  <2> QED BY <1>0, <2>1, <2>2 DEF StillReads
<1>5. ASSUME NEW r \in Requests
      PROVE  Reaches(request[r])'
  BY <1>0, <1>2 DEF Reaches
<1>6. FreshUnlessRaced'
  <2> SUFFICES ASSUME NEW x \in Rows, status'[x] \in Open, x \notin raced'
               PROVE  InForce(x)'
    BY DEF FreshUnlessRaced, Live, Open
  <2>1. InForce(x)
    BY <1>0, <1>2, FreshRows DEF FreshInv
  <2>2. CASE x \in Currents
    BY <1>0, <2>1, <2>2 DEF InForce
  <2>3. CASE x \notin Currents
    <3>1. \A y \in basis[x] : y \in Currents \cup Targets /\ status[y] = "approved"
      BY <1>0, <1>2, <1>k, <2>1, <2>3 DEF SourcesShaped, InForce
    <3>2. \A y \in basis[x] : y \in Rows /\ y \notin stales
      BY <1>k, <1>s, <3>1 DEF stales
    <3>3. \A y \in basis[x] : status'[y] = "approved"
      BY <1>1, <3>1, <3>2
    <3> QED BY <1>0, <2>3, <3>3 DEF InForce
  <2> QED BY <2>2, <2>3
<1> QED BY <1>3, <1>4, <1>5, <1>6 DEF FreshInv

(* At first there is nothing to be left behind.                            *)
LEMMA FreshInit == Init => FreshInv
<1> SUFFICES ASSUME Init PROVE FreshInv
  OBVIOUS
<1>1. SourcesShaped
  BY IdleFresh, RowFacts DEF Init, SourcesShaped, Kinds
<1>2. FreshUnlessRaced
  BY DEF Init, FreshUnlessRaced, Live
<1> QED BY <1>1, <1>2, IdleFresh DEF Init, FreshInv

(* Whatever overlaps, every step keeps what is not raced fresh.            *)
LEMMA FreshStep ==
    ASSUME ChainInv, FreshInv, [Next]_vars
    PROVE  FreshInv'
<1>1. CASE UNCHANGED vars
  BY <1>1 DEF vars, history, FreshInv, SourcesShaped, StillReads, Reaches, FreshUnlessRaced, Live,
              InForce
<1>2. ASSUME NEW q \in Requests,
             BeginRequest(q) \/ StartUpdate(q) \/ LockRows(q) \/ Abort(q)
      PROVE  FreshInv'
  BY <1>2, BeginFresh, StartUpdateFresh, LockRowsFresh, LeavesFresh
<1>3. ASSUME NEW q \in Requests, FinishRequest(q)
      PROVE  FreshInv'
  <2>1. CASE FinishEditStep(q)
    BY <2>1, LeavesFresh
  <2>2. CASE \E e \in Cases : ApproveEconomics(q, e)
    BY <2>2, EconomicsFresh
  <2>3. CASE ~FinishEditStep(q) /\ ~\E e \in Cases : ApproveEconomics(q, e)
    <3>1. PICK z : Cascaded(q, z) /\ Inserted(q, z)
      BY <1>3, <2>3, FinishCascades DEF FinishRequest
    <3> QED BY <3>1, CascadeFresh
  <2> QED BY <2>1, <2>2, <2>3
<1> QED BY <1>1, <1>2, <1>3 DEF Next

(* However many requests overlap: a request that is not overtaken still    *)
(* has what it read, a cascade that matched a source matched what rests on *)
(* it, and every open row that was not raced rests on what is in force.    *)
THEOREM FreshInvariant == Spec => []FreshInv
<1>1. ChainInv /\ FreshInv /\ [Next]_vars => FreshInv'
  BY FreshStep
<1> QED BY <1>1, ChainInvariant, FreshInit, PTL DEF Spec

(* However many requests overlap, a version that was not staled over while *)
(* it was being made is never left behind by a change upstream.            *)
THEOREM ChainStaysFresh == Spec => []FreshUnlessRaced
<1>1. FreshInv => FreshUnlessRaced
  BY DEF FreshInv
<1> QED BY <1>1, FreshInvariant, PTL
=============================================================================
