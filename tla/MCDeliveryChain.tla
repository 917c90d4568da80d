--------------------------- MODULE MCDeliveryChain ---------------------------
(***************************************************************************)
(* Instances of DeliveryChain for TLC.                                     *)
(***************************************************************************)
EXTENDS DeliveryChain, TLC

Symmetry ==
    Permutations(Requests) \cup Permutations(Claims) \cup Permutations(Currents)
    \cup Permutations(Targets) \cup Permutations(Cases) \cup Permutations(Packets)

(* What overlapping requests depend on: nothing reads amended, and whether *)
(* a row that is stale was raced is of no more interest.                   *)
Seen == <<truth, status, number, basis, request, overtaken, raced \cap Live(Rows)>>
=============================================================================
