-------------------------- MODULE MCEvidenceJobs ---------------------------
(***************************************************************************)
(* Instances of EvidenceJobs.  The claims are those of the Acme fixtures:  *)
(* an SOP with a CFO approval rule and a system it uses, and an interview  *)
(* with a Controller exception to the rule.                                *)
(***************************************************************************)
EXTENDS EvidenceJobs, TLC

AcmeClaims == {"cfo_rule", "uses_erp", "controller_exception"}

(* The exception is in a file of its own.                                  *)
TwoFiles == [c \in AcmeClaims |-> IF c = "controller_exception" THEN 2 ELSE 1]

(* The same file states the rule and its exception.                        *)
OneFile == [c \in AcmeClaims |-> IF c = "uses_erp" THEN 2 ELSE 1]

RuleAndException == {{"cfo_rule", "controller_exception"}}

Symmetry == Permutations(Workers) \cup Permutations(Reviewers)
=============================================================================
