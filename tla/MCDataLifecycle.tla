-------------------------- MODULE MCDataLifecycle --------------------------
(***************************************************************************)
(* Instances of DataLifecycle for TLC.                                     *)
(***************************************************************************)
EXTENDS DataLifecycle

\* Everyone sends the same file.
SameFile == [u \in Uploads |-> "minutes.md"]
=============================================================================
