--------------------------- MODULE MCCustomerAuthority ---------------------------
(* What rests on the locks of the engagement, and the order in which they are taken: *)
(* each behaviour is one of the two modules', which share no state.                *)
EXTENDS CustomerAuthority, LockOrder

VARIABLE subject

Cascade == {"workflow", "case", "artifact", "factory"}
MCPopulations == {{}, Cascade}

MCInit ==
    /\ Init
    /\ LockInit
    /\ subject \in {"authority", "locks"}
    /\ subject = "authority" => populated = {}
    /\ subject = "locks" => retention = Unset

MCNext ==
    \/ subject = "authority" /\ Next /\ UNCHANGED <<subject, lockVars>>
    \/ subject = "locks" /\ LocksNext /\ UNCHANGED <<subject, vars>>

MCSpec == MCInit /\ [][MCNext]_<<subject, vars, lockVars>>
=============================================================================
