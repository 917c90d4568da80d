------------------------------- MODULE MCPlatform -------------------------------
(* The components around the engagement, of which each run takes one: they share  *)
(* no state, so one configuration checks each of them, and their states add up.   *)
EXTENDS RoleQuarantine, OperatorSessions, TaskInventory

VARIABLE component

platformVars == <<component, quarantineVars, loginVars, inventoryVars>>

Init ==
    /\ component \in {"quarantine", "login", "inventory"}
    /\ QuarantineInit
    /\ SessionsInit
    /\ InventoryInit

Next ==
    \/ component = "quarantine" /\ QuarantineNext
        /\ UNCHANGED <<component, loginVars, inventoryVars>>
    \/ component = "login" /\ SessionsNext
        /\ UNCHANGED <<component, quarantineVars, inventoryVars>>
    \/ component = "inventory" /\ InventoryNext
        /\ UNCHANGED <<component, quarantineVars, loginVars>>

Spec == Init /\ [][Next]_platformVars
=============================================================================
