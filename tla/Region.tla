------------------------------- MODULE Region -------------------------------
(***************************************************************************)
(* A region while a clean-up and a decommissioning run in it: both read    *)
(* and change what Hypervisors describes, neither knows of the other.      *)
(***************************************************************************)
EXTENDS OrphanCleanup, Decommission

vars == <<hvars, cvars, rvars>>

Init == HypervisorsInit /\ CleanupInit /\ DecommissionInit

Next ==
  \/ HypervisorsStep /\ UNCHANGED <<cvars, rvars>>
  \/ CleanupStep /\ UNCHANGED rvars
  \/ DecommissionStep /\ UNCHANGED cvars

Spec == Init /\ [][Next]_vars

TypeOK == HypervisorsTypeOK /\ CleanupTypeOK /\ DecommissionTypeOK
=============================================================================
