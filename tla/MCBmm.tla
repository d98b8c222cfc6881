------------------------------- MODULE MCBmm -------------------------------
(***************************************************************************)
(* Instances of BmmMaintenance and BmmHealth for TLC.                      *)
(***************************************************************************)
EXTENDS BmmHealth, TLC

CONSTANTS m1, m2, m3, r1, chg

OneRack == (m1 :> r1) @@ (m2 :> r1) @@ (m3 :> r1)
WholeRack == chg :> <<m1, m2, m3>>

\* Split windows as they are documented: a restore follows a shutdown.
RestoreFollowsShutdown ==
  \A d \in Driver : pc[d] = "idle" /\ pc'[d] # "idle" /\ phase'[d] = "restore" =>
    \E m \in Machine : "power_off" \in completed[d][m]

SplitSpec == Init /\ [][Next /\ RestoreFollowsShutdown]_vars
=============================================================================
