------------------------- MODULE MaintenanceWindow -------------------------
(***************************************************************************)
(* What a bare metal maintenance window promises about the machines of a   *)
(* site, whatever the driver does to keep the promise: a machine leaves    *)
(* the pool before it is powered off, is powered off only while its rack   *)
(* can spare it, and rejoins the pool only with its power back.            *)
(*                                                                         *)
(* BmmMaintenance is shown to implement this specification.                *)
(***************************************************************************)
EXTENDS Integers, FiniteSets

CONSTANTS
  Machine,           \* the bare metal machines
  RackOf,            \* the rack each of them stands in
  MinHealthyPerRack  \* machines a rack must keep powered on

VARIABLES
  up,      \* the machines that are powered on
  pooled   \* the machines that accept workload (not cordoned)

wvars == <<up, pooled>>

UpPeers(m) == {p \in up \ {m} : RackOf[p] = RackOf[m]}

WInit == up = Machine /\ pooled = Machine

Withdraw(m) ==
  /\ m \in pooled
  /\ pooled' = pooled \ {m}
  /\ UNCHANGED up

\* Power is cut only to a withdrawn machine whose rack keeps its floor.
Down(m) ==
  /\ m \in up \ pooled
  /\ Cardinality(UpPeers(m)) >= MinHealthyPerRack
  /\ up' = up \ {m}
  /\ UNCHANGED pooled

Up(m) ==
  /\ m \notin up
  /\ up' = up \cup {m}
  /\ UNCHANGED pooled

Rejoin(m) ==
  /\ m \in up \ pooled
  /\ pooled' = pooled \cup {m}
  /\ UNCHANGED up

WNext == \E m \in Machine : Withdraw(m) \/ Down(m) \/ Up(m) \/ Rejoin(m)

WSpec == WInit /\ [][WNext]_wvars
=============================================================================
