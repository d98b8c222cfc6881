---------------------------- MODULE ComputeDrain ----------------------------
(***************************************************************************)
(* Draining compute nodes (openstack/python/compute_node_drain.py): plan,  *)
(* capacity check, disable nova-compute, live-migrate one instance at a    *)
(* time.  One script may run per host; several hosts may be drained at     *)
(* once.  MigrationWave calls this module's actions.                       *)
(*                                                                         *)
(* Nova is external: it schedules, migrates and boots by itself.  Flavors  *)
(* are abstracted to one slot per instance.                                *)
(***************************************************************************)
EXTENDS Integers, FiniteSets, FiniteSetsExt

CONSTANTS
  Host,          \* the compute nodes of the region
  Instance,      \* instances that are there, or may be created
  NoHost,        \* of an instance: nowhere, or not migrating
  Capacity,      \* [Host -> slots]
  Home,          \* [Instance -> Host or NoHost]: where it is to begin with
  Shutoff,       \* the instances that are shut off: not live-migratable
  MaxFaults,     \* bound on calls, migrations and playbook steps that fail
  MaxStrays,     \* bound on live migrations that outlast the script's wait
  MaxPlacements  \* bound on instances created meanwhile

ASSUME NoHostAssumption == NoHost \notin Host
ASSUME FiniteAssumption == IsFiniteSet(Host) /\ IsFiniteSet(Instance)
ASSUME RegionAssumption ==
  /\ Capacity \in [Host -> Nat]
  /\ Home \in [Instance -> Host \cup {NoHost}]
  /\ Shutoff \subseteq Instance
ASSUME LimitsAssumption ==
  MaxFaults \in Nat /\ MaxStrays \in Nat /\ MaxPlacements \in Nat

VARIABLES
  enabled,     \* [Host -> BOOLEAN]: nova-compute is enabled
  service,     \* [Host -> "up" | "down"]: nova-compute is running
  place,       \* [Instance -> host it runs on, or NoHost]
  dest,        \* [Instance -> where it is migrating to, or NoHost]
  state,       \* [Instance -> "active" | "shutoff" | "error"]
  drain,       \* [Host -> where the script is, "off" when none runs]
  todo,        \* [Host -> instances the script has still to migrate]
  moving,      \* [Host -> the instance it waits for]
  failed,      \* [Host -> whether a migration of the run failed]
  rc,          \* [Host -> exit code of the last run]
  faults, strays, placements

nova   == <<enabled, service, place, dest, state>>
script == <<drain, todo, moving, failed, rc>>
bounds == <<faults, strays, placements>>
dvars  == <<nova, script, bounds>>

DrainTypeOK ==
  /\ enabled \in [Host -> BOOLEAN]
  /\ service \in [Host -> {"up", "down"}]
  /\ place \in [Instance -> Host \cup {NoHost}]
  /\ dest \in [Instance -> Host \cup {NoHost}]
  /\ state \in [Instance -> {"active", "shutoff", "error"}]
  /\ drain \in [Host -> {"off", "plan", "capacity", "disable", "move", "wait", "ended"}]
  /\ todo \in [Host -> SUBSET Instance]
  /\ moving \in [Host -> SUBSET Instance]
  /\ failed \in [Host -> BOOLEAN]
  /\ rc \in [Host -> 0..2]
  /\ faults \in 0..MaxFaults
  /\ strays \in 0..MaxStrays
  /\ placements \in 0..MaxPlacements

DrainInit ==
  /\ enabled = [h \in Host |-> TRUE]
  /\ service = [h \in Host |-> "up"]
  /\ place = Home
  /\ dest = [i \in Instance |-> NoHost]
  /\ state = [i \in Instance |-> IF i \in Shutoff THEN "shutoff" ELSE "active"]
  /\ drain = [h \in Host |-> "off"]
  /\ todo = [h \in Host |-> {}]
  /\ moving = [h \in Host |-> {}]
  /\ failed = [h \in Host |-> FALSE]
  /\ rc = [h \in Host |-> 0]
  /\ faults = 0 /\ strays = 0 /\ placements = 0

Fault == faults < MaxFaults /\ faults' = faults + 1

\* A migration goes on although nobody waits for it any more.
Stray == strays < MaxStrays /\ strays' = strays + 1

On(h)      == {i \in Instance : place[i] = h}
Claimed(h) == {i \in Instance : place[i] = h \/ dest[i] = h}
Free(h)    == Capacity[h] - Cardinality(Claimed(h))

\* Where the scheduler puts an instance: Nova's own rule.
Candidates == {h \in Host : enabled[h] /\ service[h] = "up" /\ Free(h) > 0}

-----------------------------------------------------------------------------
(* The script                                                              *)

\* The hosts that could take the load, as the hypervisor list shows them.
Others(h) == {g \in Host \ {h} : service[g] = "up" /\ enabled[g]}

Migratable(h) == {i \in On(h) : state[i] = "active"}

CapacityAvailable(h, load) == MapThenSumSet(Free, Others(h)) >= Cardinality(load)

End(h, code) ==
  /\ drain' = [drain EXCEPT ![h] = "ended"]
  /\ rc' = [rc EXCEPT ![h] = code]

\* A host without instances is "safe to take offline": it is left as it is.
PlanEmpty(h) ==
  /\ drain[h] = "plan"
  /\ On(h) = {}
  /\ End(h, 0)
  /\ UNCHANGED <<todo, moving, failed>>
  /\ UNCHANGED <<nova, bounds>>

PlanDrain(h) ==
  /\ drain[h] = "plan"
  /\ On(h) # {}
  /\ todo' = [todo EXCEPT ![h] = Migratable(h)]
  /\ failed' = [failed EXCEPT ![h] = FALSE]
  /\ drain' = [drain EXCEPT ![h] = "capacity"]
  /\ UNCHANGED <<moving, rc>>
  /\ UNCHANGED <<nova, bounds>>

CheckCapacity(h) ==
  /\ drain[h] = "capacity"
  /\ IF CapacityAvailable(h, todo[h])
       THEN drain' = [drain EXCEPT ![h] = "disable"] /\ UNCHANGED rc
       ELSE End(h, 2)
  /\ UNCHANGED <<todo, moving, failed>>
  /\ UNCHANGED <<nova, bounds>>

Disable(h) ==
  /\ drain[h] = "disable"
  /\ enabled' = [enabled EXCEPT ![h] = FALSE]
  /\ drain' = [drain EXCEPT ![h] = "move"]
  /\ UNCHANGED <<service, place, dest, state>>
  /\ UNCHANGED <<todo, moving, failed, rc>>
  /\ UNCHANGED bounds

\* Nova takes the request: the instance need not be on the host any more.
Accepts(i) == state[i] = "active" /\ dest[i] = NoHost /\ Candidates \ {place[i]} # {}

Migrate(h) ==
  /\ drain[h] = "move"
  /\ \E i \in todo[h] :
       /\ Accepts(i)
       /\ \E d \in Candidates \ {place[i]} : dest' = [dest EXCEPT ![i] = d]
       /\ todo' = [todo EXCEPT ![h] = @ \ {i}]
       /\ moving' = [moving EXCEPT ![h] = {i}]
  /\ drain' = [drain EXCEPT ![h] = "wait"]
  /\ UNCHANGED <<enabled, service, place, state>>
  /\ UNCHANGED <<failed, rc>>
  /\ UNCHANGED bounds

\* live_migrate_server raises: the drain goes on with the next instance.
MigrateRefused(h) ==
  /\ drain[h] = "move"
  /\ \E i \in todo[h] :
       /\ IF Accepts(i) THEN Fault ELSE UNCHANGED faults
       /\ todo' = [todo EXCEPT ![h] = @ \ {i}]
  /\ failed' = [failed EXCEPT ![h] = TRUE]
  /\ UNCHANGED <<drain, moving, rc>>
  /\ UNCHANGED <<nova, strays, placements>>

\* wait_for_migration has an answer: the drain goes on with the next instance.
Answered(h, ok) ==
  /\ drain' = [drain EXCEPT ![h] = "move"]
  /\ moving' = [moving EXCEPT ![h] = {}]
  /\ failed' = [failed EXCEPT ![h] = @ \/ ~ok]
  /\ UNCHANGED <<todo, rc>>

Landed(h) ==
  /\ drain[h] = "wait"
  /\ \E i \in moving[h] :
       place[i] # h /\ dest[i] = NoHost /\ Answered(h, state[i] # "error")
  /\ UNCHANGED <<nova, bounds>>

\* Mutant: an instance that fell back to the host is waited for.
GivesUpLate(h) ==
  /\ drain[h] = "wait"
  /\ \E i \in moving[h] :
       /\ dest[i] # NoHost
       /\ Stray
  /\ Answered(h, FALSE)
  /\ UNCHANGED <<nova, faults, placements>>

\* The instance is in ERROR, or fell back to the host, or is still on its way
\* when --timeout expires: then it goes on migrating.
GivesUp(h) ==
  /\ drain[h] = "wait"
  /\ \E i \in moving[h] :
       \/ /\ dest[i] = NoHost
          /\ place[i] = h
          /\ UNCHANGED strays
       \/ /\ dest[i] # NoHost
          /\ Stray
  /\ Answered(h, FALSE)
  /\ UNCHANGED <<nova, faults, placements>>

\* Mutant: what stayed on the host is not looked at.
FinishWithoutLooking(h) ==
  /\ drain[h] = "move"
  /\ todo[h] = {}
  /\ End(h, IF failed[h] THEN 1 ELSE 0)
  /\ UNCHANGED <<todo, moving, failed>>
  /\ UNCHANGED <<nova, bounds>>

FinishDrain(h) ==
  /\ drain[h] = "move"
  /\ todo[h] = {}
  /\ End(h, IF failed[h] \/ On(h) # {} THEN 1 ELSE 0)
  /\ UNCHANGED <<todo, moving, failed>>
  /\ UNCHANGED <<nova, bounds>>

DrainStep(h) ==
  \/ PlanEmpty(h) \/ PlanDrain(h) \/ CheckCapacity(h) \/ Disable(h)
  \/ Migrate(h) \/ MigrateRefused(h) \/ Landed(h) \/ GivesUp(h) \/ FinishDrain(h)

-----------------------------------------------------------------------------
(* Nova                                                                    *)

MigrationLands(i) ==
  /\ dest[i] # NoHost
  /\ service[dest[i]] = "up"
  /\ place' = [place EXCEPT ![i] = dest[i]]
  /\ dest' = [dest EXCEPT ![i] = NoHost]
  /\ UNCHANGED <<enabled, service, state>>
  /\ UNCHANGED <<script, bounds>>

\* It rolls back, or leaves the instance in ERROR; of itself, or because the
\* destination has gone.
MigrationFails(i) ==
  /\ dest[i] # NoHost
  /\ IF service[dest[i]] = "up" THEN Fault ELSE UNCHANGED faults
  /\ dest' = [dest EXCEPT ![i] = NoHost]
  /\ \E s \in {"active", "error"} : state' = [state EXCEPT ![i] = s]
  /\ UNCHANGED <<enabled, service, place>>
  /\ UNCHANGED <<script, strays, placements>>

\* A user creates an instance.
CreateInstance(i) ==
  /\ place[i] = NoHost
  /\ placements < MaxPlacements
  /\ placements' = placements + 1
  /\ \E h \in Candidates : place' = [place EXCEPT ![i] = h]
  /\ UNCHANGED <<enabled, service, dest, state>>
  /\ UNCHANGED <<script, faults, strays>>

NovaStep(i) == MigrationLands(i) \/ MigrationFails(i) \/ CreateInstance(i)
=============================================================================
