--------------------------- MODULE MigrationWave ---------------------------
(***************************************************************************)
(* A wave of compute node migrations: the Airflow DAG                      *)
(* (airflow/dags/compute_migration_dag.py) takes every host of the wave    *)
(* through assess, drain, maintain, verify and move_to_aggregate; maintain *)
(* runs the playbook openstack/ansible/compute_node_maintenance.yml, whose *)
(* first task is the drain script again.                                   *)
(*                                                                         *)
(* Airflow's scheduler is external; its pool gives out PoolSlots slots to  *)
(* the drain and maintain tasks that run.                                  *)
(***************************************************************************)
EXTENDS ComputeDrain

CONSTANTS
  Wave,       \* the hosts of the wave
  PoolSlots,  \* size of the pool compute_drain
  MaxParallelDrains,  \* of the wave's configuration: read by the gate alone
  Retries     \* of a task, drain excepted

ASSUME WaveAssumption ==
  /\ Wave \subseteq Host
  /\ PoolSlots \in Nat \ {0}
  /\ MaxParallelDrains \in Nat
  /\ Retries \in Nat

VARIABLES
  gate,     \* region_preflight: "pending", "open" or "closed"
  task,     \* [Wave -> the task the host is at, or how it ended]
  tries,    \* [Wave -> retries used up by that task]
  play,     \* [Wave -> where the playbook is, "off" when it does not run]
  summary   \* wave_summary: "none", "success" or "failed"

dag  == <<gate, task, tries, play, summary>>
vars == <<dvars, dag>>

Tasks == {"assess", "drain", "maintain", "verify", "record"}
Ends  == {"done", "unrecorded", "failed"}

TypeOK ==
  /\ DrainTypeOK
  /\ gate \in {"pending", "open", "closed"}
  /\ task \in [Wave -> Tasks \cup Ends]
  /\ tries \in [Wave -> 0..Retries]
  /\ play \in [Wave -> {"off", "drain", "check", "stop", "reboot", "start", "undrain"}]
  /\ summary \in {"none", "success", "failed"}

Init ==
  /\ DrainInit
  /\ gate = "pending"
  /\ task = [h \in Wave |-> "assess"]
  /\ tries = [h \in Wave |-> 0]
  /\ play = [h \in Wave |-> "off"]
  /\ summary = "none"

-----------------------------------------------------------------------------
(* The region gate                                                         *)

Up == {h \in Host : service[h] = "up"}
Used(h) == Cardinality(Claimed(h))

\* The hosts with the most memory in use, as many as may be drained at once.
MostLoaded(V) ==
  /\ V \subseteq Up
  /\ \/ Cardinality(V) = MaxParallelDrains
     \/ V = Up /\ Cardinality(V) < MaxParallelDrains
  /\ \A v \in V, s \in Up \ V : Used(v) >= Used(s)

CapacityFor(V) == MapThenSumSet(Free, Up \ V) >= MapThenSumSet(Used, V)

\* check_services, check_stuck_instances, check_orphan_migrations.
Settled ==
  /\ Up = Host
  /\ \A i \in Instance : dest[i] = NoHost /\ state[i] # "error"

GateOpens ==
  /\ gate = "pending"
  /\ Settled
  /\ \E V \in SUBSET Up : MostLoaded(V) /\ CapacityFor(V)
  /\ gate' = "open"
  /\ UNCHANGED <<task, tries, play, summary>>
  /\ UNCHANGED dvars

\* A blocking failure short-circuits everything, wave_summary included.
GateCloses ==
  /\ gate = "pending"
  /\ ~Settled \/ \E V \in SUBSET Up : MostLoaded(V) /\ ~CapacityFor(V)
  /\ gate' = "closed"
  /\ UNCHANGED <<task, tries, play, summary>>
  /\ UNCHANGED dvars

\* The pre-flight breaks off, without a connection or with an exception: it
\* ends with 1, as with warnings, and the wave goes ahead unchecked.
GateOpensUnchecked ==
  /\ gate = "pending"
  /\ Fault
  /\ gate' = "open"
  /\ UNCHANGED <<task, tries, play, summary>>
  /\ UNCHANGED <<nova, script, strays, placements>>

\* The pre-flight outlasts its timeout, or cannot be started: no host starts,
\* and wave_summary says so.
GateFails ==
  /\ gate = "pending"
  /\ Fault
  /\ gate' = "closed"
  /\ summary' = "failed"
  /\ UNCHANGED <<task, tries, play>>
  /\ UNCHANGED <<nova, script, strays, placements>>

-----------------------------------------------------------------------------
(* The tasks of a host                                                     *)

Advance(h, to) ==
  /\ task' = [task EXCEPT ![h] = to]
  /\ tries' = [tries EXCEPT ![h] = 0]

\* Mutant: one retry too many.
RetryOnceMore(h) ==
  IF tries[h] <= Retries
    THEN tries' = [tries EXCEPT ![h] = @ + 1] /\ UNCHANGED task
    ELSE Advance(h, "failed")

\* Airflow runs the task again, or fails it and everything downstream.
RetryOrFail(h) ==
  IF tries[h] < Retries
    THEN tries' = [tries EXCEPT ![h] = @ + 1] /\ UNCHANGED task
    ELSE Advance(h, "failed")

\* A drain or maintain task that runs holds a slot of the pool.
Holding  == {h \in Wave : drain[h] # "off" \/ play[h] # "off"}
SlotFree == Cardinality(Holding) < PoolSlots

\* The dry run of the drain script, as a run without a fault ends: 2 is for
\* no capacity.
Drainable(h) == On(h) = {} \/ CapacityAvailable(h, Migratable(h))

\* A dry run that breaks off ends with 1 and passes for an empty plan; only
\* its timeout, or a task that dies, is retried.
Assess(h) ==
  /\ gate = "open"
  /\ task[h] = "assess"
  /\ \/ Drainable(h) /\ Advance(h, "drain") /\ UNCHANGED faults
     \/ ~Drainable(h) /\ RetryOrFail(h) /\ UNCHANGED faults
     \/ Fault /\ (Advance(h, "drain") \/ RetryOrFail(h))
  /\ UNCHANGED <<gate, play, summary>>
  /\ UNCHANGED <<nova, script, strays, placements>>

RunScript(h) == drain' = [drain EXCEPT ![h] = "plan"] /\ UNCHANGED <<todo, moving, failed, rc>>
ScriptOff(h) ==
  /\ drain' = [drain EXCEPT ![h] = "off"]
  /\ moving' = [moving EXCEPT ![h] = {}]
  /\ UNCHANGED <<todo, failed, rc>>

StartDrain(h) ==
  /\ task[h] = "drain"
  /\ drain[h] = "off"
  /\ SlotFree
  /\ RunScript(h)
  /\ UNCHANGED <<dag, nova, bounds>>

\* retries=0: a host that did not drain cleanly is left for a human.
DrainDone(h) ==
  /\ task[h] = "drain"
  /\ drain[h] = "ended"
  /\ IF rc[h] = 0 THEN Advance(h, "maintain") ELSE Advance(h, "failed")
  /\ ScriptOff(h)
  /\ UNCHANGED <<gate, play, summary, nova, bounds>>

-----------------------------------------------------------------------------
(* The maintenance playbook                                                *)

StartMaintain(h) ==
  /\ task[h] = "maintain"
  /\ play[h] = "off"
  /\ SlotFree
  /\ play' = [play EXCEPT ![h] = "drain"]
  /\ RunScript(h)
  /\ UNCHANGED <<gate, task, tries, summary, nova, bounds>>

\* A task of the playbook failed: the host stays as it is.
PlayFails(h) ==
  /\ play' = [play EXCEPT ![h] = "off"]
  /\ RetryOrFail(h)
  /\ UNCHANGED <<gate, summary>>

Goto(h, step) ==
  /\ play' = [play EXCEPT ![h] = step]
  /\ UNCHANGED <<gate, task, tries, summary>>

PlayDrained(h) ==
  /\ play[h] = "drain"
  /\ drain[h] = "ended"
  /\ IF rc[h] = 0 THEN Goto(h, "check") ELSE PlayFails(h)
  /\ ScriptOff(h)
  /\ UNCHANGED <<nova, bounds>>

\* virsh lists the domains that run: not what is shut off or still arriving.
CheckDomains(h) ==
  /\ play[h] = "check"
  /\ IF Migratable(h) = {} THEN Goto(h, "stop") ELSE PlayFails(h)
  /\ UNCHANGED dvars

StopService(h) ==
  /\ play[h] = "stop"
  /\ service' = [service EXCEPT ![h] = "down"]
  /\ Goto(h, "reboot")
  /\ UNCHANGED <<enabled, place, dest, state, script, bounds>>

\* Packages are updated and the node reboots; libvirt answers again.
Reboot(h) ==
  /\ play[h] = "reboot"
  /\ Goto(h, "start")
  /\ UNCHANGED dvars

StartService(h) ==
  /\ play[h] = "start"
  /\ service' = [service EXCEPT ![h] = "up"]
  /\ Goto(h, "undrain")
  /\ UNCHANGED <<enabled, place, dest, state, script, bounds>>

\* Mutant: the node is never returned to the scheduler.
NoUndrain(h) ==
  /\ play[h] = "undrain"
  /\ play' = [play EXCEPT ![h] = "off"]
  /\ Advance(h, "verify")
  /\ UNCHANGED <<gate, summary, dvars>>

Undrain(h) ==
  /\ play[h] = "undrain"
  /\ enabled' = [enabled EXCEPT ![h] = TRUE]
  /\ play' = [play EXCEPT ![h] = "off"]
  /\ Advance(h, "verify")
  /\ UNCHANGED <<gate, summary>>
  /\ UNCHANGED <<service, place, dest, state, script, bounds>>

\* Any task after the drain may fail, on its first run or on the retry.
PlayBreaks(h) ==
  /\ play[h] \in {"check", "stop", "reboot", "start", "undrain"}
  /\ Fault
  /\ PlayFails(h)
  /\ UNCHANGED <<nova, script, strays, placements>>

\* The script is killed, by the task's timeout or with its worker.
ScriptDies(h) ==
  /\ drain[h] \notin {"off", "ended"}
  /\ IF \E i \in moving[h] : dest[i] # NoHost
       THEN Stray /\ UNCHANGED faults
       ELSE Fault /\ UNCHANGED strays
  /\ ScriptOff(h)
  /\ IF play[h] = "drain"
       THEN PlayFails(h)
       ELSE Advance(h, "failed") /\ UNCHANGED <<gate, play, summary>>
  /\ UNCHANGED <<nova, placements>>

-----------------------------------------------------------------------------
(* After maintenance                                                       *)

\* The report shows the hypervisor "up", whether enabled or disabled; or it
\* cannot be had, or nova-compute has not reported back yet.
Verify(h) ==
  /\ task[h] = "verify"
  /\ \/ service[h] = "up" /\ Advance(h, "record") /\ UNCHANGED faults
     \/ RetryOrFail(h) /\ IF service[h] = "up" THEN Fault ELSE UNCHANGED faults
  /\ UNCHANGED <<gate, play, summary>>
  /\ UNCHANGED <<nova, script, strays, placements>>

\* move_to_aggregate.
RecordHost(h) ==
  /\ task[h] = "record"
  /\ \/ Advance(h, "done") /\ UNCHANGED faults
     \/ Fault /\ IF tries[h] < Retries THEN RetryOrFail(h) ELSE Advance(h, "unrecorded")
  /\ UNCHANGED <<gate, play, summary>>
  /\ UNCHANGED <<nova, script, strays, placements>>

\* Mutant: a host whose verify never ran is counted as skipped.
SummarizeRun ==
  /\ gate = "open"
  /\ summary = "none"
  /\ \A h \in Wave : task[h] \in Ends
  /\ summary' = "success"
  /\ UNCHANGED <<gate, task, tries, play>>
  /\ UNCHANGED dvars

\* Runs once every host has ended; it goes by the verify tasks alone.
Summarize ==
  /\ gate = "open"
  /\ summary = "none"
  /\ \A h \in Wave : task[h] \in Ends
  /\ summary' = IF \E h \in Wave : task[h] = "failed" THEN "failed" ELSE "success"
  /\ UNCHANGED <<gate, task, tries, play>>
  /\ UNCHANGED dvars

HostStep(h) ==
  \/ Assess(h) \/ StartDrain(h) \/ DrainDone(h) \/ StartMaintain(h)
  \/ PlayDrained(h) \/ CheckDomains(h) \/ StopService(h) \/ Reboot(h)
  \/ StartService(h) \/ Undrain(h) \/ Verify(h) \/ RecordHost(h)

\* The wave is over when its summary is out, or the gate was closed.
Over == (summary # "none" \/ gate = "closed") /\ UNCHANGED vars

Next ==
  \/ GateOpens \/ GateCloses \/ GateOpensUnchecked \/ GateFails
  \/ Summarize \/ Over
  \/ \E h \in Wave : HostStep(h) \/ PlayBreaks(h) \/ ScriptDies(h)
  \/ \E h \in Wave : DrainStep(h) /\ UNCHANGED dag
  \/ \E i \in Instance : NovaStep(i) /\ UNCHANGED dag

Spec == Init /\ [][Next]_vars

\* Airflow runs what is due, the script runs on, a migration ends.  A slot is
\* free for good once the hosts before have ended: weak fairness is enough.
Fairness ==
  /\ WF_vars(GateOpens \/ GateCloses)
  /\ WF_vars(Summarize)
  /\ \A h \in Wave : WF_vars(HostStep(h)) /\ WF_vars(DrainStep(h) /\ UNCHANGED dag)
  /\ \A i \in Instance :
       WF_vars((MigrationLands(i) \/ MigrationFails(i)) /\ UNCHANGED dag)

FairSpec == Spec /\ Fairness

-----------------------------------------------------------------------------
(* Properties                                                              *)

Rebooting(h) == play[h] = "reboot" /\ play'[h] = "start"

\* "is empty and ready for maintenance" (compute_node_drain.py:168): no node
\* is rebooted with an instance on it, or one that is just arriving.
RebootOnlyEmpty == [][\A h \in Wave : Rebooting(h) => Claimed(h) = {}]_vars

\* It does hold of nodes that were disabled first, as long as drains do not
\* overlap and no migration has outlasted the wait for it: none is
\* rebooted with an instance, running or shut off, on it or arriving.
RebootDisabledEmpty ==
  [][\A h \in Wave :
       Rebooting(h) /\ ~enabled[h] /\ PoolSlots = 1 /\ strays = 0 => Claimed(h) = {}]_vars

\* "Fails the run unless every host finished" (line 253): when the summary
\* says success every host of the wave is enabled and running again.
SuccessMeansBack ==
  summary = "success" => \A h \in Wave : enabled[h] /\ service[h] = "up"

\* A node that is out of the scheduler is in the hands of a task, or reported.
OutIsAccountedFor ==
  \A h \in Wave : ~enabled[h] => task[h] \in {"drain", "maintain", "failed"}

\* The wave ends: no task waits for a slot, a migration or a host for ever.
WaveEnds == <>(summary # "none" \/ gate = "closed")
=============================================================================
