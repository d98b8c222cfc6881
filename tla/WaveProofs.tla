----------------------------- MODULE WaveProofs -----------------------------
(***************************************************************************)
(* Theorems about MigrationWave, for every region, wave, pool size, number *)
(* of retries and bound: an inductive invariant that relates the tasks of  *)
(* a host, the script and the playbook they run, and the state of its      *)
(* nova-compute; and a second one, on what is still to come to a node that *)
(* is disabled.                                                            *)
(***************************************************************************)
EXTENDS MigrationWave, FiniteSetTheorems, TLAPS

\* The drain script runs for hosts of the wave only: for the drain task, or as
\* the first task of the playbook.
ScriptInv ==
  \A h \in Host : drain[h] # "off" =>
    /\ h \in Wave
    /\ \/ task[h] = "drain"
       \/ task[h] = "maintain" /\ play[h] = "drain"

\* The playbook runs for the maintain task.
PlayInv == \A h \in Wave : play[h] # "off" => task[h] = "maintain"

\* A stopped nova-compute is started before the node is returned.
DownInv ==
  \A h \in Wave :
    /\ service[h] = "down" => task[h] \in {"maintain", "failed"}
    /\ play[h] = "undrain" => service[h] = "up"

\* A successful summary is about hosts that have all ended well, for good.
SummaryInv ==
  summary = "success" => \A h \in Wave : task[h] \in {"done", "unrecorded"}

IInv ==
  /\ TypeOK
  /\ OutIsAccountedFor
  /\ ScriptInv
  /\ PlayInv
  /\ DownInv
  /\ SummaryInv

-----------------------------------------------------------------------------
\* Init gives every variable a value of its type.
LEMMA InitTypes == Init => TypeOK
  BY NoHostAssumption, RegionAssumption, LimitsAssumption, WaveAssumption DEF
     Init, DrainInit, TypeOK, DrainTypeOK, Tasks, Ends

\* What the bounded events and the moves of a task do to the types.
LEMMA BoundsTyped ==
  ASSUME TypeOK
  PROVE  /\ Fault => faults' \in 0..MaxFaults
         /\ Stray => strays' \in 0..MaxStrays
  BY LimitsAssumption DEF Fault, Stray, TypeOK, DrainTypeOK

LEMMA AdvanceTyped ==
  ASSUME TypeOK, NEW h \in Wave, NEW to \in Tasks \cup Ends, Advance(h, to)
  PROVE  task' \in [Wave -> Tasks \cup Ends] /\ tries' \in [Wave -> 0..Retries]
  BY WaveAssumption DEF Advance, TypeOK

LEMMA RetryTyped ==
  ASSUME TypeOK, NEW h \in Wave, RetryOrFail(h)
  PROVE  task' \in [Wave -> Tasks \cup Ends] /\ tries' \in [Wave -> 0..Retries]
<1>1. CASE tries[h] < Retries
  BY <1>1, WaveAssumption DEF RetryOrFail, TypeOK
<1>2. CASE ~(tries[h] < Retries)
  BY <1>2, AdvanceTyped DEF RetryOrFail, Ends
<1> QED
  BY <1>1, <1>2

\* A retry leaves every task where it is, or fails that of the host.
LEMMA RetryMoves ==
  ASSUME TypeOK, NEW h \in Wave, RetryOrFail(h)
  PROVE  \A g \in Wave : task'[g] = task[g] \/ (g = h /\ task'[g] = "failed")
<1>1. CASE tries[h] < Retries
  BY <1>1 DEF RetryOrFail
<1>2. CASE ~(tries[h] < Retries)
  BY <1>2 DEF RetryOrFail, Advance, TypeOK
<1> QED
  BY <1>1, <1>2

\* Every step of a host, of the script and of Nova keeps the types.
LEMMA StepTypes == TypeOK /\ [Next]_vars => TypeOK'
<1> SUFFICES ASSUME TypeOK, [Next]_vars PROVE TypeOK'
  OBVIOUS
<1> USE WaveAssumption, LimitsAssumption
    DEF TypeOK, DrainTypeOK, Tasks, Ends, dvars, nova, script, bounds, dag
<1>1. CASE GateOpens
  BY <1>1 DEF GateOpens
<1>2. CASE GateCloses
  BY <1>2 DEF GateCloses
<1>3. CASE GateFails \/ GateOpensUnchecked
  BY BoundsTyped, <1>3 DEF GateFails, GateOpensUnchecked
<1>4. CASE Summarize
  BY <1>4 DEF Summarize
<1>5. CASE UNCHANGED vars
  BY <1>5 DEF vars
<1>6. ASSUME NEW h \in Wave, Assess(h)
      PROVE  TypeOK'
  BY <1>6 DEF Assess, Advance, RetryOrFail, Fault
<1>7. ASSUME NEW h \in Wave, StartDrain(h)
      PROVE  TypeOK'
  BY <1>7 DEF StartDrain, RunScript
<1>8. ASSUME NEW h \in Wave, DrainDone(h)
      PROVE  TypeOK'
  BY <1>8 DEF DrainDone, Advance, ScriptOff
<1>9. ASSUME NEW h \in Wave, StartMaintain(h)
      PROVE  TypeOK'
  BY <1>9 DEF StartMaintain, RunScript
<1>10. ASSUME NEW h \in Wave, PlayDrained(h)
      PROVE  TypeOK'
  BY <1>10 DEF PlayDrained, Goto, PlayFails, Advance, RetryOrFail, ScriptOff
<1>11. ASSUME NEW h \in Wave, CheckDomains(h)
      PROVE  TypeOK'
  BY <1>11 DEF CheckDomains, Goto, PlayFails, Advance, RetryOrFail
<1>12. ASSUME NEW h \in Wave, StopService(h)
      PROVE  TypeOK'
  BY <1>12 DEF StopService, Goto
<1>13. ASSUME NEW h \in Wave, Reboot(h)
      PROVE  TypeOK'
  BY <1>13 DEF Reboot, Goto
<1>14. ASSUME NEW h \in Wave, StartService(h)
      PROVE  TypeOK'
  BY <1>14 DEF StartService, Goto
<1>15. ASSUME NEW h \in Wave, Undrain(h)
      PROVE  TypeOK'
  BY <1>15 DEF Undrain, Advance
<1>16. ASSUME NEW h \in Wave, Verify(h)
      PROVE  TypeOK'
  BY <1>16 DEF Verify, Advance, RetryOrFail, Fault
<1>17. ASSUME NEW h \in Wave, RecordHost(h)
      PROVE  TypeOK'
  BY <1>17 DEF RecordHost, Advance, RetryOrFail, Fault
<1>18. ASSUME NEW h \in Wave, PlayBreaks(h)
      PROVE  TypeOK'
  BY <1>18 DEF PlayBreaks, PlayFails, Advance, RetryOrFail, Fault
<1>19. ASSUME NEW h \in Wave, ScriptDies(h)
      PROVE  TypeOK'
  <2>1. task' \in [Wave -> Tasks \cup Ends] /\ tries' \in [Wave -> 0..Retries]
    BY <1>19, AdvanceTyped, RetryTyped DEF ScriptDies, PlayFails
  <2>2. faults' \in 0..MaxFaults /\ strays' \in 0..MaxStrays
    BY <1>19, BoundsTyped DEF ScriptDies
  <2>3. play' \in [Wave -> {"off", "drain", "check", "stop", "reboot", "start", "undrain"}]
    BY <1>19 DEF ScriptDies, PlayFails
  <2>4. /\ drain' \in [Host -> {"off", "plan", "capacity", "disable", "move", "wait", "ended"}]
        /\ moving' \in [Host -> SUBSET Instance]
    BY <1>19 DEF ScriptDies, ScriptOff
  <2>5. UNCHANGED <<nova, todo, failed, rc, placements, gate, summary>>
    BY <1>19 DEF ScriptDies, ScriptOff, PlayFails
  <2> QED
    BY <2>1, <2>2, <2>3, <2>4, <2>5
<1>20. ASSUME NEW h \in Wave, PlanEmpty(h), UNCHANGED dag
      PROVE  TypeOK'
  BY <1>20 DEF PlanEmpty, End
<1>21. ASSUME NEW h \in Wave, PlanDrain(h), UNCHANGED dag
      PROVE  TypeOK'
  BY <1>21 DEF PlanDrain, Migratable, On
<1>22. ASSUME NEW h \in Wave, CheckCapacity(h), UNCHANGED dag
      PROVE  TypeOK'
  BY <1>22 DEF CheckCapacity, End
<1>23. ASSUME NEW h \in Wave, Disable(h), UNCHANGED dag
      PROVE  TypeOK'
  BY <1>23 DEF Disable
<1>24. ASSUME NEW h \in Wave, Migrate(h), UNCHANGED dag
      PROVE  TypeOK'
  <2>1. PICK i \in todo[h] :
          /\ \E d \in Candidates \ {place[i]} : dest' = [dest EXCEPT ![i] = d]
          /\ todo' = [todo EXCEPT ![h] = @ \ {i}]
          /\ moving' = [moving EXCEPT ![h] = {i}]
    BY <1>24 DEF Migrate
  <2>2. PICK d \in Candidates \ {place[i]} : dest' = [dest EXCEPT ![i] = d]
    BY <2>1
  <2>3. h \in Host /\ i \in Instance /\ d \in Host
    BY <1>24 DEF Candidates
  <2>4. dest' \in [Instance -> Host \cup {NoHost}]
    BY <2>2, <2>3
  <2>5. todo' \in [Host -> SUBSET Instance] /\ moving' \in [Host -> SUBSET Instance]
    BY <2>1, <2>3
  <2> QED
    BY <1>24, <2>4, <2>5 DEF Migrate
<1>25. ASSUME NEW h \in Wave, MigrateRefused(h), UNCHANGED dag
      PROVE  TypeOK'
  BY <1>25 DEF MigrateRefused, Fault
<1>26. ASSUME NEW h \in Wave, Landed(h), UNCHANGED dag
      PROVE  TypeOK'
  BY <1>26 DEF Landed, Answered
<1>27. ASSUME NEW h \in Wave, GivesUp(h), UNCHANGED dag
      PROVE  TypeOK'
  BY <1>27 DEF GivesUp, Answered, Stray
<1>28. ASSUME NEW h \in Wave, FinishDrain(h), UNCHANGED dag
      PROVE  TypeOK'
  BY <1>28 DEF FinishDrain, End
<1>29. ASSUME NEW i \in Instance, MigrationLands(i), UNCHANGED dag
      PROVE  TypeOK'
  BY <1>29 DEF MigrationLands
<1>30. ASSUME NEW i \in Instance, MigrationFails(i), UNCHANGED dag
      PROVE  TypeOK'
  BY <1>30 DEF MigrationFails, Fault
<1>31. ASSUME NEW i \in Instance, CreateInstance(i), UNCHANGED dag
      PROVE  TypeOK'
  BY <1>31 DEF CreateInstance, Candidates
<1> QED
  BY <1>1, <1>2, <1>3, <1>4, <1>5, <1>6, <1>7, <1>8, <1>9, <1>10, <1>11,
     <1>12, <1>13, <1>14, <1>15, <1>16, <1>17, <1>18, <1>19, <1>20, <1>21,
     <1>22, <1>23, <1>24, <1>25, <1>26, <1>27, <1>28, <1>29, <1>30, <1>31
  DEF Next, Over, HostStep, DrainStep, NovaStep

\* MigrationWave!TypeOK: every variable keeps its type.
THEOREM Typing == Spec => []TypeOK
<1>1. Init => TypeOK
  BY InitTypes
<1>2. TypeOK /\ [Next]_vars => TypeOK'
  BY StepTypes
<1> QED
  BY <1>1, <1>2, PTL DEF Spec

-----------------------------------------------------------------------------
\* Nothing runs to begin with, and every nova-compute is up and enabled.
LEMMA InitControl == Init => IInv
  BY InitTypes, WaveAssumption DEF Init, DrainInit, IInv, OutIsAccountedFor,
     ScriptInv, PlayInv, DownInv, SummaryInv

\* IInv is inductive.
LEMMA StepControl == IInv /\ [Next]_vars => IInv'
<1> SUFFICES ASSUME IInv, [Next]_vars PROVE IInv'
  OBVIOUS
<1> USE WaveAssumption DEF IInv
<1> TypeOK'
  BY StepTypes
<1> USE DEF OutIsAccountedFor, ScriptInv, PlayInv, DownInv, SummaryInv,
            TypeOK, DrainTypeOK, Tasks, Ends, dvars, nova, script, bounds, dag
<1>1. CASE GateOpens
  BY <1>1 DEF GateOpens
<1>2. CASE GateCloses
  BY <1>2 DEF GateCloses
<1>3. CASE GateFails \/ GateOpensUnchecked
  BY <1>3 DEF GateFails, GateOpensUnchecked, Fault
<1>4. CASE Summarize
  BY <1>4 DEF Summarize
<1>5. CASE UNCHANGED vars
  BY <1>5 DEF vars
<1>6. ASSUME NEW h \in Wave, Assess(h)
      PROVE  IInv'
  BY <1>6 DEF Assess, Advance, RetryOrFail, Fault
<1>7. ASSUME NEW h \in Wave, StartDrain(h)
      PROVE  IInv'
  BY <1>7 DEF StartDrain, RunScript
<1>8. ASSUME NEW h \in Wave, DrainDone(h)
      PROVE  IInv'
  <2>1. OutIsAccountedFor'
    BY <1>8 DEF DrainDone, Advance, ScriptOff
  <2>2. ScriptInv'
    BY <1>8 DEF DrainDone, Advance, ScriptOff
  <2>3. PlayInv'
    BY <1>8 DEF DrainDone, Advance, ScriptOff
  <2>4. DownInv'
    BY <1>8 DEF DrainDone, Advance, ScriptOff
  <2>5. SummaryInv'
    BY <1>8 DEF DrainDone, Advance, ScriptOff
  <2> QED
    BY <2>1, <2>2, <2>3, <2>4, <2>5
<1>9. ASSUME NEW h \in Wave, StartMaintain(h)
      PROVE  IInv'
  BY <1>9 DEF StartMaintain, RunScript
<1>10. ASSUME NEW h \in Wave, PlayDrained(h)
      PROVE  IInv'
  <2>1. OutIsAccountedFor'
    BY <1>10, RetryMoves DEF PlayDrained, Goto, PlayFails, ScriptOff
  <2>2. ScriptInv'
    BY <1>10, RetryMoves DEF PlayDrained, Goto, PlayFails, ScriptOff
  <2>3. PlayInv'
    BY <1>10, RetryMoves DEF PlayDrained, Goto, PlayFails, ScriptOff
  <2>4. DownInv'
    BY <1>10, RetryMoves DEF PlayDrained, Goto, PlayFails, ScriptOff
  <2>5. SummaryInv'
    BY <1>10, RetryMoves DEF PlayDrained, Goto, PlayFails, ScriptOff
  <2> QED
    BY <2>1, <2>2, <2>3, <2>4, <2>5
<1>11. ASSUME NEW h \in Wave, CheckDomains(h)
      PROVE  IInv'
  <2>1. OutIsAccountedFor'
    BY <1>11, RetryMoves DEF CheckDomains, Goto, PlayFails
  <2>2. ScriptInv'
    BY <1>11, RetryMoves DEF CheckDomains, Goto, PlayFails
  <2>3. PlayInv'
    BY <1>11, RetryMoves DEF CheckDomains, Goto, PlayFails
  <2>4. DownInv'
    BY <1>11, RetryMoves DEF CheckDomains, Goto, PlayFails
  <2>5. SummaryInv'
    BY <1>11, RetryMoves DEF CheckDomains, Goto, PlayFails
  <2> QED
    BY <2>1, <2>2, <2>3, <2>4, <2>5
<1>12. ASSUME NEW h \in Wave, StopService(h)
      PROVE  IInv'
  BY <1>12 DEF StopService, Goto
<1>13. ASSUME NEW h \in Wave, Reboot(h)
      PROVE  IInv'
  BY <1>13 DEF Reboot, Goto
<1>14. ASSUME NEW h \in Wave, StartService(h)
      PROVE  IInv'
  BY <1>14 DEF StartService, Goto
<1>15. ASSUME NEW h \in Wave, Undrain(h)
      PROVE  IInv'
  <2>1. OutIsAccountedFor'
    BY <1>15 DEF Undrain, Advance
  <2>2. ScriptInv'
    BY <1>15 DEF Undrain, Advance
  <2>3. PlayInv'
    BY <1>15 DEF Undrain, Advance
  <2>4. DownInv'
    BY <1>15 DEF Undrain, Advance
  <2>5. SummaryInv'
    BY <1>15 DEF Undrain, Advance
  <2> QED
    BY <2>1, <2>2, <2>3, <2>4, <2>5
<1>16. ASSUME NEW h \in Wave, Verify(h)
      PROVE  IInv'
  BY <1>16 DEF Verify, Advance, RetryOrFail, Fault
<1>17. ASSUME NEW h \in Wave, RecordHost(h)
      PROVE  IInv'
  BY <1>17 DEF RecordHost, Advance, RetryOrFail, Fault
<1>18. ASSUME NEW h \in Wave, PlayBreaks(h)
      PROVE  IInv'
  <2>1. OutIsAccountedFor'
    BY <1>18, RetryMoves DEF PlayBreaks, PlayFails, Fault
  <2>2. ScriptInv'
    BY <1>18, RetryMoves DEF PlayBreaks, PlayFails, Fault
  <2>3. PlayInv'
    BY <1>18, RetryMoves DEF PlayBreaks, PlayFails, Fault
  <2>4. DownInv'
    BY <1>18, RetryMoves DEF PlayBreaks, PlayFails, Fault
  <2>5. SummaryInv'
    BY <1>18, RetryMoves DEF PlayBreaks, PlayFails, Fault
  <2> QED
    BY <2>1, <2>2, <2>3, <2>4, <2>5
<1>19. ASSUME NEW h \in Wave, ScriptDies(h)
      PROVE  IInv'
  <2>1. OutIsAccountedFor'
    BY <1>19, RetryMoves DEF ScriptDies, PlayFails, Advance, Fault, Stray,
       ScriptOff
  <2>2. ScriptInv'
    BY <1>19, RetryMoves DEF ScriptDies, PlayFails, Advance, Fault, Stray,
       ScriptOff
  <2>3. PlayInv'
    BY <1>19, RetryMoves DEF ScriptDies, PlayFails, Advance, Fault, Stray,
       ScriptOff
  <2>4. DownInv'
    BY <1>19, RetryMoves DEF ScriptDies, PlayFails, Advance, Fault, Stray,
       ScriptOff
  <2>5. SummaryInv'
    BY <1>19, RetryMoves DEF ScriptDies, PlayFails, Advance, Fault, Stray,
       ScriptOff
  <2> QED
    BY <2>1, <2>2, <2>3, <2>4, <2>5
<1>20. ASSUME NEW h \in Wave, PlanEmpty(h), UNCHANGED dag
      PROVE  IInv'
  BY <1>20 DEF PlanEmpty, End
<1>21. ASSUME NEW h \in Wave, PlanDrain(h), UNCHANGED dag
      PROVE  IInv'
  BY <1>21 DEF PlanDrain, Migratable, On
<1>22. ASSUME NEW h \in Wave, CheckCapacity(h), UNCHANGED dag
      PROVE  IInv'
  BY <1>22 DEF CheckCapacity, End
<1>23. ASSUME NEW h \in Wave, Disable(h), UNCHANGED dag
      PROVE  IInv'
  BY <1>23 DEF Disable
<1>24. ASSUME NEW h \in Wave, Migrate(h), UNCHANGED dag
      PROVE  IInv'
  BY <1>24 DEF Migrate
<1>25. ASSUME NEW h \in Wave, MigrateRefused(h), UNCHANGED dag
      PROVE  IInv'
  BY <1>25 DEF MigrateRefused, Fault
<1>26. ASSUME NEW h \in Wave, Landed(h), UNCHANGED dag
      PROVE  IInv'
  BY <1>26 DEF Landed, Answered
<1>27. ASSUME NEW h \in Wave, GivesUp(h), UNCHANGED dag
      PROVE  IInv'
  BY <1>27 DEF GivesUp, Answered, Stray
<1>28. ASSUME NEW h \in Wave, FinishDrain(h), UNCHANGED dag
      PROVE  IInv'
  BY <1>28 DEF FinishDrain, End
<1>29. ASSUME NEW i \in Instance, MigrationLands(i), UNCHANGED dag
      PROVE  IInv'
  BY <1>29 DEF MigrationLands
<1>30. ASSUME NEW i \in Instance, MigrationFails(i), UNCHANGED dag
      PROVE  IInv'
  BY <1>30 DEF MigrationFails, Fault
<1>31. ASSUME NEW i \in Instance, CreateInstance(i), UNCHANGED dag
      PROVE  IInv'
  BY <1>31 DEF CreateInstance, Candidates
<1> QED
  BY <1>1, <1>2, <1>3, <1>4, <1>5, <1>6, <1>7, <1>8, <1>9, <1>10, <1>11,
     <1>12, <1>13, <1>14, <1>15, <1>16, <1>17, <1>18, <1>19, <1>20, <1>21,
     <1>22, <1>23, <1>24, <1>25, <1>26, <1>27, <1>28, <1>29, <1>30, <1>31
  DEF Next, Over, HostStep, DrainStep, NovaStep

\* The invariant of every reachable state.
LEMMA Control == Spec => []IInv
<1>1. Init => IInv
  BY InitControl
<1>2. IInv /\ [Next]_vars => IInv'
  BY StepControl
<1> QED
  BY <1>1, <1>2, PTL DEF Spec

\* A node that is out of the scheduler is in the hands of a task that drains
\* or maintains it, or its host is reported failed: no path through retries,
\* breaking playbooks and killed scripts loses it.
THEOREM NodesAccountedFor == Spec => []OutIsAccountedFor
<1>1. IInv => OutIsAccountedFor
  BY DEF IInv
<1> QED
  BY <1>1, Control, PTL

\* When wave_summary passes, every node of the wave is enabled and running.
THEOREM SummaryTellsTheTruth == Spec => []SuccessMeansBack
<1>1. IInv => SuccessMeansBack
  <2> SUFFICES ASSUME IInv, summary = "success", NEW h \in Wave
               PROVE  enabled[h] /\ service[h] = "up"
    BY DEF SuccessMeansBack
  <2>1. task[h] \in {"done", "unrecorded"}
    BY DEF IInv, SummaryInv
  <2>2. enabled[h]
    BY <2>1 DEF IInv, OutIsAccountedFor
  <2>3. service[h] = "up"
    BY <2>1, WaveAssumption DEF IInv, DownInv, TypeOK, DrainTypeOK
  <2> QED
    BY <2>2, <2>3
<1> QED
  BY <1>1, Control, PTL

-----------------------------------------------------------------------------
(* The pool                                                                *)

PoolInv == Cardinality(Holding) <= PoolSlots

\* The hosts of a wave are finitely many, so those at work can be counted.
LEMMA HoldingFinite ==
  /\ IsFiniteSet(Holding) /\ Cardinality(Holding) \in Nat
  /\ IsFiniteSet(Holding') /\ Cardinality(Holding') \in Nat
<1>1. IsFiniteSet(Wave)
  BY FiniteAssumption, WaveAssumption, FS_Subset
<1>2. Holding \subseteq Wave /\ Holding' \subseteq Wave
  BY DEF Holding
<1> QED
  BY <1>1, <1>2, FS_Subset, FS_CardinalityType

\* No step puts more hosts to work than one, and that only with a free slot.
LEMMA HoldingSteps ==
  ASSUME TypeOK, [Next]_vars
  PROVE  \/ Holding' \subseteq Holding
         \/ SlotFree /\ \E h \in Wave : Holding' \subseteq Holding \cup {h}
<1> USE WaveAssumption
    DEF TypeOK, DrainTypeOK, dvars, nova, script, bounds, dag, Holding
<1>1. CASE GateOpens \/ GateCloses \/ GateOpensUnchecked \/ GateFails \/ Summarize \/ UNCHANGED vars
  BY <1>1 DEF GateOpens, GateCloses, GateOpensUnchecked, GateFails, Summarize, vars
<1>2. ASSUME NEW h \in Wave, StartDrain(h) \/ StartMaintain(h)
      PROVE  SlotFree /\ Holding' \subseteq Holding \cup {h}
  BY <1>2 DEF StartDrain, StartMaintain, RunScript
<1>3. ASSUME NEW h \in Wave, Assess(h) \/ Verify(h) \/ RecordHost(h)
      PROVE  Holding' \subseteq Holding
  BY <1>3 DEF Assess, Verify, RecordHost
<1>4. ASSUME NEW h \in Wave, DrainDone(h) \/ PlayDrained(h)
      PROVE  Holding' \subseteq Holding
  BY <1>4 DEF DrainDone, PlayDrained, Goto, PlayFails, ScriptOff
<1>5. ASSUME NEW h \in Wave,
             CheckDomains(h) \/ StopService(h) \/ Reboot(h) \/ StartService(h) \/ Undrain(h)
      PROVE  Holding' \subseteq Holding
  BY <1>5 DEF CheckDomains, StopService, Reboot, StartService, Undrain, Goto, PlayFails
<1>6. ASSUME NEW h \in Wave, PlayBreaks(h) \/ ScriptDies(h)
      PROVE  Holding' \subseteq Holding
  BY <1>6 DEF PlayBreaks, ScriptDies, PlayFails, ScriptOff
<1>7. ASSUME NEW h \in Wave, DrainStep(h), UNCHANGED dag
      PROVE  Holding' \subseteq Holding
  BY <1>7 DEF DrainStep, PlanEmpty, PlanDrain, CheckCapacity, Disable, Migrate,
     MigrateRefused, Landed, GivesUp, FinishDrain, End, Answered
<1>8. ASSUME NEW i \in Instance, NovaStep(i), UNCHANGED dag
      PROVE  Holding' \subseteq Holding
  BY <1>8 DEF NovaStep, MigrationLands, MigrationFails, CreateInstance
<1> QED
  BY <1>1, <1>2, <1>3, <1>4, <1>5, <1>6, <1>7, <1>8 DEF Next, Over, HostStep

\* Never do more drain and maintain tasks run than the pool has slots.
THEOREM PoolIsKept == Spec => []PoolInv
<1>1. Init => PoolInv
  <2> SUFFICES ASSUME Init PROVE PoolInv
    OBVIOUS
  <2>1. Holding = {}
    BY WaveAssumption DEF Init, DrainInit, Holding
  <2> QED
    BY <2>1, FS_EmptySet, WaveAssumption DEF PoolInv
<1>2. TypeOK /\ PoolInv /\ [Next]_vars => PoolInv'
  <2> SUFFICES ASSUME TypeOK, PoolInv, [Next]_vars PROVE PoolInv'
    OBVIOUS
  <2>1. CASE Holding' \subseteq Holding
    BY <2>1, HoldingFinite, FS_Subset, WaveAssumption DEF PoolInv
  <2>2. ASSUME NEW h \in Wave, SlotFree, Holding' \subseteq Holding \cup {h}
        PROVE  PoolInv'
    <3>1. /\ IsFiniteSet(Holding \cup {h})
          /\ Cardinality(Holding \cup {h}) \in Nat
          /\ Cardinality(Holding \cup {h}) <= Cardinality(Holding) + 1
      <4>1. CASE h \in Holding
        <5>1. Holding \cup {h} = Holding
          BY <4>1
        <5> QED
          BY <5>1, HoldingFinite
      <4>2. CASE h \notin Holding
        <5>1. /\ IsFiniteSet(Holding \cup {h})
              /\ Cardinality(Holding \cup {h}) = Cardinality(Holding) + 1
          BY <4>2, HoldingFinite, FS_AddElement
        <5> QED
          BY <5>1, HoldingFinite
      <4> QED
        BY <4>1, <4>2
    <3>2. Cardinality(Holding') <= Cardinality(Holding \cup {h})
      BY <2>2, <3>1, FS_Subset
    <3> QED
      BY <2>2, <3>1, <3>2, HoldingFinite, WaveAssumption DEF PoolInv, SlotFree
  <2> QED
    BY <2>1, <2>2, HoldingSteps
<1> QED
  BY <1>1, <1>2, Typing, PTL DEF Spec

\* With a pool of one slot at most one host is at work.
LEMMA OneAtWork ==
  ASSUME PoolInv, PoolSlots = 1, NEW g \in Holding, NEW h \in Holding
  PROVE  g = h
<1> SUFFICES ASSUME g # h PROVE FALSE
  OBVIOUS
<1>1. IsFiniteSet({g}) /\ Cardinality({g}) = 1 /\ h \notin {g}
  BY FS_Singleton
<1>2. Cardinality({g} \cup {h}) = 2
  BY <1>1, FS_AddElement
<1>3. Cardinality({g} \cup {h}) <= Cardinality(Holding)
  BY HoldingFinite, FS_Subset
<1> QED
  BY <1>2, <1>3, HoldingFinite DEF PoolInv

-----------------------------------------------------------------------------
(* What is still to come to a node that is disabled                        *)

\* As long as no script has given a migration up, one waits for each of them.
AwaitedInv ==
  strays = 0 =>
    \A i \in Instance : dest[i] # NoHost =>
      \E h \in Wave : drain[h] = "wait" /\ moving[h] = {i}

\* With one slot nothing is on its way to a node that has been disabled: when
\* it was, no other script was waiting, and no migration is sent there since.
ShunnedInv ==
  PoolSlots = 1 /\ strays = 0 =>
    \A h \in Wave : ~enabled[h] => \A i \in Instance : dest[i] # h

\* A drain has found the node empty, and the playbook goes on from there.
Emptied(h) ==
  \/ drain[h] = "ended" /\ rc[h] = 0
  \/ play[h] \in {"check", "stop", "reboot"}

\* A disabled node that was found empty stays so until it has been rebooted.
EmptyInv ==
  PoolSlots = 1 /\ strays = 0 =>
    \A h \in Wave : ~enabled[h] /\ Emptied(h) => On(h) = {}

ComingInv == AwaitedInv /\ ShunnedInv /\ EmptyInv

\* A migration that is given up is counted for good.
LEMMA StraysGrow ==
  ASSUME TypeOK, [Next]_vars
  PROVE  strays' = 0 => strays = 0
<1> USE DEF TypeOK, DrainTypeOK, dvars, nova, script, bounds, dag
<1>1. CASE GateOpens \/ GateCloses \/ GateOpensUnchecked \/ GateFails \/ Summarize \/ UNCHANGED vars
  BY <1>1 DEF GateOpens, GateCloses, GateOpensUnchecked, GateFails, Summarize, vars
<1>2. ASSUME NEW h \in Wave, HostStep(h) \/ PlayBreaks(h)
      PROVE  strays' = strays
  BY <1>2 DEF HostStep, Assess, StartDrain, DrainDone, StartMaintain, PlayDrained,
     CheckDomains, StopService, Reboot, StartService, Undrain, Verify, RecordHost,
     PlayBreaks
<1>3. ASSUME NEW h \in Wave, ScriptDies(h)
      PROVE  strays' = 0 => strays = 0
  BY <1>3 DEF ScriptDies, Stray
<1>4. ASSUME NEW h \in Wave, DrainStep(h)
      PROVE  strays' = 0 => strays = 0
  <2>1. CASE GivesUp(h)
    <3>1. strays' = strays \/ strays' = strays + 1
      BY <2>1 DEF GivesUp, Stray
    <3> QED
      BY <3>1
  <2>2. CASE ~GivesUp(h)
    BY <1>4, <2>2 DEF DrainStep, PlanEmpty, PlanDrain, CheckCapacity, Disable,
       Migrate, MigrateRefused, Landed, FinishDrain
  <2> QED
    BY <2>1, <2>2
<1>5. ASSUME NEW i \in Instance, NovaStep(i)
      PROVE  strays' = strays
  BY <1>5 DEF NovaStep, MigrationLands, MigrationFails, CreateInstance
<1> QED
  BY <1>1, <1>2, <1>3, <1>4, <1>5 DEF Next, Over

\* Only the script that waits for a migration stops waiting for it.
LEMMA StepAwaited == IInv /\ AwaitedInv /\ [Next]_vars => AwaitedInv'
<1> SUFFICES ASSUME IInv, AwaitedInv, [Next]_vars, strays' = 0,
                    NEW j \in Instance, dest'[j] # NoHost
             PROVE  \E g \in Wave : drain'[g] = "wait" /\ moving'[g] = {j}
  BY DEF AwaitedInv
<1> USE WaveAssumption
    DEF IInv, TypeOK, DrainTypeOK, dvars, nova, script, bounds, dag
<1>a. strays = 0
  BY StraysGrow
<1>b. dest[j] # NoHost => \E g \in Wave : drain[g] = "wait" /\ moving[g] = {j}
  BY <1>a DEF AwaitedInv
<1>1. CASE GateOpens \/ GateCloses \/ GateOpensUnchecked \/ GateFails \/ Summarize \/ UNCHANGED vars
  BY <1>1, <1>b DEF GateOpens, GateCloses, GateOpensUnchecked, GateFails, Summarize, vars
<1>2. ASSUME NEW h \in Wave, Assess(h) \/ Verify(h) \/ RecordHost(h) \/ PlayBreaks(h)
      PROVE  UNCHANGED <<dest, drain, moving>>
  BY <1>2 DEF Assess, Verify, RecordHost, PlayBreaks
<1>3. ASSUME NEW h \in Wave,
             CheckDomains(h) \/ StopService(h) \/ Reboot(h) \/ StartService(h) \/ Undrain(h)
      PROVE  UNCHANGED <<dest, drain, moving>>
  BY <1>3 DEF CheckDomains, StopService, Reboot, StartService, Undrain
<1>4. ASSUME NEW h \in Wave,
             StartDrain(h) \/ DrainDone(h) \/ StartMaintain(h) \/ PlayDrained(h)
      PROVE  \E g \in Wave : drain'[g] = "wait" /\ moving'[g] = {j}
  <2>1. dest' = dest /\ drain[h] # "wait"
    BY <1>4 DEF StartDrain, DrainDone, StartMaintain, PlayDrained, ScriptInv
  <2>2. \A g \in Wave \ {h} : drain'[g] = drain[g] /\ moving'[g] = moving[g]
    BY <1>4 DEF StartDrain, DrainDone, StartMaintain, PlayDrained, RunScript, ScriptOff
  <2> QED
    BY <2>1, <2>2, <1>b
<1>5. ASSUME NEW h \in Wave, ScriptDies(h)
      PROVE  \E g \in Wave : drain'[g] = "wait" /\ moving'[g] = {j}
  <2>1. dest' = dest /\ j \notin moving[h]
    BY <1>5, <1>a DEF ScriptDies, Stray
  <2>2. \A g \in Wave \ {h} : drain'[g] = drain[g] /\ moving'[g] = moving[g]
    BY <1>5 DEF ScriptDies, ScriptOff
  <2> QED
    BY <2>1, <2>2, <1>b
<1>6. ASSUME NEW h \in Wave, DrainStep(h)
      PROVE  \E g \in Wave : drain'[g] = "wait" /\ moving'[g] = {j}
  <2>1. CASE \/ PlanEmpty(h) \/ PlanDrain(h) \/ CheckCapacity(h) \/ Disable(h)
             \/ MigrateRefused(h) \/ FinishDrain(h)
    <3>1. dest' = dest /\ moving' = moving /\ drain[h] # "wait"
      BY <2>1 DEF PlanEmpty, PlanDrain, CheckCapacity, Disable, MigrateRefused, FinishDrain
    <3>2. \A g \in Wave \ {h} : drain'[g] = drain[g]
      BY <2>1 DEF PlanEmpty, PlanDrain, CheckCapacity, Disable, MigrateRefused,
         FinishDrain, End
    <3> QED
      BY <3>1, <3>2, <1>b
  <2>2. CASE Migrate(h)
    <3>1. PICK i \in todo[h] :
            /\ \E d \in Candidates \ {place[i]} : dest' = [dest EXCEPT ![i] = d]
            /\ moving' = [moving EXCEPT ![h] = {i}]
      BY <2>2 DEF Migrate
    <3>2. drain[h] = "move" /\ drain' = [drain EXCEPT ![h] = "wait"]
      BY <2>2 DEF Migrate
    <3>3. CASE j = i
      BY <3>1, <3>2, <3>3
    <3>4. CASE j # i
      BY <3>1, <3>2, <3>4, <1>b
    <3> QED
      BY <3>3, <3>4
  <2>3. CASE Landed(h) \/ GivesUp(h)
    <3>1. PICK i \in moving[h] : dest[i] = NoHost
      <4>1. CASE Landed(h)
        BY <4>1 DEF Landed
      <4>2. CASE GivesUp(h)
        <5>1. PICK i \in moving[h] : dest[i] = NoHost \/ Stray
          BY <4>2 DEF GivesUp
        <5> QED
          BY <5>1, <1>a DEF Stray
      <4> QED
        BY <2>3, <4>1, <4>2
    <3>2. dest' = dest
      BY <2>3 DEF Landed, GivesUp
    <3>3. \A g \in Wave \ {h} : drain'[g] = drain[g] /\ moving'[g] = moving[g]
      BY <2>3 DEF Landed, GivesUp, Answered
    <3>4. moving[h] # {j}
      BY <3>1, <3>2
    <3> QED
      BY <3>2, <3>3, <3>4, <1>b
  <2> QED
    BY <1>6, <2>1, <2>2, <2>3 DEF DrainStep
<1>7. ASSUME NEW i \in Instance, NovaStep(i)
      PROVE  dest[j] # NoHost /\ UNCHANGED <<drain, moving>>
  BY <1>7 DEF NovaStep, MigrationLands, MigrationFails, CreateInstance
<1> QED
  BY <1>1, <1>2, <1>3, <1>4, <1>5, <1>6, <1>7, <1>b DEF Next, Over, HostStep

\* A node is disabled when no other host is at work, and then nothing is on its
\* way to it; a migration is sent to enabled nodes only.
LEMMA StepShunned ==
  IInv /\ PoolInv /\ AwaitedInv /\ ShunnedInv /\ [Next]_vars => ShunnedInv'
<1> SUFFICES ASSUME IInv, PoolInv, AwaitedInv, ShunnedInv, [Next]_vars,
                    PoolSlots = 1, strays' = 0,
                    NEW g \in Wave, ~enabled'[g],
                    NEW j \in Instance, dest'[j] = g
             PROVE  FALSE
  BY DEF ShunnedInv
<1> USE WaveAssumption, NoHostAssumption
    DEF IInv, TypeOK, DrainTypeOK, dvars, nova, script, bounds, dag
<1>a. strays = 0
  BY StraysGrow
<1>b. ~enabled[g] => dest[j] # g
  BY <1>a DEF ShunnedInv
<1>1. CASE GateOpens \/ GateCloses \/ GateOpensUnchecked \/ GateFails \/ Summarize \/ UNCHANGED vars
  BY <1>1, <1>b DEF GateOpens, GateCloses, GateOpensUnchecked, GateFails, Summarize, vars
<1>2. ASSUME NEW h \in Wave, HostStep(h) \/ PlayBreaks(h) \/ ScriptDies(h)
      PROVE  FALSE
  <2>1. dest' = dest
    BY <1>2 DEF HostStep, Assess, StartDrain, DrainDone, StartMaintain, PlayDrained,
       CheckDomains, StopService, Reboot, StartService, Undrain, Verify, RecordHost,
       PlayBreaks, ScriptDies
  <2>2. enabled' = enabled \/ enabled' = [enabled EXCEPT ![h] = TRUE]
    BY <1>2 DEF HostStep, Assess, StartDrain, DrainDone, StartMaintain, PlayDrained,
       CheckDomains, StopService, Reboot, StartService, Undrain, Verify, RecordHost,
       PlayBreaks, ScriptDies
  <2> QED
    BY <2>1, <2>2, <1>b
<1>3. ASSUME NEW h \in Wave, DrainStep(h)
      PROVE  FALSE
  <2>1. CASE Disable(h)
    <3>1. dest' = dest /\ enabled' = [enabled EXCEPT ![h] = FALSE] /\ drain[h] = "disable"
      BY <2>1 DEF Disable
    <3>2. g = h
      BY <3>1, <1>b
    <3>3. PICK w \in Wave : drain[w] = "wait"
      BY <3>1, <1>a DEF AwaitedInv
    <3>4. h \in Holding /\ w \in Holding
      BY <3>1, <3>3 DEF Holding
    <3>5. h = w
      BY <3>4, OneAtWork
    <3> QED
      BY <3>1, <3>3, <3>5
  <2>2. CASE Migrate(h)
    <3>1. enabled' = enabled
      BY <2>2 DEF Migrate
    <3>2. PICK i \in todo[h], d \in Candidates : dest' = [dest EXCEPT ![i] = d]
      BY <2>2 DEF Migrate
    <3>3. enabled[d]
      BY DEF Candidates
    <3> QED
      BY <3>1, <3>2, <3>3, <1>b
  <2>3. CASE ~Disable(h) /\ ~Migrate(h)
    BY <1>3, <2>3, <1>b DEF DrainStep, PlanEmpty, PlanDrain, CheckCapacity,
       MigrateRefused, Landed, GivesUp, FinishDrain
  <2> QED
    BY <2>1, <2>2, <2>3
<1>4. ASSUME NEW i \in Instance, NovaStep(i)
      PROVE  FALSE
  BY <1>4, <1>b DEF NovaStep, MigrationLands, MigrationFails, CreateInstance
<1> QED
  BY <1>1, <1>2, <1>3, <1>4 DEF Next, Over

\* Nothing comes to a disabled node: Nova creates instances on enabled ones,
\* and by ShunnedInv no migration ends there.
LEMMA NothingComes ==
  ASSUME TypeOK, [Next]_vars, ShunnedInv, PoolSlots = 1, strays = 0,
         NEW g \in Wave, ~enabled[g]
  PROVE  On(g)' \subseteq On(g)
<1> USE WaveAssumption, NoHostAssumption
    DEF TypeOK, DrainTypeOK, dvars, nova, script, bounds, dag, On
<1>1. CASE GateOpens \/ GateCloses \/ GateOpensUnchecked \/ GateFails \/ Summarize \/ UNCHANGED vars
  BY <1>1 DEF GateOpens, GateCloses, GateOpensUnchecked, GateFails, Summarize, vars
<1>2. ASSUME NEW h \in Wave, HostStep(h) \/ PlayBreaks(h) \/ ScriptDies(h)
      PROVE  place' = place
  BY <1>2 DEF HostStep, Assess, StartDrain, DrainDone, StartMaintain, PlayDrained,
     CheckDomains, StopService, Reboot, StartService, Undrain, Verify, RecordHost,
     PlayBreaks, ScriptDies
<1>3. ASSUME NEW h \in Wave, DrainStep(h)
      PROVE  place' = place
  BY <1>3 DEF DrainStep, PlanEmpty, PlanDrain, CheckCapacity, Disable, Migrate,
     MigrateRefused, Landed, GivesUp, FinishDrain
<1>4. ASSUME NEW i \in Instance, MigrationLands(i)
      PROVE  On(g)' \subseteq On(g)
  BY <1>4 DEF MigrationLands, ShunnedInv
<1>5. ASSUME NEW i \in Instance, MigrationFails(i)
      PROVE  place' = place
  BY <1>5 DEF MigrationFails
<1>6. ASSUME NEW i \in Instance, CreateInstance(i)
      PROVE  On(g)' \subseteq On(g)
  <2>1. PICK h \in Candidates : place' = [place EXCEPT ![i] = h]
    BY <1>6 DEF CreateInstance
  <2>2. h # g
    BY DEF Candidates
  <2> QED
    BY <2>1, <2>2
<1> QED
  BY <1>1, <1>2, <1>3, <1>4, <1>5, <1>6 DEF Next, Over, NovaStep

\* A node becomes disabled by a drain that has still to look at it, and one
\* is found empty by looking.
LEMMA FoundEmpty ==
  ASSUME IInv, [Next]_vars, NEW g \in Wave, ~enabled'[g], Emptied(g)'
  PROVE  ~enabled[g] /\ (Emptied(g) \/ On(g) = {})
<1> USE WaveAssumption
    DEF IInv, TypeOK, DrainTypeOK, dvars, nova, script, bounds, dag, Emptied
<1>1. CASE GateOpens \/ GateCloses \/ GateOpensUnchecked \/ GateFails \/ Summarize \/ UNCHANGED vars
  BY <1>1 DEF GateOpens, GateCloses, GateOpensUnchecked, GateFails, Summarize, vars
<1>2. ASSUME NEW h \in Wave, Assess(h) \/ Verify(h) \/ RecordHost(h)
      PROVE  ~enabled[g] /\ Emptied(g)
  BY <1>2 DEF Assess, Verify, RecordHost
<1>3. ASSUME NEW h \in Wave, StartDrain(h) \/ StartMaintain(h)
      PROVE  ~enabled[g] /\ Emptied(g)
  BY <1>3 DEF StartDrain, StartMaintain, RunScript
<1>4. ASSUME NEW h \in Wave, DrainDone(h) \/ PlayDrained(h)
      PROVE  ~enabled[g] /\ Emptied(g)
  BY <1>4 DEF DrainDone, PlayDrained, ScriptOff, Goto, PlayFails
<1>5. ASSUME NEW h \in Wave,
             CheckDomains(h) \/ StopService(h) \/ Reboot(h) \/ StartService(h) \/ Undrain(h)
      PROVE  ~enabled[g] /\ Emptied(g)
  BY <1>5 DEF CheckDomains, StopService, Reboot, StartService, Undrain, Goto, PlayFails
<1>6. ASSUME NEW h \in Wave, PlayBreaks(h) \/ ScriptDies(h)
      PROVE  ~enabled[g] /\ Emptied(g)
  BY <1>6 DEF PlayBreaks, ScriptDies, ScriptOff, PlayFails
<1>7. ASSUME NEW h \in Wave, DrainStep(h), UNCHANGED dag
      PROVE  ~enabled[g] /\ (Emptied(g) \/ On(g) = {})
  <2>1. CASE PlanEmpty(h) \/ FinishDrain(h)
    BY <1>7, <2>1 DEF PlanEmpty, FinishDrain, End
  <2>2. CASE CheckCapacity(h)
    BY <1>7, <2>2 DEF CheckCapacity, End
  <2>3. CASE Disable(h)
    <3>1. drain'[h] = "move" /\ play' = play
      BY <1>7, <2>3 DEF Disable
    <3>2. play[h] \notin {"check", "stop", "reboot"}
      BY <2>3 DEF Disable, ScriptInv, PlayInv
    <3>3. g # h
      BY <3>1, <3>2
    <3> QED
      BY <1>7, <2>3, <3>3 DEF Disable
  <2>4. CASE PlanDrain(h) \/ Migrate(h) \/ MigrateRefused(h) \/ Landed(h) \/ GivesUp(h)
    BY <1>7, <2>4 DEF PlanDrain, Migrate, MigrateRefused, Landed, GivesUp, Answered
  <2> QED
    BY <1>7, <2>1, <2>2, <2>3, <2>4 DEF DrainStep
<1>8. ASSUME NEW i \in Instance, NovaStep(i), UNCHANGED dag
      PROVE  ~enabled[g] /\ Emptied(g)
  BY <1>8 DEF NovaStep, MigrationLands, MigrationFails, CreateInstance
<1> QED
  BY <1>1, <1>2, <1>3, <1>4, <1>5, <1>6, <1>7, <1>8 DEF Next, Over, HostStep

LEMMA StepEmpty == IInv /\ ShunnedInv /\ EmptyInv /\ [Next]_vars => EmptyInv'
<1> SUFFICES ASSUME IInv, ShunnedInv, EmptyInv, [Next]_vars, PoolSlots = 1, strays' = 0,
                    NEW g \in Wave, ~enabled'[g], Emptied(g)'
             PROVE  On(g)' = {}
  BY DEF EmptyInv
<1>1. strays = 0
  BY StraysGrow DEF IInv
<1>2. ~enabled[g] /\ (Emptied(g) \/ On(g) = {})
  BY FoundEmpty
<1>3. On(g) = {}
  BY <1>1, <1>2 DEF EmptyInv
<1>4. On(g)' \subseteq On(g)
  BY <1>1, <1>2, NothingComes DEF IInv
<1> QED
  BY <1>3, <1>4

LEMMA Coming == Spec => []ComingInv
<1>1. Init => ComingInv
  BY WaveAssumption DEF Init, DrainInit, ComingInv, AwaitedInv, ShunnedInv, EmptyInv
<1>2. IInv /\ PoolInv /\ ComingInv /\ [Next]_vars => ComingInv'
  BY StepAwaited, StepShunned, StepEmpty DEF ComingInv
<1> QED
  BY <1>1, <1>2, Control, PoolIsKept, PTL DEF Spec

\* With a pool of one slot, and as long as no migration has been given up, a
\* node that was disabled is rebooted with nothing on it and nothing arriving.
THEOREM DisabledNodesAreEmpty == Spec => RebootDisabledEmpty
<1>1. IInv /\ ComingInv /\ [Next]_vars =>
        [\A h \in Wave :
           Rebooting(h) /\ ~enabled[h] /\ PoolSlots = 1 /\ strays = 0 => Claimed(h) = {}]_vars
  <2> SUFFICES ASSUME IInv, ComingInv, NEW h \in Wave,
                      Rebooting(h), ~enabled[h], PoolSlots = 1, strays = 0
               PROVE  Claimed(h) = {}
    OBVIOUS
  <2>1. On(h) = {}
    BY DEF Rebooting, ComingInv, EmptyInv, Emptied
  <2>2. \A i \in Instance : dest[i] # h
    BY DEF ComingInv, ShunnedInv
  <2> QED
    BY <2>1, <2>2 DEF On, Claimed
<1> QED
  BY <1>1, Control, Coming, PTL DEF Spec, RebootDisabledEmpty

=============================================================================
