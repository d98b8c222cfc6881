--------------------------- MODULE BmmMaintenance ---------------------------
(***************************************************************************)
(* The quarterly maintenance driver for Nexus bare metal machines          *)
(* (azure/operator-nexus/python/nexus_bmm_maintenance.py): one invocation  *)
(* walks the machines of its scope in rack and slot order, runs the steps  *)
(* of its phase on each, and journals every step so that a later           *)
(* invocation resumes.  A driver is one change record: its journal and the *)
(* invocation, if any, that is running for it.                             *)
(*                                                                         *)
(* The Network Cloud resource provider is external: it runs one long       *)
(* running operation per machine at a time, which takes effect, or is      *)
(* refused, some time after the driver asked for it, whether or not the    *)
(* driver is still there to see it.                                        *)
(***************************************************************************)
EXTENDS Integers, FiniteSets, Sequences

CONSTANTS
  Machine,            \* bare metal machines
  RackOf,             \* [Machine -> racks]
  Driver,             \* change records under which the script runs
  Scope,              \* [Driver -> Seq(Machine)]: what list_machines returns
  MinHealthyPerRack,  \* --min-healthy-per-rack
  PhasesInUse,        \* the --phase values the operators use
  KeepGoingChoices,   \* the --keep-going values the operators use
  NoEvacuate,         \* --no-evacuate
  Hosting,            \* the machines that host tenant VMs to begin with
  MaxFaults,          \* bound on errors, timeouts, crashes and node faults
  MaxPlacements       \* bound on tenant VMs the scheduler places

ASSUME ScopeAssumption ==
  /\ Scope \in [Driver -> Seq(Machine)]
  /\ \A d \in Driver : Len(Scope[d]) > 0
ASSUME MachineAssumption == IsFiniteSet(Machine)
ASSUME BoundAssumption ==
  /\ MinHealthyPerRack \in Nat
  /\ MaxFaults \in Nat
  /\ MaxPlacements \in Nat
ASSUME ArgsAssumption ==
  /\ PhasesInUse \subseteq {"full", "shutdown", "restore"}
  /\ KeepGoingChoices \subseteq BOOLEAN
  /\ NoEvacuate \in BOOLEAN

VARIABLES
  power,      \* [Machine -> "On" | "Off"]
  cordon,     \* [Machine -> "Cordoned" | "Uncordoned"]
  node,       \* readiness, detailed status and hardware validation, as one
  tenants,    \* whether the machine hosts tenant VMs
  op,         \* the provider's operation in flight on the machine, or "none"
  completed,  \* journal: the steps recorded "ok", per driver and machine
  torn,       \* journal: the file is not readable JSON
  pc,         \* "idle" | "step" | "checked" | "waiting", per driver
  phase,      \* --phase of the invocation
  keepGoing,  \* --keep-going of the invocation
  cur,        \* index in Scope of the machine under maintenance
  pos,        \* index in the phase's steps of the step at hand
  seen,       \* tenants, as the listing of the invocation showed it
  rows,       \* result row per machine: "-", "ok", "blocked" or "failed"
  faults,     \* adverse events so far
  placements  \* tenant VMs placed so far

plant   == <<power, cordon, node, tenants, op>>
journal == <<completed, torn>>
process == <<pc, phase, keepGoing, cur, pos, seen, rows>>
budget  == <<faults, placements>>
vars    == <<plant, journal, process, budget>>

STEPS == <<"cordon", "power_off", "power_on", "wait_ready", "uncordon", "verify">>
Steps == {"cordon", "power_off", "power_on", "wait_ready", "uncordon", "verify"}

\* Mutant: the power goes before the workload has been moved away.
PlanPowersOffFirst(ph) ==
  CASE ph = "shutdown" -> <<"power_off", "cordon">>
    [] ph = "restore"  -> <<"power_on", "wait_ready", "uncordon", "verify">>
    [] OTHER -> <<"power_off", "cordon", "power_on", "wait_ready", "uncordon", "verify">>

Plan(ph) ==
  CASE ph = "shutdown" -> <<"cordon", "power_off">>
    [] ph = "restore"  -> <<"power_on", "wait_ready", "uncordon", "verify">>
    [] OTHER           -> STEPS

Ops == {"none", "cordon", "cordon_evacuate", "power_off", "power_on", "uncordon"}

TypeOK ==
  /\ power \in [Machine -> {"On", "Off"}]
  /\ cordon \in [Machine -> {"Cordoned", "Uncordoned"}]
  /\ node \in [Machine -> {"Ready", "NotReady", "HwFail"}]
  /\ tenants \in [Machine -> BOOLEAN]
  /\ op \in [Machine -> Ops]
  /\ completed \in [Driver -> [Machine -> SUBSET Steps]]
  /\ torn \in [Driver -> BOOLEAN]
  /\ pc \in [Driver -> {"idle", "step", "checked", "waiting"}]
  /\ phase \in [Driver -> {"full", "shutdown", "restore"}]
  /\ keepGoing \in [Driver -> BOOLEAN]
  /\ \A d \in Driver : cur[d] \in 1..Len(Scope[d])
  /\ \A d \in Driver : pos[d] \in 1..(Len(Plan(phase[d])) + 1)
  /\ cur \in [Driver -> Nat]
  /\ pos \in [Driver -> Nat]
  /\ seen \in [Driver -> [Machine -> BOOLEAN]]
  /\ rows \in [Driver -> [Machine -> {"-", "ok", "blocked", "failed"}]]
  /\ faults \in 0..MaxFaults
  /\ placements \in 0..MaxPlacements

InScope(d) == {Scope[d][i] : i \in 1..Len(Scope[d])}
Target(d)  == Scope[d][cur[d]]
AtEnd(d)   == pos[d] > Len(Plan(phase[d]))
Step(d)    == Plan(phase[d])[pos[d]]

\* Mutants: a journal keyed by step alone; a journal that is taken as complete
\* once the machine has been powered off.
DoneOnAnyMachine(d)   == \E m \in Machine : Step(d) \in completed[d][m]
DoneOncePoweredOff(d) == {Step(d), "power_off"} \cap completed[d][Target(d)] # {}

Done(d) == Step(d) \in completed[d][Target(d)]

\* health_summary finds no problem.
Healthy(m) ==
  /\ node[m] = "Ready"
  /\ power[m] = "On"
  /\ cordon[m] = "Uncordoned"

\* The peers that would be left, as the driver's own listing shows them.
HealthyOthers(d, m) ==
  {p \in InScope(d) \ {m} : RackOf[p] = RackOf[m] /\ Healthy(p)}

\* Mutant: the machine under maintenance is counted as one that remains.
HeadroomOffByOne(d, m) ==
  Cardinality(HealthyOthers(d, m)) + 1 >= MinHealthyPerRack

RackHasHeadroom(d, m) == Cardinality(HealthyOthers(d, m)) >= MinHealthyPerRack

Init ==
  /\ power = [m \in Machine |-> "On"]
  /\ cordon = [m \in Machine |-> "Uncordoned"]
  /\ node = [m \in Machine |-> "Ready"]
  /\ tenants = [m \in Machine |-> m \in Hosting]
  /\ op = [m \in Machine |-> "none"]
  /\ completed = [d \in Driver |-> [m \in Machine |-> {}]]
  /\ torn = [d \in Driver |-> FALSE]
  /\ pc = [d \in Driver |-> "idle"]
  /\ phase = [d \in Driver |-> "full"]
  /\ keepGoing = [d \in Driver |-> FALSE]
  /\ cur = [d \in Driver |-> 1]
  /\ pos = [d \in Driver |-> 1]
  /\ seen = [d \in Driver |-> [m \in Machine |-> FALSE]]
  /\ rows = [d \in Driver |-> [m \in Machine |-> "-"]]
  /\ faults = 0
  /\ placements = 0

-----------------------------------------------------------------------------
(* The driver                                                              *)

\* An adverse event: charged to the bound MaxFaults.
Fault == faults < MaxFaults /\ faults' = faults + 1

Stop(d) ==
  /\ pc' = [pc EXCEPT ![d] = "idle"]
  /\ cur' = [cur EXCEPT ![d] = 1]
  /\ pos' = [pos EXCEPT ![d] = 1]

\* Mutants: one machine too many; no stop after a failure.
LeaveOffByOne(d, result) ==
  /\ rows' = [rows EXCEPT ![d][Target(d)] = result]
  /\ IF cur[d] <= Len(Scope[d]) /\ (result = "ok" \/ keepGoing[d])
       THEN /\ pc' = [pc EXCEPT ![d] = "step"]
            /\ cur' = [cur EXCEPT ![d] = @ + 1]
            /\ pos' = [pos EXCEPT ![d] = 1]
       ELSE Stop(d)
  /\ UNCHANGED <<phase, keepGoing, seen>>

LeaveGoesOn(d, result) ==
  /\ rows' = [rows EXCEPT ![d][Target(d)] = result]
  /\ IF cur[d] < Len(Scope[d])
       THEN /\ pc' = [pc EXCEPT ![d] = "step"]
            /\ cur' = [cur EXCEPT ![d] = @ + 1]
            /\ pos' = [pos EXCEPT ![d] = 1]
       ELSE Stop(d)
  /\ UNCHANGED <<phase, keepGoing, seen>>

\* The machine's row is final: go on with the next machine, or stop.
Leave(d, result) ==
  /\ rows' = [rows EXCEPT ![d][Target(d)] = result]
  /\ IF cur[d] < Len(Scope[d]) /\ (result = "ok" \/ keepGoing[d])
       THEN /\ pc' = [pc EXCEPT ![d] = "step"]
            /\ cur' = [cur EXCEPT ![d] = @ + 1]
            /\ pos' = [pos EXCEPT ![d] = 1]
       ELSE Stop(d)
  /\ UNCHANGED <<phase, keepGoing, seen>>

\* On to the next step of the phase on the same machine.
NextStep(d) ==
  /\ pc' = [pc EXCEPT ![d] = "step"]
  /\ pos' = [pos EXCEPT ![d] = @ + 1]
  /\ UNCHANGED <<phase, keepGoing, cur, seen, rows>>

\* The journal is read (a torn file raises), the machines are listed, the
\* operator confirms.
Start(d) ==
  /\ pc[d] = "idle"
  /\ ~torn[d]
  /\ \E ph \in PhasesInUse, kg \in KeepGoingChoices :
       /\ phase' = [phase EXCEPT ![d] = ph]
       /\ keepGoing' = [keepGoing EXCEPT ![d] = kg]
  /\ pc' = [pc EXCEPT ![d] = "step"]
  /\ cur' = [cur EXCEPT ![d] = 1]
  /\ pos' = [pos EXCEPT ![d] = 1]
  /\ seen' = [seen EXCEPT ![d] = tenants]
  /\ rows' = [rows EXCEPT ![d] = [m \in Machine |-> "-"]]
  /\ UNCHANGED <<plant, journal, budget>>

SkipStep(d) ==
  /\ pc[d] = "step"
  /\ ~AtEnd(d)
  /\ Done(d)
  /\ NextStep(d)
  /\ UNCHANGED <<plant, journal, budget>>

MachineDone(d) ==
  /\ pc[d] = "step"
  /\ AtEnd(d)
  /\ Leave(d, "ok")
  /\ UNCHANGED <<plant, journal, budget>>

\* A step the journal does not have yet is due.
Due(d) == pc[d] = "step" /\ ~AtEnd(d) /\ ~Done(d)

CheckHeadroom(d) ==
  /\ Due(d)
  /\ Step(d) = "power_off"
  /\ RackHasHeadroom(d, Target(d))
  /\ pc' = [pc EXCEPT ![d] = "checked"]
  /\ UNCHANGED <<phase, keepGoing, cur, pos, seen, rows>>
  /\ UNCHANGED <<plant, journal, budget>>

Blocked(d) ==
  /\ Due(d)
  /\ Step(d) = "power_off"
  /\ ~RackHasHeadroom(d, Target(d))
  /\ Leave(d, "blocked")
  /\ UNCHANGED <<plant, journal, budget>>

\* A power-off may be issued only once headroom was found.
MayIssue(d) == pc[d] = "checked" \/ (Due(d) /\ Step(d) # "power_off")

OpFor(d) ==
  IF Step(d) = "cordon" /\ seen[d][Target(d)] /\ ~NoEvacuate
    THEN "cordon_evacuate"
    ELSE Step(d)

\* begin_cordon, begin_power_off, begin_start or begin_uncordon is accepted.
IssueOperation(d) ==
  /\ MayIssue(d)
  /\ Step(d) \in Ops
  /\ op[Target(d)] = "none"
  /\ op' = [op EXCEPT ![Target(d)] = OpFor(d)]
  /\ pc' = [pc EXCEPT ![d] = "waiting"]
  /\ UNCHANGED <<power, cordon, node, tenants>>
  /\ UNCHANGED <<phase, keepGoing, cur, pos, seen, rows>>
  /\ UNCHANGED <<journal, budget>>

\* wait_ready and verify only read the machine.
BeginWait(d) ==
  /\ Due(d)
  /\ Step(d) \in {"wait_ready", "verify"}
  /\ pc' = [pc EXCEPT ![d] = "waiting"]
  /\ UNCHANGED <<phase, keepGoing, cur, pos, seen, rows>>
  /\ UNCHANGED <<plant, journal, budget>>

\* Mutant: the start is taken for granted, not polled.
ReachedUnpolled(s, m) ==
  CASE s = "cordon"     -> cordon[m] = "Cordoned"
    [] s = "power_off"  -> power[m] = "Off"
    [] s = "power_on"   -> TRUE
    [] s = "wait_ready" -> node[m] \in {"Ready", "HwFail"}
    [] s = "uncordon"   -> cordon[m] = "Uncordoned"
    [] OTHER            -> Healthy(m)

\* What the step waits for on machine m: wait_for's predicates, and verify.
Reached(s, m) ==
  CASE s = "cordon"     -> cordon[m] = "Cordoned"
    [] s = "power_off"  -> power[m] = "Off"
    [] s = "power_on"   -> power[m] = "On"
    [] s = "wait_ready" -> node[m] \in {"Ready", "HwFail"}
    [] s = "uncordon"   -> cordon[m] = "Uncordoned"
    [] OTHER            -> Healthy(m)

\* poller.result() has returned; wait_ready and verify have none to wait for.
Returned(d) ==
  pc[d] = "waiting" /\ (Step(d) \in {"wait_ready", "verify"} \/ op[Target(d)] = "none")

StepOk(d) ==
  /\ Returned(d)
  /\ Reached(Step(d), Target(d))
  /\ completed' = [completed EXCEPT ![d][Target(d)] = @ \cup {Step(d)}]
  /\ NextStep(d)
  /\ UNCHANGED <<plant, torn, budget>>

\* Mutant: wait_for without a deadline.
WaitsForEver(d) ==
  /\ Returned(d)
  /\ Step(d) = "verify"
  /\ UNCHANGED faults
  /\ Leave(d, "failed")
  /\ UNCHANGED <<plant, journal, placements>>

\* wait_for gave up, or verify found a problem: recorded "failed".  A step
\* that is there at last may still have timed out: that one is a fault.
StepFailed(d) ==
  /\ Returned(d)
  /\ IF Reached(Step(d), Target(d)) THEN Fault ELSE UNCHANGED faults
  /\ Leave(d, "failed")
  /\ UNCHANGED <<plant, journal, placements>>

\* A journal entry of some step is still to come.
AtStep(d) == Due(d) \/ pc[d] \in {"checked", "waiting"}

\* HttpResponseError out of any call of the step: recorded "error".
StepError(d) ==
  /\ AtStep(d)
  /\ Fault
  /\ Leave(d, "failed")
  /\ UNCHANGED <<plant, journal, placements>>

\* The provider refuses a second operation on a busy machine the same way.
Refused(d) ==
  /\ MayIssue(d)
  /\ Step(d) \in Ops
  /\ op[Target(d)] # "none"
  /\ Leave(d, "failed")
  /\ UNCHANGED <<plant, journal, budget>>

\* The process dies between two journal writes.
Crash(d) ==
  /\ pc[d] # "idle"
  /\ Fault
  /\ Stop(d)
  /\ UNCHANGED <<phase, keepGoing, seen, rows>>
  /\ UNCHANGED <<plant, journal, placements>>

\* The process dies inside flush, whose write_text truncates the file first.
CrashInFlush(d) ==
  /\ AtStep(d)
  /\ Fault
  /\ torn' = [torn EXCEPT ![d] = TRUE]
  /\ completed' = [completed EXCEPT ![d] = [m \in Machine |-> {}]]
  /\ Stop(d)
  /\ UNCHANGED <<phase, keepGoing, seen, rows>>
  /\ UNCHANGED <<plant, placements>>

\* The operator removes an unreadable journal; the next run starts afresh.
DiscardJournal(d) ==
  /\ pc[d] = "idle"
  /\ torn[d]
  /\ torn' = [torn EXCEPT ![d] = FALSE]
  /\ UNCHANGED <<plant, completed, process, budget>>

\* What the running process does by itself.
Progress(d) ==
  \/ SkipStep(d) \/ MachineDone(d) \/ CheckHeadroom(d) \/ Blocked(d)
  \/ IssueOperation(d) \/ Refused(d) \/ BeginWait(d) \/ StepOk(d) \/ StepFailed(d)

Misfortune(d) == StepError(d) \/ Crash(d) \/ CrashInFlush(d)

DriverNext(d) == Start(d) \/ Progress(d) \/ Misfortune(d) \/ DiscardJournal(d)

-----------------------------------------------------------------------------
(* The provider and the site                                               *)

\* The operation in flight takes effect.
ApplyOperation(m) ==
  /\ op[m] # "none"
  /\ op' = [op EXCEPT ![m] = "none"]
  /\ cordon' = [cordon EXCEPT ![m] =
       IF op[m] \in {"cordon", "cordon_evacuate"} THEN "Cordoned"
       ELSE IF op[m] = "uncordon" THEN "Uncordoned" ELSE @]
  /\ power' = [power EXCEPT ![m] =
       IF op[m] = "power_off" THEN "Off" ELSE IF op[m] = "power_on" THEN "On" ELSE @]
  /\ node' = [node EXCEPT ![m] = IF op[m] = "power_off" THEN "NotReady" ELSE @]
  /\ tenants' = [tenants EXCEPT ![m] = @ /\ op[m] # "cordon_evacuate"]
  /\ UNCHANGED <<journal, process, budget>>

\* The operation in flight ends without effect.
RejectOperation(m) ==
  /\ op[m] # "none"
  /\ Fault
  /\ op' = [op EXCEPT ![m] = "none"]
  /\ UNCHANGED <<power, cordon, node, tenants, placements>>
  /\ UNCHANGED <<journal, process>>

NodeReady(m) ==
  /\ power[m] = "On"
  /\ node[m] = "NotReady"
  /\ node' = [node EXCEPT ![m] = "Ready"]
  /\ UNCHANGED <<power, cordon, tenants, op>>
  /\ UNCHANGED <<journal, process, budget>>

NodeFault(m) ==
  /\ power[m] = "On"
  /\ node[m] # "HwFail"
  /\ Fault
  /\ \E s \in {"NotReady", "HwFail"} : node' = [node EXCEPT ![m] = s]
  /\ UNCHANGED <<power, cordon, tenants, op, placements>>
  /\ UNCHANGED <<journal, process>>

\* The scheduler places a tenant VM on a machine that takes workload.
PlaceTenant(m) ==
  /\ Healthy(m)
  /\ ~tenants[m]
  /\ placements < MaxPlacements
  /\ placements' = placements + 1
  /\ tenants' = [tenants EXCEPT ![m] = TRUE]
  /\ UNCHANGED <<power, cordon, node, op, faults>>
  /\ UNCHANGED <<journal, process>>

SiteNext(m) ==
  \/ ApplyOperation(m) \/ RejectOperation(m)
  \/ NodeReady(m) \/ NodeFault(m) \/ PlaceTenant(m)

Next == (\E d \in Driver : DriverNext(d)) \/ (\E m \in Machine : SiteNext(m))

Spec == Init /\ [][Next]_vars

\* The process runs on; the provider ends what it has accepted; a machine
\* that is up joins its cluster; the operator resumes until the work is done.
\* Errors, crashes and node faults are never fair.
Fairness ==
  /\ \A d \in Driver : WF_vars(Progress(d)) /\ WF_vars(Start(d))
  /\ \A m \in Machine : WF_vars(ApplyOperation(m)) /\ WF_vars(NodeReady(m))

FairSpec == Spec /\ Fairness

-----------------------------------------------------------------------------
(* Properties                                                              *)

InRack(r) == {m \in Machine : RackOf[m] = r}
OnIn(r)   == {m \in InRack(r) : power[m] = "On"}

\* Once a rack has lost a machine to maintenance it keeps at least
\* --min-healthy-per-rack machines powered on, through crashes, resumed
\* windows and operations that take effect after the driver has gone.
PowerFloor ==
  \A m \in Machine :
    power[m] = "Off" => Cardinality(OnIn(RackOf[m])) >= MinHealthyPerRack

\* A machine that is off is cordoned, and every journal still has all of its
\* way back to do: a resumed window cannot skip a step it needs.
OffIsResumable ==
  \A m \in Machine : power[m] = "Off" =>
    /\ cordon[m] = "Cordoned"
    /\ \A d \in Driver :
         completed[d][m] \cap {"power_on", "wait_ready", "uncordon", "verify"} = {}

\* A row "ok" of an invocation that has ended means that the machine is back:
\* powered on, uncordoned, with no operation left running on it.
RowOkMeansBack ==
  \A d \in Driver : pc[d] = "idle" /\ phase[d] # "shutdown" =>
    \A m \in Machine : rows[d][m] = "ok" =>
      power[m] = "On" /\ cordon[m] = "Uncordoned" /\ op[m] = "none"

\* "One machine at a time": without --keep-going, while a machine is under
\* maintenance all the earlier ones of the scope are back in service.
OneAtATime ==
  \A d \in Driver : pc[d] # "idle" /\ ~keepGoing[d] =>
    \A i \in 1..(cur[d] - 1) :
      LET m == Scope[d][i]
      IN  power[m] = "On" /\ cordon[m] = "Uncordoned" /\ op[m] = "none"

\* "Cordon (evacuating tenant workloads), then power off"
\* (azure/operator-nexus/README.md:55): unless told otherwise, no machine is
\* powered off with tenant VMs on it.
EvacuatedBeforeOff ==
  [][\A m \in Machine :
       power[m] = "On" /\ power'[m] = "Off" /\ ~NoEvacuate => ~tenants[m]]_vars

\* Every invocation ends: no step can keep the window waiting for ever.
RunEnds == \A d \in Driver : pc[d] # "idle" ~> pc[d] = "idle"

\* A machine that was powered off comes back up when the operator keeps
\* resuming the window ("journalled after every step so an interrupted window
\* resumes", nexus_bmm_maintenance.py:5-6).
OffComesBack ==
  (\A d \in Driver : []~torn[d]) =>
    \A m \in Machine : power[m] = "Off" ~> power[m] = "On"

\* It does come back when its power_off is in the journal and no invocation
\* keeps going after a failure.
JournalledOffComesBack ==
  (\A d \in Driver : [](~torn[d] /\ ~keepGoing[d])) =>
    \A d \in Driver, m \in Machine :
      power[m] = "Off" /\ "power_off" \in completed[d][m] ~> power[m] = "On"

\* The window keeps the promise of MaintenanceWindow.
Window == INSTANCE MaintenanceWindow WITH
  up <- {m \in Machine : power[m] = "On"},
  pooled <- {m \in Machine : cordon[m] = "Uncordoned"}

ImplementsWindow == Window!WSpec
=============================================================================
