----------------------------- MODULE BmmProofs -----------------------------
(***************************************************************************)
(* Theorems about BmmMaintenance and BmmHealth, for every set of machines, *)
(* racks, drivers and scopes and every value of the bounds.                *)
(*                                                                         *)
(* Typing holds for all phases.  The floor, resumability and refinement    *)
(* results are about full windows run by drivers that do not share a rack: *)
(* under split phases, or with two drivers on one rack, they are false.    *)
(***************************************************************************)
EXTENDS BmmHealth, FiniteSetTheorems, TLAPS

\* The step at hand exists whenever the process is inside one.
InsideStep == \A d \in Driver : pc[d] \in {"checked", "waiting"} => ~AtEnd(d)

TypeInv == TypeOK /\ InsideStep

LEMMA PlanFacts ==
  ASSUME NEW ph \in {"full", "shutdown", "restore"}
  PROVE  /\ Len(Plan(ph)) \in Nat
         /\ Len(Plan(ph)) > 0
         /\ \A i \in 1..Len(Plan(ph)) : Plan(ph)[i] \in Steps
<1>1. CASE ph = "full"
  BY <1>1 DEF Plan, STEPS, Steps
<1>2. CASE ph = "shutdown"
  BY <1>2 DEF Plan, Steps
<1>3. CASE ph = "restore"
  BY <1>3 DEF Plan, Steps
<1>4. QED
  BY <1>1, <1>2, <1>3

\* The machine under maintenance and the step at hand are what they should be.
LEMMA TargetFacts ==
  ASSUME TypeInv, NEW d \in Driver
  PROVE  /\ Target(d) \in Machine
         /\ Target(d) \in InScope(d)
         /\ Len(Scope[d]) \in Nat
         /\ Len(Plan(phase[d])) \in Nat
         /\ Len(Plan(phase[d])) > 0
         /\ pos[d] \in Nat /\ cur[d] \in Nat
         /\ ~AtEnd(d) => Step(d) \in Steps
<1>1. Scope[d] \in Seq(Machine)
  BY ScopeAssumption
<1>2. cur[d] \in 1..Len(Scope[d]) /\ pos[d] \in 1..(Len(Plan(phase[d])) + 1)
  BY DEF TypeInv, TypeOK
<1>3. phase[d] \in {"full", "shutdown", "restore"}
  BY DEF TypeInv, TypeOK
<1>4. /\ Len(Plan(phase[d])) \in Nat
      /\ Len(Plan(phase[d])) > 0
      /\ \A i \in 1..Len(Plan(phase[d])) : Plan(phase[d])[i] \in Steps
  BY <1>3, PlanFacts
<1>5. Target(d) \in Machine
  BY <1>1, <1>2 DEF Target
<1>6. ~AtEnd(d) => Step(d) \in Steps
  BY <1>2, <1>4 DEF AtEnd, Step
<1>7. Len(Scope[d]) \in Nat
  BY <1>1
<1>8. QED
  BY <1>2, <1>4, <1>5, <1>6, <1>7 DEF Target, InScope

-----------------------------------------------------------------------------
(* Typing                                                                  *)

LEMMA TypeInit == Init => TypeInv
<1> SUFFICES ASSUME Init PROVE TypeInv
  OBVIOUS
<1>1. Len(Plan("full")) \in Nat /\ Len(Plan("full")) > 0
  BY PlanFacts
<1>2. \A d \in Driver : Len(Scope[d]) \in Nat /\ Len(Scope[d]) > 0
  BY ScopeAssumption
<1>3. \A d \in Driver : phase[d] = "full" /\ cur[d] = 1 /\ pos[d] = 1 /\ pc[d] = "idle"
  BY DEF Init
<1>4. /\ \A d \in Driver : cur[d] \in 1..Len(Scope[d])
      /\ \A d \in Driver : pos[d] \in 1..(Len(Plan(phase[d])) + 1)
  BY <1>1, <1>2, <1>3
<1>5. InsideStep
  BY <1>3 DEF InsideStep
<1>6. TypeOK
  BY <1>4, BoundAssumption DEF Init, TypeOK, Ops, Steps
<1>7. QED
  BY <1>5, <1>6 DEF TypeInv

\* The part of typing that belongs to the running process.
ProcessOK ==
  /\ pc \in [Driver -> {"idle", "step", "checked", "waiting"}]
  /\ phase \in [Driver -> {"full", "shutdown", "restore"}]
  /\ keepGoing \in [Driver -> BOOLEAN]
  /\ cur \in [Driver -> Nat]
  /\ pos \in [Driver -> Nat]
  /\ seen \in [Driver -> [Machine -> BOOLEAN]]
  /\ rows \in [Driver -> [Machine -> {"-", "ok", "blocked", "failed"}]]
  /\ \A d \in Driver : cur[d] \in 1..Len(Scope[d])
  /\ \A d \in Driver : pos[d] \in 1..(Len(Plan(phase[d])) + 1)
  /\ InsideStep

SiteOK ==
  /\ power \in [Machine -> {"On", "Off"}]
  /\ cordon \in [Machine -> {"Cordoned", "Uncordoned"}]
  /\ node \in [Machine -> {"Ready", "NotReady", "HwFail"}]
  /\ tenants \in [Machine -> BOOLEAN]
  /\ op \in [Machine -> Ops]

JournalOK ==
  /\ completed \in [Driver -> [Machine -> SUBSET Steps]]
  /\ torn \in [Driver -> BOOLEAN]

BudgetOK == faults \in 0..MaxFaults /\ placements \in 0..MaxPlacements

LEMMA TypeParts ==
  /\ TypeInv <=> ProcessOK /\ SiteOK /\ JournalOK /\ BudgetOK
  /\ TypeInv' <=> ProcessOK' /\ SiteOK' /\ JournalOK' /\ BudgetOK'
BY DEF TypeInv, TypeOK, ProcessOK, SiteOK, JournalOK, BudgetOK

LEMMA StopOK ==
  ASSUME TypeInv, NEW d \in Driver, Stop(d),
         UNCHANGED <<phase, keepGoing, seen, rows>>
  PROVE  ProcessOK'
<1>1. ProcessOK
  BY TypeParts
<1>2. 1 \in 1..Len(Scope[d]) /\ 1 \in 1..(Len(Plan(phase[d])) + 1)
  BY ScopeAssumption, TargetFacts
<1>3. \A e \in Driver : cur'[e] \in 1..Len(Scope[e])
  BY <1>1, <1>2 DEF ProcessOK, Stop
<1>4. \A e \in Driver : pos'[e] \in 1..(Len(Plan(phase'[e])) + 1)
  BY <1>1, <1>2 DEF ProcessOK, Stop
<1>5. InsideStep'
  BY <1>1 DEF ProcessOK, Stop, InsideStep, AtEnd
<1>6. QED
  BY <1>1, <1>3, <1>4, <1>5 DEF ProcessOK, Stop

LEMMA LeaveOK ==
  ASSUME TypeInv, NEW d \in Driver,
         NEW result \in {"ok", "blocked", "failed"}, Leave(d, result)
  PROVE  ProcessOK'
<1>1. ProcessOK /\ Target(d) \in Machine
  BY TypeParts, TargetFacts
<1>2. rows' \in [Driver -> [Machine -> {"-", "ok", "blocked", "failed"}]]
  BY <1>1 DEF ProcessOK, Leave
<1>3. UNCHANGED <<phase, keepGoing, seen>>
  BY DEF Leave
<1>4. 1 \in 1..Len(Scope[d]) /\ 1 \in 1..(Len(Plan(phase[d])) + 1)
  BY ScopeAssumption, TargetFacts
<1>5. CASE Stop(d)
  <2>1. \A e \in Driver : cur'[e] \in 1..Len(Scope[e])
    BY <1>1, <1>4, <1>5 DEF ProcessOK, Stop
  <2>2. \A e \in Driver : pos'[e] \in 1..(Len(Plan(phase'[e])) + 1)
    BY <1>1, <1>3, <1>4, <1>5 DEF ProcessOK, Stop
  <2>3. InsideStep'
    BY <1>1, <1>3, <1>5 DEF ProcessOK, Stop, InsideStep, AtEnd
  <2>4. QED
    BY <1>1, <1>2, <1>3, <1>5, <2>1, <2>2, <2>3 DEF ProcessOK, Stop
<1>6. CASE /\ cur[d] < Len(Scope[d])
           /\ pc' = [pc EXCEPT ![d] = "step"]
           /\ cur' = [cur EXCEPT ![d] = @ + 1]
           /\ pos' = [pos EXCEPT ![d] = 1]
  <2>1. \A e \in Driver : cur'[e] \in 1..Len(Scope[e])
    BY <1>1, <1>6, TargetFacts DEF ProcessOK
  <2>2. \A e \in Driver : pos'[e] \in 1..(Len(Plan(phase'[e])) + 1)
    BY <1>1, <1>3, <1>4, <1>6 DEF ProcessOK
  <2>3. InsideStep'
    BY <1>1, <1>3, <1>6 DEF ProcessOK, InsideStep, AtEnd
  <2>4. QED
    BY <1>1, <1>2, <1>3, <1>6, <2>1, <2>2, <2>3 DEF ProcessOK
<1>7. QED
  BY <1>5, <1>6 DEF Leave

LEMMA NextStepOK ==
  ASSUME TypeInv, NEW d \in Driver, ~AtEnd(d), NextStep(d)
  PROVE  ProcessOK'
<1>1. ProcessOK /\ pos[d] \in Nat /\ Len(Plan(phase[d])) \in Nat
  BY TypeParts, TargetFacts
<1>2. UNCHANGED <<phase, keepGoing, cur, seen, rows>>
  BY DEF NextStep
<1>3. pos[d] <= Len(Plan(phase[d]))
  BY <1>1 DEF AtEnd
<1>4. \A e \in Driver : pos'[e] \in 1..(Len(Plan(phase'[e])) + 1)
  BY <1>1, <1>2, <1>3 DEF ProcessOK, NextStep
<1>5. InsideStep'
  BY <1>1, <1>2 DEF ProcessOK, NextStep, InsideStep, AtEnd
<1>6. QED
  BY <1>1, <1>2, <1>4, <1>5 DEF ProcessOK, NextStep

\* Entering a wait, or passing the headroom check.
LEMMA EnterOK ==
  ASSUME TypeInv, NEW d \in Driver, ~AtEnd(d),
         NEW s \in {"checked", "waiting"}, pc' = [pc EXCEPT ![d] = s],
         UNCHANGED <<phase, keepGoing, cur, pos, seen, rows>>
  PROVE  ProcessOK'
BY TypeParts DEF ProcessOK, InsideStep, AtEnd

LEMMA FaultOK ==
  ASSUME BudgetOK, Fault, UNCHANGED placements
  PROVE  BudgetOK'
BY BoundAssumption DEF BudgetOK, Fault

LEMMA TypeStep == TypeInv /\ [Next]_vars => TypeInv'
<1> SUFFICES ASSUME TypeInv, [Next]_vars
             PROVE  TypeInv'
  OBVIOUS
<1> USE DEF vars, plant, journal, process, budget
<1>0. ProcessOK /\ SiteOK /\ JournalOK /\ BudgetOK
  BY TypeParts
<1>1. ASSUME NEW d \in Driver, Start(d) PROVE TypeInv'
  <2>1. UNCHANGED <<plant, journal, budget>>
    BY <1>1 DEF Start
  <2>2. PICK ph \in PhasesInUse, kg \in KeepGoingChoices :
          /\ phase' = [phase EXCEPT ![d] = ph]
          /\ keepGoing' = [keepGoing EXCEPT ![d] = kg]
    BY <1>1 DEF Start
  <2>3. ph \in {"full", "shutdown", "restore"} /\ kg \in BOOLEAN
    BY <2>2, ArgsAssumption
  <2>4. Len(Plan(ph)) \in Nat /\ 1 \in 1..Len(Scope[d])
    BY <2>3, PlanFacts, ScopeAssumption
  <2>5. \A e \in Driver : cur'[e] \in 1..Len(Scope[e])
    BY <1>0, <1>1, <2>4 DEF ProcessOK, Start
  <2>6. \A e \in Driver : pos'[e] \in 1..(Len(Plan(phase'[e])) + 1)
    BY <1>0, <1>1, <2>2, <2>4 DEF ProcessOK, Start
  <2>7. InsideStep'
    BY <1>0, <1>1, <2>2 DEF ProcessOK, Start, InsideStep, AtEnd
  <2>8. ProcessOK'
    BY <1>0, <1>1, <2>2, <2>3, <2>5, <2>6, <2>7 DEF ProcessOK, SiteOK, Start
  <2>9. QED
    BY <1>0, <2>1, <2>8, TypeParts DEF SiteOK, JournalOK, BudgetOK
<1>2. ASSUME NEW d \in Driver, SkipStep(d) PROVE TypeInv'
  BY <1>0, <1>2, NextStepOK, TypeParts DEF SkipStep, SiteOK, JournalOK, BudgetOK
<1>3. ASSUME NEW d \in Driver, MachineDone(d) PROVE TypeInv'
  BY <1>0, <1>3, LeaveOK, TypeParts DEF MachineDone, SiteOK, JournalOK, BudgetOK
<1>4. ASSUME NEW d \in Driver, CheckHeadroom(d) PROVE TypeInv'
  BY <1>0, <1>4, EnterOK, TypeParts DEF CheckHeadroom, Due, SiteOK, JournalOK, BudgetOK
<1>5. ASSUME NEW d \in Driver, Blocked(d) PROVE TypeInv'
  BY <1>0, <1>5, LeaveOK, TypeParts DEF Blocked, SiteOK, JournalOK, BudgetOK
<1>6. ASSUME NEW d \in Driver, IssueOperation(d) PROVE TypeInv'
  <2>1. ~AtEnd(d)
    BY <1>0, <1>6 DEF IssueOperation, MayIssue, Due, ProcessOK, InsideStep
  <2>2. ProcessOK'
    BY <1>6, <2>1, EnterOK DEF IssueOperation
  <2>3. OpFor(d) \in Ops /\ Target(d) \in Machine
    BY <1>6, TargetFacts DEF IssueOperation, OpFor, Ops
  <2>4. SiteOK'
    BY <1>0, <1>6, <2>3 DEF IssueOperation, SiteOK
  <2>5. QED
    BY <1>0, <1>6, <2>2, <2>4, TypeParts DEF IssueOperation, JournalOK, BudgetOK
<1>7. ASSUME NEW d \in Driver, Refused(d) PROVE TypeInv'
  BY <1>0, <1>7, LeaveOK, TypeParts DEF Refused, SiteOK, JournalOK, BudgetOK
<1>8. ASSUME NEW d \in Driver, BeginWait(d) PROVE TypeInv'
  BY <1>0, <1>8, EnterOK, TypeParts DEF BeginWait, Due, SiteOK, JournalOK, BudgetOK
<1>9. ASSUME NEW d \in Driver, StepOk(d) PROVE TypeInv'
  <2>1. ~AtEnd(d)
    BY <1>0, <1>9 DEF StepOk, Returned, ProcessOK, InsideStep
  <2>2. ProcessOK'
    BY <1>9, <2>1, NextStepOK DEF StepOk
  <2>3. Step(d) \in Steps /\ Target(d) \in Machine
    BY <2>1, TargetFacts
  <2>4. JournalOK'
    BY <1>0, <1>9, <2>3 DEF StepOk, JournalOK
  <2>5. QED
    BY <1>0, <1>9, <2>2, <2>4, TypeParts DEF StepOk, SiteOK, BudgetOK
<1>10. ASSUME NEW d \in Driver, StepFailed(d) PROVE TypeInv'
  <2>1. ProcessOK'
    BY <1>10, LeaveOK DEF StepFailed
  <2>2. BudgetOK'
    BY <1>0, <1>10, FaultOK DEF StepFailed, BudgetOK
  <2>3. QED
    BY <1>0, <1>10, <2>1, <2>2, TypeParts DEF StepFailed, SiteOK, JournalOK
<1>11. ASSUME NEW d \in Driver, StepError(d) PROVE TypeInv'
  BY <1>0, <1>11, LeaveOK, FaultOK, TypeParts DEF StepError, SiteOK, JournalOK
<1>12. ASSUME NEW d \in Driver, Crash(d) PROVE TypeInv'
  BY <1>0, <1>12, StopOK, FaultOK, TypeParts DEF Crash, SiteOK, JournalOK
<1>13. ASSUME NEW d \in Driver, CrashInFlush(d) PROVE TypeInv'
  <2>1. ProcessOK' /\ BudgetOK'
    BY <1>0, <1>13, StopOK, FaultOK DEF CrashInFlush
  <2>2. JournalOK'
    BY <1>0, <1>13 DEF CrashInFlush, JournalOK, Steps
  <2>3. QED
    BY <1>0, <1>13, <2>1, <2>2, TypeParts DEF CrashInFlush, SiteOK
<1>14. ASSUME NEW d \in Driver, DiscardJournal(d) PROVE TypeInv'
  <2>1. ProcessOK'
    BY <1>0, <1>14 DEF DiscardJournal, ProcessOK, InsideStep, AtEnd
  <2>2. QED
    BY <1>0, <1>14, <2>1, TypeParts DEF DiscardJournal, SiteOK, JournalOK, BudgetOK
<1>15. ASSUME NEW m \in Machine, SiteNext(m) PROVE TypeInv'
  <2>1. ProcessOK' /\ JournalOK'
    BY <1>0, <1>15 DEF SiteNext, ApplyOperation, RejectOperation, NodeReady, NodeFault,
       PlaceTenant, ProcessOK, JournalOK, InsideStep, AtEnd
  <2>2. BudgetOK'
    BY <1>0, <1>15, FaultOK, BoundAssumption DEF SiteNext, ApplyOperation,
       RejectOperation, NodeReady, NodeFault, PlaceTenant, BudgetOK
  <2>3. CASE ApplyOperation(m)
    BY <1>0, <2>1, <2>2, <2>3, TypeParts DEF ApplyOperation, SiteOK, Ops
  <2>4. CASE RejectOperation(m)
    BY <1>0, <2>1, <2>2, <2>4, TypeParts DEF RejectOperation, SiteOK, Ops
  <2>5. CASE NodeReady(m) \/ NodeFault(m) \/ PlaceTenant(m)
    BY <1>0, <2>1, <2>2, <2>5, TypeParts DEF NodeReady, NodeFault, PlaceTenant, SiteOK
  <2>6. QED
    BY <1>15, <2>3, <2>4, <2>5 DEF SiteNext
<1>16. CASE UNCHANGED vars
  <2>1. ProcessOK'
    BY <1>0, <1>16 DEF ProcessOK, InsideStep, AtEnd
  <2>2. QED
    BY <1>0, <1>16, <2>1, TypeParts DEF SiteOK, JournalOK, BudgetOK
<1>17. QED
  BY <1>1, <1>2, <1>3, <1>4, <1>5, <1>6, <1>7, <1>8, <1>9, <1>10, <1>11, <1>12, <1>13,
     <1>14, <1>15, <1>16 DEF Next, DriverNext, Progress, Misfortune

\* Every state of the driver and of the site is of the declared type, in all
\* phases and for all bounds.
THEOREM Typing == Spec => []TypeOK
<1>1. TypeInv => TypeOK
  BY DEF TypeInv
<1>2. QED
  BY <1>1, TypeInit, TypeStep, PTL DEF Spec

-----------------------------------------------------------------------------
(* Full windows by drivers that share no rack                              *)

FullOnly == PhasesInUse = {"full"}
RacksApart ==
  \A d, e \in Driver : \A m \in InScope(d), n \in InScope(e) :
    RackOf[m] = RackOf[n] => d = e

AllFull == \A d \in Driver : phase[d] = "full"

\* A journal has only machines of its own scope, and their steps in order.
InOrder(c) ==
  /\ "power_off" \in c => "cordon" \in c
  /\ "power_on" \in c => "power_off" \in c
  /\ "wait_ready" \in c => "power_on" \in c
  /\ "uncordon" \in c => "wait_ready" \in c
  /\ "verify" \in c => "uncordon" \in c

JournalInv ==
  \A d \in Driver, m \in Machine :
    /\ InOrder(completed[d][m])
    /\ m \notin InScope(d) => completed[d][m] = {}

\* All steps before the one at hand are in the journal; that one is not yet
\* when the process is inside it; only power_off has a headroom check.
PositionAt(d) ==
  /\ pc[d] # "idle" =>
       \A i \in 1..Len(STEPS) : i < pos[d] => STEPS[i] \in completed[d][Target(d)]
  /\ pc[d] \in {"checked", "waiting"} => ~Done(d)
  /\ pc[d] = "checked" => Step(d) = "power_off"

PositionInv == \A d \in Driver : PositionAt(d)

\* Between its cordon and its uncordon a machine stays cordoned.
Away(d, m) ==
  "cordon" \in completed[d][m] /\ "wait_ready" \notin completed[d][m]

HeldInv ==
  /\ \A d \in Driver, m \in Machine :
       Away(d, m) => cordon[m] = "Cordoned" /\ op[m] # "uncordon"
  /\ \A m \in Machine : op[m] = "power_off" =>
       /\ cordon[m] = "Cordoned"
       /\ \A d \in Driver : "power_on" \notin completed[d][m]
  /\ \A m \in Machine : op[m] = "uncordon" => power[m] = "On"
  /\ OffIsResumable

\* The machines nothing has been, or is about to be, powered off on.
Checked(m) == \E d \in Driver : pc[d] = "checked" /\ Target(d) = m
Going(m)   == power[m] = "Off" \/ op[m] = "power_off" \/ Checked(m)
Staying(r) == {m \in InRack(r) : ~Going(m)}

FloorInv ==
  \A m \in Machine :
    Going(m) => Cardinality(Staying(RackOf[m])) >= MinHealthyPerRack

IInv == TypeInv /\ AllFull /\ JournalInv /\ PositionInv /\ HeldInv /\ FloorInv

\* What the journal of the machine under maintenance has before each step.
LEMMA Predecessors ==
  ASSUME TypeInv, AllFull, PositionInv, NEW d \in Driver,
         pc[d] # "idle", ~AtEnd(d), NEW c, c = completed[d][Target(d)]
  PROVE  /\ Step(d) \in Steps
         /\ Step(d) = "power_off" => "cordon" \in c
         /\ Step(d) = "power_on" => "power_off" \in c
         /\ Step(d) = "wait_ready" => "power_on" \in c
         /\ Step(d) = "uncordon" => "wait_ready" \in c
         /\ Step(d) = "verify" => "uncordon" \in c
<1>1. Plan(phase[d]) = STEPS
  BY DEF AllFull, Plan
<1>2. pos[d] \in 1..6 /\ Step(d) = STEPS[pos[d]] /\ Len(STEPS) = 6
  <2>1. Len(STEPS) = 6
    BY DEF STEPS
  <2>2. pos[d] \in Nat /\ pos[d] >= 1
    BY DEF TypeInv, TypeOK
  <2>3. pos[d] <= Len(STEPS)
    BY <1>1, <2>1, <2>2 DEF AtEnd
  <2> QED
    BY <1>1, <2>1, <2>2, <2>3 DEF Step
<1>3. \A i \in 1..6 : i < pos[d] => STEPS[i] \in c
  BY <1>2 DEF PositionInv, PositionAt
<1>4. /\ STEPS[1] = "cordon" /\ STEPS[2] = "power_off" /\ STEPS[3] = "power_on"
      /\ STEPS[4] = "wait_ready" /\ STEPS[5] = "uncordon" /\ STEPS[6] = "verify"
  BY DEF STEPS
<1>5. Step(d) \in Steps
  BY TargetFacts
<1>6. CASE pos[d] = 1  BY <1>2, <1>4, <1>5, <1>6
<1>7. CASE pos[d] = 2  BY <1>2, <1>3, <1>4, <1>5, <1>7
<1>8. CASE pos[d] = 3  BY <1>2, <1>3, <1>4, <1>5, <1>8
<1>9. CASE pos[d] = 4  BY <1>2, <1>3, <1>4, <1>5, <1>9
<1>10. CASE pos[d] = 5  BY <1>2, <1>3, <1>4, <1>5, <1>10
<1>11. CASE pos[d] = 6  BY <1>2, <1>3, <1>4, <1>5, <1>11
<1>12. QED
  BY <1>2, <1>6, <1>7, <1>8, <1>9, <1>10, <1>11

\* The driver steps that leave the journal as it is.
LEMMA JournalUnchanged ==
  ASSUME NEW d \in Driver,
         \/ Start(d) \/ SkipStep(d) \/ MachineDone(d) \/ CheckHeadroom(d) \/ Blocked(d)
         \/ IssueOperation(d) \/ Refused(d) \/ BeginWait(d) \/ StepFailed(d)
         \/ StepError(d) \/ Crash(d) \/ DiscardJournal(d)
  PROVE  UNCHANGED completed
BY DEF Start, SkipStep, MachineDone, CheckHeadroom, Blocked, IssueOperation, Refused,
   BeginWait, StepFailed, StepError, Crash, DiscardJournal, journal

LEMMA AllFullStep ==
  ASSUME FullOnly, TypeInv, AllFull, [Next]_vars
  PROVE  AllFull'
<1>1. ASSUME NEW d \in Driver, Start(d) PROVE AllFull'
  BY <1>1 DEF Start, AllFull, FullOnly, TypeInv, TypeOK
<1>2. ASSUME NEW d \in Driver, DriverNext(d), ~Start(d) PROVE UNCHANGED phase
  BY <1>2 DEF DriverNext, Progress, Misfortune, SkipStep, MachineDone, CheckHeadroom,
     Blocked, IssueOperation, Refused, BeginWait, StepOk, StepFailed, StepError, Crash,
     CrashInFlush, DiscardJournal, Leave, NextStep, process
<1>3. ASSUME NEW m \in Machine, SiteNext(m) PROVE UNCHANGED phase
  BY <1>3 DEF SiteNext, ApplyOperation, RejectOperation, NodeReady, NodeFault,
     PlaceTenant, process
<1>4. CASE UNCHANGED vars
  BY <1>4 DEF vars, process, AllFull
<1>5. QED
  BY <1>1, <1>2, <1>3, <1>4 DEF Next, AllFull

LEMMA SiteLeavesProcess ==
  ASSUME NEW m \in Machine, SiteNext(m)
  PROVE  UNCHANGED <<journal, process>>
BY DEF SiteNext, ApplyOperation, RejectOperation, NodeReady, NodeFault, PlaceTenant

LEMMA JournalStep ==
  ASSUME TypeInv, AllFull, JournalInv, PositionInv, [Next]_vars
  PROVE  JournalInv'
<1>1. ASSUME NEW d \in Driver, StepOk(d) PROVE JournalInv'
  <2>1. ~AtEnd(d) /\ pc[d] # "idle"
    BY <1>1 DEF StepOk, Returned, TypeInv, InsideStep
  <2>2. /\ Target(d) \in Machine /\ Target(d) \in InScope(d)
        /\ completed \in [Driver -> [Machine -> SUBSET Steps]]
    BY TargetFacts DEF TypeInv, TypeOK
  <2>3. InOrder(completed[d][Target(d)] \cup {Step(d)})
    BY <2>1, <2>2, Predecessors DEF JournalInv, InOrder, Steps
  <2>4. completed' = [completed EXCEPT ![d][Target(d)] = @ \cup {Step(d)}]
    BY <1>1 DEF StepOk
  <2>5. ASSUME NEW e \in Driver, NEW m \in Machine
        PROVE  InOrder(completed'[e][m]) /\ (m \notin InScope(e) => completed'[e][m] = {})
    <3>1. CASE e = d /\ m = Target(d)
      BY <2>2, <2>3, <2>4, <3>1
    <3>2. CASE ~(e = d /\ m = Target(d))
      BY <2>2, <2>4, <3>2 DEF JournalInv
    <3>3. QED
      BY <3>1, <3>2
  <2>6. QED
    BY <2>5 DEF JournalInv, InScope
<1>2. ASSUME NEW d \in Driver, CrashInFlush(d) PROVE JournalInv'
  BY <1>2 DEF CrashInFlush, JournalInv, InOrder, InScope, TypeInv, TypeOK
<1>3. CASE UNCHANGED completed
  BY <1>3 DEF JournalInv, InScope
<1>4. ASSUME NEW m \in Machine, SiteNext(m) PROVE UNCHANGED completed
  BY <1>4, SiteLeavesProcess DEF journal
<1>5. CASE UNCHANGED vars
  BY <1>3, <1>5 DEF vars, journal
<1>6. QED
  BY <1>1, <1>2, <1>3, <1>4, <1>5, JournalUnchanged DEF Next, DriverNext, Progress, Misfortune

\* A driver's step touches neither the process nor the journal of another one.
LEMMA OthersUntouched ==
  ASSUME TypeInv, NEW d \in Driver, DriverNext(d), NEW e \in Driver, e # d
  PROVE  /\ pc'[e] = pc[e] /\ cur'[e] = cur[e] /\ pos'[e] = pos[e]
         /\ phase'[e] = phase[e] /\ completed'[e] = completed[e]
<1> USE DEF TypeInv, TypeOK, process, journal, Leave, NextStep, Stop
<1>1. CASE Start(d)           BY <1>1 DEF Start
<1>2. CASE SkipStep(d)        BY <1>2 DEF SkipStep
<1>3. CASE MachineDone(d)     BY <1>3 DEF MachineDone
<1>4. CASE CheckHeadroom(d)   BY <1>4 DEF CheckHeadroom
<1>5. CASE Blocked(d)         BY <1>5 DEF Blocked
<1>6. CASE IssueOperation(d)  BY <1>6 DEF IssueOperation
<1>7. CASE Refused(d)         BY <1>7 DEF Refused
<1>8. CASE BeginWait(d)       BY <1>8 DEF BeginWait
<1>9. CASE StepOk(d)          BY <1>9 DEF StepOk
<1>10. CASE StepFailed(d)     BY <1>10 DEF StepFailed
<1>11. CASE StepError(d)      BY <1>11 DEF StepError
<1>12. CASE Crash(d)          BY <1>12 DEF Crash
<1>13. CASE CrashInFlush(d)   BY <1>13 DEF CrashInFlush
<1>14. CASE DiscardJournal(d) BY <1>14 DEF DiscardJournal
<1>15. QED
  BY <1>1, <1>2, <1>3, <1>4, <1>5, <1>6, <1>7, <1>8, <1>9, <1>10, <1>11, <1>12, <1>13,
     <1>14 DEF DriverNext, Progress, Misfortune

\* The position of a process that did not move, or starts a machine afresh.
LEMMA PositionKept ==
  ASSUME NEW e \in Driver, PositionAt(e), pc'[e] = pc[e], cur'[e] = cur[e],
         pos'[e] = pos[e], phase'[e] = phase[e], completed'[e] = completed[e]
  PROVE  PositionAt(e)'
BY DEF PositionAt, Target, Done, Step, STEPS, Plan

LEMMA PositionFresh ==
  ASSUME NEW e \in Driver, pc'[e] \in {"idle", "step"}, pc'[e] # "idle" => pos'[e] = 1
  PROVE  PositionAt(e)'
BY DEF PositionAt, STEPS

LEMMA PositionLeave ==
  ASSUME TypeInv, NEW d \in Driver, NEW result, Leave(d, result)
  PROVE  PositionAt(d)'
<1>1. pc'[d] \in {"idle", "step"} /\ (pc'[d] # "idle" => pos'[d] = 1)
  BY DEF Leave, Stop, TypeInv, TypeOK
<1>2. QED
  BY <1>1, PositionFresh

\* On to the next step, with the one at hand in the journal.
LEMMA PositionNext ==
  ASSUME TypeInv, AllFull, NEW d \in Driver, PositionAt(d), pc[d] # "idle", ~AtEnd(d),
         NextStep(d), Step(d) \in completed'[d][Target(d)],
         completed[d][Target(d)] \subseteq completed'[d][Target(d)]
  PROVE  PositionAt(d)'
<1>1. /\ pc'[d] = "step" /\ pos'[d] = pos[d] + 1 /\ cur' = cur /\ phase' = phase
      /\ pos[d] \in Nat
  BY DEF NextStep, TypeInv, TypeOK
<1>2. Target(d)' = Target(d)
  BY <1>1 DEF Target
<1>3. Step(d) = STEPS[pos[d]]
  BY DEF AllFull, Step, Plan
<1>4. ASSUME NEW i \in 1..Len(STEPS), i < pos'[d]
      PROVE  STEPS[i] \in completed'[d][Target(d)]
  <2>1. i < pos[d] \/ i = pos[d]
    BY <1>1, <1>4 DEF STEPS
  <2>2. QED
    BY <1>3, <2>1 DEF PositionAt
<1>5. QED
  BY <1>1, <1>2, <1>4 DEF PositionAt, STEPS

\* Entering a step, or passing its check: the position is as it was.
LEMMA PositionEnter ==
  ASSUME TypeInv, NEW d \in Driver, PositionAt(d), pc[d] # "idle", ~Done(d),
         NEW s \in {"checked", "waiting"}, pc' = [pc EXCEPT ![d] = s],
         UNCHANGED <<phase, cur, pos, completed>>,
         s = "checked" => Step(d) = "power_off"
  PROVE  PositionAt(d)'
<1>1. pc'[d] = s
  BY DEF TypeInv, TypeOK
<1>2. Target(d)' = Target(d) /\ Step(d)' = Step(d) /\ Done(d)' = Done(d)
  BY DEF Target, Step, Done, Plan, STEPS
<1>3. QED
  BY <1>1, <1>2 DEF PositionAt, STEPS

LEMMA PositionStep ==
  ASSUME TypeInv, AllFull, PositionInv, [Next]_vars
  PROVE  PositionInv'
<1> USE DEF journal, process
<1>1. ASSUME NEW d \in Driver, DriverNext(d) PROVE PositionInv'
  <2> USE DEF PositionInv
  <2>0. ASSUME NEW e \in Driver, e # d PROVE PositionAt(e)'
    BY <1>1, <2>0, OthersUntouched, PositionKept
  <2>1. CASE Start(d)
    <3>1. pc'[d] = "step" /\ pos'[d] = 1
      BY <2>1 DEF Start, TypeInv, TypeOK
    <3>2. PositionAt(d)'
      BY <3>1, PositionFresh
    <3>3. QED
      BY <2>0, <3>2
  <2>2. CASE SkipStep(d)
    BY <2>0, <2>2, PositionNext DEF SkipStep, Done
  <2>3. CASE MachineDone(d) \/ Blocked(d) \/ Refused(d) \/ StepFailed(d) \/ StepError(d)
    BY <2>0, <2>3, PositionLeave DEF MachineDone, Blocked, Refused, StepFailed, StepError
  <2>4. CASE CheckHeadroom(d)
    BY <2>0, <2>4, PositionEnter DEF CheckHeadroom, Due
  <2>5. CASE IssueOperation(d)
    BY <2>0, <2>5, PositionEnter DEF IssueOperation, MayIssue, Due, PositionAt
  <2>6. CASE BeginWait(d)
    BY <2>0, <2>6, PositionEnter DEF BeginWait, Due
  <2>7. CASE StepOk(d)
    <3>1. ~AtEnd(d) /\ pc[d] # "idle" /\ NextStep(d)
      BY <2>7 DEF StepOk, Returned, TypeInv, InsideStep
    <3>2. completed'[d][Target(d)] = completed[d][Target(d)] \cup {Step(d)}
      BY <2>7, TargetFacts DEF StepOk, TypeInv, TypeOK
    <3>3. QED
      BY <2>0, <3>1, <3>2, PositionNext
  <2>8. CASE Crash(d) \/ CrashInFlush(d)
    <3>1. pc'[d] = "idle"
      BY <2>8 DEF Crash, CrashInFlush, Stop, TypeInv, TypeOK
    <3>2. QED
      BY <2>0, <3>1, PositionFresh
  <2>9. CASE DiscardJournal(d)
    BY <2>0, <2>9, PositionKept DEF DiscardJournal
  <2>10. QED
    BY <1>1, <2>1, <2>2, <2>3, <2>4, <2>5, <2>6, <2>7, <2>8, <2>9
    DEF DriverNext, Progress, Misfortune
<1>2. ASSUME NEW m \in Machine, SiteNext(m) PROVE PositionInv'
  BY <1>2, SiteLeavesProcess, PositionKept DEF PositionInv
<1>3. CASE UNCHANGED vars
  BY <1>3, PositionKept DEF vars, PositionInv
<1>4. QED
  BY <1>1, <1>2, <1>3 DEF Next

\* No other journal knows the machine a driver works on.
LEMMA OtherJournals ==
  ASSUME RacksApart, TypeInv, JournalInv, NEW d \in Driver, NEW e \in Driver, e # d
  PROVE  completed[e][Target(d)] = {}
<1>1. Target(d) \in InScope(d) /\ Target(d) \in Machine
  BY TargetFacts
<1>2. Target(d) \notin InScope(e)
  BY <1>1 DEF RacksApart
<1>3. QED
  BY <1>1, <1>2 DEF JournalInv

\* A driver about to issue a power_off has its machine cordoned.
LEMMA CordonedAtPowerOff ==
  ASSUME TypeInv, AllFull, JournalInv, PositionInv, HeldInv, NEW d \in Driver,
         pc[d] # "idle", ~AtEnd(d), ~Done(d), Step(d) = "power_off"
  PROVE  /\ cordon[Target(d)] = "Cordoned"
         /\ "power_on" \notin completed[d][Target(d)]
<1>1. Target(d) \in Machine
  BY TargetFacts
<1>2. "cordon" \in completed[d][Target(d)]
  BY Predecessors
<1>3. "power_off" \notin completed[d][Target(d)]
  BY DEF Done
<1>4. QED
  BY <1>1, <1>2, <1>3 DEF JournalInv, InOrder, HeldInv, Away

LEMMA HeldUnchanged ==
  ASSUME HeldInv, UNCHANGED <<power, cordon, op, completed>>
  PROVE  HeldInv'
BY DEF HeldInv, Away, OffIsResumable

LEMMA HeldIssue ==
  ASSUME RacksApart, TypeInv, AllFull, JournalInv, PositionInv, HeldInv,
         NEW d \in Driver, IssueOperation(d)
  PROVE  HeldInv'
<1> DEFINE T == Target(d)
<1>1. /\ T \in Machine /\ pc[d] # "idle" /\ ~AtEnd(d) /\ ~Done(d)
      /\ Step(d) = "power_off" <=> pc[d] = "checked"
  BY TargetFacts DEF IssueOperation, MayIssue, Due, PositionInv, PositionAt, TypeInv,
     InsideStep
<1>2. /\ op' = [op EXCEPT ![T] = OpFor(d)] /\ op \in [Machine -> Ops]
      /\ UNCHANGED <<power, cordon, completed>>
  BY DEF IssueOperation, journal, TypeInv, TypeOK
<1>3. \A e \in Driver : e # d => completed[e][T] = {}
  BY OtherJournals
<1>4. ASSUME OpFor(d) = "uncordon"
      PROVE  "wait_ready" \in completed[d][T] /\ power[T] = "On"
  <2>1. "wait_ready" \in completed[d][T]
    BY <1>1, <1>4, Predecessors DEF OpFor
  <2>2. QED
    BY <1>1, <2>1 DEF HeldInv, OffIsResumable, TypeInv, TypeOK
<1>5. ASSUME OpFor(d) = "power_off"
      PROVE  cordon[T] = "Cordoned" /\ "power_on" \notin completed[d][T]
  BY <1>1, <1>5, CordonedAtPowerOff DEF OpFor
<1>6. \A e \in Driver, m \in Machine :
        Away(e, m)' => cordon'[m] = "Cordoned" /\ op'[m] # "uncordon"
  BY <1>1, <1>2, <1>3, <1>4 DEF HeldInv, Away
<1>7. \A m \in Machine : op'[m] = "power_off" =>
        /\ cordon'[m] = "Cordoned"
        /\ \A e \in Driver : "power_on" \notin completed'[e][m]
  BY <1>1, <1>2, <1>3, <1>5 DEF HeldInv
<1>8. \A m \in Machine : op'[m] = "uncordon" => power'[m] = "On"
  BY <1>1, <1>2, <1>4 DEF HeldInv
<1>9. OffIsResumable'
  BY <1>2 DEF HeldInv, OffIsResumable
<1>10. QED
  BY <1>6, <1>7, <1>8, <1>9 DEF HeldInv

LEMMA HeldStepOk ==
  ASSUME TypeInv, AllFull, JournalInv, PositionInv, HeldInv, NEW d \in Driver, StepOk(d)
  PROVE  HeldInv'
<1> DEFINE T == Target(d)
           c == completed[d][T]
<1>1. T \in Machine /\ pc[d] # "idle" /\ ~AtEnd(d)
  BY TargetFacts DEF StepOk, Returned, TypeInv, InsideStep
<1>2. /\ completed' = [completed EXCEPT ![d][T] = @ \cup {Step(d)}]
      /\ completed \in [Driver -> [Machine -> SUBSET Steps]]
      /\ UNCHANGED <<power, cordon, op>>
      /\ power \in [Machine -> {"On", "Off"}]
  BY DEF StepOk, plant, TypeInv, TypeOK
<1>3. /\ completed'[d][T] = c \cup {Step(d)}
      /\ \A e \in Driver, m \in Machine :
           ~(e = d /\ m = T) => completed'[e][m] = completed[e][m]
  BY <1>1, <1>2
<1>4. Step(d) \in {"wait_ready", "verify"} \/ op[T] = "none"
  BY DEF StepOk, Returned
<1>5. ASSUME "cordon" \in completed'[d][T], "wait_ready" \notin completed'[d][T]
      PROVE  cordon[T] = "Cordoned" /\ op[T] # "uncordon"
  <2>1. CASE Step(d) = "cordon"
    BY <1>4, <2>1 DEF StepOk, Reached
  <2>2. CASE Step(d) # "cordon"
    <3>1. Away(d, T)
      BY <1>3, <1>5, <2>2 DEF Away
    <3>2. QED
      BY <1>1, <3>1 DEF HeldInv
  <2>3. QED
    BY <2>1, <2>2
<1>6. \A e \in Driver, m \in Machine :
        Away(e, m)' => cordon'[m] = "Cordoned" /\ op'[m] # "uncordon"
  BY <1>2, <1>3, <1>5 DEF HeldInv, Away
<1>7. \A m \in Machine : op'[m] = "power_off" =>
        /\ cordon'[m] = "Cordoned"
        /\ \A e \in Driver : "power_on" \notin completed'[e][m]
  BY <1>2, <1>3, <1>4 DEF HeldInv
<1>8. \A m \in Machine : op'[m] = "uncordon" => power'[m] = "On"
  BY <1>2 DEF HeldInv
<1>9. ASSUME power[T] = "Off"
      PROVE  Step(d) \notin {"power_on", "wait_ready", "uncordon", "verify"}
  <2>1. c \cap {"power_on", "wait_ready", "uncordon", "verify"} = {}
    BY <1>1, <1>9 DEF HeldInv, OffIsResumable
  <2>2. Step(d) # "power_on"
    BY <1>9 DEF StepOk, Reached
  <2>3. QED
    BY <1>1, <2>1, <2>2, Predecessors
<1>10. OffIsResumable'
  BY <1>1, <1>2, <1>3, <1>9 DEF HeldInv, OffIsResumable
<1>11. QED
  BY <1>6, <1>7, <1>8, <1>10 DEF HeldInv

LEMMA HeldApply ==
  ASSUME TypeInv, JournalInv, HeldInv, NEW m \in Machine, ApplyOperation(m)
  PROVE  HeldInv'
<1>1. /\ UNCHANGED completed
      /\ op'[m] = "none" /\ op[m] \in Ops
      /\ cordon'[m] = IF op[m] \in {"cordon", "cordon_evacuate"} THEN "Cordoned"
                      ELSE IF op[m] = "uncordon" THEN "Uncordoned" ELSE cordon[m]
      /\ power'[m] = IF op[m] = "power_off" THEN "Off"
                     ELSE IF op[m] = "power_on" THEN "On" ELSE power[m]
      /\ \A n \in Machine : n # m =>
           op'[n] = op[n] /\ cordon'[n] = cordon[n] /\ power'[n] = power[n]
  BY DEF ApplyOperation, journal, TypeInv, TypeOK
<1>2. \A e \in Driver, n \in Machine :
        Away(e, n)' => cordon'[n] = "Cordoned" /\ op'[n] # "uncordon"
  BY <1>1 DEF HeldInv, Away
<1>3. \A n \in Machine : op'[n] = "power_off" =>
        /\ cordon'[n] = "Cordoned"
        /\ \A e \in Driver : "power_on" \notin completed'[e][n]
  BY <1>1 DEF HeldInv
<1>4. \A n \in Machine : op'[n] = "uncordon" => power'[n] = "On"
  BY <1>1 DEF HeldInv
<1>5. \A n \in Machine, e \in Driver : InOrder(completed[e][n])
  BY DEF JournalInv
<1>6. ASSUME power'[m] = "Off"
      PROVE  /\ cordon'[m] = "Cordoned"
             /\ \A e \in Driver :
                  completed[e][m] \cap {"power_on", "wait_ready", "uncordon", "verify"} = {}
  <2>1. CASE op[m] = "power_off"
    BY <1>1, <1>5, <2>1 DEF HeldInv, InOrder
  <2>2. CASE op[m] # "power_off"
    <3>1. power[m] = "Off" /\ op[m] # "uncordon"
      BY <1>1, <1>6, <2>2 DEF HeldInv
    <3>2. QED
      BY <1>1, <3>1 DEF HeldInv, OffIsResumable
  <2>3. QED
    BY <2>1, <2>2
<1>7. OffIsResumable'
  BY <1>1, <1>6 DEF HeldInv, OffIsResumable
<1>8. QED
  BY <1>2, <1>3, <1>4, <1>7 DEF HeldInv

LEMMA HeldStep ==
  ASSUME RacksApart, TypeInv, AllFull, JournalInv, PositionInv, HeldInv, [Next]_vars
  PROVE  HeldInv'
<1>1. ASSUME NEW d \in Driver, CrashInFlush(d) PROVE HeldInv'
  <2>1. /\ \A m \in Machine : completed'[d][m] = {}
        /\ \A e \in Driver : e # d => completed'[e] = completed[e]
        /\ UNCHANGED <<power, cordon, op>>
    BY <1>1 DEF CrashInFlush, plant, TypeInv, TypeOK
  <2>2. QED
    BY <2>1 DEF HeldInv, Away, OffIsResumable
<1>2. ASSUME NEW d \in Driver, DriverNext(d), ~StepOk(d), ~IssueOperation(d),
             ~CrashInFlush(d)
      PROVE  HeldInv'
  <2>1. UNCHANGED <<power, cordon, op, completed>>
    BY <1>2 DEF DriverNext, Progress, Misfortune, Start, SkipStep, MachineDone,
       CheckHeadroom, Blocked, Refused, BeginWait, StepFailed, StepError, Crash,
       DiscardJournal, plant, journal
  <2>2. QED
    BY <2>1, HeldUnchanged
<1>3. ASSUME NEW m \in Machine, RejectOperation(m) PROVE HeldInv'
  <2>1. /\ op'[m] = "none" /\ \A n \in Machine : n # m => op'[n] = op[n]
        /\ UNCHANGED <<power, cordon, completed>>
    BY <1>3 DEF RejectOperation, journal, TypeInv, TypeOK
  <2>2. QED
    BY <2>1 DEF HeldInv, Away, OffIsResumable
<1>4. ASSUME NEW m \in Machine, NodeReady(m) \/ NodeFault(m) \/ PlaceTenant(m)
      PROVE  HeldInv'
  BY <1>4, HeldUnchanged DEF NodeReady, NodeFault, PlaceTenant, journal
<1>5. CASE UNCHANGED vars
  BY <1>5, HeldUnchanged DEF vars, plant, journal
<1>6. QED
  BY <1>1, <1>2, <1>3, <1>4, <1>5, HeldIssue, HeldStepOk, HeldApply DEF Next, SiteNext

\* The floor survives any step after which no more machines are going.
LEMMA FloorKept ==
  ASSUME FloorInv, \A m \in Machine : Going(m)' => Going(m)
  PROVE  FloorInv'
<1> SUFFICES ASSUME NEW m \in Machine, Going(m)'
             PROVE  Cardinality(Staying(RackOf[m])') >= MinHealthyPerRack
  BY DEF FloorInv
<1>1. Cardinality(Staying(RackOf[m])) >= MinHealthyPerRack
  BY DEF FloorInv
<1>2. Staying(RackOf[m]) \subseteq Staying(RackOf[m])'
  BY DEF Staying, InRack
<1>3. IsFiniteSet(Staying(RackOf[m])')
  BY MachineAssumption, FS_Subset DEF Staying, InRack
<1>4. /\ IsFiniteSet(Staying(RackOf[m]))
      /\ Cardinality(Staying(RackOf[m])) <= Cardinality(Staying(RackOf[m])')
  BY <1>2, <1>3, FS_Subset
<1>5. Cardinality(Staying(RackOf[m])) \in Nat /\ Cardinality(Staying(RackOf[m])') \in Nat
  BY <1>3, <1>4, FS_CardinalityType
<1>6. QED
  BY <1>1, <1>4, <1>5, BoundAssumption

\* A driver step other than the headroom check and the issue leaves the plant
\* alone and has no new machine checked.
LEMMA NoNewChecked ==
  ASSUME TypeInv, NEW d \in Driver, DriverNext(d), ~CheckHeadroom(d)
  PROVE  \A m \in Machine : Checked(m)' => Checked(m)
<1>1. pc'[d] # "checked" \/ (pc'[d] = pc[d] /\ cur'[d] = cur[d])
  BY DEF DriverNext, Progress, Misfortune, Start, SkipStep, MachineDone, Blocked,
     IssueOperation, Refused, BeginWait, StepOk, StepFailed, StepError, Crash,
     CrashInFlush, DiscardJournal, Leave, NextStep, Stop, process, TypeInv, TypeOK
<1>2. QED
  BY <1>1, OthersUntouched DEF Checked, Target

LEMMA FloorCheck ==
  ASSUME RacksApart, TypeInv, HeldInv, FloorInv, NEW d \in Driver, CheckHeadroom(d)
  PROVE  FloorInv'
<1> DEFINE T == Target(d)
           H == HealthyOthers(d, T)
<1>1. /\ T \in Machine /\ T \in InScope(d)
      /\ Cardinality(H) >= MinHealthyPerRack
      /\ UNCHANGED <<power, cordon, op, node, cur>>
      /\ pc' = [pc EXCEPT ![d] = "checked"]
  BY TargetFacts DEF CheckHeadroom, RackHasHeadroom, plant
<1>2. pc'[d] = "checked" /\ \A e \in Driver : e # d => pc'[e] = pc[e]
  BY <1>1 DEF TypeInv, TypeOK
<1>3. \A m \in Machine : Going(m)' => Going(m) \/ m = T
  BY <1>1, <1>2 DEF Going, Checked, Target
<1>4. InScope(d) \subseteq Machine
  BY ScopeAssumption DEF InScope
<1>5. ASSUME NEW p \in H PROVE p \in Staying(RackOf[T]) /\ p # T
  <2>1. /\ p \in Machine /\ p \in InScope(d) /\ p # T /\ RackOf[p] = RackOf[T]
        /\ power[p] = "On" /\ cordon[p] = "Uncordoned"
    BY <1>4 DEF HealthyOthers, Healthy
  <2>2. op[p] # "power_off"
    BY <2>1 DEF HeldInv
  <2>3. ~Checked(p)
    <3>1. SUFFICES ASSUME NEW e \in Driver, pc[e] = "checked", Target(e) = p
                   PROVE  FALSE
      BY DEF Checked
    <3>2. p \in InScope(e)
      BY <3>1, TargetFacts
    <3>3. e = d
      BY <2>1, <3>2 DEF RacksApart
    <3>4. QED
      BY <2>1, <3>1, <3>3
  <2>4. QED
    BY <2>1, <2>2, <2>3 DEF Staying, InRack, Going
<1>6. ASSUME NEW m \in Machine, Going(m)'
      PROVE  Cardinality(Staying(RackOf[m])') >= MinHealthyPerRack
  <2>1. CASE RackOf[m] = RackOf[T]
    <3>1. H \subseteq Staying(RackOf[m])'
      BY <1>3, <1>5, <2>1 DEF Staying, InRack
    <3>2. IsFiniteSet(Staying(RackOf[m])')
      BY MachineAssumption, FS_Subset DEF Staying, InRack
    <3>3. IsFiniteSet(H) /\ Cardinality(H) <= Cardinality(Staying(RackOf[m])')
      BY <3>1, <3>2, FS_Subset
    <3>4. Cardinality(H) \in Nat /\ Cardinality(Staying(RackOf[m])') \in Nat
      BY <3>2, <3>3, FS_CardinalityType
    <3>5. QED
      BY <1>1, <3>3, <3>4, BoundAssumption
  <2>2. CASE RackOf[m] # RackOf[T]
    <3>1. Going(m)
      BY <1>3, <1>6, <2>2
    <3>2. Staying(RackOf[m])' = Staying(RackOf[m])
      <4>1. \A n \in Machine : n # T => (Going(n)' <=> Going(n))
        BY <1>1, <1>2 DEF Going, Checked, Target
      <4>2. QED
        BY <2>2, <4>1 DEF Staying, InRack
    <3>3. QED
      BY <3>1, <3>2 DEF FloorInv
  <2>3. QED
    BY <2>1, <2>2
<1>7. QED
  BY <1>6 DEF FloorInv

LEMMA FloorStep ==
  ASSUME RacksApart, TypeInv, PositionInv, HeldInv, FloorInv, [Next]_vars
  PROVE  FloorInv'
<1>1. ASSUME NEW d \in Driver, IssueOperation(d) PROVE FloorInv'
  <2>1. /\ op' = [op EXCEPT ![Target(d)] = OpFor(d)] /\ Target(d) \in Machine
        /\ op \in [Machine -> Ops] /\ UNCHANGED power
    BY <1>1, TargetFacts DEF IssueOperation, TypeInv, TypeOK
  <2>2. OpFor(d) = "power_off" => pc[d] = "checked"
    BY <1>1 DEF IssueOperation, MayIssue, OpFor
  <2>3. \A m \in Machine : Checked(m)' => Checked(m)
    BY <1>1, NoNewChecked DEF DriverNext, Progress, IssueOperation, CheckHeadroom, MayIssue, Due
  <2>4. \A m \in Machine : Going(m)' => Going(m)
    BY <2>1, <2>2, <2>3 DEF Going, Checked
  <2>5. QED
    BY <2>4, FloorKept
<1>2. ASSUME NEW d \in Driver, DriverNext(d), ~CheckHeadroom(d), ~IssueOperation(d)
      PROVE  FloorInv'
  <2>1. UNCHANGED <<power, op>>
    BY <1>2 DEF DriverNext, Progress, Misfortune, Start, SkipStep, MachineDone, Blocked,
       Refused, BeginWait, StepOk, StepFailed, StepError, Crash, CrashInFlush,
       DiscardJournal, plant
  <2>2. \A m \in Machine : Checked(m)' => Checked(m)
    BY <1>2, NoNewChecked
  <2>3. QED
    BY <2>1, <2>2, FloorKept DEF Going
<1>3. ASSUME NEW n \in Machine, SiteNext(n) PROVE FloorInv'
  <2>1. \A m \in Machine : Checked(m)' <=> Checked(m)
    BY <1>3, SiteLeavesProcess DEF process, Checked, Target
  <2>2. \A m \in Machine :
          power'[m] = "Off" \/ op'[m] = "power_off" => power[m] = "Off" \/ op[m] = "power_off"
    BY <1>3 DEF SiteNext, ApplyOperation, RejectOperation, NodeReady, NodeFault,
       PlaceTenant, TypeInv, TypeOK
  <2>3. QED
    BY <2>1, <2>2, FloorKept DEF Going
<1>4. CASE UNCHANGED vars
  BY <1>4, FloorKept DEF vars, plant, process, Going, Checked, Target
<1>5. QED
  BY <1>1, <1>2, <1>3, <1>4, FloorCheck DEF Next

LEMMA IInvInit == Init => IInv
<1> SUFFICES ASSUME Init PROVE IInv
  OBVIOUS
<1>1. TypeInv
  BY TypeInit
<1>2. AllFull /\ JournalInv /\ PositionInv
  BY DEF Init, AllFull, JournalInv, InOrder, PositionInv, PositionAt
<1>3. HeldInv /\ FloorInv
  BY DEF Init, HeldInv, Away, OffIsResumable, FloorInv, Going, Checked
<1>4. QED
  BY <1>1, <1>2, <1>3 DEF IInv

LEMMA IInvStep ==
  ASSUME FullOnly, RacksApart
  PROVE  IInv /\ [Next]_vars => IInv'
BY TypeStep, AllFullStep, JournalStep, PositionStep, HeldStep, FloorStep DEF IInv

LEMMA FloorBound ==
  ASSUME IInv, NEW m \in Machine, NEW S, S \in SUBSET Machine, Going(m),
         Staying(RackOf[m]) \subseteq S
  PROVE  Cardinality(S) >= MinHealthyPerRack
<1>1. IsFiniteSet(S)
  BY MachineAssumption, FS_Subset
<1>2. IsFiniteSet(Staying(RackOf[m])) /\ Cardinality(Staying(RackOf[m])) <= Cardinality(S)
  BY <1>1, FS_Subset
<1>3. Cardinality(Staying(RackOf[m])) \in Nat /\ Cardinality(S) \in Nat
  BY <1>1, <1>2, FS_CardinalityType
<1>4. QED
  BY <1>2, <1>3, BoundAssumption DEF IInv, FloorInv

\* In full windows by drivers that share no rack, a rack that has lost a
\* machine keeps MinHealthyPerRack machines powered on, whatever crashes,
\* errors and late operations there are.
THEOREM FloorHolds ==
  ASSUME FullOnly, RacksApart
  PROVE  Spec => []PowerFloor
<1>1. IInv => PowerFloor
  <2> SUFFICES ASSUME IInv, NEW m \in Machine, power[m] = "Off"
               PROVE  Cardinality(OnIn(RackOf[m])) >= MinHealthyPerRack
    BY DEF PowerFloor
  <2>1. Staying(RackOf[m]) \subseteq OnIn(RackOf[m])
    BY DEF Staying, OnIn, InRack, Going, IInv, TypeInv, TypeOK
  <2>2. QED
    BY <2>1, FloorBound DEF OnIn, InRack, Going
<1>2. QED
  BY <1>1, IInvInit, IInvStep, PTL DEF Spec

\* A machine that is off is cordoned and no journal lets a resumed window skip
\* any of its way back.
THEOREM Resumable ==
  ASSUME FullOnly, RacksApart
  PROVE  Spec => []OffIsResumable
<1>1. IInv => OffIsResumable
  BY DEF IInv, HeldInv
<1>2. QED
  BY <1>1, IInvInit, IInvStep, PTL DEF Spec

\* The readiness report says GO only when no power-off is in hand on a machine
\* of its scope, and then a rack that can spare a machine is not blocked.
THEOREM GoMeansReady ==
  ASSUME FullOnly, RacksApart
  PROVE  Spec => []GoCanStart
<1>1. IInv => GoCanStart
  <2> SUFFICES ASSUME IInv, NEW d \in Driver, HealthExitCode(d, TRUE, FALSE) = 0,
                      NEW m \in InScope(d)
               PROVE  /\ ~PowerOffInHand(m)
                      /\ Cardinality(HealthyMembers(d, RackOf[m])) > MinHealthyPerRack
                           => RackHasHeadroom(d, m)
    BY DEF GoCanStart
  <2>1. m \in Machine /\ InScope(d) \subseteq Machine
    BY ScopeAssumption DEF InScope
  <2>2. cordon[m] = "Uncordoned"
    <3>1. MaintenanceReadiness(d)
      BY DEF HealthExitCode
    <3> QED
      BY <3>1 DEF MaintenanceReadiness
  <2>3. ~PowerOffInHand(m)
    <3>1. op[m] # "power_off"
      BY <2>1, <2>2 DEF IInv, HeldInv
    <3>2. ASSUME NEW e \in Driver, pc[e] = "checked", Target(e) = m
          PROVE  FALSE
      <4>1. pc[e] # "idle" /\ ~AtEnd(e) /\ ~Done(e) /\ Step(e) = "power_off"
        BY <3>2 DEF IInv, TypeInv, InsideStep, PositionInv, PositionAt
      <4>2. cordon[Target(e)] = "Cordoned"
        BY <4>1, CordonedAtPowerOff DEF IInv
      <4> QED
        BY <2>2, <3>2, <4>2
    <3> QED
      BY <3>1, <3>2 DEF PowerOffInHand
  <2>4. ASSUME Cardinality(HealthyMembers(d, RackOf[m])) > MinHealthyPerRack
        PROVE  RackHasHeadroom(d, m)
    <3> DEFINE H == HealthyMembers(d, RackOf[m])
    <3>1. IsFiniteSet(H)
      BY <2>1, MachineAssumption, FS_Subset DEF HealthyMembers, Members
    <3>2. HealthyOthers(d, m) = H \ {m}
      BY DEF HealthyOthers, HealthyMembers, Members
    <3>3. Cardinality(H \ {m}) = IF m \in H THEN Cardinality(H) - 1 ELSE Cardinality(H)
      BY <3>1, FS_RemoveElement
    <3>4. Cardinality(H) \in Nat
      BY <3>1, FS_CardinalityType
    <3> QED
      BY <2>4, <3>2, <3>3, <3>4, BoundAssumption DEF RackHasHeadroom
  <2> QED
    BY <2>3, <2>4
<1>2. QED
  BY <1>1, IInvInit, IInvStep, PTL DEF Spec

\* The power-off is the only effect of the provider that needs the floor.
LEMMA ApplyIsWindowStep ==
  ASSUME IInv, IInv', NEW m \in Machine, ApplyOperation(m)
  PROVE  [Window!WNext]_(Window!wvars)
<1> DEFINE up == {n \in Machine : power[n] = "On"}
           pooled == {n \in Machine : cordon[n] = "Uncordoned"}
<1> USE DEF Window!WNext, Window!wvars
<1>1. /\ power \in [Machine -> {"On", "Off"}]
      /\ cordon \in [Machine -> {"Cordoned", "Uncordoned"}]
  BY DEF IInv, TypeInv, TypeOK
<1>2. /\ \A n \in Machine : n # m => power'[n] = power[n] /\ cordon'[n] = cordon[n]
      /\ cordon'[m] = IF op[m] \in {"cordon", "cordon_evacuate"} THEN "Cordoned"
                      ELSE IF op[m] = "uncordon" THEN "Uncordoned" ELSE cordon[m]
      /\ power'[m] = IF op[m] = "power_off" THEN "Off"
                     ELSE IF op[m] = "power_on" THEN "On" ELSE power[m]
  BY <1>1 DEF ApplyOperation
<1>3. CASE op[m] = "power_off" /\ power[m] = "On"
  <2>1. Cardinality(Window!UpPeers(m)) >= MinHealthyPerRack
    <3>1. Staying(RackOf[m]) \subseteq Window!UpPeers(m)
      BY <1>1, <1>3 DEF Staying, InRack, Going, Window!UpPeers
    <3>2. Window!UpPeers(m) \in SUBSET Machine
      BY DEF Window!UpPeers
    <3>3. QED
      BY <1>3, <3>1, <3>2, FloorBound DEF Going
  <2>2. cordon[m] = "Cordoned"
    BY <1>3 DEF IInv, HeldInv
  <2>3. up' = up \ {m} /\ pooled' = pooled
    BY <1>1, <1>2, <1>3
  <2>4. Window!Down(m)
    <3>1. m \in up \ pooled
      BY <1>3, <2>2
    <3>2. Window!Cardinality(Window!UpPeers(m)) = Cardinality(Window!UpPeers(m))
      BY DEF Window!Cardinality, Cardinality, Window!IsFiniteSet, IsFiniteSet
    <3>3. QED
      BY <2>1, <2>3, <3>1, <3>2 DEF Window!Down
  <2>5. QED
    BY <2>4
<1>4. CASE op[m] = "power_on" /\ power[m] = "Off"
  <2>1. up' = up \cup {m} /\ pooled' = pooled
    BY <1>1, <1>2, <1>4
  <2>2. Window!Up(m)
    BY <1>4, <2>1 DEF Window!Up
  <2>3. QED
    BY <2>2
<1>5. CASE op[m] \in {"cordon", "cordon_evacuate"} /\ cordon[m] = "Uncordoned"
  <2>1. up' = up /\ pooled' = pooled \ {m}
    BY <1>1, <1>2, <1>5
  <2>2. Window!Withdraw(m)
    BY <1>5, <2>1 DEF Window!Withdraw
  <2>3. QED
    BY <2>2
<1>6. CASE op[m] = "uncordon" /\ cordon[m] = "Cordoned"
  <2>1. power[m] = "On"
    BY <1>6 DEF IInv, HeldInv
  <2>2. up' = up /\ pooled' = pooled \cup {m}
    BY <1>1, <1>2, <1>6
  <2>3. Window!Rejoin(m)
    BY <1>6, <2>1, <2>2 DEF Window!Rejoin
  <2>4. QED
    BY <2>3
<1>7. CASE UNCHANGED <<power, cordon>>
  BY <1>7
<1>8. QED
  <2>1. op[m] \in Ops
    BY DEF IInv, TypeInv, TypeOK
  <2>2. CASE power'[m] = power[m] /\ cordon'[m] = cordon[m]
    BY <1>1, <1>2, <1>7, <2>2
  <2>3. CASE ~(power'[m] = power[m] /\ cordon'[m] = cordon[m])
    BY <1>1, <1>2, <1>3, <1>4, <1>5, <1>6, <2>1, <2>3 DEF Ops
  <2>4. QED
    BY <2>2, <2>3

\* The driver and the provider together keep the promise of MaintenanceWindow.
THEOREM Refinement ==
  ASSUME FullOnly, RacksApart
  PROVE  Spec => ImplementsWindow
<1>1. Init => Window!WInit
  BY DEF Init, Window!WInit
<1>2. IInv /\ IInv' /\ [Next]_vars => [Window!WNext]_(Window!wvars)
  <2> SUFFICES ASSUME IInv, IInv', [Next]_vars
               PROVE  [Window!WNext]_(Window!wvars)
    OBVIOUS
  <2>1. CASE UNCHANGED <<power, cordon>>
    BY <2>1 DEF Window!wvars
  <2>2. ASSUME NEW d \in Driver, DriverNext(d) PROVE UNCHANGED <<power, cordon>>
    BY <2>2 DEF DriverNext, Progress, Misfortune, Start, SkipStep, MachineDone,
       CheckHeadroom, Blocked, IssueOperation, Refused, BeginWait, StepOk, StepFailed,
       StepError, Crash, CrashInFlush, DiscardJournal, plant
  <2>3. ASSUME NEW m \in Machine, SiteNext(m), ~ApplyOperation(m)
        PROVE  UNCHANGED <<power, cordon>>
    BY <2>3 DEF SiteNext, RejectOperation, NodeReady, NodeFault, PlaceTenant
  <2>4. QED
    BY <2>1, <2>2, <2>3, ApplyIsWindowStep DEF Next, vars, plant
<1>3. QED
  BY <1>1, <1>2, IInvInit, IInvStep, PTL DEF Spec, ImplementsWindow, Window!WSpec

-----------------------------------------------------------------------------
(* What a row says of its machine, and that a window goes on only when the *)
(* last machine is back.                                                   *)


\* The machine is in service and nothing is about to take it out.
Back(m) == power[m] = "On" /\ cordon[m] = "Uncordoned" /\ op[m] = "none"

\* After its uncordon a journalled machine is back, for as long as the journal
\* says so: no step that is left asks anything of the provider.
BackInv == \A d \in Driver, m \in Machine : "uncordon" \in completed[d][m] => Back(m)

\* A row "ok" outlives a torn journal, but not the start of the next invocation.
RowInv ==
  \A d \in Driver, m \in Machine : rows[d][m] = "ok" =>
    /\ Back(m) /\ m \in InScope(d)
    /\ pc[d] # "idle" => "uncordon" \in completed[d][m]

\* Without --keep-going the machines before the one at hand are done.
CurInv ==
  \A d \in Driver : pc[d] # "idle" /\ ~keepGoing[d] =>
    \A i \in 1..(cur[d] - 1) : "uncordon" \in completed[d][Scope[d][i]]

RInv == IInv /\ BackInv /\ RowInv /\ CurInv

-----------------------------------------------------------------------------
\* No operation is asked for on a machine whose uncordon is in a journal.
LEMMA DoneNotIssued ==
  ASSUME RacksApart, IInv, NEW d \in Driver, NEW e \in Driver, IssueOperation(e),
         "uncordon" \in completed[d][Target(e)]
  PROVE  FALSE
<1>1. Target(e) \in Machine /\ Target(e) \in InScope(e)
  BY TargetFacts DEF IInv
<1>2. e = d
  BY <1>1 DEF IInv, JournalInv, RacksApart
<1>3. {"cordon", "power_off", "power_on", "uncordon"} \subseteq completed[e][Target(e)]
  BY <1>1, <1>2 DEF IInv, JournalInv, InOrder
<1>4. ~AtEnd(e) /\ ~Done(e)
  BY DEF IssueOperation, MayIssue, Due, IInv, TypeInv, InsideStep, PositionInv, PositionAt
<1>5. Step(e) \in Steps /\ Step(e) \in Ops
  BY <1>4, TargetFacts DEF IssueOperation, IInv
<1> QED
  BY <1>3, <1>4, <1>5 DEF Done, Steps, Ops

\* A machine that is back stays back unless a driver issues an operation on it.
LEMMA BackKept ==
  ASSUME IInv, [Next]_vars, NEW m \in Machine, Back(m),
         \A e \in Driver : IssueOperation(e) => Target(e) # m
  PROVE  Back(m)'
<1>1. ASSUME NEW e \in Driver, IssueOperation(e) PROVE Back(m)'
  BY <1>1, TargetFacts DEF IssueOperation, Back, IInv, TypeInv, TypeOK
<1>2. ASSUME NEW e \in Driver, DriverNext(e), ~IssueOperation(e) PROVE Back(m)'
  BY <1>2 DEF DriverNext, Progress, Misfortune, Start, SkipStep, MachineDone, CheckHeadroom,
     Blocked, Refused, BeginWait, StepOk, StepFailed, StepError, Crash, CrashInFlush,
     DiscardJournal, plant, Back
<1>3. ASSUME NEW n \in Machine, SiteNext(n) PROVE Back(m)'
  BY <1>3 DEF SiteNext, ApplyOperation, RejectOperation, NodeReady, NodeFault, PlaceTenant,
     Back, IInv, TypeInv, TypeOK
<1>4. CASE UNCHANGED vars
  BY <1>4 DEF vars, plant, Back
<1> QED
  BY <1>1, <1>2, <1>3, <1>4 DEF Next

\* At the end of its steps the machine at hand has been uncordoned.
LEMMA EndIsBack ==
  ASSUME IInv, NEW d \in Driver, pc[d] # "idle", AtEnd(d)
  PROVE  "uncordon" \in completed[d][Target(d)]
<1>1. Plan(phase[d]) = STEPS /\ pos[d] \in Nat
  BY TargetFacts DEF IInv, AllFull, Plan
<1>2. pos[d] > 6 /\ Len(STEPS) = 6 /\ STEPS[5] = "uncordon"
  BY <1>1 DEF AtEnd, STEPS
<1> QED
  BY <1>1, <1>2 DEF IInv, PositionInv, PositionAt

\* A machine whose uncordon is in a journal stays back.
LEMMA BackStep ==
  ASSUME RacksApart, IInv, BackInv, [Next]_vars
  PROVE  BackInv'
<1> SUFFICES ASSUME NEW d \in Driver, NEW m \in Machine, "uncordon" \in completed'[d][m]
             PROVE  Back(m)'
  BY DEF BackInv, Back
<1>1. CASE "uncordon" \in completed[d][m]
  BY <1>1, BackKept, DoneNotIssued DEF BackInv
<1>2. CASE "uncordon" \notin completed[d][m]
  <2>1. PICK e \in Driver : StepOk(e)
    <3>1. ~UNCHANGED completed
      BY <1>2
    <3>2. ASSUME NEW n \in Machine, SiteNext(n) PROVE FALSE
      BY <3>1, <3>2, SiteLeavesProcess DEF journal
    <3>3. PICK e \in Driver : DriverNext(e)
      BY <3>1, <3>2 DEF Next, vars, journal
    <3>4. ASSUME CrashInFlush(e) PROVE FALSE
      <4>1. completed' = [completed EXCEPT ![e] = [n \in Machine |-> {}]]
        BY <3>4 DEF CrashInFlush
      <4>2. completed'[d][m] = {} \/ completed'[d][m] = completed[d][m]
        BY <4>1 DEF IInv, TypeInv, TypeOK
      <4> QED
        BY <1>2, <4>2
    <3> QED
      BY <3>1, <3>3, <3>4, JournalUnchanged DEF DriverNext, Progress, Misfortune
  <2>2. e = d /\ m = Target(d) /\ Step(d) = "uncordon"
    BY <1>2, <2>1 DEF StepOk, IInv, TypeInv, TypeOK
  <2>3. /\ cordon[m] = "Uncordoned" /\ op[m] = "none"
        /\ UNCHANGED <<power, cordon, op>>
    BY <2>1, <2>2 DEF StepOk, Returned, Reached, plant
  <2>4. pc[d] # "idle" /\ ~AtEnd(d)
    BY <2>1, <2>2 DEF StepOk, Returned, IInv, TypeInv, InsideStep
  <2>5. "wait_ready" \in completed[d][m]
    BY <2>2, <2>4, Predecessors DEF IInv
  <2>6. power[m] = "On"
    BY <2>5 DEF IInv, HeldInv, OffIsResumable, TypeInv, TypeOK
  <2> QED
    BY <2>3, <2>6 DEF Back
<1> QED
  BY <1>1, <1>2

\* What a driver's step does to its rows: they are final once written.
LEMMA RowsWritten ==
  ASSUME IInv, NEW d \in Driver, DriverNext(d), NEW e \in Driver, NEW m \in Machine,
         rows'[e][m] = "ok"
  PROVE  \/ /\ rows[e][m] = "ok"
            /\ pc'[e] # "idle" => pc[e] # "idle" /\ completed[e][m] \subseteq completed'[e][m]
         \/ e = d /\ m = Target(d) /\ MachineDone(d)
<1> USE DEF IInv, TypeInv, TypeOK, Leave, Stop, NextStep, process, journal
<1>1. CASE Start(d)           BY <1>1 DEF Start
<1>2. CASE SkipStep(d)        BY <1>2 DEF SkipStep
<1>3. CASE MachineDone(d)     BY <1>3 DEF MachineDone
<1>4. CASE CheckHeadroom(d)   BY <1>4 DEF CheckHeadroom, Due
<1>5. CASE Blocked(d)         BY <1>5 DEF Blocked, Due
<1>6. CASE IssueOperation(d)  BY <1>6 DEF IssueOperation, MayIssue, Due
<1>7. CASE Refused(d)         BY <1>7 DEF Refused, MayIssue, Due
<1>8. CASE BeginWait(d)       BY <1>8 DEF BeginWait, Due
<1>9. CASE StepOk(d)          BY <1>9 DEF StepOk, Returned
<1>10. CASE StepFailed(d)     BY <1>10 DEF StepFailed, Returned
<1>11. CASE StepError(d)      BY <1>11 DEF StepError, AtStep, Due
<1>12. CASE Crash(d)          BY <1>12 DEF Crash
<1>13. CASE CrashInFlush(d)   BY <1>13 DEF CrashInFlush
<1>14. CASE DiscardJournal(d) BY <1>14 DEF DiscardJournal
<1> QED
  BY <1>1, <1>2, <1>3, <1>4, <1>5, <1>6, <1>7, <1>8, <1>9, <1>10, <1>11, <1>12, <1>13,
     <1>14 DEF DriverNext, Progress, Misfortune

\* A row "ok" stays true of its machine until the next invocation.
LEMMA RowStep ==
  ASSUME RacksApart, IInv, RowInv, BackInv, [Next]_vars
  PROVE  RowInv'
<1> SUFFICES ASSUME NEW d \in Driver, NEW m \in Machine, rows'[d][m] = "ok"
             PROVE  /\ Back(m)' /\ m \in InScope(d)
                    /\ pc'[d] # "idle" => "uncordon" \in completed'[d][m]
  BY DEF RowInv, Back, InScope
<1>1. ASSUME rows[d][m] = "ok" PROVE Back(m)' /\ m \in InScope(d)
  <2>1. Back(m) /\ m \in InScope(d)
    BY <1>1 DEF RowInv
  <2>2. ASSUME NEW e \in Driver, IssueOperation(e), Target(e) = m PROVE FALSE
    <3>1. e = d
      BY <2>1, <2>2, TargetFacts DEF IInv, RacksApart
    <3>2. pc[d] # "idle"
      BY <2>2, <3>1 DEF IssueOperation, MayIssue, Due
    <3>3. "uncordon" \in completed[d][m]
      BY <1>1, <3>2 DEF RowInv
    <3> QED
      BY <2>2, <3>3, DoneNotIssued
  <2> QED
    BY <2>1, <2>2, BackKept
<1>2. ASSUME NEW e \in Driver, DriverNext(e)
      PROVE  /\ Back(m)' /\ m \in InScope(d)
             /\ pc'[d] # "idle" => "uncordon" \in completed'[d][m]
  <2>1. CASE /\ rows[d][m] = "ok"
             /\ pc'[d] # "idle" => pc[d] # "idle" /\ completed[d][m] \subseteq completed'[d][m]
    BY <1>1, <2>1 DEF RowInv
  <2>2. CASE d = e /\ m = Target(e) /\ MachineDone(e)
    <3>1. "uncordon" \in completed[d][m]
      BY <2>2, EndIsBack DEF MachineDone
    <3>2. UNCHANGED completed /\ UNCHANGED <<power, cordon, op>>
      BY <2>2 DEF MachineDone, journal, plant
    <3> QED
      BY <2>2, <3>1, <3>2, TargetFacts DEF BackInv, Back, IInv
  <2> QED
    BY <1>2, <2>1, <2>2, RowsWritten
<1>3. ASSUME UNCHANGED <<journal, process>>
      PROVE  /\ Back(m)' /\ m \in InScope(d)
             /\ pc'[d] # "idle" => "uncordon" \in completed'[d][m]
  BY <1>1, <1>3 DEF RowInv, journal, process
<1> QED
  BY <1>2, <1>3, SiteLeavesProcess DEF Next, vars

\* The machines a strict window has passed have their uncordon in its journal.
LEMMA CurStep ==
  ASSUME IInv, CurInv, [Next]_vars
  PROVE  CurInv'
<1> SUFFICES ASSUME NEW d \in Driver, pc'[d] # "idle", ~keepGoing'[d],
                    NEW i \in 1..(cur'[d] - 1)
             PROVE  "uncordon" \in completed'[d][Scope[d][i]]
  BY DEF CurInv
<1> DEFINE Goal == "uncordon" \in completed'[d][Scope[d][i]]
<1>1. ASSUME pc[d] # "idle", keepGoing'[d] = keepGoing[d], cur'[d] = cur[d],
             \A m \in Machine : completed[d][m] \subseteq completed'[d][m]
      PROVE  Goal
  <2>1. cur[d] \in 1..Len(Scope[d]) /\ Scope[d] \in Seq(Machine)
    BY ScopeAssumption DEF IInv, TypeInv, TypeOK
  <2>2. Scope[d][i] \in Machine
    BY <1>1, <2>1
  <2> QED
    BY <1>1, <2>2 DEF CurInv
<1>2. ASSUME UNCHANGED <<journal, process>> PROVE Goal
  BY <1>1, <1>2 DEF journal, process
<1>3. ASSUME NEW e \in Driver, DriverNext(e) PROVE Goal
  <2>1. CASE e # d
    <3>1. keepGoing'[d] = keepGoing[d]
      BY <1>3, <2>1 DEF DriverNext, Progress, Misfortune, Start, SkipStep, MachineDone,
         CheckHeadroom, Blocked, IssueOperation, Refused, BeginWait, StepOk, StepFailed,
         StepError, Crash, CrashInFlush, DiscardJournal, Leave, NextStep, process,
         IInv, TypeInv, TypeOK
    <3> QED
      BY <1>1, <1>3, <2>1, <3>1, OthersUntouched DEF IInv
  <2>2. CASE e = d /\ Start(d)
    BY <2>2 DEF Start, IInv, TypeInv, TypeOK
  <2>3. CASE e = d /\ MachineDone(d)
    <3>1. Leave(d, "ok") /\ UNCHANGED completed /\ pc[d] # "idle" /\ AtEnd(d)
      BY <2>3 DEF MachineDone, journal
    <3>2. cur'[d] = cur[d] + 1 /\ keepGoing' = keepGoing
      BY <3>1 DEF Leave, Stop, IInv, TypeInv, TypeOK
    <3>3. CASE i = cur[d]
      BY <3>1, <3>3, EndIsBack DEF Target
    <3>4. CASE i # cur[d]
      <4>1. cur[d] \in Nat
        BY DEF IInv, TypeInv, TypeOK
      <4>2. i \in 1..(cur[d] - 1)
        BY <3>2, <3>4, <4>1
      <4> QED
        BY <3>1, <3>2, <4>2 DEF CurInv
    <3> QED
      BY <3>3, <3>4
  <2>4. ASSUME NEW result \in {"blocked", "failed"}, Leave(d, result) PROVE FALSE
    BY <2>4 DEF Leave, Stop, IInv, TypeInv, TypeOK
  <2>5. CASE e = d /\ (Blocked(d) \/ Refused(d) \/ StepFailed(d) \/ StepError(d))
    BY <2>4, <2>5 DEF Blocked, Refused, StepFailed, StepError
  <2>6. CASE e = d /\ (Crash(d) \/ CrashInFlush(d) \/ DiscardJournal(d))
    BY <2>6 DEF Crash, CrashInFlush, DiscardJournal, Stop, process, IInv, TypeInv, TypeOK
  <2>7. CASE e = d /\ StepOk(d)
    BY <1>1, <2>7 DEF StepOk, Returned, NextStep, IInv, TypeInv, TypeOK
  <2>8. CASE /\ e = d
             /\ SkipStep(d) \/ CheckHeadroom(d) \/ IssueOperation(d) \/ BeginWait(d)
    BY <1>1, <2>8 DEF SkipStep, CheckHeadroom, IssueOperation, BeginWait, MayIssue, Due,
       NextStep, journal
  <2> QED
    BY <1>3, <2>1, <2>2, <2>3, <2>5, <2>6, <2>7, <2>8 DEF DriverNext, Progress, Misfortune
<1> QED
  BY <1>2, <1>3, SiteLeavesProcess DEF Next, vars

-----------------------------------------------------------------------------
\* The invariants about rows hold in every state, with the one they rest on.
THEOREM RowsInductive ==
  ASSUME FullOnly, RacksApart
  PROVE  Spec => []RInv
<1>1. Init => RInv
  BY IInvInit DEF Init, RInv, BackInv, RowInv, CurInv
<1>2. RInv /\ [Next]_vars => RInv'
  BY IInvStep, BackStep, RowStep, CurStep DEF RInv
<1> QED
  BY <1>1, <1>2, PTL DEF Spec

\* A row "ok" of an invocation that has ended is true of its machine until the
\* next invocation: on, uncordoned, and with nothing in flight that could take it
\* away, even when a crash has torn the journal since.
THEOREM RowsTellTheTruth ==
  ASSUME FullOnly, RacksApart
  PROVE  Spec => []RowOkMeansBack
<1>1. RInv => RowOkMeansBack
  BY DEF RInv, RowInv, Back, RowOkMeansBack
<1> QED
  BY <1>1, RowsInductive, PTL

\* A window without --keep-going comes to a machine only when all the earlier
\* ones of its scope are back in service, and they stay so.
THEOREM OneMachineAtATime ==
  ASSUME FullOnly, RacksApart
  PROVE  Spec => []OneAtATime
<1>1. RInv => OneAtATime
  <2> SUFFICES ASSUME RInv, NEW d \in Driver, pc[d] # "idle", ~keepGoing[d],
                      NEW i \in 1..(cur[d] - 1)
               PROVE  Back(Scope[d][i])
    BY DEF OneAtATime, Back
  <2>1. Scope[d] \in Seq(Machine) /\ cur[d] \in 1..Len(Scope[d])
    BY ScopeAssumption DEF RInv, IInv, TypeInv, TypeOK
  <2>2. Scope[d][i] \in Machine
    BY <2>1
  <2> QED
    BY <2>2 DEF RInv, CurInv, BackInv
<1> QED
  BY <1>1, RowsInductive, PTL
=============================================================================
