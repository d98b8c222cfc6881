----------------------------- MODULE BmmHealth ------------------------------
(***************************************************************************)
(* azure/operator-nexus/python/nexus_bmm_health.py: the readiness report   *)
(* an operator asks for before a maintenance window is started.  It lists  *)
(* the machines once and changes nothing, so it is a predicate of the      *)
(* state BmmMaintenance describes; rendering is left out.                  *)
(***************************************************************************)
EXTENDS BmmMaintenance

\* machine_row: ready_state is "True" also where hardware validation failed.
ReadyState(m) == node[m] # "NotReady"

\* The machines of a report over the scope of d that are in rack r.
Members(d, r) == {m \in InScope(d) : RackOf[m] = r}
HealthyMembers(d, r) == {m \in Members(d, r) : Healthy(m)}

\* rack_report's flag, and maintenance_readiness's last blocker.
BelowThreshold(d, r) == Cardinality(HealthyMembers(d, r)) < MinHealthyPerRack

\* Mutant: a machine left cordoned by an earlier window is no blocker.
ReadinessUncordoned(d) ==
  \A m \in InScope(d) : ReadyState(m) /\ power[m] = "On" /\ ~BelowThreshold(d, RackOf[m])

MaintenanceReadiness(d) ==
  \A m \in InScope(d) :
    ReadyState(m) /\ cordon[m] = "Uncordoned" /\ power[m] = "On"
      /\ ~BelowThreshold(d, RackOf[m])

\* main's exit code, with --maintenance-readiness, --fail-on-findings or both.
HealthExitCode(d, readiness, fail) ==
  IF readiness /\ ~MaintenanceReadiness(d) THEN 2
  ELSE IF fail /\ \E m \in InScope(d) : ~ReadyState(m) \/ power[m] # "On" THEN 2
  ELSE IF fail /\ \E m \in InScope(d) : ~Healthy(m) THEN 1
  ELSE 0

\* Some invocation is about to power a machine off, or the provider is.
PowerOffInHand(m) ==
  \/ op[m] = "power_off"
  \/ \E d \in Driver : pc[d] = "checked" /\ Target(d) = m

\* "Can a maintenance window start right now?": the report says GO, in a single
\* look at the machines, only when no window is about to take one of them down,
\* though none is down yet; and where a rack has a healthy machine more than the
\* floor, the driver's own check will not block the first power-off.  (At just
\* the floor the report still says GO, and the driver blocks every machine.)
GoCanStart ==
  \A d \in Driver : HealthExitCode(d, TRUE, FALSE) = 0 =>
    \A m \in InScope(d) :
      /\ ~PowerOffInHand(m)
      /\ Cardinality(HealthyMembers(d, RackOf[m])) > MinHealthyPerRack
           => RackHasHeadroom(d, m)
=============================================================================
