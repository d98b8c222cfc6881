---------------------------- MODULE Decommission ----------------------------
(***************************************************************************)
(* openstack/python/compute_node_decommission.py: take one node out of     *)
(* every list it is on, stage by stage.  A run may be limited to some      *)
(* stages, the operator may decline any removal, every call may fail.      *)
(* A dry run reads only and is left out.  Listings that are not in a try   *)
(* block end the run with a traceback.                                     *)
(***************************************************************************)
EXTENDS Hypervisors

CONSTANTS
  Retired,       \* the node being decommissioned
  StageChoices   \* the sets of stages a run is asked for

Stages == {"verify", "aggregates", "services", "neutron", "placement"}

ASSUME RetiredAssumption == Retired \in Host
ASSUME StagesAssumption == StageChoices \subseteq SUBSET Stages

FinalStages == {"final", "final agents", "final provider", "final aggregates"}

VARIABLES
  stage,      \* the next stage, "idle" when no run is going on
  stages,     \* --stage
  skipDrain,  \* --skip-drain-check
  declined,   \* the operator declined a removal
  stageFailed,\* a stage reported FAILED
  remaining,  \* what the final verification has found left so far
  decRc,      \* exit code of the last run
  complete    \* history: the last run was a full one, nothing skipped

rvars == <<stage, stages, skipDrain, declined, stageFailed, remaining, decRc, complete>>

DecommissionTypeOK ==
  /\ stage \in Stages \cup FinalStages \cup {"idle", "verify service"}
  /\ stages \in SUBSET Stages
  /\ skipDrain \in BOOLEAN /\ declined \in BOOLEAN /\ stageFailed \in BOOLEAN
  /\ remaining \in SUBSET {"service", "agents", "provider"}
  /\ decRc \in 0..2
  /\ complete \in BOOLEAN

DecommissionInit ==
  /\ stage = "idle" /\ stages = {} /\ skipDrain = FALSE
  /\ declined = FALSE /\ stageFailed = FALSE /\ remaining = {}
  /\ decRc = 0 /\ complete = FALSE

BeginDecommission(which, skip) ==
  /\ stage = "idle"
  /\ Event
  /\ stage' = "verify"
  /\ stages' = which
  /\ skipDrain' = skip
  /\ declined' = FALSE /\ stageFailed' = FALSE /\ complete' = FALSE
  /\ UNCHANGED <<remaining, decRc, instances, registry>>

EndDecommission(code) ==
  /\ stage' = "idle" /\ decRc' = code
  /\ complete' = (stages = Stages /\ ~skipDrain /\ ~declined)
  /\ stages' = {} /\ skipDrain' = FALSE /\ declined' = FALSE /\ stageFailed' = FALSE
  /\ remaining' = {}

Traceback(s) ==
  /\ stage = s /\ (s \in Stages => s \in stages)
  /\ Event
  /\ EndDecommission(1)
  /\ UNCHANGED <<instances, registry>>

\* A stage that was not asked for is passed over.
Pass(s, next) ==
  /\ stage = s /\ s \notin stages
  /\ stage' = next
  /\ UNCHANGED <<stages, skipDrain, declined, stageFailed, remaining, decRc, complete, hvars>>

\* One of the two things verify_drained asks for is answered: a node that is
\* not drained ends the run, unless the operator skips the check.
Checked(drained, next) ==
  /\ \/ /\ drained \/ skipDrain
        /\ stage' = IF drained THEN next ELSE "aggregates"
        /\ UNCHANGED <<stages, skipDrain, declined, stageFailed, remaining, decRc, complete>>
     \/ ~drained /\ ~skipDrain /\ EndDecommission(2)
  /\ UNCHANGED hvars

\* verify_drained lists the instances that Nova records on the node, and only
\* when there are none its services.
Verify ==
  /\ stage = "verify" /\ "verify" \in stages
  /\ Checked(On(Retired) = {}, "verify service")

VerifyService ==
  /\ stage = "verify service"
  /\ Checked(svc[Retired] # "enabled", "aggregates")

\* The three ways a removal that was not carried out is reported.
Decline == declined' = TRUE /\ UNCHANGED <<stageFailed, events>>
Refused == stageFailed' = TRUE /\ UNCHANGED <<declined, events>>
Fails   == Event /\ stageFailed' = TRUE /\ UNCHANGED declined
Done    == UNCHANGED <<declined, stageFailed, events>>

Enter(s, next) ==
  /\ stage = s /\ s \in stages
  /\ stage' = next
  /\ UNCHANGED <<stages, skipDrain, remaining, decRc, complete>>
  /\ UNCHANGED <<instances, back>>

\* A call that fails may have been carried out.
LeaveAggregates ==
  /\ Enter("aggregates", "services")
  /\ \/ Done /\ member' = member \ {Retired}
     \/ Retired \in member /\ Decline /\ UNCHANGED member
     \/ Retired \in member /\ Fails /\ member' \in {member, member \ {Retired}}
  /\ UNCHANGED <<svc, provider, agents>>

DeleteService ==
  /\ Enter("services", "neutron")
  /\ \/ Done /\ svc' = [svc EXCEPT ![Retired] = "gone"]
     \/ svc[Retired] # "gone" /\ Decline /\ UNCHANGED svc
     \/ /\ svc[Retired] # "gone" /\ Fails
        /\ svc' \in {svc, [svc EXCEPT ![Retired] = "gone"]}
  /\ UNCHANGED <<provider, agents, member>>

\* The listing is in a try block of its own: it fails the stage, not the run.
DeleteAgents ==
  /\ Enter("neutron", "placement")
  /\ \/ Done /\ agents' = agents \ {Retired}
     \/ Retired \in agents /\ Decline /\ UNCHANGED agents
     \/ Fails /\ agents' \in {agents, agents \ {Retired}}
  /\ UNCHANGED <<svc, provider, member>>

\* Placement refuses to delete a provider that has allocations.
DeleteProvider ==
  /\ Enter("placement", "final")
  /\ \/ /\ Retired \in provider => Allocated(Retired) = {}
        /\ Done /\ provider' = provider \ {Retired}
     \/ /\ Retired \in provider /\ Allocated(Retired) # {}
        /\ Refused /\ UNCHANGED provider
     \/ Retired \in provider /\ Decline /\ UNCHANGED provider
     \/ /\ Fails
        /\ \/ UNCHANGED provider
           \/ Allocated(Retired) = {} /\ provider' = provider \ {Retired}
  /\ UNCHANGED <<svc, agents, member>>

\* Mutant: the stages' own word is taken for it.
FinalVerificationTrusting ==
  /\ stage = "final aggregates"
  /\ EndDecommission(IF stageFailed THEN 1 ELSE 0)
  /\ UNCHANGED <<instances, registry, events>>

\* final_verification lists four times, and the node may register itself again
\* between any two: what was read as gone is not read again.
LookAgain(s, next) ==
  /\ stage = s
  /\ stage' = next
  /\ UNCHANGED <<stages, skipDrain, declined, stageFailed, decRc, complete, instances>>
  /\ UNCHANGED <<svc, provider, agents, member>>

FinalServices ==
  /\ LookAgain("final", "final agents")
  /\ remaining' = IF svc[Retired] = "gone" THEN {} ELSE {"service"}
  /\ back' = {}
  /\ UNCHANGED events

\* Agents and providers that cannot be listed count as gone.
FinalAgents ==
  /\ LookAgain("final agents", "final provider")
  /\ \/ /\ remaining' = IF Retired \in agents THEN remaining \cup {"agents"} ELSE remaining
        /\ UNCHANGED events
     \/ Event /\ UNCHANGED remaining
  /\ UNCHANGED back

FinalProvider ==
  /\ LookAgain("final provider", "final aggregates")
  /\ \/ /\ remaining' = IF Retired \in provider THEN remaining \cup {"provider"} ELSE remaining
        /\ UNCHANGED events
     \/ Event /\ UNCHANGED remaining
  /\ UNCHANGED back

\* FAILED or INCOMPLETE rows give exit code 1.
FinalVerification ==
  /\ stage = "final aggregates"
  /\ EndDecommission(IF remaining # {} \/ Retired \in member \/ stageFailed THEN 1 ELSE 0)
  /\ UNCHANGED <<instances, registry, events>>

DecommissionStep ==
  \/ \E which \in StageChoices, skip \in BOOLEAN : BeginDecommission(which, skip)
  \/ Pass("verify", "aggregates") \/ Pass("aggregates", "services")
  \/ Pass("services", "neutron") \/ Pass("neutron", "placement") \/ Pass("placement", "final")
  \/ Verify \/ VerifyService
  \/ LeaveAggregates \/ DeleteService \/ DeleteAgents \/ DeleteProvider
  \/ FinalServices \/ FinalAgents \/ FinalProvider \/ FinalVerification
  \/ \E s \in {"verify", "verify service", "aggregates", "services",
             "final", "final aggregates"} : Traceback(s)

-----------------------------------------------------------------------------
(* What must hold of it                                                    *)

\* A complete run that ends with code 0 has left nothing on the node: it is in
\* no aggregate, and there is no service record, no allocation and no instance
\* that Nova puts there, whichever listings failed, unless the node's daemons
\* have registered it again while the run was looking for what is left.
FinishedIsEmpty ==
  [][stage = "final aggregates" /\ stage' = "idle" /\ decRc' = 0 /\ complete' =>
       /\ Retired \notin member
       /\ Retired \notin back => svc[Retired] = "gone" /\ Allocated(Retired) = {}
    ]_<<hvars, rvars>>
=============================================================================
