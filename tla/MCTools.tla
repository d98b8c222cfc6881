------------------------------ MODULE MCTools -------------------------------
(***************************************************************************)
(* An instance for TLC of the tools and playbooks that share no state with *)
(* one another or with the rest: one of them is at work in each behaviour, *)
(* the others stay as they were, so the behaviours are those of each by    *)
(* itself.                                                                 *)
(***************************************************************************)
EXTENDS MCOnboarding, ResourceAudit, OsdThrottle, NtpHealth, AgentMonitor, PureUpgrade,
        CertRotation, PolicyUpdate

VARIABLE tool

CONSTANTS
  vol, snap, port, img,                              \* one resource of a kind
  k1, k2, lo, hi, o1, o2, aggressive, emergency,     \* two throttles
  n1, n2, t1,                                        \* two hosts, one time source
  e1, e2, g1, g2, g3,                                \* two endpoints, three agents
  ct0, ct1, v1, v2, cl1, l1, l2, p0, p1, p2,             \* one client of an array
  web, db,                                           \* two certificates of a host
  allow, deny, net, ingress, egress                  \* three policies

EachKind == (vol :> "volume") @@ (snap :> "snapshot") @@ (port :> "port") @@ (img :> "image")
OfThatVolume == [x \in Resource |-> vol]

HighAndLow == (aggressive :> [k \in Tunable |-> hi]) @@ (emergency :> [k \in Tunable |-> lo])
Mixed == (k1 :> lo) @@ (k2 :> hi)

\* In microseconds; 299.951 is printed as 300.0, for which 99.99 is too far away.
Apart == {99990, 299951, -1200000}

Reinstalled == (g1 :> e1) @@ (g2 :> e2) @@ (g3 :> e1)
TwoPages == <<{g1}, {g2, g3}>>

TwoPortsOnOne == (p0 :> ct0) @@ (p1 :> ct1) @@ (p2 :> ct1)

\* A cluster-wide deny, the allow that goes with it, and a NetworkPolicy of a
\* namespace, which has no order.  The sets are: nothing; the allow with a
\* section more or less; a deny that comes with the allow, alone, or with a
\* policy that has no order.
AllowThenDeny == (allow :> 200) @@ (deny :> 900) @@ (net :> None)
Dir(a, d, n) == (allow :> a) @@ (deny :> d) @@ (net :> n)
SixSets ==
  {Dir({}, {}, {}), Dir({egress}, {}, {}), Dir({ingress, egress}, {}, {ingress}),
   Dir({egress}, {egress}, {}), Dir({}, {egress}, {}), Dir({egress}, {egress}, {ingress})}

\* The parts of the system that are alike in the behaviours of all other tools.
Fixed ==
  /\ tool # "ntp" => \A h \in Server : offset[h] = 99990
  /\ tool # "policy" => \A p \in Policy : live[p] = Absent

Init ==
  /\ tool \in {"onboarding", "audit", "throttle", "ntp", "monitor", "upgrade",
               "rotation", "policy"}
  /\ OnboardingInit /\ AuditInit /\ ThrottleInit /\ NtpInit /\ MonitorInit /\ PureInit
  /\ CertInit /\ UpdateInit
  /\ Fixed

Next ==
  /\ UNCHANGED tool
  /\ \/ tool = "onboarding" /\ OnboardingStep
        /\ UNCHANGED <<avars, tvars, nvars, mvars, pvars, cvars, updateVars>>
     \/ tool = "audit" /\ AuditStep
        /\ UNCHANGED <<ovars, tvars, nvars, mvars, pvars, cvars, updateVars>>
     \/ tool = "throttle" /\ ThrottleStep
        /\ UNCHANGED <<ovars, avars, nvars, mvars, pvars, cvars, updateVars>>
     \/ tool = "ntp" /\ NtpStep
        /\ UNCHANGED <<ovars, avars, tvars, mvars, pvars, cvars, updateVars>>
     \/ tool = "monitor" /\ MonitorStep
        /\ UNCHANGED <<ovars, avars, tvars, nvars, pvars, cvars, updateVars>>
     \/ tool = "upgrade" /\ PureStep
        /\ UNCHANGED <<ovars, avars, tvars, nvars, mvars, cvars, updateVars>>
     \/ tool = "rotation" /\ CertNext
        /\ UNCHANGED <<ovars, avars, tvars, nvars, mvars, pvars, updateVars>>
     \/ tool = "policy" /\ UpdateNext
        /\ UNCHANGED <<ovars, avars, tvars, nvars, mvars, pvars, cvars>>

Spec ==
  Init /\ [][Next]_<<tool, ovars, avars, tvars, nvars, mvars, pvars, cvars, updateVars>>

\* Every variable of every tool has its type.
ToolsTypeOK ==
  /\ OnboardingTypeOK /\ AuditTypeOK /\ ThrottleTypeOK /\ NtpTypeOK
  /\ MonitorTypeOK /\ PureTypeOK /\ CertTypeOK /\ PolicyTypeOK
=============================================================================
