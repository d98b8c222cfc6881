---------------------------- MODULE RegionProofs ----------------------------
(***************************************************************************)
(* Theorems about Region, for every set of hosts and instances, every      *)
(* retired node and choice of stages, and every bound.                     *)
(***************************************************************************)
EXTENDS Region, TLAPS

Reconciling == {"nova", "dirs", "join"}

\* While a clean-up runs, what is on its way is in touched.
MotionInv == job # "idle" => \A i \in Instance : toward[i] # NoHost => i \in touched

\* The host in hand is a host.
HandInv == job \in Reconciling => seen.host \in Host

\* Once its instances are listed, those that have not moved are known.
SeenInv ==
  job \in {"dirs", "join"} => On(seen.host) \ touched \subseteq seen.known

\* What a row would have removed is not a settled instance of that host.
RowsInv ==
  \A r \in rows : r.finding # "MISSING_DOMAIN" => r.instance \notin On(r.host) \ touched

\* No row is kept when no clean-up runs.
IdleInv == job = "idle" => rows = {}

\* What its removals are safe by.
CleanupInv == MotionInv /\ SeenInv /\ RowsInv /\ IdleInv

\* Placement refuses to lose a provider in use; an instance that does not exist
\* is nowhere.
ProviderInv ==
  /\ \A h \in Host : Allocated(h) # {} => h \in provider
  /\ \A i \in Instance : vm[i] = "none" => at[i] = NoHost

\* A complete run that comes to its final verification has deleted the provider;
\* nothing is put on the node again without its service.
StagesInv ==
  stage \in FinalStages /\ stages = Stages /\ ~declined /\ ~stageFailed =>
    Allocated(Retired) = {} \/ svc[Retired] # "gone"

\* When the services were read and the node was not among them, only its daemons
\* put it back.
LookedInv ==
  stage \in FinalStages \ {"final"} /\ remaining = {} =>
    svc[Retired] = "gone" \/ Retired \in back

IInv ==
  /\ TypeOK
  /\ HandInv
  /\ CleanupInv
  /\ ProviderInv
  /\ StagesInv
  /\ LookedInv

-----------------------------------------------------------------------------
(* Types                                                                   *)

\* Init gives every variable a value of its type.
LEMMA InitTypes == Init => TypeOK
<1> SUFFICES ASSUME Init PROVE TypeOK
  OBVIOUS
<1>1. HypervisorsTypeOK
  BY HypervisorsAssumption DEF Init, HypervisorsInit, HypervisorsTypeOK
<1>2. CleanupTypeOK
  <2>1. jobFailed \in BOOLEAN
    BY DEF Init, CleanupInit
  <2> QED
    BY <2>1 DEF Init, CleanupInit, CleanupTypeOK, NothingSeen
<1>3. DecommissionTypeOK
  <2>1. /\ skipDrain \in BOOLEAN /\ declined \in BOOLEAN
        /\ stageFailed \in BOOLEAN /\ complete \in BOOLEAN
    BY DEF Init, DecommissionInit
  <2> QED
    BY <2>1 DEF Init, DecommissionInit, DecommissionTypeOK, Stages
<1> QED
  BY <1>1, <1>2, <1>3 DEF TypeOK

\* What Nova and the nodes do keeps the types.
LEMMA HypervisorsTypes ==
  HypervisorsTypeOK /\ HypervisorsStep => HypervisorsTypeOK'
<1> SUFFICES ASSUME HypervisorsTypeOK, HypervisorsStep PROVE HypervisorsTypeOK'
  OBVIOUS
<1> USE HypervisorsAssumption DEF HypervisorsTypeOK, Event, instances, registry
<1>1. ASSUME NEW i \in Instance, NEW h \in Host, Schedule(i, h)
      PROVE  HypervisorsTypeOK'
  BY <1>1 DEF Schedule
<1>2. ASSUME NEW i \in Instance, NEW h \in Host, Migrate(i, h)
      PROVE  HypervisorsTypeOK'
  BY <1>2 DEF Migrate
<1>3. ASSUME NEW i \in Instance, Claim(i) PROVE HypervisorsTypeOK'
  BY <1>3 DEF Claim
<1>4. ASSUME NEW i \in Instance, Spawn(i) PROVE HypervisorsTypeOK'
  BY <1>4 DEF Spawn
<1>5. ASSUME NEW i \in Instance, Arrive(i) PROVE HypervisorsTypeOK'
  BY <1>5 DEF Arrive
<1>6. ASSUME NEW i \in Instance, Record(i) PROVE HypervisorsTypeOK'
  BY <1>6 DEF Record, Moved
<1>7. ASSUME NEW i \in Instance, LoseRecord(i) PROVE HypervisorsTypeOK'
  BY <1>7 DEF LoseRecord
<1>8. ASSUME NEW i \in Instance, RollBack(i) PROVE HypervisorsTypeOK'
  BY <1>8 DEF RollBack
<1>9. ASSUME NEW i \in Instance, Delete(i) PROVE HypervisorsTypeOK'
  BY <1>9 DEF Delete
<1>10. ASSUME NEW i \in Instance, Shelve(i) PROVE HypervisorsTypeOK'
  BY <1>10 DEF Shelve
<1>11. ASSUME NEW h \in Host, Disable(h) \/ Enable(h) \/ Reregister(h)
       PROVE  HypervisorsTypeOK'
  BY <1>11 DEF Disable, Enable, Reregister
<1> QED
  BY <1>1, <1>2, <1>3, <1>4, <1>5, <1>6, <1>7, <1>8, <1>9, <1>10, <1>11
     DEF HypervisorsStep

\* What is listed of a host are instances, and what is joined of it findings.
LEMMA OnTyped == \A h : On(h) \subseteq Instance
  BY DEF On

\* The rows a clean-up adds for one host are findings.
LEMMA FoundTyped ==
  ASSUME NEW kind \in {"ORPHAN_DOMAIN", "MISSING_DOMAIN", "STALE_INSTANCE_DIR"},
         NEW h \in Host, NEW who \in SUBSET Instance
  PROVE  /\ Found(kind, h, who) \subseteq Finding
         /\ \A r \in Found(kind, h, who) :
              r.finding = kind /\ r.host = h /\ r.instance \in who
  BY DEF Found, Finding

\* The flags stay flags.
LEMMA CleanupFlags ==
  ASSUME TypeOK, CleanupStep
  PROVE  jobFailed' \in BOOLEAN
  BY Zenon DEF CleanupStep, BeginCleanup, ListDomains, ListInstances, ListDirs, Join,
     Report, Confirm, CleanDomain, CleanDir, Cleaned, EndCleanup, TypeOK, CleanupTypeOK

\* The flags stay flags.
LEMMA DecommissionFlags ==
  ASSUME TypeOK, DecommissionStep
  PROVE  /\ skipDrain' \in BOOLEAN /\ declined' \in BOOLEAN
         /\ stageFailed' \in BOOLEAN /\ complete' \in BOOLEAN
<1>1. /\ skipDrain' \in BOOLEAN /\ declined' \in BOOLEAN
      /\ stageFailed' \in BOOLEAN
  BY ZenonT(30) DEF DecommissionStep, BeginDecommission, Pass, Verify, VerifyService,
     Checked, Traceback, LeaveAggregates, DeleteService, DeleteAgents, DeleteProvider,
     FinalServices, FinalAgents, FinalProvider, FinalVerification, LookAgain,
     EndDecommission, Enter, Decline, Refused, Fails, Done, TypeOK, DecommissionTypeOK
<1>2. complete' \in BOOLEAN
  BY ZenonT(30) DEF DecommissionStep, BeginDecommission, Pass, Verify, VerifyService,
     Checked, Traceback, LeaveAggregates, DeleteService, DeleteAgents, DeleteProvider,
     FinalServices, FinalAgents, FinalProvider, FinalVerification, LookAgain,
     EndDecommission, Enter, TypeOK, DecommissionTypeOK
<1> QED
  BY <1>1, <1>2

\* Each step of a clean-up keeps the types, and has a host in hand.
LEMMA CleanupTypes ==
  TypeOK /\ HandInv /\ CleanupStep => HypervisorsTypeOK' /\ CleanupTypeOK' /\ HandInv'
<1> SUFFICES ASSUME TypeOK, HandInv, CleanupStep
             PROVE  HypervisorsTypeOK' /\ CleanupTypeOK' /\ HandInv'
  OBVIOUS
<1> USE HypervisorsAssumption
    DEF TypeOK, HypervisorsTypeOK, CleanupTypeOK, HandInv, Reconciling, Event,
        instances, registry, hvars
<1> DEFINE Kept == HypervisorsTypeOK' /\ CleanupTypeOK' /\ HandInv'
<1>0. jobFailed' \in BOOLEAN
  BY CleanupFlags
<1>1. ASSUME NEW hosts \in SUBSET Host,
             NEW what \in {"report", "orphan-domains", "stale-dirs"},
             BeginCleanup(hosts, what)
      PROVE  Kept
  BY <1>0, <1>1 DEF BeginCleanup, NothingSeen
<1>2. ASSUME NEW h \in Host, ListDomains(h) PROVE Kept
  <2>1. NothingSeen \in [host : Host \cup {NoHost}, domains : SUBSET Instance,
                         known : SUBSET Instance, expected : SUBSET Instance,
                         dirs : SUBSET Instance]
    BY DEF NothingSeen
  <2>2. domain[h] \in SUBSET Instance
    OBVIOUS
  <2>3. CASE UNCHANGED <<job, seen>>
    BY <1>0, <1>2, <2>3 DEF ListDomains
  <2>4. CASE /\ job' = "nova" /\ UNCHANGED events
             /\ seen' = [NothingSeen EXCEPT !.host = h, !.domains = domain[h]]
    <3>1. seen' \in [host : Host \cup {NoHost}, domains : SUBSET Instance,
                    known : SUBSET Instance, expected : SUBSET Instance,
                    dirs : SUBSET Instance]
      BY <2>1, <2>2, <2>4
    <3>2. seen'.host = h
      BY <2>1, <2>4
    <3> QED
      BY <1>0, <1>2, <2>4, <3>1, <3>2 DEF ListDomains
  <2> QED
    BY <1>2, <2>3, <2>4 DEF ListDomains
<1>3. CASE ListInstances
  BY <1>0, <1>3, OnTyped DEF ListInstances
<1>4. CASE ListDirs
  BY <1>0, <1>4 DEF ListDirs
<1>5. CASE Join
  <2>1. PICK silent \in SUBSET (seen.domains \cap domain[seen.host]) :
          LET uuids == (seen.domains \cap domain[seen.host]) \ silent
          IN  rows' = rows
                \cup Found("ORPHAN_DOMAIN", seen.host, OrphanDomains(seen, uuids))
                \cup Found("MISSING_DOMAIN", seen.host, MissingDomains(seen, uuids))
                \cup Found("STALE_INSTANCE_DIR", seen.host, StaleDirs(seen, uuids))
    BY <1>0, <1>5 DEF Join
  <2> DEFINE uuids == (seen.domains \cap domain[seen.host]) \ silent
  <2>2. /\ OrphanDomains(seen, uuids) \in SUBSET Instance
        /\ MissingDomains(seen, uuids) \in SUBSET Instance
        /\ StaleDirs(seen, uuids) \in SUBSET Instance
    BY <1>0, <1>5 DEF Join, OrphanDomains, MissingDomains, StaleDirs
  <2>3. rows' \in SUBSET Finding
    <3>1. seen.host \in Host
      BY <1>5 DEF Join
    <3>2. /\ Found("ORPHAN_DOMAIN", seen.host, OrphanDomains(seen, uuids)) \subseteq Finding
          /\ Found("MISSING_DOMAIN", seen.host, MissingDomains(seen, uuids)) \subseteq Finding
          /\ Found("STALE_INSTANCE_DIR", seen.host, StaleDirs(seen, uuids)) \subseteq Finding
      <4> HIDE DEF uuids
      <4> QED
        BY <2>2, <3>1, FoundTyped
    <3> QED
      BY <2>1, <3>2
  <2>4. events' \in 0..MaxEvents
    BY <1>0, <1>5 DEF Join
  <2> QED
    BY <1>0, <1>5, <2>3, <2>4 DEF Join, NothingSeen
<1>6. CASE Report \/ Confirm \/ Cleaned
  BY <1>0, <1>6 DEF Report, Confirm, Cleaned, EndCleanup, NothingSeen
<1>7. ASSUME NEW r \in rows, CleanDomain(r) PROVE Kept
  BY <1>0, <1>7 DEF CleanDomain, Finding
<1>8. ASSUME NEW r \in rows, CleanDir(r) PROVE Kept
  BY <1>0, <1>8 DEF CleanDir, Finding
<1> QED
  BY <1>1, <1>2, <1>3, <1>4, <1>5, <1>6, <1>7, <1>8 DEF CleanupStep

\* A run that ends leaves nothing of itself but its code.
LEMMA EndForgets ==
  ASSUME NEW code, EndDecommission(code)
  PROVE  stage' = "idle" /\ decRc' = code /\ stages' = {} /\ remaining' = {}
  BY DEF EndDecommission

\* The code of a run is 0 only when nothing was found left, and nothing failed.
LEMMA ZeroIsClean ==
  ASSUME FinalVerification, decRc' = 0
  PROVE  remaining = {} /\ Retired \notin member /\ ~stageFailed
<1>1. decRc' = IF remaining # {} \/ Retired \in member \/ stageFailed THEN 1 ELSE 0
  BY EndForgets, Zenon DEF FinalVerification, EndDecommission
<1>2. CASE remaining # {} \/ Retired \in member \/ stageFailed
  <2>1. decRc' = 1
    BY <1>1, <1>2, Zenon
  <2> QED
    BY <2>1
<1> QED
  BY <1>2, Zenon

\* Each step of a decommissioning keeps the types of what it works on.
LEMMA DecommissionRegistry ==
  ASSUME HypervisorsTypeOK, DecommissionStep
  PROVE  HypervisorsTypeOK'
<1> USE HypervisorsAssumption, RetiredAssumption
    DEF HypervisorsTypeOK, Event, instances, registry, hvars
<1>1. ASSUME NEW which, NEW skip, BeginDecommission(which, skip)
      PROVE  HypervisorsTypeOK'
  BY <1>1 DEF BeginDecommission
<1>2. ASSUME NEW s, NEW t, Pass(s, t) PROVE HypervisorsTypeOK'
  BY <1>2 DEF Pass
<1>3. CASE Verify \/ VerifyService
  BY <1>3 DEF Verify, VerifyService, Checked
<1>4. CASE LeaveAggregates
  BY <1>4 DEF LeaveAggregates, Enter, Done, Decline, Fails
<1>5. CASE DeleteService
  BY <1>5 DEF DeleteService, Enter, Done, Decline, Fails
<1>6. CASE DeleteAgents
  BY <1>6 DEF DeleteAgents, Enter, Done, Decline, Fails
<1>7. CASE DeleteProvider
  BY <1>7 DEF DeleteProvider, Enter, Done, Decline, Fails, Refused
<1>8. ASSUME NEW s, Traceback(s) PROVE HypervisorsTypeOK'
  BY <1>8 DEF Traceback
<1>9. CASE FinalVerification
  BY <1>9 DEF FinalVerification
<1>10. CASE FinalServices
  BY <1>10 DEF FinalServices, LookAgain
<1>11. CASE FinalAgents \/ FinalProvider
  <2>1. /\ UNCHANGED <<at, vm, toward, domain, dir, touched, svc, provider, agents, member, back>>
        /\ events' = events \/ Event
    BY <1>11, Zenon DEF FinalAgents, FinalProvider, LookAgain
  <2> QED
    BY <2>1
<1> QED
  BY <1>1, <1>2, <1>3, <1>4, <1>5, <1>6, <1>7, <1>8, <1>9, <1>10, <1>11
     DEF DecommissionStep

\* The code a run ends with is one of three.
LEMMA CodeTyped ==
  (IF remaining # {} \/ Retired \in member \/ stageFailed THEN 1 ELSE 0) \in 0..2
<1>1. CASE remaining # {} \/ Retired \in member \/ stageFailed
  <2>1. (IF remaining # {} \/ Retired \in member \/ stageFailed THEN 1 ELSE 0) = 1
    BY <1>1, Zenon
  <2> QED
    BY <2>1
<1>2. CASE ~(remaining # {} \/ Retired \in member \/ stageFailed)
  <2>1. (IF remaining # {} \/ Retired \in member \/ stageFailed THEN 1 ELSE 0) = 0
    BY <1>2, Zenon
  <2> QED
    BY <2>1
<1> QED
  BY <1>1, <1>2

\* Each step of a decommissioning goes to a stage there is.
LEMMA DecommissionTypes ==
  ASSUME DecommissionTypeOK, TypeOK, DecommissionStep
  PROVE  DecommissionTypeOK'
<1> DEFINE Stage == Stages \cup FinalStages \cup {"idle", "verify service"}
           Left  == SUBSET {"service", "agents", "provider"}
           Plain == /\ stage' \in Stage /\ stages' \in SUBSET Stages
                    /\ remaining' \in Left /\ decRc' \in 0..2
<1>0. /\ stage \in Stage /\ stages \in SUBSET Stages
      /\ remaining \in Left /\ decRc \in 0..2
  BY DEF DecommissionTypeOK
<1>a. /\ "idle" \in Stage /\ "verify" \in Stage /\ "verify service" \in Stage
      /\ "aggregates" \in Stage /\ "services" \in Stage /\ "neutron" \in Stage
      /\ "placement" \in Stage /\ "final" \in Stage /\ "final agents" \in Stage
      /\ "final provider" \in Stage /\ "final aggregates" \in Stage
  BY DEF Stages, FinalStages
<1>c. {} \in SUBSET Stages /\ {} \in Left
  OBVIOUS
<1>d. ASSUME NEW left0 \in Left
      PROVE  left0 \cup {"agents"} \in Left /\ left0 \cup {"provider"} \in Left
  OBVIOUS
<1>e. {"service"} \in Left
  OBVIOUS
<1> HIDE DEF Stage, Left
<1>b. ASSUME NEW code \in 0..2, EndDecommission(code) PROVE Plain
  BY <1>a, <1>b, <1>c, EndForgets
<1>1. ASSUME NEW which \in StageChoices, NEW skip \in BOOLEAN,
             BeginDecommission(which, skip)
      PROVE  Plain
  <2>1. stage' = "verify" /\ stages' = which /\ UNCHANGED <<remaining, decRc>>
    BY <1>1 DEF BeginDecommission
  <2> QED
    BY <1>0, <1>a, <2>1, StagesAssumption
<1>2. ASSUME NEW s, NEW t \in Stages \cup {"final"}, Pass(s, t) PROVE Plain
  <2>1. stage' = t /\ UNCHANGED <<stages, remaining, decRc>>
    BY <1>2 DEF Pass
  <2> QED
    BY <1>0, <1>a, <2>1 DEF Stages
<1>3. ASSUME Verify \/ VerifyService PROVE Plain
  <2>1. \/ /\ stage' \in {"aggregates", "verify service"}
           /\ UNCHANGED <<stages, remaining, decRc>>
        \/ EndDecommission(2)
    BY <1>3, Zenon DEF Verify, VerifyService, Checked
  <2>2. CASE /\ stage' \in {"aggregates", "verify service"}
             /\ UNCHANGED <<stages, remaining, decRc>>
    BY <1>0, <1>a, <2>2
  <2>3. ASSUME EndDecommission(2) PROVE Plain
    BY <1>b, <2>3
  <2> QED
    BY <2>1, <2>2, <2>3
<1>4. ASSUME LeaveAggregates \/ DeleteService \/ DeleteAgents \/ DeleteProvider PROVE Plain
  <2>1. /\ stage' \in {"services", "neutron", "placement", "final"}
        /\ UNCHANGED <<stages, remaining, decRc>>
    BY <1>4 DEF LeaveAggregates, DeleteService, DeleteAgents, DeleteProvider, Enter
  <2> QED
    BY <1>0, <1>a, <2>1
<1>5. ASSUME NEW s, Traceback(s) PROVE Plain
  <2>1. EndDecommission(1)
    BY <1>5 DEF Traceback
  <2> QED
    BY <1>b, <2>1
<1>6. ASSUME FinalVerification PROVE Plain
  <2>1. EndDecommission(IF remaining # {} \/ Retired \in member \/ stageFailed THEN 1 ELSE 0)
    BY <1>6 DEF FinalVerification
  <2> QED
    BY <1>b, <2>1, CodeTyped
<1>7. ASSUME FinalServices \/ FinalAgents \/ FinalProvider PROVE Plain
  <2>1. /\ stage' \in {"final agents", "final provider", "final aggregates"}
        /\ UNCHANGED <<stages, decRc>>
        /\ remaining' \in {{}, {"service"}, remaining, remaining \cup {"agents"},
                           remaining \cup {"provider"}}
    <3>1. CASE FinalServices
      BY <3>1 DEF FinalServices, LookAgain
    <3>2. CASE FinalAgents
      BY <3>2 DEF FinalAgents, LookAgain
    <3>3. CASE FinalProvider
      BY <3>3 DEF FinalProvider, LookAgain
    <3> QED
      BY <1>7, <3>1, <3>2, <3>3
  <2>2. remaining' \in Left
    BY <1>0, <1>c, <1>d, <1>e, <2>1
  <2> QED
    BY <1>0, <1>a, <2>1, <2>2
<1>8. Plain
  <2> HIDE DEF Plain
  <2> QED
    BY <1>1, <1>2, <1>3, <1>4, <1>5, <1>6, <1>7, Zenon DEF DecommissionStep, Stages
<1>9. /\ skipDrain' \in BOOLEAN /\ declined' \in BOOLEAN
      /\ stageFailed' \in BOOLEAN /\ complete' \in BOOLEAN
  BY DecommissionFlags
<1> QED
  BY <1>8, <1>9, Zenon DEF DecommissionTypeOK, Stage, Left

\* What does not change keeps its type.
LEMMA HypervisorsRest == HypervisorsTypeOK /\ UNCHANGED hvars => HypervisorsTypeOK'
  BY DEF HypervisorsTypeOK, hvars, instances, registry

\* The same for the run of a decommissioning.
LEMMA DecommissionRest == DecommissionTypeOK /\ UNCHANGED rvars => DecommissionTypeOK'
  BY Zenon DEF DecommissionTypeOK, rvars

\* The same for the run of a clean-up.
LEMMA CleanupRest ==
  CleanupTypeOK /\ HandInv /\ UNCHANGED cvars => CleanupTypeOK' /\ HandInv'
  BY Zenon DEF CleanupTypeOK, HandInv, cvars

\* Every step of the region keeps the types.
LEMMA StepTypes == TypeOK /\ HandInv /\ [Next]_vars => TypeOK' /\ HandInv'
<1> SUFFICES ASSUME TypeOK, HandInv, [Next]_vars PROVE TypeOK' /\ HandInv'
  OBVIOUS
<1>1. CASE HypervisorsStep /\ UNCHANGED <<cvars, rvars>>
  BY <1>1, HypervisorsTypes, CleanupRest, DecommissionRest DEF TypeOK
<1>2. CASE CleanupStep /\ UNCHANGED rvars
  BY <1>2, CleanupTypes, DecommissionRest DEF TypeOK
<1>3. CASE DecommissionStep /\ UNCHANGED cvars
  BY <1>3, DecommissionRegistry, DecommissionTypes, CleanupRest DEF TypeOK
<1>4. CASE UNCHANGED vars
  BY <1>4, HypervisorsRest, CleanupRest, DecommissionRest DEF vars, TypeOK
<1> QED
  BY <1>1, <1>2, <1>3, <1>4 DEF Next

-----------------------------------------------------------------------------
(* The clean-up                                                            *)

\* What is on its way stays in touched, and an instance comes to a host's list
\* only by being on its way: the settled ones can only become fewer.
LEMMA SettledOnlyLeave ==
  ASSUME TypeOK, MotionInv, job # "idle", HypervisorsStep, job' = job
  PROVE  /\ MotionInv'
         /\ \A h \in Host : On(h)' \ touched' \subseteq On(h) \ touched
<1> USE HypervisorsAssumption
    DEF TypeOK, HypervisorsTypeOK, MotionInv, On, Live, Event, instances, registry
<1> DEFINE Kept == /\ MotionInv'
                   /\ \A h \in Host : On(h)' \ touched' \subseteq On(h) \ touched
<1>1. ASSUME NEW i \in Instance, NEW h \in Host, Schedule(i, h) PROVE Kept
  BY <1>1 DEF Schedule
<1>2. ASSUME NEW i \in Instance, NEW h \in Host, Migrate(i, h) PROVE Kept
  BY <1>2 DEF Migrate
<1>3. ASSUME NEW i \in Instance, Claim(i) PROVE Kept
  BY <1>3 DEF Claim
<1>4. ASSUME NEW i \in Instance, Spawn(i) PROVE Kept
  BY <1>4 DEF Spawn
<1>5. ASSUME NEW i \in Instance, Arrive(i) PROVE Kept
  BY <1>5 DEF Arrive
<1>6. ASSUME NEW i \in Instance, Record(i) PROVE Kept
  BY <1>6 DEF Record, Moved
<1>7. ASSUME NEW i \in Instance, LoseRecord(i) PROVE Kept
  BY <1>7 DEF LoseRecord
<1>8. ASSUME NEW i \in Instance, RollBack(i) PROVE Kept
  BY <1>8 DEF RollBack
<1>9. ASSUME NEW i \in Instance, Delete(i) PROVE Kept
  BY <1>9 DEF Delete
<1>10. ASSUME NEW i \in Instance, Shelve(i) PROVE Kept
  BY <1>10 DEF Shelve
<1>11. ASSUME NEW h \in Host, Disable(h) \/ Enable(h) \/ Reregister(h) PROVE Kept
  BY <1>11 DEF Disable, Enable, Reregister
<1> QED
  BY <1>1, <1>2, <1>3, <1>4, <1>5, <1>6, <1>7, <1>8, <1>9, <1>10, <1>11
     DEF HypervisorsStep

\* What Nova does leaves the lists of a clean-up good enough.
LEMMA HypervisorsCleanup ==
  ASSUME TypeOK, HandInv, CleanupInv, HypervisorsStep, UNCHANGED cvars
  PROVE  CleanupInv'
<1>1. CASE job = "idle"
  BY <1>1 DEF CleanupInv, IdleInv, MotionInv, SeenInv, RowsInv, cvars
<1>2. CASE job # "idle"
  <2>1. MotionInv' /\ \A h \in Host : On(h)' \ touched' \subseteq On(h) \ touched
    BY <1>2, SettledOnlyLeave DEF CleanupInv, cvars
  <2>2. SeenInv'
    <3> SUFFICES ASSUME job \in {"dirs", "join"}
                 PROVE  On(seen.host)' \ touched' \subseteq seen.known
      BY DEF SeenInv, cvars, On
    <3>1. seen.host \in Host
      BY DEF HandInv, Reconciling
    <3>2. On(seen.host) \ touched \subseteq seen.known
      BY DEF CleanupInv, SeenInv
    <3> QED
      BY <2>1, <3>1, <3>2 DEF cvars, On
  <2>3. RowsInv'
    <3> SUFFICES ASSUME NEW r \in rows, r.finding # "MISSING_DOMAIN"
                 PROVE  r.instance \notin On(r.host)' \ touched'
      BY DEF RowsInv, cvars, On
    <3>1. r.host \in Host
      BY DEF TypeOK, CleanupTypeOK, Finding
    <3>2. r.instance \notin On(r.host) \ touched
      BY DEF CleanupInv, RowsInv
    <3> QED
      BY <2>1, <3>1, <3>2
  <2> QED
    BY <1>2, <2>1, <2>2, <2>3 DEF CleanupInv, IdleInv, cvars
<1> QED
  BY <1>1, <1>2

\* Its own steps change neither what is on a host's list nor what has moved,
\* except the first one, which forgets all.
LEMMA CleanupCleanup ==
  ASSUME TypeOK, HandInv, CleanupInv, CleanupStep
  PROVE  CleanupInv'
<1> USE DEF CleanupInv, IdleInv, MotionInv, SeenInv, RowsInv, On, Live, Event,
            instances, registry, hvars
<1> DEFINE Kept == CleanupInv'
<1>1. ASSUME NEW hosts \in SUBSET Host,
             NEW what \in {"report", "orphan-domains", "stale-dirs"},
             BeginCleanup(hosts, what)
      PROVE  Kept
  BY <1>1 DEF BeginCleanup
<1>2. ASSUME NEW h \in Host, ListDomains(h) PROVE Kept
  BY <1>2 DEF ListDomains
<1>3. CASE ListInstances
  BY <1>3 DEF ListInstances, TypeOK, CleanupTypeOK
<1>4. CASE ListDirs
  BY <1>4 DEF ListDirs, TypeOK, CleanupTypeOK
<1>5. CASE Join
  <2>1. PICK silent \in SUBSET (seen.domains \cap domain[seen.host]) :
          LET uuids == (seen.domains \cap domain[seen.host]) \ silent
          IN  rows' = rows
                \cup Found("ORPHAN_DOMAIN", seen.host, OrphanDomains(seen, uuids))
                \cup Found("MISSING_DOMAIN", seen.host, MissingDomains(seen, uuids))
                \cup Found("STALE_INSTANCE_DIR", seen.host, StaleDirs(seen, uuids))
    BY <1>5 DEF Join
  <2> DEFINE uuids == (seen.domains \cap domain[seen.host]) \ silent
  <2>2. job = "join" /\ job' = "next" /\ UNCHANGED <<at, vm, toward, touched>>
    BY <1>5 DEF Join
  <2>3. ASSUME NEW r \in rows', r.finding # "MISSING_DOMAIN"
        PROVE  r.instance \notin On(r.host) \ touched
    <3>1. CASE r \in rows
      BY <2>3, <3>1
    <3>2. CASE r \in Found("ORPHAN_DOMAIN", seen.host, OrphanDomains(seen, uuids))
      BY <2>2, <3>2 DEF Found, OrphanDomains
    <3>3. CASE r \in Found("STALE_INSTANCE_DIR", seen.host, StaleDirs(seen, uuids))
      BY <2>2, <3>3 DEF Found, StaleDirs
    <3>4. CASE r \in Found("MISSING_DOMAIN", seen.host, MissingDomains(seen, uuids))
      BY <2>3, <3>4 DEF Found
    <3> QED
      BY <2>1, <2>3, <3>1, <3>2, <3>3, <3>4
  <2> QED
    BY <2>2, <2>3
<1>6. CASE Report \/ Confirm \/ Cleaned
  BY <1>6 DEF Report, Confirm, Cleaned, EndCleanup
<1>7. ASSUME NEW r \in rows, CleanDomain(r) PROVE Kept
  BY <1>7 DEF CleanDomain
<1>8. ASSUME NEW r \in rows, CleanDir(r) PROVE Kept
  BY <1>8 DEF CleanDir
<1> QED
  BY <1>1, <1>2, <1>3, <1>4, <1>5, <1>6, <1>7, <1>8 DEF CleanupStep

\* A decommissioning does not touch what the clean-up goes by.
LEMMA DecommissionCleanup ==
  ASSUME CleanupInv, DecommissionStep, UNCHANGED cvars
  PROVE  CleanupInv'
<1>1. UNCHANGED <<at, vm, toward, touched>>
  BY DEF DecommissionStep, BeginDecommission, Pass, Verify, VerifyService, Checked,
     Traceback, LeaveAggregates, DeleteService, DeleteAgents, DeleteProvider,
     FinalServices, FinalAgents, FinalProvider, FinalVerification, LookAgain, Enter,
     instances, hvars
<1> QED
  BY <1>1 DEF CleanupInv, IdleInv, MotionInv, SeenInv, RowsInv, On, Live, cvars

-----------------------------------------------------------------------------
(* The decommissioning                                                     *)

\* An allocation comes to be on a host that has a provider, and moves nowhere
\* else; a provider goes only when it has none.
LEMMA HypervisorsProvider ==
  ASSUME TypeOK, ProviderInv, HypervisorsStep
  PROVE  ProviderInv'
<1> USE HypervisorsAssumption
    DEF TypeOK, HypervisorsTypeOK, ProviderInv, Allocated, Live, Schedulable, Event,
        instances, registry
<1>1. ASSUME NEW i \in Instance, NEW h \in Host, Schedule(i, h) PROVE ProviderInv'
  BY <1>1 DEF Schedule
<1>2. ASSUME NEW i \in Instance, NEW h \in Host, Migrate(i, h) PROVE ProviderInv'
  BY <1>2 DEF Migrate
<1>3. ASSUME NEW i \in Instance, Claim(i) PROVE ProviderInv'
  BY <1>3 DEF Claim
<1>4. ASSUME NEW i \in Instance, Spawn(i) PROVE ProviderInv'
  BY <1>4 DEF Spawn
<1>5. ASSUME NEW i \in Instance, Arrive(i) PROVE ProviderInv'
  BY <1>5 DEF Arrive
<1>6. ASSUME NEW i \in Instance, Record(i) PROVE ProviderInv'
  BY <1>6 DEF Record, Moved
<1>7. ASSUME NEW i \in Instance, LoseRecord(i) PROVE ProviderInv'
  BY <1>7 DEF LoseRecord
<1>8. ASSUME NEW i \in Instance, RollBack(i) PROVE ProviderInv'
  BY <1>8 DEF RollBack
<1>9. ASSUME NEW i \in Instance, Delete(i) PROVE ProviderInv'
  BY <1>9 DEF Delete
<1>10. ASSUME NEW i \in Instance, Shelve(i) PROVE ProviderInv'
  BY <1>10 DEF Shelve
<1>11. ASSUME NEW h \in Host, Disable(h) \/ Enable(h) \/ Reregister(h)
       PROVE  ProviderInv'
  BY <1>11 DEF Disable, Enable, Reregister
<1> QED
  BY <1>1, <1>2, <1>3, <1>4, <1>5, <1>6, <1>7, <1>8, <1>9, <1>10, <1>11
     DEF HypervisorsStep

\* A decommissioning deletes a provider only when nothing is allocated on it.
LEMMA DecommissionProvider ==
  ASSUME TypeOK, ProviderInv, DecommissionStep
  PROVE  ProviderInv'
<1> USE RetiredAssumption DEF ProviderInv, Allocated, Live, instances, registry, hvars
<1>1. CASE DeleteProvider
  <2>1. /\ UNCHANGED <<at, vm, toward>>
        /\ \/ provider' = provider
           \/ provider' = provider \ {Retired} /\ (Retired \in provider => Allocated(Retired) = {})
    BY <1>1 DEF DeleteProvider, Enter
  <2> QED
    BY <2>1
<1>2. CASE ~DeleteProvider
  <2>1. UNCHANGED <<at, vm, toward, provider>>
    BY <1>2 DEF DecommissionStep, BeginDecommission, Pass, Verify, VerifyService, Checked,
       Traceback, LeaveAggregates, DeleteService, DeleteAgents, FinalServices, FinalAgents,
       FinalProvider, FinalVerification, LookAgain, Enter
  <2> QED
    BY <2>1
<1> QED
  BY <1>1, <1>2

\* What Nova does puts nothing on a node without a service, and a node whose
\* service is on record again is back.
LEMMA HypervisorsStages ==
  ASSUME TypeOK, ProviderInv, StagesInv, LookedInv, HypervisorsStep, UNCHANGED rvars
  PROVE  StagesInv' /\ LookedInv'
<1> USE RetiredAssumption, HypervisorsAssumption
    DEF TypeOK, HypervisorsTypeOK, Allocated, Live, Schedulable, instances, registry
<1> DEFINE Free  == Allocated(Retired) = {} \/ svc[Retired] # "gone"
           Known == svc[Retired] = "gone" \/ Retired \in back
<1>1. (Free => Free') /\ (Known => Known')
  <2>1. ASSUME NEW i \in Instance, NEW h \in Host, Schedule(i, h) \/ Migrate(i, h)
        PROVE  (Free => Free') /\ UNCHANGED <<svc, back>>
    <3>1. /\ UNCHANGED <<svc, back, at>> /\ svc[h] = "enabled"
          /\ toward' = [toward EXCEPT ![i] = h]
          /\ \A j \in Instance \ {i} : vm'[j] = vm[j]
      BY <2>1 DEF Schedule, Migrate
    <3>2. CASE svc[Retired] # "gone"
      BY <3>1, <3>2
    <3>3. CASE svc[Retired] = "gone"
      <4>1. h # Retired
        BY <3>1, <3>3
      <4>2. vm[i] = "none" => at[i] # Retired
        BY HypervisorsAssumption DEF ProviderInv
      <4>3. ASSUME Allocated(Retired) = {} PROVE Allocated(Retired)' = {}
        <5>1. at[i] = Retired => ~Live(i)
          BY <4>3
        <5>2. at[i] # Retired
          BY <2>1, <4>2, <5>1 DEF Schedule, Migrate
        <5> QED
          BY <3>1, <4>1, <4>3, <5>2
      <4> QED
        BY <3>1, <3>3, <4>3
    <3> QED
      BY <3>1, <3>2, <3>3
  <2>2. ASSUME NEW i \in Instance,
               Claim(i) \/ Spawn(i) \/ Arrive(i) \/ Record(i) \/ LoseRecord(i)
        PROVE  (Free => Free') /\ UNCHANGED <<svc, back>>
    BY <2>2 DEF Claim, Spawn, Arrive, Record, LoseRecord, Moved
  <2>3. ASSUME NEW i \in Instance, RollBack(i) \/ Delete(i) \/ Shelve(i)
        PROVE  (Free => Free') /\ UNCHANGED <<svc, back>>
    BY <2>3 DEF RollBack, Delete, Shelve
  <2>4. ASSUME NEW h \in Host, Disable(h) \/ Enable(h) \/ Reregister(h)
        PROVE  (Free => Free') /\ (Known => Known')
    BY <2>4 DEF Disable, Enable, Reregister
  <2> QED
    BY <2>1, <2>2, <2>3, <2>4 DEF HypervisorsStep
<1> QED
  BY <1>1 DEF StagesInv, LookedInv, rvars

\* A complete run reaches its end by deleting the provider only, which Placement
\* allows when nothing is allocated on it.
LEMMA DecommissionStages ==
  ASSUME TypeOK, ProviderInv, StagesInv, DecommissionStep
  PROVE  StagesInv'
<1>1. CASE DeleteProvider
  <2>1. UNCHANGED <<at, vm, toward>>
    BY <1>1 DEF DeleteProvider, Enter, instances
  <2>2. ~declined' /\ ~stageFailed' => (Retired \in provider => Allocated(Retired) = {})
    BY <1>1 DEF DeleteProvider, Decline, Fails, Refused, Done
  <2>3. Retired \notin provider => Allocated(Retired) = {}
    BY RetiredAssumption DEF ProviderInv
  <2> QED
    BY <2>1, <2>2, <2>3 DEF StagesInv, Allocated, Live
<1>2. CASE \E s : Pass(s, "final") /\ s \in Stages
  BY <1>2 DEF Pass, StagesInv
<1>3. CASE FinalServices \/ FinalAgents \/ FinalProvider
  <2>1. /\ stage \in FinalStages
        /\ UNCHANGED <<stages, declined, stageFailed, at, vm, toward, svc>>
    BY <1>3 DEF FinalServices, FinalAgents, FinalProvider, LookAgain, FinalStages, instances
  <2> QED
    BY <2>1 DEF StagesInv, Allocated, Live
<1>4. CASE /\ ~DeleteProvider /\ ~FinalServices /\ ~FinalAgents /\ ~FinalProvider
           /\ ~Pass("placement", "final")
  <2>1. stage' \notin FinalStages
    BY <1>4 DEF DecommissionStep, BeginDecommission, Pass, Verify, VerifyService, Checked,
       Traceback, LeaveAggregates, DeleteService, DeleteAgents, FinalVerification, Enter,
       EndDecommission, FinalStages
  <2> QED
    BY <2>1 DEF StagesInv
<1> QED
  BY <1>1, <1>2, <1>3, <1>4 DEF Stages

\* The services are read before the rest, and nothing after that changes them.
LEMMA DecommissionLooked ==
  ASSUME LookedInv, DecommissionStep
  PROVE  LookedInv'
<1>1. CASE FinalServices
  BY <1>1 DEF FinalServices, LookAgain, LookedInv
<1>2. CASE FinalAgents \/ FinalProvider
  <2>1. stage \in FinalStages \ {"final"} /\ UNCHANGED <<svc, back>>
    BY <1>2 DEF FinalAgents, FinalProvider, LookAgain, FinalStages
  <2>2. remaining' \in {remaining, remaining \cup {"agents"}, remaining \cup {"provider"}}
    <3>1. CASE FinalAgents
      BY <3>1 DEF FinalAgents
    <3>2. CASE FinalProvider
      BY <3>2 DEF FinalProvider
    <3> QED
      BY <1>2, <3>1, <3>2
  <2>3. remaining' = {} => remaining = {}
    BY <2>2
  <2> QED
    BY <2>1, <2>3 DEF LookedInv
<1>3. CASE ~FinalServices /\ ~FinalAgents /\ ~FinalProvider
  <2>1. stage' \notin FinalStages \ {"final"}
    BY <1>3 DEF DecommissionStep, BeginDecommission, Pass, Verify, VerifyService, Checked,
       Traceback, LeaveAggregates, DeleteService, DeleteAgents, DeleteProvider,
       FinalVerification, Enter, EndDecommission, FinalStages
  <2> QED
    BY <2>1 DEF LookedInv
<1> QED
  BY <1>1, <1>2, <1>3

\* A clean-up does not touch what a decommissioning goes by.
LEMMA CleanupDecommission ==
  ASSUME ProviderInv, StagesInv, LookedInv, CleanupStep, UNCHANGED rvars
  PROVE  ProviderInv' /\ StagesInv' /\ LookedInv'
<1>1. UNCHANGED <<at, vm, toward, provider, svc, back>>
  BY DEF CleanupStep, BeginCleanup, ListDomains, ListInstances, ListDirs, Join, Report,
     Confirm, CleanDomain, CleanDir, Cleaned, instances, registry, hvars
<1> QED
  BY <1>1 DEF ProviderInv, StagesInv, LookedInv, Allocated, Live, rvars

-----------------------------------------------------------------------------
(* The theorems                                                            *)

\* The initial states have the inductive invariant.
LEMMA InitInv == Init => IInv
<1> SUFFICES ASSUME Init PROVE IInv
  OBVIOUS
<1>1. TypeOK
  BY InitTypes
<1>2. HandInv /\ CleanupInv
  BY DEF Init, CleanupInit, HandInv, Reconciling, CleanupInv, MotionInv, SeenInv, RowsInv,
     IdleInv
<1>3. ProviderInv
  BY HypervisorsAssumption DEF Init, HypervisorsInit, ProviderInv
<1>4. StagesInv /\ LookedInv
  BY DEF Init, DecommissionInit, StagesInv, LookedInv, FinalStages
<1> QED
  BY <1>1, <1>2, <1>3, <1>4 DEF IInv

\* Every step keeps it, whoever takes it.
LEMMA StepInv == IInv /\ [Next]_vars => IInv'
<1> SUFFICES ASSUME IInv, [Next]_vars PROVE IInv'
  OBVIOUS
<1> USE DEF IInv
<1>1. TypeOK' /\ HandInv'
  BY StepTypes
<1>2. CASE HypervisorsStep /\ UNCHANGED <<cvars, rvars>>
  BY <1>1, <1>2, HypervisorsCleanup, HypervisorsProvider, HypervisorsStages
<1>3. CASE CleanupStep /\ UNCHANGED rvars
  BY <1>1, <1>3, CleanupCleanup, CleanupDecommission
<1>4. CASE DecommissionStep /\ UNCHANGED cvars
  BY <1>1, <1>4, DecommissionCleanup, DecommissionProvider, DecommissionStages,
     DecommissionLooked
<1>5. CASE UNCHANGED vars
  <2>1. UNCHANGED <<job, seen, rows, at, vm, toward, touched, provider, svc, back, stage,
                    stages, declined, stageFailed, remaining>>
    BY <1>5 DEF vars, hvars, cvars, rvars, instances, registry
  <2> QED
    BY <1>1, <2>1 DEF CleanupInv, MotionInv, SeenInv, RowsInv, IdleInv, ProviderInv,
       StagesInv, LookedInv, On, Allocated, Live
<1> QED
  BY <1>2, <1>3, <1>4, <1>5 DEF Next

\* The inductive invariant holds in every state.
THEOREM Inductive == Spec => []IInv
  BY InitInv, StepInv, PTL DEF Spec

\* Nova, the clean-up and the decommissioning keep every variable's type.
THEOREM TypeCorrect == Spec => []TypeOK
<1>1. IInv => TypeOK
  BY DEF IInv
<1> QED
  BY <1>1, Inductive, PTL

\* However Nova moves between the listings, the question and the removal, a
\* clean-up removes nothing of an instance that is on record on its host and has
\* not been built or moved meanwhile.
THEOREM SettledInstancesSurvive == Spec => SettledIsSafe
<1>1. ASSUME IInv, [Next]_vars, NEW h \in Host, NEW i \in Instance,
             Removing, Removes(h, i)
      PROVE  i \notin On(h) \ touched
  <2>1. job = "clean" /\ job' = "clean" /\ rows' # rows
    BY <1>1 DEF Removing
  <2>2. ~UNCHANGED cvars
    BY <2>1 DEF cvars
  <2>3. CleanupStep
    BY <1>1, <2>2 DEF Next, vars
  <2>4. PICK r \in rows : CleanDomain(r) \/ CleanDir(r)
    BY <2>1, <2>3 DEF CleanupStep, BeginCleanup, ListDomains, ListInstances, ListDirs, Join,
       Report, Confirm, Cleaned, EndCleanup
  <2>5. r \in rows /\ r.finding # "MISSING_DOMAIN"
    BY <2>4 DEF CleanDomain, CleanDir, Selected
  <2>6. h = r.host /\ i = r.instance
    BY <1>1, <2>4 DEF CleanDomain, CleanDir, Removes, IInv, TypeOK, HypervisorsTypeOK,
       CleanupTypeOK, Finding
  <2> QED
    BY <1>1, <2>5, <2>6 DEF IInv, CleanupInv, RowsInv
<1>2. IInv /\ [Next]_vars =>
        [\A h \in Host, i \in Instance :
           Removing /\ Removes(h, i) => i \notin On(h) \ touched]_<<hvars, cvars>>
  BY <1>1
<1> QED
  BY <1>2, Inductive, PTL DEF Spec, SettledIsSafe

\* A complete decommissioning that ends with code 0 leaves the node in no
\* aggregate, and without service and allocation unless its daemons registered it
\* after the final verification had begun to look, whichever of the listings
\* failed and whatever else was going on.
THEOREM FinishedHostsAreEmpty == Spec => FinishedIsEmpty
<1>1. ASSUME IInv, [Next]_vars,
             stage = "final aggregates", stage' = "idle", decRc' = 0, complete'
      PROVE  /\ Retired \notin member
             /\ Retired \notin back => svc[Retired] = "gone" /\ Allocated(Retired) = {}
  <2>1. ~UNCHANGED rvars
    BY <1>1 DEF rvars
  <2>2. DecommissionStep
    BY <1>1, <2>1 DEF Next, vars
  <2>3. FinalVerification
    <3>1. ASSUME NEW s, Traceback(s) PROVE FALSE
      <4>1. decRc' = 1
        BY <3>1, EndForgets DEF Traceback
      <4>2. decRc' = 0
        BY <1>1, Zenon
      <4> QED
        BY <4>1, <4>2
    <3>2. FinalVerification \/ \E s : Traceback(s)
      BY <1>1, <2>2 DEF DecommissionStep, BeginDecommission, Pass, Verify, VerifyService,
         LeaveAggregates, DeleteService, DeleteAgents, DeleteProvider, FinalServices,
         FinalAgents, FinalProvider, LookAgain, Enter, Stages
    <3> QED
      BY <3>1, <3>2
  <2>4. remaining = {} /\ Retired \notin member /\ ~stageFailed
    BY <1>1, <2>3, ZeroIsClean
  <2>5. stages = Stages /\ ~declined
    BY <1>1, <2>3 DEF FinalVerification, EndDecommission
  <2> QED
    BY <1>1, <2>4, <2>5 DEF IInv, StagesInv, LookedInv, FinalStages
<1>2. IInv /\ [Next]_vars =>
        [stage = "final aggregates" /\ stage' = "idle" /\ decRc' = 0 /\ complete' =>
           /\ Retired \notin member
           /\ Retired \notin back => svc[Retired] = "gone" /\ Allocated(Retired) = {}
        ]_<<hvars, rvars>>
  BY <1>1
<1> QED
  BY <1>2, Inductive, PTL DEF Spec, FinishedIsEmpty
=============================================================================
