--------------------------- MODULE SecurityProofs ---------------------------
(***************************************************************************)
(* Theorems about AgentMonitor, for every inventory, every set of agents   *)
(* and every way the console pages through them; about CertRotation, for   *)
(* any certificates of a host, rotations, rollbacks and failures; and      *)
(* about PolicyUpdate, for any policies, directories, runs and failures.   *)
(***************************************************************************)
EXTENDS AgentMonitor, CertRotation, PolicyUpdate, FiniteSetTheorems,
        WellFoundedInduction, TLAPS

Alarmed == {r.host : r \in alarms}

\* An agent that was read was well then, or its host has an alarm.
ReadInv == \A a \in collected : EndpointOf[a] \in seenWell \cup Alarmed

\* Once evaluated, a host of the inventory is known or has an alarm; and with
\* --verify-on-host it is still to be asked, has said so, or has one.
EvaluatedInv ==
  monitor = "verify" => \A h \in Inventory :
    /\ h \in KnownHosts \cup Alarmed
    /\ verify => h \in toVerify \cup saidWell \cup Alarmed

MInv == MonitorTypeOK /\ ReadInv /\ EvaluatedInv

-----------------------------------------------------------------------------
\* The flag stays a flag.
LEMMA VerifyFlag ==
  ASSUME MonitorTypeOK, MonitorStep
  PROVE  verify' \in BOOLEAN
  BY Zenon DEF MonitorStep, AgentChanges, HostChanges, VerifyHost, BeginMonitor, ReadPage,
     PageFails, TokenRejected, Evaluate, EndMonitor, MonitorTypeOK

\* The alarms of one agent are of its host, and there is one unless it is well.
LEMMA AlarmFacts ==
  ASSUME NEW a \in Agent
  PROVE  /\ AlarmsOf(a) \subseteq Alarm
         /\ \A r \in AlarmsOf(a) : r.host = EndpointOf[a]
         /\ a \in uninstalled \cup infected \cup disabled =>
              \E r \in AlarmsOf(a) : r.host = EndpointOf[a]
<1>1. EndpointOf[a] \in Endpoint
  BY MonitorAssumption
<1>2. AlarmsOf(a) \subseteq Alarm /\ \A r \in AlarmsOf(a) : r.host = EndpointOf[a]
  BY <1>1 DEF AlarmsOf, Alarm
<1>3. ASSUME a \in uninstalled PROVE \E r \in AlarmsOf(a) : r.host = EndpointOf[a]
  <2>1. [finding |-> "UNPROTECTED", host |-> EndpointOf[a]] \in AlarmsOf(a)
    BY <1>3 DEF AlarmsOf, CriticalKinds
  <2> QED
    BY <2>1
<1>4. ASSUME a \in infected PROVE \E r \in AlarmsOf(a) : r.host = EndpointOf[a]
  <2>1. [finding |-> "INFECTED", host |-> EndpointOf[a]] \in AlarmsOf(a)
    BY <1>4 DEF AlarmsOf, CriticalKinds
  <2> QED
    BY <2>1
<1>5. ASSUME a \in disabled PROVE \E r \in AlarmsOf(a) : r.host = EndpointOf[a]
  <2>1. [finding |-> "DISABLED", host |-> EndpointOf[a]] \in AlarmsOf(a)
    BY <1>5 DEF AlarmsOf, CriticalKinds
  <2> QED
    BY <2>1
<1> QED
  BY <1>2, <1>3, <1>4, <1>5

\* The first state has the types and owes nothing.
LEMMA MonitorInitInv == MonitorInit => MInv
<1> SUFFICES ASSUME MonitorInit PROVE MInv
  OBVIOUS
<1>1. verify \in BOOLEAN
  BY DEF MonitorInit
<1>2. Len(Pages) \in Nat
  BY MonitorAssumption
<1>3. MonitorTypeOK
  BY <1>1, <1>2, MonitorAssumption DEF MonitorInit, MonitorTypeOK
<1>4. ReadInv /\ EvaluatedInv
  BY DEF MonitorInit, ReadInv, EvaluatedInv
<1> QED
  BY <1>3, <1>4 DEF MInv

\* Every step keeps the types.
LEMMA MonitorStepTypes == MonitorTypeOK /\ [MonitorStep]_mvars => MonitorTypeOK'
<1> SUFFICES ASSUME MonitorTypeOK, [MonitorStep]_mvars PROVE MonitorTypeOK'
  OBVIOUS
<1>l. Len(Pages) \in Nat
  BY MonitorAssumption
<1>u. CASE UNCHANGED mvars
  BY <1>u DEF mvars, console, MonitorTypeOK
<1>s. CASE MonitorStep
  <2>b. verify' \in BOOLEAN
    BY <1>s, VerifyFlag
  <2> USE <1>l, <2>b, MonitorAssumption DEF MonitorTypeOK, Incident, console
  <2>1. ASSUME NEW a \in Agent, AgentChanges(a) PROVE MonitorTypeOK'
    BY <2>1 DEF AgentChanges, Flipped
  <2>2. ASSUME NEW h \in Endpoint, HostChanges(h) PROVE MonitorTypeOK'
    BY <2>2 DEF HostChanges, Flipped
  <2>3. ASSUME NEW v \in BOOLEAN, NEW kinds \in SUBSET CriticalKinds, BeginMonitor(v, kinds)
        PROVE  MonitorTypeOK'
    BY <2>3 DEF BeginMonitor
  <2>4. CASE ReadPage
    <3> DEFINE onPage == Pages[page] \cap registered
    <3>1. onPage \subseteq Agent
      OBVIOUS
    <3>2. UNION {AlarmsOf(a) : a \in onPage} \subseteq Alarm
      BY <3>1, AlarmFacts
    <3>3. \A a \in onPage : EndpointOf[a] \in Endpoint
      BY <3>1
    <3>4. /\ collected' = collected \cup onPage
          /\ alarms' = alarms \cup UNION {AlarmsOf(a) : a \in onPage}
          /\ seenWell' = seenWell \cup
               {EndpointOf[a] : a \in onPage \ (uninstalled \cup infected \cup disabled)}
      BY <2>4 DEF ReadPage
    <3>5. page' \in 1..(Len(Pages) + 1)
      BY <2>4 DEF ReadPage
    <3> HIDE DEF onPage
    <3>6. collected' \in SUBSET Agent /\ alarms' \in SUBSET Alarm /\ seenWell' \in SUBSET Endpoint
      BY <3>1, <3>2, <3>3, <3>4
    <3> QED
      BY <2>4, <3>5, <3>6 DEF ReadPage
  <2>5. CASE PageFails
    BY <2>5 DEF PageFails
  <2>6. CASE TokenRejected
    BY <2>6 DEF TokenRejected
  <2>7. CASE Evaluate
    <3>1. Unprotected \subseteq Alarm
      BY DEF Unprotected, Alarm, CriticalKinds
    <3>2. toVerify' \subseteq Endpoint
      BY <2>7 DEF Evaluate
    <3> QED
      BY <2>7, <3>1, <3>2 DEF Evaluate
  <2>8. ASSUME NEW h \in Endpoint, VerifyHost(h) PROVE MonitorTypeOK'
    <3>1. [finding |-> "LOCAL_MISMATCH", host |-> h] \in Alarm
      BY DEF Alarm, CriticalKinds
    <3> QED
      BY <2>8, <3>1 DEF VerifyHost
  <2>9. CASE EndMonitor
    BY <2>9 DEF EndMonitor
  <2> QED
    BY <1>s, <2>1, <2>2, <2>3, <2>4, <2>5, <2>6, <2>7, <2>8, <2>9
       DEF MonitorStep, CriticalKinds
<1> QED
  BY <1>u, <1>s

\* Reading a page leaves no agent unaccounted for.
LEMMA ReadStep ==
  MonitorTypeOK /\ ReadInv /\ [MonitorStep]_mvars => ReadInv'
<1> SUFFICES ASSUME MonitorTypeOK, ReadInv, [MonitorStep]_mvars PROVE ReadInv'
  OBVIOUS
<1>1. CASE ReadPage
  <2> DEFINE onPage == Pages[page] \cap registered
  <2>1. onPage \subseteq Agent
    BY <1>1 DEF MonitorTypeOK
  <2>2. /\ collected' = collected \cup onPage
        /\ alarms' = alarms \cup UNION {AlarmsOf(a) : a \in onPage}
        /\ seenWell' = seenWell \cup
             {EndpointOf[a] : a \in onPage \ (uninstalled \cup infected \cup disabled)}
    BY <1>1 DEF ReadPage
  <2> HIDE DEF onPage
  <2>3. Alarmed \subseteq Alarmed'
    BY <2>2 DEF Alarmed
  <2>4. ASSUME NEW a \in onPage PROVE EndpointOf[a] \in seenWell' \cup Alarmed'
    <3>1. CASE a \in uninstalled \cup infected \cup disabled
      <4>1. PICK r \in AlarmsOf(a) : r.host = EndpointOf[a]
        BY <2>1, <3>1, AlarmFacts
      <4>2. r \in alarms'
        BY <2>2
      <4> QED
        BY <4>1, <4>2 DEF Alarmed
    <3>2. CASE a \notin uninstalled \cup infected \cup disabled
      BY <2>2, <3>2
    <3> QED
      BY <3>1, <3>2
  <2> QED
    BY <2>2, <2>3, <2>4 DEF ReadInv
<1>2. ASSUME NEW v \in BOOLEAN, NEW kinds, BeginMonitor(v, kinds) PROVE ReadInv'
  BY <1>2 DEF BeginMonitor, ReadInv
<1>3. ASSUME UNCHANGED <<collected, seenWell>>, alarms \subseteq alarms' PROVE ReadInv'
  BY <1>3 DEF ReadInv, Alarmed
<1>4. CASE UNCHANGED mvars
  BY <1>3, <1>4 DEF mvars
<1> QED
  BY <1>1, <1>2, <1>3, <1>4 DEF MonitorStep, AgentChanges, HostChanges, VerifyHost,
     PageFails, TokenRejected, Evaluate, EndMonitor

\* No host of the inventory is forgotten once it has been evaluated.
LEMMA EvaluatedStep ==
  MonitorTypeOK /\ EvaluatedInv /\ [MonitorStep]_mvars => EvaluatedInv'
<1> SUFFICES ASSUME MonitorTypeOK, EvaluatedInv, [MonitorStep]_mvars PROVE EvaluatedInv'
  OBVIOUS
<1>1. CASE Evaluate
  <2> SUFFICES ASSUME NEW h \in Inventory
               PROVE  /\ h \in KnownHosts' \cup Alarmed'
                      /\ verify' => h \in toVerify' \cup saidWell' \cup Alarmed'
    BY DEF EvaluatedInv
  <2>1. Alarmed \subseteq Alarmed' /\ KnownHosts' = KnownHosts /\ verify' = verify
    BY <1>1 DEF Evaluate, Alarmed, KnownHosts
  <2>2. CASE h \notin KnownHosts
    <3>1. [finding |-> "UNPROTECTED", host |-> h] \in alarms'
      BY <1>1, <2>2 DEF Evaluate, Unprotected
    <3>2. h \in Alarmed'
      BY <3>1 DEF Alarmed
    <3> QED
      BY <3>2
  <2>3. CASE h \in KnownHosts /\ h \in Alarmed
    BY <2>1, <2>3
  <2>4. CASE h \in KnownHosts /\ h \notin Alarmed
    <3>1. \A r \in alarms : r.host # h
      BY <2>4 DEF Alarmed
    <3>2. verify => h \in toVerify'
      BY <1>1, <2>4, <3>1 DEF Evaluate
    <3> QED
      BY <2>1, <2>4, <3>2
  <2> QED
    BY <2>2, <2>3, <2>4
<1>2. ASSUME NEW g \in Endpoint, VerifyHost(g) PROVE EvaluatedInv'
  <2>1. /\ monitor = "verify" /\ toVerify' = toVerify \ {g}
        /\ UNCHANGED <<collected, verify>>
        /\ alarms \subseteq alarms' /\ saidWell \subseteq saidWell'
        /\ \/ g \in saidWell'
           \/ [finding |-> "LOCAL_MISMATCH", host |-> g] \in alarms'
    BY <1>2 DEF VerifyHost
  <2>2. g \in saidWell' \cup Alarmed'
    BY <2>1 DEF Alarmed
  <2>3. Alarmed \subseteq Alarmed'
    BY <2>1 DEF Alarmed
  <2> QED
    BY <2>1, <2>2, <2>3 DEF EvaluatedInv, KnownHosts
<1>3. ASSUME monitor' # "verify" PROVE EvaluatedInv'
  BY <1>3 DEF EvaluatedInv
<1>4. ASSUME UNCHANGED <<monitor, collected, alarms, toVerify, verify, saidWell>>
      PROVE  EvaluatedInv'
  BY <1>4 DEF EvaluatedInv, KnownHosts, Alarmed
<1>5. CASE UNCHANGED mvars
  BY <1>4, <1>5 DEF mvars
<1> QED
  BY <1>1, <1>2, <1>3, <1>4, <1>5 DEF MonitorStep, AgentChanges, HostChanges, BeginMonitor,
     ReadPage, PageFails, TokenRejected, EndMonitor

-----------------------------------------------------------------------------
\* The invariant holds in every state.
THEOREM MonitorInductive == MonitorSpec => []MInv
<1>1. MInv /\ [MonitorStep]_mvars => MInv'
  BY MonitorStepTypes, ReadStep, EvaluatedStep DEF MInv
<1> QED
  BY <1>1, MonitorInitInv, PTL DEF MonitorSpec

\* The console, the hosts and the run keep every variable's type.
THEOREM MonitorTypeCorrect == MonitorSpec => []MonitorTypeOK
<1>1. MInv => MonitorTypeOK
  BY DEF MInv
<1> QED
  BY <1>1, MonitorInductive, PTL

\* Code 0 of a run over all kinds means that every host of the inventory was seen
\* well and, with --verify-on-host, said so: a page that is missing, an agent
\* that goes between two pages or a host that does not answer is never silent.
THEOREM ZeroIsEarned == MonitorSpec => ZeroMeansCovered
<1>1. ASSUME MInv, [MonitorStep]_mvars, monitor = "verify", monitor' = "idle",
             monitorRc' = 0, only = CriticalKinds
      PROVE  Inventory \subseteq seenWell /\ (verify => Inventory \subseteq saidWell)
  <2>1. EndMonitor
    BY <1>1 DEF MonitorStep, AgentChanges, HostChanges, VerifyHost, BeginMonitor, ReadPage,
       PageFails, TokenRejected, Evaluate, mvars
  <2>2. toVerify = {} /\ ~\E r \in alarms : r.finding \in only
    BY <1>1, <2>1 DEF EndMonitor
  <2>3. Alarmed = {}
    BY <1>1, <2>2 DEF MInv, MonitorTypeOK, Alarm, Alarmed
  <2>4. \A h \in Inventory : h \in KnownHosts /\ (verify => h \in saidWell)
    BY <1>1, <2>2, <2>3 DEF MInv, EvaluatedInv
  <2>5. KnownHosts \subseteq seenWell
    BY <1>1, <2>3 DEF MInv, ReadInv, KnownHosts
  <2> QED
    BY <2>4, <2>5
<1>2. MInv /\ [MonitorStep]_mvars =>
        [monitor = "verify" /\ monitor' = "idle" /\ monitorRc' = 0 /\ only = CriticalKinds =>
           /\ Inventory \subseteq seenWell
           /\ verify => Inventory \subseteq saidWell]_mvars
  BY <1>1
<1> QED
  BY <1>2, MonitorInductive, PTL DEF MonitorSpec, ZeroMeansCovered
-----------------------------------------------------------------------------
(***************************************************************************)
(* Certificate rotation                                                    *)
(***************************************************************************)

\* A task is next exactly while a run has not ended.
RunInv == play # "idle" <=> result = "running"

\* Past the asserts nothing in the bundle is expired or mismatched.
BundleInv ==
  play \in {"back up", "certificates", "keys", "flush", "verify"} \/ result = "rotated"
    => Rejected = {}

\* When certificates are to be installed, those in place are in backup_dir.
SavedInv == play = "certificates" => \A p \in listed : <<p, cert[p]>> \in backups

\* Past the installation of certificates, and of keys, they are the bundle's.
InstalledInv ==
  play \in {"keys", "flush", "verify"} \/ result = "rotated"
    => \A p \in listed : cert[p] = rotations /\ bundle[p] # "absent"

KeysInv ==
  play \in {"flush", "verify"} \/ result = "rotated"
    => \A p \in listed : key[p] = rotations /\ bundle[p] # "no key"

\* Until the first installation the host has what it started with.
FreshInv ==
  rotations = 0 \/ (rotations = 1 /\ play \in {"validate", "back up", "certificates"})
    => \A p \in Path : cert[p] = 0

\* Until the second rotation only that is in backup_dir, and it is there for
\* every path that has something else.
FirstInv ==
  rotations \in {0, 1} =>
    /\ \A p \in Path, v \in Version : <<p, v>> \in backups => v = 0
    /\ \A p \in Path : cert[p] = 0 \/ <<p, 0>> \in backups

CInv ==
  /\ CertTypeOK /\ RunInv /\ BundleInv /\ SavedInv /\ InstalledInv /\ KeysInv
  /\ FreshInv /\ FirstInv /\ FirstIsUndone

-----------------------------------------------------------------------------
\* Counting within a bound.
LEMMA CountingUp ==
  ASSUME NEW m \in Nat, NEW c \in Nat, NEW b \in Nat, m + c <= b
  PROVE  m + c \in 0..b
  OBVIOUS

LEMMA CountingOne ==
  ASSUME NEW b \in Nat, NEW m \in 0..b, m < b
  PROVE  m + 1 \in 0..b
  OBVIOUS

\* A set of numbers that is not empty has a least one, and Min is it.
LEMMA Least ==
  ASSUME NEW S, S \subseteq Nat, S # {}
  PROVE  Min(S) \in S /\ \A n \in S : Min(S) <= n
<1>1. PICK x \in S : \A y \in S : ~(<<y, x>> \in OpToRel(<, Nat))
  BY WFMin, NatLessThanWellFounded
<1>2. OpToRel(<, Nat) = {pair \in Nat \X Nat : pair[1] < pair[2]}
  BY DEF OpToRel
<1>3. ASSUME NEW y \in S PROVE x <= y
  <2>1. x \in Nat /\ y \in Nat /\ ~(<<y, x>> \in {pair \in Nat \X Nat : pair[1] < pair[2]})
    BY <1>1, <1>2
  <2> QED
    BY <2>1
<1> QED
  BY <1>3 DEF Min

\* The loops go over finitely many items.
LEMMA LoopsAreFinite ==
  ASSUME CertTypeOK
  PROVE  /\ \A F \in SUBSET Path : IsFiniteSet(F)
         /\ \A F \in SUBSET backups : IsFiniteSet(F)
<1>1. IsFiniteSet(Path) /\ IsFiniteSet(Version)
  BY CertBounds, FS_Interval DEF Version
<1>2. IsFiniteSet(Path \X Version)
  BY <1>1, FS_Product
<1> QED
  BY <1>1, <1>2, FS_Subset DEF CertTypeOK

\* Failures stay within their bound.
LEMMA BotchedCounts ==
  ASSUME CertTypeOK, NEW F, IsFiniteSet(F), Botched(F)
  PROVE  troubles' \in 0..MaxTroubles
<1>1. Cardinality(F) \in Nat /\ troubles \in Nat /\ MaxTroubles \in Nat
  <2>1. Cardinality(F) \in Nat
    BY FS_CardinalityType
  <2>2. MaxTroubles \in Nat /\ troubles \in 0..MaxTroubles
    BY CertBounds DEF CertTypeOK
  <2> QED
    BY <2>1, <2>2
<1>2. troubles + Cardinality(F) <= MaxTroubles /\ troubles' = troubles + Cardinality(F)
  BY DEF Botched
<1> QED
  BY <1>1, <1>2, CountingUp

\* A rollback puts versions back.
LEMMA RestoredTypes ==
  ASSUME CertTypeOK, NEW F
  PROVE  Restored(F) \in [Path -> Version]
<1>1. ASSUME NEW p \in Path, {v \in Saved(p) : <<p, v>> \notin F} # {}
      PROVE  Min({v \in Saved(p) : <<p, v>> \notin F}) \in Version
  <2> DEFINE S == {v \in Saved(p) : <<p, v>> \notin F}
  <2>1. S \subseteq Version /\ Version \subseteq Nat
    BY DEF Saved, Version
  <2>2. Min(S) \in S
    BY <1>1, <2>1, Least
  <2> QED
    BY <2>1, <2>2
<1> QED
  BY <1>1 DEF Restored, CertTypeOK

\* So does an installation.
LEMMA InstallTypes ==
  ASSUME CertTypeOK, NEW file \in [Path -> Version], NEW lacking, NEW F
  PROVE  /\ Install(file, lacking, F) \in [Path -> Version]
         /\ \A p \in Path : Install(file, lacking, F)[p] =
              IF p \in listed \ (lacking \cup F) THEN rotations ELSE file[p]
  BY DEF Install, CertTypeOK

\* The invariant holds at the start.
LEMMA CertInitInv == CertInit => CInv
<1> SUFFICES ASSUME CertInit PROVE CInv
  OBVIOUS
<1>1. 0 \in Version /\ MaxRollbacks \in Nat /\ MaxTroubles \in Nat
  BY CertBounds DEF Version
<1>2. 0 \in 0..MaxRollbacks /\ 0 \in 0..MaxTroubles
  BY <1>1
<1>3. CertTypeOK
  BY <1>1, <1>2 DEF CertInit, CertTypeOK, Kind
<1> QED
  BY <1>3 DEF CertInit, CInv, RunInv, BundleInv, SavedInv, InstalledInv, KeysInv, FreshInv,
     FirstInv, FirstIsUndone

\* Every step keeps the types.
LEMMA CertTypes ==
  ASSUME CertTypeOK, [CertNext]_cvars
  PROVE  CertTypeOK'
<1> USE DEF counters, files
<1>1. CASE BeginRotation
  <2>1. rotations' \in Version
    <3>1. MaxRotations \in Nat /\ rotations \in 0..MaxRotations /\ rotations < MaxRotations
      BY <1>1, CertBounds DEF BeginRotation, CertTypeOK, Version
    <3> QED
      BY <1>1, <3>1, CountingOne DEF BeginRotation, Version
  <2>2. listed' \subseteq Path
    BY <1>1 DEF BeginRotation
  <2>3. troubles' \in 0..MaxTroubles
    <3>1. IsFiniteSet(Path \ listed')
      BY LoopsAreFinite
    <3>2. Cardinality(Path \ listed') \in Nat
      BY <3>1, FS_CardinalityType
    <3>3. MaxTroubles \in Nat /\ troubles \in 0..MaxTroubles
      BY CertBounds DEF CertTypeOK
    <3>4. Cardinality(Path \ listed') <= MaxTroubles - troubles
      BY <1>1 DEF BeginRotation
    <3>5. troubles' = troubles + Cardinality(Path \ listed')
      BY <1>1 DEF BeginRotation
    <3> QED
      BY <3>2, <3>3, <3>4, <3>5
  <2> QED
    BY <1>1, <2>1, <2>2, <2>3 DEF BeginRotation, CertTypeOK
<1>2. CASE ValidateBundle
  BY <1>2 DEF ValidateBundle, GoOn, CertTypeOK
<1>3. CASE BackUp
  <2>1. PICK F \in SUBSET listed :
          /\ Botched(F) /\ GoOn(F, "certificates")
          /\ backups' = backups \cup {<<p, cert[p]>> : p \in listed \ F}
    BY <1>3 DEF BackUp
  <2>2. troubles' \in 0..MaxTroubles
    BY <2>1, LoopsAreFinite, BotchedCounts DEF CertTypeOK
  <2>3. backups' \subseteq Path \X Version
    <3>1. \A p \in listed \ F : p \in Path /\ cert[p] \in Version
      BY DEF CertTypeOK
    <3>2. {<<p, cert[p]>> : p \in listed \ F} \subseteq Path \X Version
      BY <3>1
    <3> QED
      BY <2>1, <3>2 DEF CertTypeOK
  <2> QED
    BY <1>3, <2>1, <2>2, <2>3 DEF BackUp, GoOn, CertTypeOK
<1>4. CASE InstallCertificates
  <2> DEFINE lacking == {p \in listed : bundle[p] = "absent"}
  <2>1. PICK F \in SUBSET (listed \ lacking) :
          /\ Botched(F) /\ GoOn(F \cup lacking, "keys")
          /\ cert' = Install(cert, lacking, F)
    BY <1>4 DEF InstallCertificates
  <2>2. troubles' \in 0..MaxTroubles
    BY <2>1, LoopsAreFinite, BotchedCounts DEF CertTypeOK
  <2>3. cert' \in [Path -> Version]
    BY <2>1, InstallTypes DEF CertTypeOK
  <2> QED
    BY <1>4, <2>1, <2>2, <2>3 DEF InstallCertificates, GoOn, CertTypeOK
<1>5. CASE InstallKeys
  <2> DEFINE lacking == {p \in listed : bundle[p] = "no key"}
  <2>1. PICK F \in SUBSET (listed \ lacking) :
          /\ Botched(F) /\ GoOn(F \cup lacking, "flush")
          /\ key' = Install(key, lacking, F)
    BY <1>5 DEF InstallKeys
  <2>2. troubles' \in 0..MaxTroubles
    BY <2>1, LoopsAreFinite, BotchedCounts DEF CertTypeOK
  <2>3. key' \in [Path -> Version]
    BY <2>1, InstallTypes DEF CertTypeOK
  <2> QED
    BY <1>5, <2>1, <2>2, <2>3 DEF InstallKeys, GoOn, CertTypeOK
<1>6. CASE Flush
  BY <1>6 DEF Flush, Reload, CertTypeOK
<1>7. CASE Verify
  <2>1. troubles' \in 0..MaxTroubles
    BY <1>7, FS_Singleton, BotchedCounts DEF Verify, CertTypeOK
  <2> QED
    BY <1>7, <2>1 DEF Verify, CertTypeOK
<1>8. CASE BeginRollback
  <2>1. rollbacks' \in 0..MaxRollbacks
    BY <1>8, CertBounds, CountingOne DEF BeginRollback, CertTypeOK
  <2> QED
    BY <1>8, <2>1 DEF BeginRollback, CertTypeOK
<1>9. CASE Restore
  <2>1. PICK F \in SUBSET backups :
          /\ Botched(F) /\ cert' = Restored(F)
          /\ \/ F = {} /\ result' = "restored" /\ Reload(cert')
             \/ F # {} /\ result' = "failed" /\ UNCHANGED served
    BY <1>9 DEF Restore
  <2>2. troubles' \in 0..MaxTroubles
    BY <2>1, LoopsAreFinite, BotchedCounts
  <2>3. cert' \in [Path -> Version]
    BY <2>1, RestoredTypes
  <2>4. served' \in [Path -> Version]
    BY <2>1, <2>3 DEF Reload, CertTypeOK
  <2> QED
    BY <1>9, <2>1, <2>2, <2>3, <2>4 DEF Restore, CertTypeOK
<1>10. CASE RotationCut
  <2>1. troubles' \in 0..MaxTroubles
    BY <1>10, FS_Singleton, BotchedCounts DEF RotationCut
  <2> QED
    BY <1>10, <2>1 DEF RotationCut, CertTypeOK
<1>11. CASE UNCHANGED cvars
  BY <1>11 DEF cvars, CertTypeOK
<1> QED
  BY <1>1, <1>2, <1>3, <1>4, <1>5, <1>6, <1>7, <1>8, <1>9, <1>10, <1>11 DEF CertNext

\* What a rollback makes of the certificates when there is nothing but version 0
\* in backup_dir, and that is there for every path that has something else.
LEMMA RestoredFirst ==
  ASSUME CertTypeOK, FirstInv, rotations \in {0, 1}, NEW F, NEW p \in Path
  PROVE  /\ Restored(F)[p] = 0 \/ Restored(F)[p] = cert[p]
         /\ F = {} => Restored(F)[p] = 0
<1> DEFINE copied == {v \in Saved(p) : <<p, v>> \notin F}
<1>1. copied \subseteq {0} /\ copied \subseteq Nat
  BY DEF FirstInv, Saved, Version
<1>2. Restored(F)[p] = IF copied = {} THEN cert[p] ELSE Min(copied)
  BY DEF Restored
<1>3. copied # {} => Min(copied) = 0
  BY <1>1, Least
<1>4. ASSUME F = {}, copied = {} PROVE cert[p] = 0
  <2>1. 0 \in Version
    BY CertBounds DEF Version
  <2>2. <<p, 0>> \notin backups
    BY <1>4, <2>1 DEF Saved
  <2> QED
    BY <2>2 DEF FirstInv
<1> QED
  BY <1>2, <1>3, <1>4

\* Every step keeps what the position in the play means.
LEMMA CertStep ==
  ASSUME CInv, CertNext
  PROVE  /\ RunInv' /\ BundleInv' /\ SavedInv' /\ InstalledInv' /\ KeysInv'
         /\ FreshInv' /\ FirstInv' /\ FirstIsUndone'
<1> USE DEF counters, files, CInv
<1> DEFINE Good == /\ RunInv' /\ BundleInv' /\ SavedInv' /\ InstalledInv' /\ KeysInv'
                   /\ FreshInv' /\ FirstInv' /\ FirstIsUndone'
<1>1. CASE BeginRotation
  <2>1. rotations \in Nat /\ rotations' = rotations + 1 /\ play = "idle"
    BY <1>1 DEF BeginRotation, CertTypeOK, Version
  <2>2. rotations' \in {0, 1} => rotations = 0 /\ rotations' = 1
    BY <2>1
  <2>3. rotations = 0 => \A p \in Path : cert[p] = 0
    BY DEF FreshInv
  <2>4. FreshInv' /\ FirstInv'
    BY <1>1, <2>1, <2>2, <2>3 DEF BeginRotation, FreshInv, FirstInv
  <2> QED
    BY <1>1, <2>4 DEF BeginRotation, RunInv, BundleInv, SavedInv, InstalledInv, KeysInv,
       FirstIsUndone
<1>2. CASE ValidateBundle
  BY <1>2 DEF ValidateBundle, GoOn, RunInv, BundleInv, SavedInv, InstalledInv, KeysInv,
     FreshInv, FirstInv, FirstIsUndone, Rejected
<1>3. CASE BackUp
  <2>1. PICK F \in SUBSET listed :
          /\ GoOn(F, "certificates")
          /\ backups' = backups \cup {<<p, cert[p]>> : p \in listed \ F}
    BY <1>3 DEF BackUp
  <2>2. SavedInv'
    BY <1>3, <2>1 DEF BackUp, GoOn, SavedInv
  <2>3. FirstInv'
    <3>1. SUFFICES ASSUME rotations \in {0, 1} PROVE FirstInv'
      BY <1>3 DEF BackUp, FirstInv
    <3>2. \A p \in Path : cert[p] = 0
      BY <1>3, <3>1 DEF BackUp, FreshInv
    <3>3. ASSUME NEW p \in Path, NEW v \in Version, <<p, v>> \in backups' PROVE v = 0
      BY <2>1, <3>1, <3>2, <3>3 DEF FirstInv, CertTypeOK
    <3> QED
      BY <1>3, <3>2, <3>3 DEF BackUp, FirstInv
  <2> QED
    BY <1>3, <2>1, <2>2, <2>3 DEF BackUp, GoOn, RunInv, BundleInv, InstalledInv, KeysInv,
       FreshInv, FirstIsUndone, Rejected
<1>4. CASE InstallCertificates
  <2> DEFINE lacking == {p \in listed : bundle[p] = "absent"}
  <2>1. PICK F \in SUBSET (listed \ lacking) :
          GoOn(F \cup lacking, "keys") /\ cert' = Install(cert, lacking, F)
    BY <1>4 DEF InstallCertificates
  <2>2. \A p \in Path : cert'[p] = IF p \in listed \ (lacking \cup F) THEN rotations ELSE cert[p]
    BY <2>1 DEF Install
  <2>3. InstalledInv'
    BY <1>4, <2>1, <2>2 DEF InstallCertificates, GoOn, InstalledInv, CertTypeOK
  <2>4. FreshInv'
    <3>1. rotations = 0 => \A p \in Path : cert'[p] = 0
      BY <2>2 DEF FreshInv
    <3> QED
      BY <1>4, <2>1, <3>1 DEF InstallCertificates, GoOn, FreshInv
  <2>5. FirstInv'
    <3>1. SUFFICES ASSUME rotations \in {0, 1} PROVE FirstInv'
      BY <1>4 DEF InstallCertificates, FirstInv
    <3>2. ASSUME NEW p \in Path PROVE cert'[p] = 0 \/ <<p, 0>> \in backups
      BY <1>4, <2>2, <3>1 DEF InstallCertificates, FirstInv, FreshInv, SavedInv
    <3> QED
      BY <1>4, <3>2 DEF InstallCertificates, FirstInv
  <2> QED
    BY <1>4, <2>1, <2>3, <2>4, <2>5 DEF InstallCertificates, GoOn, RunInv, BundleInv,
       SavedInv, KeysInv, FirstIsUndone, Rejected
<1>5. CASE InstallKeys
  <2> DEFINE lacking == {p \in listed : bundle[p] = "no key"}
  <2>1. PICK F \in SUBSET (listed \ lacking) :
          GoOn(F \cup lacking, "flush") /\ key' = Install(key, lacking, F)
    BY <1>5 DEF InstallKeys
  <2>2. \A p \in Path : key'[p] = IF p \in listed \ (lacking \cup F) THEN rotations ELSE key[p]
    BY <2>1 DEF Install
  <2>3. KeysInv'
    BY <1>5, <2>1, <2>2 DEF InstallKeys, GoOn, KeysInv, CertTypeOK
  <2> QED
    BY <1>5, <2>1, <2>3 DEF InstallKeys, GoOn, RunInv, BundleInv, SavedInv, InstalledInv,
       FreshInv, FirstInv, FirstIsUndone, Rejected
<1>6. CASE Flush
  BY <1>6 DEF Flush, RunInv, BundleInv, SavedInv, InstalledInv, KeysInv,
     FreshInv, FirstInv, FirstIsUndone, Rejected
<1>7. CASE Verify
  BY <1>7 DEF Verify, RunInv, BundleInv, SavedInv, InstalledInv, KeysInv,
     FreshInv, FirstInv, FirstIsUndone, Rejected
<1>8. CASE BeginRollback
  BY <1>8 DEF BeginRollback, RunInv, BundleInv, SavedInv, InstalledInv, KeysInv,
     FreshInv, FirstInv, FirstIsUndone, Rejected
<1>9. CASE Restore
  <2>1. PICK F \in SUBSET backups :
          /\ cert' = Restored(F)
          /\ \/ F = {} /\ result' = "restored"
             \/ F # {} /\ result' = "failed"
    BY <1>9 DEF Restore
  <2>2. rotations \in {0, 1} => \A p \in Path :
          (cert'[p] = 0 \/ cert'[p] = cert[p]) /\ (F = {} => cert'[p] = 0)
    BY <2>1, RestoredFirst
  <2>3. FreshInv' /\ FirstInv' /\ FirstIsUndone'
    BY <1>9, <2>1, <2>2 DEF Restore, FreshInv, FirstInv, FirstIsUndone
  <2> QED
    BY <1>9, <2>1, <2>3 DEF Restore, RunInv, BundleInv, SavedInv, InstalledInv, KeysInv
<1>10. CASE RotationCut
  BY <1>10 DEF RotationCut, RunInv, BundleInv, SavedInv, InstalledInv, KeysInv,
     FreshInv, FirstInv, FirstIsUndone
<1> QED
  BY <1>1, <1>2, <1>3, <1>4, <1>5, <1>6, <1>7, <1>8, <1>9, <1>10 DEF CertNext

-----------------------------------------------------------------------------
\* The invariant holds in every state.
THEOREM CertInductive == CertSpec => []CInv
<1>1. CInv /\ UNCHANGED cvars => CInv'
  BY DEF cvars, files, counters, CInv, CertTypeOK, RunInv, BundleInv, SavedInv, InstalledInv,
     KeysInv, FreshInv, FirstInv, FirstIsUndone, Rejected
<1>2. CInv /\ CertNext => CInv'
  BY CertTypes, CertStep DEF CInv
<1> QED
  BY <1>1, <1>2, CertInitInv, PTL DEF CertSpec

\* The host, the bundle and the run keep every variable's type.
THEOREM CertTypeCorrect == CertSpec => []CertTypeOK
<1>1. CInv => CertTypeOK
  BY DEF CInv
<1> QED
  BY <1>1, CertInductive, PTL

\* A rotation that ends in the summary has installed every certificate of the
\* inventory with its key, for any number of certificates and of runs before.
THEOREM RotationIsWhole == CertSpec => []RotatedIsWhole
<1>1. CInv => RotatedIsWhole
  BY DEF CInv, InstalledInv, KeysInv, BundleInv, Rejected, CertTypeOK, Kind, RotatedIsWhole
<1> QED
  BY <1>1, CertInductive, PTL

\* The first rotation, whole or cut anywhere, can be undone, any number of times.
THEOREM FirstCanBeUndone == CertSpec => []FirstIsUndone
<1>1. CInv => FirstIsUndone
  BY DEF CInv
<1> QED
  BY <1>1, CertInductive, PTL

\* No rotation replaces a certificate of which there is no copy.
THEOREM NothingIsLost == CertSpec => InstallSaves
<1>1. ASSUME CInv, [CertNext]_cvars, NEW p \in Path, play = "certificates", cert'[p] # cert[p]
      PROVE  <<p, cert[p]>> \in backups
  <2>1. CASE InstallCertificates
    <3>1. p \in listed
      BY <1>1, <2>1, InstallTypes DEF InstallCertificates, CInv, CertTypeOK
    <3> QED
      BY <1>1, <3>1 DEF CInv, SavedInv
  <2> QED
    BY <1>1, <2>1 DEF CertNext, cvars, files, counters, BeginRotation, ValidateBundle, BackUp,
       InstallKeys, Flush, Verify, BeginRollback, Restore, RotationCut
<1>2. CInv /\ [CertNext]_cvars =>
        [\A p \in Path :
           play = "certificates" /\ cert'[p] # cert[p] => <<p, cert[p]>> \in backups]_cvars
  BY <1>1
<1> QED
  BY <1>2, CertInductive, PTL DEF CertSpec, InstallSaves

-----------------------------------------------------------------------------
(***************************************************************************)
(* Policy update                                                           *)
(***************************************************************************)

Fetched == [p \in Global |-> before[p]]
Ordered == \A p \in Given : Order[p] # None

\* A task is next exactly while a run has not ended; what is left of a loop is
\* of the directory, or of what is restored.
UpdateRunInv ==
  /\ task # "idle" <=> ending = "running"
  /\ task = "apply" => todo \subseteq Given
  /\ task = "verify" => todo = {}
  /\ task \in {"restore", "return"} => todo \subseteq Global
  /\ task = "return" => Given = {}

\* Until something is applied nothing has changed; what was fetched is what was
\* there, and from the validation on a file has it.
FetchedInv ==
  /\ task \in {"back up", "validate"} => live = before
  /\ task \in {"back up", "validate", "apply", "verify", "restore"} => existing = Fetched
  /\ task \in {"validate", "apply", "verify", "restore"} => Fetched \in saved

\* The loop over the policies: those that are left are as they were; those that
\* were gone through have an order no higher, and sections, unless one failed.
LoopInv ==
  /\ task = "apply" => \A p \in todo : live[p] = before[p]
  /\ task = "apply" /\ Ordered => \A d \in Given \ todo, a \in todo : Order[d] <= Order[a]
  /\ task \in {"apply", "verify"} /\ ~broken =>
       \A p \in Given \ todo : Sections(live[p]) # {}

\* What the loop over a backup has gone through is back, unless one failed.
BackInv ==
  task \in {"restore", "return"} /\ ~broken =>
    \A p \in Global \ todo : \A s \in Sections(existing[p]) : live[p].spec[s] = existing[p].spec[s]

PInv ==
  /\ PolicyTypeOK /\ UpdateRunInv /\ FetchedInv /\ LoopInv /\ BackInv
  /\ OthersUntouched /\ BackupIsBack

-----------------------------------------------------------------------------
\* What is applied is a policy, with the sections that were sent.
LEMMA AppliedFacts ==
  ASSUME PolicyTypeOK, NEW object \in PolicyObject, NEW sections \in SUBSET Section
  PROVE  /\ AppliedOn(object, sections) \in PolicyObject
         /\ \A s \in sections : AppliedOn(object, sections).spec[s] = runs
         /\ sections # {} => Sections(AppliedOn(object, sections)) # {}
<1>1. runs \in 0..MaxRuns /\ runs # None
  <2>1. runs \in 0..MaxRuns
    BY DEF PolicyTypeOK
  <2>2. runs \in Int /\ None \notin Int
    BY <2>1, PolicyAssumption
  <2> QED
    BY <2>1, <2>2
<1>2. AppliedOn(object, sections) \in PolicyObject
  BY <1>1 DEF AppliedOn, PolicyObject
<1>3. \A s \in sections : AppliedOn(object, sections).spec[s] = runs
  BY DEF AppliedOn
<1> QED
  BY <1>1, <1>2, <1>3 DEF Sections

\* What is merged is a policy, with the sections of the old one.
LEMMA MergedFacts ==
  ASSUME NEW object \in PolicyObject, NEW old \in PolicyObject
  PROVE  /\ Merged(object, old) \in PolicyObject
         /\ \A s \in Sections(old) : Merged(object, old).spec[s] = old.spec[s]
         /\ object = old => Merged(object, old) = object
<1>1. Merged(object, old) \in PolicyObject
  BY DEF Merged, PolicyObject
<1>2. ASSUME object = old PROVE Merged(object, old) = object
  <2>1. Merged(object, old).spec = object.spec
    BY <1>2 DEF Merged, PolicyObject
  <2>2. Merged(object, old).applied = object.applied
    BY <1>2 DEF Merged, PolicyObject
  <2> QED
    BY <1>1, <2>1, <2>2 DEF PolicyObject
<1> QED
  BY <1>1, <1>2 DEF Merged, Sections

\* What one item of a loop does.
LEMMA ItemFacts ==
  ASSUME PolicyTypeOK, NEW p \in Policy, NEW object \in PolicyObject, Item(p, object)
  PROVE  /\ todo' = todo \ {p}
         /\ live' \in [Policy -> PolicyObject]
         /\ \A q \in Policy : q # p => live'[q] = live[q]
         /\ live'[p] = live[p] \/ live'[p] = object
         /\ broken' \in BOOLEAN
         /\ ~broken' => ~broken /\ live'[p] = object
         /\ refusals' \in 0..MaxRefusals
<1>1. MaxRefusals \in Nat /\ refusals \in 0..MaxRefusals
  BY PolicyAssumption DEF PolicyTypeOK
<1>2. CASE live' = [live EXCEPT ![p] = object] /\ UNCHANGED <<broken, refusals>>
  BY <1>1, <1>2 DEF Item, PolicyTypeOK
<1>3. CASE live' \in {live, [live EXCEPT ![p] = object]} /\ broken' = TRUE /\ Refusal
  <2>1. refusals' \in 0..MaxRefusals
    BY <1>1, <1>3, CountingOne DEF Refusal
  <2> QED
    BY <1>3, <2>1 DEF Item, PolicyTypeOK
<1> QED
  BY <1>2, <1>3 DEF Item

\* A refusal stays within its bound, a run too.
LEMMA RefusalCounts ==
  ASSUME PolicyTypeOK
  PROVE  /\ Refusal => refusals' \in 0..MaxRefusals
         /\ runs < MaxRuns => runs + 1 \in 0..MaxRuns
<1>1. MaxRefusals \in Nat /\ refusals \in 0..MaxRefusals /\ MaxRuns \in Nat /\ runs \in 0..MaxRuns
  BY PolicyAssumption DEF PolicyTypeOK
<1> QED
  BY <1>1, CountingOne DEF Refusal

\* The invariant holds at the start.
LEMMA UpdateInitInv == UpdateInit => PInv
<1> SUFFICES ASSUME UpdateInit PROVE PInv
  OBVIOUS
<1>1. 0 \in 0..MaxRuns /\ 0 \in 0..MaxRefusals
  BY PolicyAssumption
<1>2. PICK there \in AtFirst :
        live = [p \in Policy |->
          [spec |-> [s \in Section |-> IF s \in there[p] THEN 0 ELSE None],
           applied |-> there[p]]]
  BY DEF UpdateInit
<1>3. there \in [Policy -> SUBSET Section]
  BY PolicyAssumption
<1>4. live \in [Policy -> PolicyObject]
  BY <1>1, <1>2, <1>3 DEF PolicyObject
<1>5. Absent \in PolicyObject
  BY DEF Absent, PolicyObject
<1>6. PolicyTypeOK
  BY <1>1, <1>4, <1>5 DEF UpdateInit, PolicyTypeOK
<1> QED
  BY <1>6 DEF UpdateInit, PInv, UpdateRunInv, FetchedInv, LoopInv, BackInv,
     OthersUntouched, BackupIsBack, Given

\* Every step keeps the types.
LEMMA UpdateTypes ==
  ASSUME PolicyTypeOK, UpdateRunInv, [UpdateNext]_updateVars
  PROVE  PolicyTypeOK'
<1>1. CASE BeginUpdate
  <2>1. directory' \in [Policy -> SUBSET Section]
    BY <1>1, PolicyAssumption DEF BeginUpdate
  <2>2. existing' \in [Global -> PolicyObject]
    BY <1>1, PolicyAssumption DEF BeginUpdate, PolicyTypeOK
  <2>3. runs' \in 0..MaxRuns
    BY <1>1, RefusalCounts DEF BeginUpdate
  <2> QED
    BY <1>1, <2>1, <2>2, <2>3 DEF BeginUpdate, PolicyTypeOK
<1>2. CASE BackUpPolicies
  <2>1. refusals' \in 0..MaxRefusals
    BY <1>2, RefusalCounts DEF BackUpPolicies, PolicyTypeOK
  <2> QED
    BY <1>2, <2>1 DEF BackUpPolicies, Ends, PolicyTypeOK
<1>3. CASE ValidatePolicies
  <2>1. refusals' \in 0..MaxRefusals
    BY <1>3, RefusalCounts DEF ValidatePolicies, PolicyTypeOK
  <2> QED
    BY <1>3, <2>1 DEF ValidatePolicies, Ends, Given, PolicyTypeOK
<1>4. ASSUME NEW p \in Policy, ApplyPolicy(p) PROVE PolicyTypeOK'
  <2>1. AppliedOn(live[p], directory[p]) \in PolicyObject
    BY AppliedFacts DEF PolicyTypeOK
  <2>2. /\ todo' = todo \ {p} /\ live' \in [Policy -> PolicyObject] /\ broken' \in BOOLEAN
        /\ refusals' \in 0..MaxRefusals
    BY <1>4, <2>1, ItemFacts DEF ApplyPolicy
  <2> QED
    BY <1>4, <2>2 DEF ApplyPolicy, PolicyTypeOK
<1>5. CASE AppliedAll
  BY <1>5 DEF AppliedAll, Ends, PolicyTypeOK
<1>6. CASE VerifyPolicies
  <2>1. refusals' \in 0..MaxRefusals
    BY <1>6, RefusalCounts DEF VerifyPolicies, PolicyTypeOK
  <2> QED
    BY <1>6, <2>1, PolicyAssumption DEF VerifyPolicies, Ends, PolicyTypeOK
<1>7. CASE BeginReturn
  <2>1. runs' \in 0..MaxRuns
    BY <1>7, RefusalCounts DEF BeginReturn
  <2> QED
    BY <1>7, <2>1, PolicyAssumption DEF BeginReturn, PolicyTypeOK
<1>8. ASSUME NEW p \in Policy, RestorePolicy(p) PROVE PolicyTypeOK'
  <2>1. Merged(live[p], existing[p]) \in PolicyObject
    BY <1>8, MergedFacts DEF RestorePolicy, UpdateRunInv, PolicyTypeOK
  <2>2. /\ todo' = todo \ {p} /\ live' \in [Policy -> PolicyObject] /\ broken' \in BOOLEAN
        /\ refusals' \in 0..MaxRefusals
    BY <1>8, <2>1, ItemFacts DEF RestorePolicy
  <2> QED
    BY <1>8, <2>2 DEF RestorePolicy, PolicyTypeOK
<1>9. CASE RestoredAll
  BY <1>9 DEF RestoredAll, Ends, PolicyTypeOK
<1>10. CASE UpdateCut
  BY <1>10, RefusalCounts DEF UpdateCut, Ends, PolicyTypeOK
<1>11. CASE UNCHANGED updateVars
  BY <1>11 DEF updateVars, PolicyTypeOK
<1> QED
  BY <1>1, <1>2, <1>3, <1>4, <1>5, <1>6, <1>7, <1>8, <1>9, <1>10, <1>11 DEF UpdateNext

\* What an item of the loop over the policies does.
LEMMA ApplyFacts ==
  ASSUME PInv, NEW p \in Policy, ApplyPolicy(p)
  PROVE  /\ p \in todo /\ p \in Given /\ task = "apply" /\ ending = "running"
         /\ Ordered => \A q \in todo : Order[p] <= Order[q]
         /\ todo' = todo \ {p}
         /\ \A q \in Policy : q # p => live'[q] = live[q]
         /\ ~broken' => ~broken /\ Sections(live'[p]) # {}
         /\ UNCHANGED <<saved, task, directory, existing, ending, before>>
<1>1. p \in todo /\ p \in Given /\ task = "apply" /\ ending = "running"
  BY DEF ApplyPolicy, IsNext, PInv, UpdateRunInv
<1>2. /\ AppliedOn(live[p], directory[p]) \in PolicyObject
      /\ Sections(AppliedOn(live[p], directory[p])) # {}
  BY <1>1, AppliedFacts DEF PInv, PolicyTypeOK, Given
<1> QED
  BY <1>1, <1>2, ItemFacts DEF ApplyPolicy, IsNext, PInv, Ordered

\* What an item of the loop over a backup does.
LEMMA RestoreFacts ==
  ASSUME PInv, NEW p \in Policy, RestorePolicy(p)
  PROVE  /\ p \in todo /\ p \in Global /\ task \in {"restore", "return"} /\ ending = "running"
         /\ todo' = todo \ {p}
         /\ \A q \in Policy : q # p => live'[q] = live[q]
         /\ live[p] = existing[p] => live'[p] = live[p]
         /\ ~broken' => /\ ~broken
                        /\ \A s \in Sections(existing[p]) : live'[p].spec[s] = existing[p].spec[s]
         /\ UNCHANGED <<saved, task, directory, existing, ending, before>>
<1>1. p \in todo /\ p \in Global /\ task \in {"restore", "return"} /\ ending = "running"
  BY DEF RestorePolicy, PInv, UpdateRunInv
<1>2. live[p] \in PolicyObject /\ existing[p] \in PolicyObject
  BY <1>1 DEF PInv, PolicyTypeOK
<1>3. /\ Merged(live[p], existing[p]) \in PolicyObject
      /\ \A s \in Sections(existing[p]) : Merged(live[p], existing[p]).spec[s] = existing[p].spec[s]
      /\ live[p] = existing[p] => Merged(live[p], existing[p]) = live[p]
  BY <1>2, MergedFacts
<1> QED
  BY <1>1, <1>3, ItemFacts DEF RestorePolicy, PInv

\* Every step keeps what the position in the play means.
LEMMA UpdateStep ==
  ASSUME PInv, UpdateNext
  PROVE  /\ UpdateRunInv' /\ FetchedInv' /\ LoopInv' /\ BackInv'
         /\ OthersUntouched' /\ BackupIsBack'
<1>1. CASE BeginUpdate
  BY <1>1 DEF BeginUpdate, PInv, UpdateRunInv, FetchedInv, LoopInv, BackInv,
     OthersUntouched, BackupIsBack, Fetched
<1>2. CASE BackUpPolicies
  BY <1>2 DEF BackUpPolicies, Ends, PInv, UpdateRunInv, FetchedInv, LoopInv, BackInv,
     OthersUntouched, BackupIsBack, Fetched, Given
<1>3. CASE ValidatePolicies
  BY <1>3 DEF ValidatePolicies, Ends, PInv, UpdateRunInv, FetchedInv, LoopInv, BackInv,
     OthersUntouched, BackupIsBack, Fetched, Given
<1>4. ASSUME NEW p \in Policy, ApplyPolicy(p)
      PROVE  /\ UpdateRunInv' /\ FetchedInv' /\ LoopInv' /\ BackInv'
             /\ OthersUntouched' /\ BackupIsBack'
  <2>1. /\ p \in todo /\ p \in Given /\ task = "apply" /\ ending = "running"
        /\ Ordered => \A q \in todo : Order[p] <= Order[q]
        /\ todo' = todo \ {p}
        /\ \A q \in Policy : q # p => live'[q] = live[q]
        /\ ~broken' => ~broken /\ Sections(live'[p]) # {}
        /\ UNCHANGED <<saved, task, directory, existing, ending, before>>
    BY <1>4, ApplyFacts
  <2>2. Given' = Given /\ Given \subseteq Policy /\ todo \subseteq Given /\ Ordered' = Ordered
    BY <2>1 DEF Given, Ordered, PInv, UpdateRunInv
  <2>3. LoopInv'
    <3>1. \A q \in todo' : live'[q] = before'[q]
      BY <2>1, <2>2 DEF PInv, LoopInv
    <3>2. Ordered => \A d \in Given \ todo', a \in todo' : Order[d] <= Order[a]
      BY <2>1, <2>2 DEF PInv, LoopInv
    <3>3. ~broken' => \A q \in Given \ todo' : Sections(live'[q]) # {}
      <4>1. ASSUME ~broken', NEW q \in Given \ todo', q # p PROVE Sections(live'[q]) # {}
        <5>1. Sections(live[q]) # {} /\ live'[q] = live[q]
          BY <2>1, <2>2, <4>1 DEF PInv, LoopInv
        <5> QED
          BY <5>1 DEF Sections
      <4> QED
        BY <2>1, <4>1
    <3> QED
      BY <2>1, <2>2, <3>1, <3>2, <3>3 DEF LoopInv, Sections
  <2>4. OthersUntouched'
    BY <2>1, <2>2 DEF PInv, OthersUntouched
  <2> QED
    BY <2>1, <2>2, <2>3, <2>4 DEF PInv, UpdateRunInv, FetchedInv, BackInv, BackupIsBack, Fetched
<1>5. CASE AppliedAll
  <2>1. Given' = Given /\ todo' = todo /\ todo = {} /\ live' = live /\ task = "apply"
        /\ task' \in {"idle", "verify"} /\ broken' = broken
    BY <1>5 DEF AppliedAll, Ends, Given
  <2>2. LoopInv'
    BY <2>1 DEF PInv, LoopInv, Sections
  <2>3. UpdateRunInv' /\ BackInv' /\ BackupIsBack'
    BY <1>5, <2>1 DEF AppliedAll, Ends, PInv, UpdateRunInv, BackInv, BackupIsBack
  <2>4. FetchedInv' /\ OthersUntouched'
    BY <1>5, <2>1 DEF AppliedAll, PInv, FetchedInv, OthersUntouched, Fetched
  <2> QED
    BY <2>2, <2>3, <2>4
<1>6. CASE VerifyPolicies
  <2>1. \A p \in Global : existing[p] = Absent => Sections(existing[p]) = {}
    BY DEF Sections, Absent
  <2>2. BackInv'
    BY <1>6, <2>1 DEF VerifyPolicies, Ends, PInv, BackInv, Sections
  <2> QED
    BY <1>6, <2>2 DEF VerifyPolicies, Ends, PInv, UpdateRunInv, FetchedInv, LoopInv,
       OthersUntouched, BackupIsBack, Fetched, Given, Sections
<1>7. CASE BeginReturn
  <2>1. \A p \in Global : existing'[p] = Absent => Sections(existing'[p]) = {}
    BY DEF Sections, Absent
  <2>2. BackInv'
    BY <1>7, <2>1 DEF BeginReturn, BackInv, Sections
  <2>3. Given' = {}
    BY <1>7 DEF BeginReturn, Given
  <2> QED
    BY <1>7, <2>2, <2>3 DEF BeginReturn, PInv, UpdateRunInv, FetchedInv, LoopInv,
       OthersUntouched, BackupIsBack
<1>8. ASSUME NEW p \in Policy, RestorePolicy(p)
      PROVE  /\ UpdateRunInv' /\ FetchedInv' /\ LoopInv' /\ BackInv'
             /\ OthersUntouched' /\ BackupIsBack'
  <2>1. /\ p \in todo /\ p \in Global /\ task \in {"restore", "return"} /\ ending = "running"
        /\ todo' = todo \ {p}
        /\ \A q \in Policy : q # p => live'[q] = live[q]
        /\ live[p] = existing[p] => live'[p] = live[p]
        /\ ~broken' => /\ ~broken
                       /\ \A s \in Sections(existing[p]) : live'[p].spec[s] = existing[p].spec[s]
        /\ UNCHANGED <<saved, task, directory, existing, ending, before>>
    BY <1>8, RestoreFacts
  <2>2. Global \subseteq Policy
    BY PolicyAssumption
  <2>3. Given' = Given
    BY <2>1 DEF Given
  <2>4. BackInv'
    <3>1. ASSUME ~broken', NEW q \in Global \ todo', q # p, NEW s \in Sections(existing[q])
          PROVE  live'[q].spec[s] = existing[q].spec[s]
      BY <2>1, <2>2, <3>1 DEF PInv, BackInv
    <3> QED
      BY <2>1, <3>1 DEF BackInv, Sections
  <2>5. OthersUntouched'
    <3>1. CASE Given = {}
      BY <2>3, <3>1 DEF OthersUntouched
    <3>2. CASE Given # {}
      <4>1. task = "restore" /\ existing[p] = before[p]
        BY <2>1, <3>2 DEF PInv, UpdateRunInv, FetchedInv, Fetched
      <4>2. p \in Policy \ Given => live'[p] = before[p]
        BY <2>1, <2>2, <3>2, <4>1 DEF PInv, OthersUntouched
      <4> QED
        BY <2>1, <2>3, <3>2, <4>2 DEF PInv, OthersUntouched
    <3> QED
      BY <3>1, <3>2
  <2> QED
    BY <2>1, <2>3, <2>4, <2>5 DEF PInv, UpdateRunInv, FetchedInv, LoopInv, BackupIsBack, Fetched
<1>9. CASE RestoredAll
  BY <1>9 DEF RestoredAll, Ends, PInv, UpdateRunInv, FetchedInv, LoopInv, BackInv,
     OthersUntouched, BackupIsBack, Fetched, Given, Sections
<1>10. CASE UpdateCut
  BY <1>10 DEF UpdateCut, Ends, PInv, UpdateRunInv, FetchedInv, LoopInv, BackInv,
     OthersUntouched, BackupIsBack, Fetched, Given, Sections
<1> QED
  BY <1>1, <1>2, <1>3, <1>4, <1>5, <1>6, <1>7, <1>8, <1>9, <1>10 DEF UpdateNext

-----------------------------------------------------------------------------
\* The invariant holds in every state.
THEOREM UpdateInductive == UpdateSpec => []PInv
<1>1. PInv /\ UNCHANGED updateVars => PInv'
  <2> SUFFICES ASSUME PInv, UNCHANGED updateVars PROVE PInv'
    OBVIOUS
  <2>1. Given' = Given /\ Ordered' = Ordered /\ Fetched' = Fetched
    BY DEF updateVars, Given, Ordered, Fetched
  <2>2. PolicyTypeOK' /\ UpdateRunInv' /\ FetchedInv'
    BY <2>1 DEF updateVars, PInv, PolicyTypeOK, UpdateRunInv, FetchedInv
  <2>3. LoopInv'
    BY <2>1 DEF updateVars, PInv, LoopInv, Sections
  <2>4. BackInv' /\ OthersUntouched' /\ BackupIsBack'
    BY <2>1 DEF updateVars, PInv, BackInv, OthersUntouched, BackupIsBack, Sections
  <2> QED
    BY <2>2, <2>3, <2>4 DEF PInv
<1>2. PInv /\ UpdateNext => PInv'
  BY UpdateTypes, UpdateStep DEF PInv
<1> QED
  BY <1>1, <1>2, UpdateInitInv, PTL DEF UpdateSpec

\* The policies, the backups and the run keep every variable's type.
THEOREM PolicyTypeCorrect == UpdateSpec => []PolicyTypeOK
<1>1. PInv => PolicyTypeOK
  BY DEF PInv
<1> QED
  BY <1>1, UpdateInductive, PTL

\* A rollback that reports no failure, of any backup and after any failures, has
\* brought every policy of the backup back.
THEOREM BackupComesBack == UpdateSpec => []BackupIsBack
<1>1. PInv => BackupIsBack
  BY DEF PInv
<1> QED
  BY <1>1, UpdateInductive, PTL

\* No update changes a policy outside its directory, however it ends.
THEOREM OthersAreLeftAlone == UpdateSpec => []OthersUntouched
<1>1. PInv => OthersUntouched
  BY DEF PInv
<1> QED
  BY <1>1, UpdateInductive, PTL

\* With an order for every policy and until one fails to apply, a new deny never
\* lands before the allow that precedes it.
THEOREM AllowsComeFirst == UpdateSpec => []OrderedAllowsFirst
<1>1. ASSUME PInv, task \in {"apply", "verify"}, ~broken, \A p \in Given : Order[p] # None,
             NEW d \in Given \cap Deny, NEW a \in Given \cap DnsAllow,
             Earlier(a, d), Sections(before[d]) = {}, Sections(live[d]) # {}
      PROVE  Sections(live[a]) # {}
  <2>1. CASE task = "verify"
    BY <1>1, <2>1 DEF PInv, UpdateRunInv, LoopInv
  <2>2. CASE task = "apply"
    <3>1. d \notin todo
      BY <1>1, <2>2 DEF PInv, LoopInv, Sections
    <3>2. Order[a] \in Int /\ Order[d] \in Int /\ Order[a] < Order[d]
      BY <1>1, PolicyAssumption DEF Earlier, Given
    <3>3. a \notin todo
      <4>1. a \in todo => Order[d] <= Order[a]
        BY <1>1, <2>2, <3>1 DEF PInv, LoopInv, Ordered
      <4> QED
        BY <3>2, <4>1
    <3> QED
      BY <1>1, <2>2, <3>3 DEF PInv, LoopInv
  <2> QED
    BY <1>1, <2>1, <2>2
<1>2. PInv => OrderedAllowsFirst
  BY <1>1 DEF OrderedAllowsFirst, AllowsFirst
<1> QED
  BY <1>2, UpdateInductive, PTL

\* Whatever is applied, what was there before is in a file.
THEOREM BackedUpBefore == UpdateSpec => BackedUpFirst
<1>1. PInv => (task = "apply" => [p \in Global |-> before[p]] \in saved)
  BY DEF PInv, FetchedInv, Fetched
<1>2. PInv /\ [UpdateNext]_updateVars =>
        [task = "apply" /\ live' # live => [p \in Global |-> before[p]] \in saved]_updateVars
  BY <1>1
<1> QED
  BY <1>2, UpdateInductive, PTL DEF UpdateSpec, BackedUpFirst
=============================================================================
