---------------------------- MODULE AgentMonitor ----------------------------
(***************************************************************************)
(* security/python/sentinelone_agent_monitor.py: page through the agents   *)
(* the console knows, compare them with the inventory, and with            *)
(* --verify-on-host ask the hosts the console calls healthy.  Agents come, *)
(* go and change between the pages.                                        *)
(*                                                                         *)
(* The kinds of finding that are only a warning are left out; so are the   *)
(* console's site filter and the reading of the inventory file.  Names are *)
(* short hostnames.                                                        *)
(***************************************************************************)
EXTENDS Integers, Sequences, FiniteSets

CONSTANTS
  Endpoint,       \* hosts, by their normalised name
  Inventory,      \* the ones expected to be protected
  Agent,          \* agents: a reinstalled host may have several
  EndpointOf,     \* [Agent -> computerName]
  Pages,          \* Seq(SUBSET Agent): the order the console lists them in
  MaxIncidents    \* bound on runs, failed queries and changes

ASSUME MonitorAssumption ==
  /\ Inventory \subseteq Endpoint
  /\ EndpointOf \in [Agent -> Endpoint]
  /\ Pages \in Seq(SUBSET Agent)
  /\ MaxIncidents \in Nat

VARIABLES
  registered,  \* agents the console knows
  uninstalled, \* of these, the ones it knows to be uninstalled
  infected,    \* with unresolved threats
  disabled,    \* not in protect mode, quarantined, or waiting for an action
  guarded,     \* hosts whose own agent says it is enabled
  monitor,     \* where the run is
  page,        \* the page it has come to
  collected,   \* the agents it has read
  alarms,      \* its CRITICAL rows
  toVerify,    \* healthy_per_console
  verify,      \* --verify-on-host
  only,        \* --finding, all kinds if it is not given
  monitorRc,   \* exit code of the last run, with --fail-on-findings
  seenWell,    \* history: hosts with an agent that was well when it was read
  saidWell,    \* history: hosts that said so themselves
  incidents

console == <<registered, uninstalled, infected, disabled, guarded>>
mvars == <<console, monitor, page, collected, alarms, toVerify, verify, only, monitorRc,
           seenWell, saidWell, incidents>>

CriticalKinds == {"UNPROTECTED", "INFECTED", "DISABLED", "LOCAL_MISMATCH"}
Alarm == [finding : CriticalKinds, host : Endpoint]

MonitorTypeOK ==
  /\ registered \in SUBSET Agent /\ uninstalled \in SUBSET Agent
  /\ infected \in SUBSET Agent /\ disabled \in SUBSET Agent
  /\ guarded \in SUBSET Endpoint
  /\ monitor \in {"idle", "list", "verify"}
  /\ page \in 1..(Len(Pages) + 1)
  /\ collected \in SUBSET Agent
  /\ alarms \in SUBSET Alarm
  /\ toVerify \in SUBSET Endpoint
  /\ verify \in BOOLEAN
  /\ only \in SUBSET CriticalKinds
  /\ monitorRc \in 0..1
  /\ seenWell \in SUBSET Endpoint /\ saidWell \in SUBSET Endpoint
  /\ incidents \in 0..MaxIncidents

MonitorInit ==
  /\ registered = Agent /\ uninstalled = {} /\ infected = {} /\ disabled = {}
  /\ guarded = Endpoint
  /\ monitor = "idle" /\ page = 1 /\ collected = {} /\ alarms = {} /\ toVerify = {}
  /\ verify = FALSE /\ only = CriticalKinds /\ monitorRc = 0
  /\ seenWell = {} /\ saidWell = {} /\ incidents = 0

Incident == incidents < MaxIncidents /\ incidents' = incidents + 1

\* External: an agent is registered or forgotten, or what is known of it
\* changes; the agent of a host stops or starts.
Flipped(S, x) == IF x \in S THEN S \ {x} ELSE S \cup {x}

AgentChanges(a) ==
  /\ Incident
  /\ \/ registered' = Flipped(registered, a) /\ UNCHANGED <<uninstalled, infected, disabled>>
     \/ uninstalled' = Flipped(uninstalled, a) /\ UNCHANGED <<registered, infected, disabled>>
     \/ infected' = Flipped(infected, a) /\ UNCHANGED <<registered, uninstalled, disabled>>
     \/ disabled' = Flipped(disabled, a) /\ UNCHANGED <<registered, uninstalled, infected>>
  /\ UNCHANGED <<guarded, monitor, page, collected, alarms, toVerify, verify, only, monitorRc>>
  /\ UNCHANGED <<seenWell, saidWell>>

HostChanges(h) ==
  /\ Incident
  /\ guarded' = Flipped(guarded, h)
  /\ UNCHANGED <<registered, uninstalled, infected, disabled, monitor, page, collected, alarms>>
  /\ UNCHANGED <<toVerify, verify, only, monitorRc, seenWell, saidWell>>

-----------------------------------------------------------------------------

BeginMonitor(v, kinds) ==
  /\ monitor = "idle" /\ Incident
  /\ monitor' = "list" /\ page' = 1
  /\ collected' = {} /\ alarms' = {} /\ toVerify' = {}
  /\ verify' = v /\ only' = kinds
  /\ seenWell' = {} /\ saidWell' = {}
  /\ UNCHANGED <<console, monitorRc>>

\* What evaluate finds of one agent as it was when its page was read.
AlarmsOf(a) ==
  {[finding |-> kind, host |-> EndpointOf[a]] : kind \in
     {k \in CriticalKinds : \/ k = "UNPROTECTED" /\ a \in uninstalled
                            \/ k = "INFECTED" /\ a \in infected
                            \/ k = "DISABLED" /\ a \in disabled}}

ReadPage ==
  /\ monitor = "list" /\ page <= Len(Pages)
  /\ LET listed == Pages[page] \cap registered
     IN  /\ collected' = collected \cup listed
         /\ alarms' = alarms \cup UNION {AlarmsOf(a) : a \in listed}
         /\ seenWell' = seenWell \cup {EndpointOf[a] : a \in listed \ (uninstalled \cup infected \cup disabled)}
  /\ page' = page + 1
  /\ UNCHANGED <<console, monitor, toVerify, verify, only, monitorRc, saidWell, incidents>>

\* A page that fails ends the listing: what there is counts as all.
PageFails ==
  /\ monitor = "list" /\ page <= Len(Pages) /\ Incident
  /\ page' = Len(Pages) + 1
  /\ UNCHANGED <<console, monitor, collected, alarms, toVerify, verify, only, monitorRc>>
  /\ UNCHANGED <<seenWell, saidWell>>

\* The console rejects the token: the run ends without a report.
TokenRejected ==
  /\ monitor = "list" /\ page <= Len(Pages) /\ Incident
  /\ monitor' = "idle" /\ monitorRc' = 1
  /\ UNCHANGED <<console, page, collected, alarms, toVerify, verify, only, seenWell, saidWell>>

\* Mutant: the console is asked once more who is registered.
KnownHostsNow == {EndpointOf[a] : a \in registered}

KnownHosts == {EndpointOf[a] : a \in collected}
Unprotected == {[finding |-> "UNPROTECTED", host |-> h] : h \in Inventory \ KnownHosts}

\* evaluate, direction 1, and who is left to be asked.
Evaluate ==
  /\ monitor = "list" /\ page > Len(Pages)
  /\ alarms' = alarms \cup Unprotected
  /\ toVerify' = IF verify
                 THEN {h \in Inventory \cap KnownHosts : \A r \in alarms : r.host # h} ELSE {}
  /\ monitor' = "verify"
  /\ UNCHANGED <<console, page, collected, verify, only, monitorRc, seenWell, saidWell, incidents>>

\* local_agent_status: a host that cannot be asked is a mismatch as well.
VerifyHost(h) ==
  /\ monitor = "verify" /\ h \in toVerify
  /\ toVerify' = toVerify \ {h}
  /\ \/ /\ h \in guarded
        /\ saidWell' = saidWell \cup {h}
        /\ UNCHANGED <<alarms, incidents>>
     \/ /\ IF h \in guarded THEN Incident ELSE UNCHANGED incidents
        /\ alarms' = alarms \cup {[finding |-> "LOCAL_MISMATCH", host |-> h]}
        /\ UNCHANGED saidWell
  /\ UNCHANGED <<console, monitor, page, collected, verify, only, monitorRc, seenWell>>

\* Mutant: the exit code counts the rows.
EndMonitorCounting ==
  /\ monitor = "verify" /\ toVerify = {}
  /\ monitorRc' = Cardinality({r \in alarms : r.finding \in only})
  /\ monitor' = "idle"
  /\ UNCHANGED <<console, page, collected, alarms, toVerify, verify, only>>
  /\ UNCHANGED <<seenWell, saidWell, incidents>>

\* The rows of other kinds than asked for are dropped before they are counted.
EndMonitor ==
  /\ monitor = "verify" /\ toVerify = {}
  /\ monitorRc' = IF \E r \in alarms : r.finding \in only THEN 1 ELSE 0
  /\ monitor' = "idle"
  /\ UNCHANGED <<console, page, collected, alarms, toVerify, verify, only>>
  /\ UNCHANGED <<seenWell, saidWell, incidents>>

MonitorStep ==
  \/ \E a \in Agent : AgentChanges(a)
  \/ \E h \in Endpoint : HostChanges(h) \/ VerifyHost(h)
  \/ \E v \in BOOLEAN, kinds \in {CriticalKinds, {"INFECTED"}} : BeginMonitor(v, kinds)
  \/ ReadPage \/ PageFails \/ TokenRejected \/ Evaluate \/ EndMonitor

MonitorSpec == MonitorInit /\ [][MonitorStep]_mvars

-----------------------------------------------------------------------------
(* What must hold of it                                                    *)

\* "The console can only show you hosts it knows about": a run over all kinds
\* that ends with code 0 has read, of every host of the inventory, an agent that
\* was well, although agents come and go between the pages and although a page
\* that failed passes for the end of the list; and with --verify-on-host it has
\* heard the same from the host.
ZeroMeansCovered ==
  [][monitor = "verify" /\ monitor' = "idle" /\ monitorRc' = 0 /\ only = CriticalKinds =>
       /\ Inventory \subseteq seenWell
       /\ verify => Inventory \subseteq saidWell]_mvars
=============================================================================
