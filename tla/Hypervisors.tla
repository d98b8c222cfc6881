---------------------------- MODULE Hypervisors ----------------------------
(***************************************************************************)
(* What the clean-up and the decommissioning of compute nodes read and     *)
(* change: Nova's records of instances and services, Placement, Neutron's  *)
(* agents, and what libvirt and the file system of each node really hold.  *)
(* Nova moves all of it meanwhile.  External: modelled as far as           *)
(* orphaned_instance_cleanup.py and compute_node_decommission.py depend on *)
(* it.                                                                     *)
(***************************************************************************)
EXTENDS Integers, FiniteSets

CONSTANTS
  Host,          \* the compute nodes
  Instance,      \* instances that exist or may be created
  NoHost,        \* of an instance: nowhere
  Home,          \* [Instance -> Host or NoHost]: the active ones to begin with
  DrainedAtFirst,\* the hosts that are disabled to begin with
  MaxEvents      \* bound on invocations, builds, moves and mishaps together

ASSUME HypervisorsAssumption ==
  /\ NoHost \notin Host
  /\ Home \in [Instance -> Host \cup {NoHost}]
  /\ DrainedAtFirst \subseteq Host
  /\ MaxEvents \in Nat

VARIABLES
  at,         \* [Instance -> the host Nova records, or NoHost]
  vm,         \* [Instance -> vm_state; "none" before it is created]
  toward,     \* [Instance -> where it is being built or migrated to]
  domain,     \* [Host -> instances libvirt has a domain of]
  dir,        \* [Host -> instances with a directory on the node]
  svc,        \* [Host -> the nova-compute record]
  provider,   \* hosts with a resource provider in Placement
  agents,     \* hosts with Neutron agents on record
  member,     \* hosts in an aggregate
  back,       \* history: hosts whose daemons registered since a final verification began
  touched,    \* history: instances in motion since a clean-up last began
  events      \* how many of them there were

instances == <<at, vm, toward, domain, dir, touched>>
registry  == <<svc, provider, agents, member, back>>
hvars     == <<instances, registry, events>>

HypervisorsTypeOK ==
  /\ at \in [Instance -> Host \cup {NoHost}]
  /\ vm \in [Instance -> {"none", "building", "active", "shelved", "deleted"}]
  /\ toward \in [Instance -> Host \cup {NoHost}]
  /\ domain \in [Host -> SUBSET Instance]
  /\ dir \in [Host -> SUBSET Instance]
  /\ svc \in [Host -> {"enabled", "disabled", "gone"}]
  /\ provider \in SUBSET Host
  /\ agents \in SUBSET Host
  /\ member \in SUBSET Host
  /\ back \in SUBSET Host
  /\ touched \in SUBSET Instance
  /\ events \in 0..MaxEvents

HypervisorsInit ==
  /\ at = Home
  /\ vm = [i \in Instance |-> IF Home[i] = NoHost THEN "none" ELSE "active"]
  /\ toward = [i \in Instance |-> NoHost]
  /\ domain = [h \in Host |-> {i \in Instance : Home[i] = h}]
  /\ dir = [h \in Host |-> {i \in Instance : Home[i] = h}]
  /\ svc = [h \in Host |-> IF h \in DrainedAtFirst THEN "disabled" ELSE "enabled"]
  /\ provider = Host /\ agents = Host /\ member = Host /\ back = {}
  /\ touched = {}
  /\ events = 0

Event == events < MaxEvents /\ events' = events + 1

Live(i) == vm[i] \notin {"none", "deleted"}

\* What GET /servers?host=h returns.
On(h) == {i \in Instance : at[i] = h /\ Live(i)}

\* Placement holds an allocation from the moment the scheduler chose.
Allocated(h) == {i \in Instance : Live(i) /\ (at[i] = h \/ toward[i] = h)}

Schedulable == {h \in provider : svc[h] = "enabled"}

-----------------------------------------------------------------------------
(* Nova and the nodes                                                      *)

\* A build is scheduled; the host is on the record only once it is claimed.
Schedule(i, h) ==
  /\ vm[i] = "none" /\ h \in Schedulable
  /\ Event
  /\ vm' = [vm EXCEPT ![i] = "building"]
  /\ toward' = [toward EXCEPT ![i] = h]
  /\ touched' = touched \cup {i}
  /\ UNCHANGED <<at, domain, dir, registry>>

Claim(i) ==
  /\ vm[i] = "building" /\ toward[i] # NoHost
  /\ at' = [at EXCEPT ![i] = toward[i]]
  /\ toward' = [toward EXCEPT ![i] = NoHost]
  /\ dir' = [dir EXCEPT ![toward[i]] = @ \cup {i}]
  /\ UNCHANGED <<vm, domain, touched, registry, events>>

Spawn(i) ==
  /\ vm[i] = "building" /\ at[i] # NoHost
  /\ vm' = [vm EXCEPT ![i] = "active"]
  /\ domain' = [domain EXCEPT ![at[i]] = @ \cup {i}]
  /\ UNCHANGED <<at, toward, dir, touched, registry, events>>

\* The destination has a domain and a directory before Nova says so.
Migrate(i, h) ==
  /\ vm[i] = "active" /\ toward[i] = NoHost /\ h # at[i] /\ h \in Schedulable
  /\ i \in domain[at[i]] /\ i \in dir[at[i]]
  /\ Event
  /\ toward' = [toward EXCEPT ![i] = h]
  /\ domain' = [domain EXCEPT ![h] = @ \cup {i}]
  /\ dir' = [dir EXCEPT ![h] = @ \cup {i}]
  /\ touched' = touched \cup {i}
  /\ UNCHANGED <<at, vm, registry>>

\* libvirt is done: the guest runs at the destination alone.
Arrive(i) ==
  /\ vm[i] = "active" /\ toward[i] # NoHost
  /\ i \in domain[at[i]] /\ i \in domain[toward[i]]
  /\ domain' = [domain EXCEPT ![at[i]] = @ \ {i}]
  /\ UNCHANGED <<at, vm, toward, dir, touched, registry, events>>

Moved(i) == vm[i] = "active" /\ toward[i] # NoHost /\ i \notin domain[at[i]]

\* Nova's post-migration: the record follows the guest.
Record(i) ==
  /\ Moved(i)
  /\ at' = [at EXCEPT ![i] = toward[i]]
  /\ toward' = [toward EXCEPT ![i] = NoHost]
  /\ dir' = [dir EXCEPT ![at[i]] = @ \ {i}]
  /\ UNCHANGED <<vm, domain, touched, registry, events>>

\* Post-migration fails: the guest runs on, on a host that is not on record.
LoseRecord(i) ==
  /\ Moved(i)
  /\ Event
  /\ toward' = [toward EXCEPT ![i] = NoHost]
  /\ UNCHANGED <<at, vm, domain, dir, touched, registry>>

\* A migration is rolled back, with or without its traces at the destination.
RollBack(i) ==
  /\ vm[i] = "active" /\ toward[i] # NoHost /\ i \in domain[at[i]]
  /\ toward' = [toward EXCEPT ![i] = NoHost]
  /\ \/ /\ domain' = [domain EXCEPT ![toward[i]] = @ \ {i}]
        /\ dir' = [dir EXCEPT ![toward[i]] = @ \ {i}]
        /\ UNCHANGED events
     \/ Event /\ UNCHANGED <<domain, dir>>
  /\ UNCHANGED <<at, vm, touched, registry>>

\* An instance is deleted; when the node does not answer, Nova's record goes
\* and the domain and the directory stay.
Delete(i) ==
  /\ vm[i] \in {"active", "shelved"} /\ toward[i] = NoHost
  /\ vm' = [vm EXCEPT ![i] = "deleted"]
  /\ \/ /\ domain' = [domain EXCEPT ![at[i]] = @ \ {i}]
        /\ dir' = [dir EXCEPT ![at[i]] = @ \ {i}]
        /\ UNCHANGED events
     \/ Event /\ UNCHANGED <<domain, dir>>
  /\ UNCHANGED <<at, toward, touched, registry>>

\* A shelved instance keeps its directory, not its domain.
Shelve(i) ==
  /\ vm[i] = "active" /\ toward[i] = NoHost
  /\ vm' = [vm EXCEPT ![i] = "shelved"]
  /\ domain' = [domain EXCEPT ![at[i]] = @ \ {i}]
  /\ UNCHANGED <<at, toward, dir, touched, registry, events>>

\* An operator drains a node, or returns it.
Disable(h) ==
  /\ svc[h] = "enabled"
  /\ Event
  /\ svc' = [svc EXCEPT ![h] = "disabled"]
  /\ UNCHANGED <<instances, provider, agents, member, back>>

Enable(h) ==
  /\ svc[h] = "disabled"
  /\ Event
  /\ svc' = [svc EXCEPT ![h] = "enabled"]
  /\ UNCHANGED <<instances, provider, agents, member, back>>

\* The daemons of a node that still runs register it again, each for itself.
Reregister(h) ==
  /\ Event
  /\ \/ /\ svc[h] = "gone" /\ svc' = [svc EXCEPT ![h] = "enabled"]
        /\ UNCHANGED <<provider, agents>>
     \/ h \notin provider /\ provider' = provider \cup {h} /\ UNCHANGED <<svc, agents>>
     \/ h \notin agents /\ agents' = agents \cup {h} /\ UNCHANGED <<svc, provider>>
  /\ back' = back \cup {h}
  /\ UNCHANGED <<instances, member>>

HypervisorsStep ==
  \/ \E i \in Instance :
       \/ \E h \in Host : Schedule(i, h) \/ Migrate(i, h)
       \/ Claim(i) \/ Spawn(i) \/ Arrive(i) \/ Record(i) \/ LoseRecord(i)
       \/ RollBack(i) \/ Delete(i) \/ Shelve(i)
  \/ \E h \in Host : Disable(h) \/ Enable(h) \/ Reregister(h)
=============================================================================
