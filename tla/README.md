# Verification of cloud-automation-scripts

TLA+ models of the parts of this repository that change the state of a cloud
over many steps and must survive being interrupted, TLC configurations that
check them on small instances, and proofs, checked by TLAPS, that the properties
that matter most hold for every instance.

    tlc  -config BmmFull.cfg MCBmm      # one run; the others are in the table below
    tlapm BmmProofs.tla                 # the proofs of one module

Contents: [the system](#1-the-system), [the modules](#2-the-modules),
[the runs](#3-the-runs), [the proofs](#4-the-proofs),
[what the checks found](#5-what-the-checks-found),
[what is not modelled](#6-what-is-not-modelled), [the plan](#7-the-plan).

## 1. The system

The repository is a toolbox: stand-alone Python scripts and Ansible playbooks
that an operator, a cron job or Airflow starts. None of them is a server. State
lives in three places: the cloud they act on (Nova, Neutron, Glance, the Azure
Network Cloud provider, a Ceph cluster, a Kubernetes API server, vCenter), files
they leave for the next invocation (journals, backups, restore points), and the
memory of one invocation. What is hard about them is the same everywhere: the
cloud moves while they work, a call fails or takes effect after they stopped
waiting for it, the process dies between two steps, and somebody runs it again.

### Components that change state

| Component | State it keeps | Operations | Interacts with | What must hold |
|---|---|---|---|---|
| **Nexus BMM maintenance driver** `azure/operator-nexus/python/nexus_bmm_maintenance.py` | a JSON journal of (machine, step) pairs; the cursor of one invocation | cordon, power_off, power_on, wait_ready, uncordon, verify per machine; resume | long running operations of the Network Cloud provider; `nexus_common` for listing and health | the rack keeps its floor; a machine that is off can be resumed; the report tells the truth; one machine at a time; an invocation ends |
| **Nexus quarterly maintenance playbook** `nexus_quarterly_maintenance.yml` | health snapshots before and after, as files | pre-check, snapshot, driver, wait, snapshot, diff | calls the driver and the health scripts | the diff compares with the state before the shutdown |
| **VMware to OpenStack migration** `openstack/python/vmware_to_openstack_migrate.py` | a JSON journal of phases and artifacts; VMDKs and the converted disk in a staging directory | assess, snapshot, export, convert, upload, provision, validate, cutover; `--resume`, `--dry-run` | vCenter (govc), qemu-img, Glance, Neutron, Nova | the source is not powered off before something serves in its place; its addresses are on one instance; a clean report is true |
| **Compute node drain** `openstack/python/compute_node_drain.py` | the plan of one invocation | plan, capacity check, disable, live-migrate and wait, undrain | Nova's scheduler and migrations; Placement through `common.host_capacity` | exit code 0 means the node may be rebooted; every drain ends |
| **Compute node maintenance** `openstack/ansible/compute_node_maintenance.yml` | none of its own | drain, confirm, stop, patch, reboot, start, undrain | runs the drain script; systemd and libvirt of the node | a node is rebooted empty, and returned to the scheduler |
| **Migration waves** `airflow/dags/compute_migration_dag.py` | Airflow task instances: states, retries, pool slots | region gate; per host assess, drain, maintain, verify, move_to_aggregate; summary | runs the three above and `upgrade_preflight.py`; several hosts at once | no node is lost on the way; the summary tells the truth; the wave ends |
| **Compute node decommission** `openstack/python/compute_node_decommission.py` | the findings of one run | verify drained, leave aggregates, delete service, agents, resource provider, verify | Nova, Neutron, Placement | exit code 0 of a complete run means nothing is left on the node |
| **Orphaned instance cleanup** `orphaned_instance_cleanup.py` | the findings of its listings | list domains, instances and directories of each host, join, report, confirm, remove | libvirt over ssh, Nova | nothing of an instance in service is removed |
| **Orphaned resource audit** `orphaned_resource_audit.py` | the findings of its listings | five finders, report, confirm, delete | Cinder, Neutron, Glance, Nova | what is deleted was not in use |
| **Network onboarding** `network_onboarding.py` | a YAML spec | validate, apply (network, subnets, router, interfaces, security group), delete | Neutron | running it again completes what an earlier run began; a teardown spares what others use |
| **OpenStack service restart** `openstack_k8s_service_restart.yml` | none | rollout restart, wait | the deployment controller | the wait sees the new generation |
| **Certificate rotation** `security/ansible/cert_rotation.yml` | dated backups on each host | check, back up, install, reload, verify; rollback | the TLS services of the hosts | nothing is replaced unsaved; certificate and key match; a rollback restores what was there |
| **Calico policy update** `kubernetes/ansible/calico_gnp_update.yml` | a dated backup directory | back up, validate, apply, verify, automatic rollback | Kubernetes API server, calico-node | a failed update leaves the policies as they were |
| **Ceph OSD throttle** `storage/python/ceph_osd_throttle.py` | a restore point file | apply a profile, `--restore` | Ceph's config database and health | restore gives back the values before the first throttle |
| **AKS upgrade, Azure stack and VM baseline, host roles** | none | linear lists of idempotent calls | Azure, Ansible modules | left to Ansible and the provider |

### Components that only read

Modelled, because what they say is acted on and their inputs move while they
read: `nexus_bmm_health.py` (the readiness gate of a maintenance window),
`upgrade_preflight.py` (where it gates a wave), `ntp_health_check.py`,
`sentinelone_agent_monitor.py`, `pure_upgrade_preflight.py`. Not modelled:
`nexus_disk_network_audit.py`, the cluster and workload health roles,
`hypervisor_capacity_report.py`, `security_group_audit.py`,
`numa_topology_audit.py`, `prometheus_exporter.py` (a loop over collectors),
`calico_policy_audit.py`, `firmware_validate.yml`, and the Azure audits: each
reads one listing and prints a table.

### How components interact

    Airflow DAG --gate--> upgrade_preflight.py
        | per host, in a pool
        +--> compute_node_drain.py (dry run, then for real) --> Nova
        +--> compute_node_maintenance.yml --> compute_node_drain.py (again, and --undrain)
        +--> hypervisor_capacity_report.py
    quarterly playbook --> nexus_bmm_health.py, nexus_bmm_maintenance.py --> Network Cloud
    operator --> vmware_to_openstack_migrate.py --> vCenter, Glance, Neutron, Nova
    operator --> orphaned_instance_cleanup.py --> libvirt <-- Nova --> compute_node_decommission.py
    cron or operator --> each of the other tools --> its own service

All interaction is through exit codes and the cloud's state. The only true
concurrency inside the repository is the wave (several hosts at once); every
other script is concurrent with the cloud, with users, and with its own
leftovers: operations it started and no longer waits for. The clean-up and the
decommissioning share the compute nodes and Nova's records with one another; the
network, resource, Ceph, NTP, SentinelOne and FlashArray tools share nothing.

### Hard behaviours

`PROJECT.json` lists them at their lines, with the properties that watch them.
In short: listings that are acted on minutes or hours later (BMM peers and
tenants, drain capacity, orphans), journals written after the fact and truncated
before they are rewritten (BMM, VM migration), outcomes journalled without being
looked at (VM migration), timeouts after which the operation goes on (BMM power
operations, live migrations), retries of a whole playbook over a half-changed
host, restore points taken over changed values, two listings that are joined
although they never saw one moment, names that two objects answer to, and calls
that fail and are taken for an empty answer (pages of agents, time sources,
agents and providers of a node).

## 2. The modules

| Module | Models | Lines |
|---|---|---|
| `MaintenanceWindow` | abstract: what a maintenance window promises about powered-on and pooled machines | 50 |
| `BmmMaintenance` | the BMM driver and the provider; implements `MaintenanceWindow` | 500 |
| `VmMigration` | the VM migration, its journal, and the cloud's answers | 490 |
| `ComputeDrain` | the drain script, for any number of hosts at once, and Nova | 250 |
| `MigrationWave` | EXTENDS `ComputeDrain`: region gate, tasks, pool, retries, playbook, summary | 350 |
| `BmmHealth` | EXTENDS `BmmMaintenance`: the readiness report as a predicate of the same machines | 50 |
| `Hypervisors` | external: Nova's records, Placement, agents, and what each node really holds | 200 |
| `OrphanCleanup` | EXTENDS `Hypervisors`: reconcile and clean | 200 |
| `Decommission` | EXTENDS `Hypervisors`: the stages and the final verification | 200 |
| `Region` | composes `OrphanCleanup` and `Decommission` over one `Hypervisors` | 20 |
| `NetworkOnboarding` | validate, apply and tear down, several specs at once, and Neutron | 490 |
| `ResourceAudit` | the five finders and the deletion, and the region's users | 230 |
| `OsdThrottle` | profiles, restore points, restores | 230 |
| `NtpHealth` | hosts that poll their sources, and the sweep that grades them | 290 |
| `AgentMonitor` | the console's pages, the comparison and the verification on hosts | 200 |
| `PureUpgrade` | the checks before an array upgrade, and the paths they count | 230 |
| `CertRotation` | one host's certificates, keys and backups through rotations and rollbacks | 260 |
| `PolicyUpdate` | backup, ordered application, verification and rollback of policies | 260 |
| `MCBmm`, `MCVm`, `MCWave`, `MCRegion`, `MCTools`, `MCOnboarding` | instances for TLC | |
| `BmmProofs`, `VmProofs`, `WaveProofs`, `RegionProofs`, `OnboardingProofs`, `ToolProofs`, `SecurityProofs` | theorems of one component, or of a few that are alike | |
| `TogetherProofs` | theorems of `MCTools`: what holds of a tool by itself holds in the run of all | |

### BmmMaintenance

A *driver* is a change record: its journal (`completed`, `torn`) and the
invocation running for it (`pc`, `phase`, `cur`, `pos`, `seen`, `rows`). `Start`
is `main` up to the loop over machines, `SkipStep` the check of the journal,
`CheckHeadroom` and `Blocked` the two outcomes of `rack_has_headroom` before a
power-off, `IssueOperation` a `begin_*` call, `StepOk` and `StepFailed` the
result of `wait_for`, `Leave` the end of a machine and `--keep-going`. The
provider is external: at most one operation `op[m]` per machine, which takes
effect or is rejected at any later moment, whether or not the driver is still
waiting; a second one on a busy machine is refused.

The journal is modelled as it behaves. An entry is made after a step has
succeeded, so `Crash` loses the step in progress. `flush` truncates the file
before it writes it: `CrashInFlush` leaves a file that is not JSON, and from then
on every start raises until the operator removes it (`DiscardJournal`), after
which all steps run again. `seen` is the listing of `main`, taken before the
confirmation. Node readiness, detailed status and hardware validation are one
variable, `node`.

### VmMigration

`todo` is the rest of the phase list, `pc` where the invocation is inside a
phase. Each phase has one action per outcome. `Report` adds a row *and* chooses
what is about to be journalled; `Record` is a step of its own, because the
process may die between the two. The status that is journalled is the code's:
"ok" for snapshot, provision, validate and cutover whatever their rows say;
only export, convert and upload look at their result.

Of the journal's artifacts only the image path needs a variable (`nullPath`): a
convert that failed, or was dry, records null for it. The inventory and the image id
are present exactly when assess and upload are in `completed`, and the directory is
always the same. `Lacks` are the phases that raise for want of an artifact: a
`KeyError`, `Path(None)` after such a convert, and for a real upload also the
directory that `Path("")` is; so does the `image.id` of a provision without an upload
(`NoImage`). A dry run of the full list therefore always ends with an exception at
upload, unless convert had been done for real before: the model has this behaviour,
no property is about it.

Contents of disks are "none", "partial" or "whole", passed on from the VMDK to
the converted disk, the image and the instance. Data disks are not migrated by
the code (its TODO at line 270), and not modelled. A failed export ends nothing: what
it left of the disk is converted, uploaded and served, and `exportFailed` remembers
that this may be so (a history variable; the program keeps no such record). `ports`
is the set of NICs that have a port; with `preserve_mac` a second port for a NIC is
refused, and with `preserve_ip` (`keepIp`) every port but the first, because all of
them ask for the guest's first address (`InUse`). The operator's manual rollback
(`govc vm.power -on`) is left out, so that "the source is off" is what the script
did.

### ComputeDrain and MigrationWave

`drain[h]` is the program counter of the script for host *h*; any number of
scripts may be running. The capacity check (`CheckCapacity`), the disabling
(`Disable`) and every migration are separate steps, so that drains interleave.
Placement counts a migrating instance on both its hosts (`Claimed`), and so does
the model; flavors are one slot each. `Landed` and `GivesUp` are the exits of
`wait_for_migration`; a migration that is still going when the script gives up
goes on (`Stray`).

`MigrationWave` gives every host a task (`task`), Airflow's retries (`tries`),
and the playbook's program counter (`play`). The playbook's first task runs the
same script through the same variables. `PlayBreaks` is a failing playbook task,
`ScriptDies` an execution timeout or a lost worker: both leave the host as it is
and Airflow runs the playbook from the start or fails the host. `Summarize` looks
at the verify tasks alone, as the code does: a host that failed in
move_to_aggregate counts as completed. A closed gate skips the summary too.

A script that breaks off, without a connection or with an exception, exits with 1,
and for the gate and for assess that is the code for warnings: `GateOpensUnchecked`
starts the wave without a check, and `Assess` goes on to the drain with an empty
plan. Only a timeout, or a task that dies, makes them fail (`GateFails`). The gate
counts with `MaxParallelDrains`, Airflow with `PoolSlots`; they are configured
apart.

### BmmHealth

`maintenance_readiness` reads one listing and changes nothing, so it is an
operator over the state of `BmmMaintenance`: any moment of any window may be the
moment of the report. `GoCanStart` compares it with what the driver would do.
The two count differently: the report counts all healthy machines of a rack,
`RackHasHeadroom` the others. With exactly the floor's number of healthy machines
the report says GO and the driver then blocks every machine; the property states
what is left when the rack has one to spare.

### Hypervisors, OrphanCleanup, Decommission, Region

`Hypervisors` keeps apart what Nova records (`at`, `vm`, `svc`, `provider`,
`agents`, `member`) and what is on the nodes (`domain`, `dir`), because the
clean-up exists for the cases where they differ. A build puts the host on record
before there is a domain, a live migration puts a domain and a directory on the
destination before the record follows, post-migration may fail and leave the
guest off the record (`LoseRecord`), a delete may leave traces.

In `OrphanCleanup` each listing is a step: `ListDomains`, `ListInstances`,
`ListDirs`, then `Join`, which asks every listed domain for its UUID and loses
those that do not answer. `clean` works through the rows of one kind without
another look (`CleanDomain`, `CleanDir`). `virsh destroy` and `virsh undefine`
are the four outcomes of `CleanDomain`, among them a guest that goes on running
undefined and counts as cleaned. `touched` is history: what was in motion since
the clean-up began.

In `Decommission` a stage may be left out (`Pass`), declined, refused or failed;
a call that fails may have been carried out. The listings outside a `try` block
end the run (`Traceback`). Every listing is a step: the two of `verify_drained`
(`Verify`, `VerifyService`) and the four of `final_verification` (`FinalServices`,
`FinalAgents`, `FinalProvider`, `FinalVerification`), and the daemons of the node,
each for itself, may register it again between any two (`Reregister`; `back` is
history: whether they have since the final verification began). Agents and
providers that cannot be listed count as gone, as in the code. `FinishedIsEmpty`
says what code 0 of a complete run is worth all the same: the node is in no
aggregate, and unless its daemons came back while the run was looking there is no
service and no allocation, because Placement itself refuses to delete a provider
with allocations and a stage that failed is remembered (`stageFailed`).

### NetworkOnboarding

A *blueprint* is a YAML spec; each has at most one run, several may work at once.
Neutron's names are not unique, so an object is the pair of its name and the spec
whose run made it, and every lookup by name may find none, one, or be ambiguous
(a traceback). Lookup and creation are two steps (`LookInVain`, then the apply
action). What Neutron refuses (a VLAN in use, an overlap in one network, anything
to be deleted that a port uses) ends the run, except for an interface, whose refusal
is a SKIPPED row. A teardown that is not confirmed (`Abort`) ends with code 0. Two
variables are history: `cut`, the groups whose run died while it made their rules,
and `skipped`, the specs whose interfaces could not all be attached.

`AppliedIsThere` is what code 0 of an apply is worth. `RerunCompletes` states of the
rules what the docstring says of all: a group that was cut stays incomplete for
ever, and is called EXISTS by every later run (`onboarding_rerun`).

### The tools and playbooks that share nothing

`ResourceAudit` follows age in days up to `MinAge`. The finders of snapshots and
of images make two listings; that no day goes by between them (the listings are
seconds apart, `--age-days` is in days) is what makes them safe, and the mutant
that is one day short breaks it. `OsdThrottle` has one step per `config set`, and
a set that fails may have been carried out; restore points are files named by the
second. Ctrl-C ends a run with code 0, as the handler in the last lines of the script
does, or with 1 (`Interrupted`). `NtpHealth` keeps the register as the code computes
with it, an integer whose ones (`Ones`) are counted bit by bit, and the last eight
polls as history to compare it with. An offset is printed with two digits up to the
threshold and one above it, and the comparison reads the text (`Printed`); numbers
are in units small enough for either digit (`Fine`, `Coarse`). `AgentMonitor` pages through
agents that come and go; a page that fails ends the listing. `PureUpgrade` has one action
per check and a history of what was read; the paths of all LUNs of a client are
counted together, as in the code, on an array with any number of ports.

`MCTools` runs one of these, or of the two playbooks below, in each behaviour
(`tool`); the others stay in their initial state, so the behaviours are those of
each by itself. (They are in one run because they ask the same kind of question
and share nothing; each can be checked alone with its own `Init` and step.)

A loop of Ansible is one step in `CertRotation`: `F` is the set of items that fail
for no fault of the bundle, the others are carried out, and a failure ends the
host's play without its handlers (`GoOn`). The bundle holds for every path one of
seven kinds of file, of which the asserts reject two: the key of a "sealed" one
cannot be read (it is encrypted, say), which fails nothing, and it is then not
compared with its certificate, whether it belongs to it or not. A certificate is the number
of the rotation that brought it; `backups` are pairs of path and version, which
is what the dated names and the kept modification times amount to. The playbook
needs `--tags rotate`: with the commands of its header, which name no tag, the
second play is skipped (its tag is also `never`), and nothing is rotated or
rolled back.

`PolicyUpdate` has one step per policy, because the dataplane sees each at once.
A policy is a set of sections with versions, and the sections last applied (the
annotation that `apply: true` compares with), so that the difference between
applying and merging can be seen. `saved` are the backup files, any of which a
later run may be given. Which order the files have is open when the sort is off.
The API server refuses calls, and may have carried them out. That a merge with a
stale `resourceVersion` may be refused outright is one of these.

## 3. The runs

| Run | Config | Expected | States | What it shows |
|---|---|---|---|---|
| `bmm_full` | `BmmFull.cfg` | pass | 69,766 | `--phase full` over a rack of three with a floor of two |
| `bmm_split` | `BmmSplit.cfg` | violation of `RowOkMeansBack` | | shutdown and restore windows under one journal |
| `bmm_stuck` | `BmmStuck.cfg` | violation of `OffComesBack` | | a power-off that errors yet takes effect |
| `bmm_tenants` | `BmmTenants.cfg` | violation of `EvacuatedBeforeOff` | | a tenant placed after the listing |
| `vm_migrate` | `VmMigrate.cfg` | pass | 691,445 | the whole migration, resumed at will |
| `vm_resume` | `VmResume.cfg` | violation of `ResumePicksUp` | | a failed provision is passed over |
| `wave` | `Wave.cfg` | pass | 19,626 | two nodes one at a time, a spare node |
| `wave_reboot` | `WaveReboot.cfg` | violation of `RebootOnlyEmpty` | | two drains at once |
| `region` | `Region.cfg` | pass | 2,792,075 | a clean-up and a decommissioning in a region that moves |
| `region_missing` | `RegionMissing.cfg` | violation of `MissingIsLeftAlone` | | a guest on a host that is not on record |
| `tools` | `Tools.cfg` | pass | 1,347,268 | eight tools and playbooks, one per behaviour |
| `onboarding_rerun` | `OnboardingRerun.cfg` | violation of `RerunCompletes` | | a run that was cut is repeated |

**bmm_full** checks `TypeOK`, `PowerFloor`, `OffIsResumable`, `RowOkMeansBack`,
`OneAtATime`, `GoCanStart`, the refinement `ImplementsWindow`, and two liveness properties:
`RunEnds`, and `JournalledOffComesBack`: a machine whose power-off is in the
journal comes back when the operator keeps resuming, without `--keep-going`.
*Bounds*: three machines are the fewest where, with a floor of two, one may be
off and a second may not; one fault (an error, timeout, crash, torn journal,
rejected operation or node fault, anywhere) and one tenant placed. One fault is
enough for an operation to outlive its driver, and for the driver to come back
while it is in flight; two faults in different machines interact only through
the headroom count, which the proofs cover for any number.

**vm_migrate** checks `TypeOK`, `CleanRunServes`, `OneInstance`,
`OffOnlyWithDisk`, `RunEnds`. *Bounds*: two NICs, so that provision can die with
one port made; three faults, enough to lose an export, then a port, then the
process; both `preserve_mac` values, dry runs and real ones, the full list,
`--assess-only`, and `--phase provision,validate` for an operator who repeats
the last phases by hand. Lists that reach cutover without the phases before it
are the operator's own order and are left to the theorem that characterises them
(`SourceOutlivesUpload`).

**wave** checks `TypeOK`, `SuccessMeansBack`, `OutIsAccountedFor`,
`RebootDisabledEmpty`, `WaveEnds`. *Bounds*: two nodes and a spare one, with an
instance each; a fourth, which is shut off and so not live-migratable, may be
created at any moment wherever the scheduler likes. The slots are so few that
its creation decides whether the gate opens and whether a drain finds capacity.
Two failures, so that a retry can fail too; one migration that outlasts its
wait; one retry per task, as in the DAG; a pool of one slot, so that the drains do
not overlap: `wave_reboot` has two, and the theorems any number.

**region** checks `TypeOK`, `SettledIsSafe`, `FinishedIsEmpty`. *Bounds*: two
hosts, one to move to and one that is retired and disabled to begin with; two
instances, one on the retired host and one that may be created. `MaxEvents` is
three: it counts invocations, builds, migrations, losses and failed calls
together, enough for a clean-up, a migration or a build under it and one failure,
or for two invocations and a build. More of each adds nothing new to one listing;
the theorems hold for every number.

**tools** checks `ToolsTypeOK`, the type invariants of all of them, and

* onboarding: `AppliedIsThere`, `NoOverlapAlone`, `DeleteSparesOthers`,
  `DeletedIsGone`, with three specs, of which two use one router and one security
  group and two have subnets that overlap; three runs and one failed call: an
  apply that is cut, its repetition, and a teardown;
* resource audit: `DeletedWasIdle`, with a volume, its snapshot, a port and an
  image, a minimum age of one day and four events;
* throttle: `UndoIsThere`, `RestoredExactly`, with two operators, two keys with
  two values, two profiles, a clock of two seconds and three events: enough for a
  profile over a profile within one second, and a restore of either;
* NTP: `LossIsGraded`, `SkewIsReal`, with two hosts and one source each, four
  polls and two upsets: up to four missed polls is where the grade changes, and
  offsets of 99.99, 299.951 and -1200 ms, which lie on either side of the threshold
  of 100 ms, are less than 200 ms apart before they are rounded and more after;
* agent monitor: `ZeroMeansCovered`, with two hosts, three agents (one host was
  reinstalled) on two pages and three events: a run, a page that fails or an agent
  that changes, and one more;
* array: `GoSurvivesRestart`, with one client, two LUNs, two ports on one
  controller and one on the other, and four mishaps: a run, three paths lost, so
  that a LUN may keep a single path beside one with three;
* certificates: `RotatedIsWhole`, `FirstIsUndone`, `InstallSaves`, with two
  certificates, so that one copy may fail and the other not; two rotations and two
  rollbacks, the fewest where "previous" and "first" differ and a rollback may be
  repeated; two failures;
* policies: `BackupIsBack`, `OthersUntouched`, `OrderedAllowsFirst`, with a
  cluster-wide deny, its allow and a namespaced policy; six directories that add,
  change, drop a section of, and leave out each of them; three runs: an update,
  another, and a return to either's backup; two failures.

`UndoIsThere`, `RestoredExactly`, `AppliedIsThere`, `NoOverlapAlone` and
`DeletedIsGone` speak of runs that had the region for themselves (`byOneself`,
`alone`); nothing in the code keeps two apart, and without that hypothesis TLC
finds each of them violated.

**Fairness.** A driver, a script and a playbook run on by themselves (weak
fairness on what the process does next): every wait in the code has a deadline.
The provider ends what it has accepted, Nova ends builds and migrations. Airflow
starts what is due. The operator resumes a window that is not done: assumed only
in `bmm_full` and `bmm_stuck`, and used only for machines that have to come back.
No failure, crash, timeout or placement is ever fair. `ScriptDies`, `PlayBreaks`,
`GateFails` and the like are bounded by `MaxFaults`, so that "ends" is not
postponed for ever by an endless series of them. The runs `region` and `tools`
check safety only: these tools and playbooks make a bounded number of calls and
wait for nothing, so that they end is not in question.

**Deadlock** is checked in the runs of `MCBmm`, `MCVm` and `MCWave`. A wave that is
over stutters (`Over`); the other two systems can always be started again. The
others really stop: an operator starts them a
bounded number of times, and no process waits for another.

Every property of a passing run has a mutant in `PROJECT.json`: the definition
it depends on, replaced by a plausible bug (named `...OffByOne`, `...GoesOn` and
so on, next to the definition it replaces), makes TLC report it.

## 4. The proofs

All proofs are for arbitrary constants under the named assumptions of the
modules, and for `Spec` without fairness.

**BmmProofs** — `Typing`, `FloorHolds` (`PowerFloor`), `Resumable`
(`OffIsResumable`), `Refinement` (`BmmMaintenance` implements
`MaintenanceWindow`) and `GoMeansReady` (`GoCanStart`), for any machines, racks,
floor and number of change records. All but `Typing` have two hypotheses: `FullOnly` (windows are run with `--phase full`;
without it `bmm_split` is a counterexample) and `RacksApart` (no two change
records have machines of one rack: each invocation checks the headroom of the
rack without knowing of the other's power-offs). None of the safety properties is
inductive: a power-off takes effect long after its headroom check, perhaps after
the driver has died. The invariant `IInv` adds

* `JournalInv`: what the journal says of a machine against its state;
* `PositionInv`: what the position in the phase implies about the machine;
* `HeldInv`: an operation in flight, and what it still allows to change;
* `FloorInv`: whenever a machine is off, is being powered off, or has passed its
  headroom check, the machines of its rack of which none of this is true are
  enough for the floor.

The same module has `RowsTellTheTruth` (`RowOkMeansBack`) and `OneMachineAtATime`
(`OneAtATime`), under the same hypotheses. `IInv` says nothing of rows; `RInv`
adds that a machine with a journalled uncordon is back and nothing is about to
take it out (`BackInv`), what a row "ok" stands for when the journal is torn
later (`RowInv`), and that without `--keep-going` the machines before the one at
hand are done (`CurInv`).

**VmProofs** — `Typing`; `AddressesStay` (`OneInstance`, for at least one NIC);
`SourceOutlivesUpload` (`OffOnlyWithDisk`, when no `--phase` list has a cutover
that is not preceded by an upload). `OneInstance` needs that an instance is
created only after a port was made for every NIC in the *same* invocation, while
ports are never given back; `OffOnlyWithDisk` needs that whatever keeps upload
out of the journal also ends the invocation before cutover, and that half a disk,
wherever it has got to, comes from an export that failed or was cut short
(`HalfIsKnown`).

`CleanRunHolds` is `CleanRunServes`, under the hypothesis `ListsInOrder`: the lists
given with `--phase` keep the order of `PHASES`. The default list does, and the code
runs any other as it stands; one that converts before it exports would report "OK"
throughout and boot a disk that is not the source's. What has to be excluded is that
a clean invocation takes for its own what an earlier one, cut anywhere, left in the
staging directory, in Glance or in Nova. `CleanInv` follows the disk from row to
row: what is in the report is behind the phases that are still to do (`OrderInv`),
each product is whole once the row of its phase says so (`DiskInv`), the last
instance is the one this invocation made (`ServerInv`), and validate has seen it
alone and active (`ValidInv`).

**WaveProofs** — `Typing`, `NodesAccountedFor` (`OutIsAccountedFor`) and
`SummaryTellsTheTruth` (`SuccessMeansBack`), for any region, wave, pool size and
number of retries and failures, and any number of drains at once. The invariant
`IInv` ties together the task of a host, the script and the playbook that run
for it (`ScriptInv`, `PlayInv`), and nova-compute (`DownInv`).

`PoolIsKept` says that the hosts at work (a drain or a maintain task running) never
outnumber the pool's slots. With one slot, then, one host is at work at a time, and
that is what `DisabledNodesAreEmpty` (`RebootDisabledEmpty`) rests on; that there is
one slot and no migration has outlasted its wait are premises of the property
itself (with two slots TLC finds it violated). The argument is about
what may still be on its way to a node:
every migration under way has a script that waits for it (`AwaitedInv`); when a node
was disabled no other script was waiting, and the scheduler sends nothing to a
disabled node, so nothing is coming (`ShunnedInv`); so a drain that has listed it
and found it empty is right until the reboot (`EmptyInv`).

**RegionProofs** — `TypeCorrect`, `SettledInstancesSurvive` (`SettledIsSafe`) and
`FinishedHostsAreEmpty` (`FinishedIsEmpty`), for any hosts, instances and events,
with the clean-up and the decommissioning interleaved. `CleanupInv` says that what
is on its way has been noted (`MotionInv`), that instances which have not moved
are known once they are listed (`SeenInv`), and that no row would remove one
(`RowsInv`, `IdleInv`); `HandInv` is the type of the host in hand. `ProviderInv` is
Placement's refusal to delete a provider in use, `StagesInv` what a complete run
has done when it comes to its final stage: nothing is allocated on the node, and
nothing will be before its service is registered again; `LookedInv` that a service
which was not listed is still gone, or its daemons have come back since.

**OnboardingProofs** — `OnboardingTypeCorrect`, `NothingOverlaps`
(`NoOverlapAlone`), `OthersAreSpared` (`DeleteSparesOthers`), `TornDownIsGone`
(`DeletedIsGone`) and `AppliedStays` (`AppliedIsThere`), for any specs, runs and
failed calls. `AppliedStays` has the hypothesis `NamesApart`: no two specs of
different networks use one subnet name. It is necessary: the script looks a
subnet up by its name alone and takes one of another network for its own, and
TLC finds `AppliedIsThere` violated without it. The invariant says
where in its spec a run is (`PlaceInv`), that everything bears a name of the spec
that made it (`NamesInv`), that nobody else is at work while a run is alone
(`LoneInv`), that its checks still hold when it creates (`CheckedInv`), and what a
teardown has removed (`TeardownInv`); for `AppliedStays` also that what was looked for
in vain is wanted (`AbsentInv`), which groups have all their rules (`GroupsInv`),
what a run has in hand (`HeldInv`), and what has been applied so far (`AppliedInv`).

**ToolProofs** — *resource audit*: `AuditTypeCorrect`, `OnlyIdleDeleted`
(`DeletedWasIdle`), for any resources and a minimum age of at least one day;
`WatchInv` says that what is unused has been seen to be, `TwoListingsInv` that no
day goes by between the listings of a finder, `OrphansInv` that a row stands for
something that was unused. *Throttle*:
`ThrottleTypeCorrect`, `UndoAtHand` (`UndoIsThere`), `RestoreIsExact`
(`RestoredExactly`), for any operators, keys and profiles; `AloneInv` says that
the configuration of a run by itself is the one it noted, `PointsInv` that its
restore point is true, `RestoreInv` how far a restore has come; a restore that is
interrupted promises nothing, whatever its code. *Array*: `PureTypeCorrect`,
`GoIsSafe` (`GoSurvivesRestart`); `VerdictInv` says
that GO is a verdict without findings, and that too few paths among what was read are
a finding; `NoneIsHidden` is the counting argument: with two paths per LUN in the sum
and no LUN with more than two, none has fewer. *Time*: `NtpTypeCorrect`, `LossIsTold` (`LossIsGraded`) and
`SkewAlarmsAreReal` (`SkewIsReal`), for any finite sets of hosts and sources and any
number of polls and upsets. The register needs no induction over the number of
polls: `RegisterInv` says that it is the binary number of the last eight answers,
and one poll keeps that (`PollShifts`); `DigitOfRegister` and `OnesAreAnswers` then
give that the bits counted by the code are those polls. For the skew, the smallest
and the largest of the offsets compared are offsets of hosts that were read
(`OffsetsInv`), up to half a unit of the last digit (`RoundedIsNear`), and two numbers
without their signs are no further apart than the numbers (`AbsApart`). So an alarm
may be false, but by no more than the rounding of two offsets.

**SecurityProofs** — *agent monitor*: `MonitorTypeCorrect`, `ZeroIsEarned`
(`ZeroMeansCovered`), for any pages and agents that come and go; `ReadInv` (what
was read was well, or alarmed) and `EvaluatedInv` (a host is known, or alarmed).
*Certificates*: `CertTypeCorrect`, `NothingIsLost` (`InstallSaves`),
`RotationIsWhole` (`RotatedIsWhole`), `FirstCanBeUndone` (`FirstIsUndone`), for any
finite set of certificates; the invariant has one part per stage of the play
(`BundleInv`, `SavedInv`, `InstalledInv`, `KeysInv`), and `FreshInv` and `FirstInv`
for what backup_dir holds until the second rotation. *Policies*:
`PolicyTypeCorrect`, `BackupComesBack` (`BackupIsBack`), `OthersAreLeftAlone`
(`OthersUntouched`), `AllowsComeFirst` (`OrderedAllowsFirst`), `BackedUpBefore`
(`BackedUpFirst`), for any policies, orders and directories; `FetchedInv` is what
is known of the backup, `LoopInv` how far the sorted loop has come, `BackInv` the
same of the loop over a backup.

**TogetherProofs** — `EachByItself`: a behaviour of `MCTools` is a behaviour of the
specification of each of the eight tools, for what one of them does leaves the
variables of the others as they are. So every theorem above about a tool is one
about the run `tools`, too; `ToolsTypeCorrect` (`ToolsTypeOK`) is their type
invariants put together in this way. `BackedUpFirst` is left to its theorem; the
run does not check it.

**Model-checked only.** Liveness (both `RunEnds`, `JournalledOffComesBack`,
`WaveEnds`): fairness and ENABLED are out of the prover's reach. Every safety
invariant and action property of a passing run is a theorem, under the hypotheses
named above. The properties of the runs that expect a violation are, of course,
not.

## 5. What the checks found

1. **A split window can report a machine as restored while it is off**
   (`bmm_split`). Steps are journalled by machine and step and never cleared. A
   second shutdown under the same journal skips what the first window and its
   restore left behind.
2. **A power-off that errors yet takes effect can leave a machine off for good**
   (`bmm_stuck`). The step is not in the journal, so a resume asks for headroom
   again, for a machine that is already off; with `--keep-going` its peers may be
   cordoned by then, and no invocation gets past the check.
3. **A tenant placed during the window is not evacuated** (`bmm_tenants`): the
   decision comes from the listing at the start.
4. **A failed provision is journalled as done** (`vm_resume`). In the trace one
   port cannot be created: provision and validate are journalled "ok" over their
   FAIL rows, cutover powers the source off, and the resume passes over
   provision. The report is printed only after the last phase, so the operator
   who confirms the cutover has not seen the rows.
5. **A node may be rebooted under an arriving instance** (`wave_reboot`). With two
   drains at once, the first can migrate an instance to the second node just
   before that one is disabled; neither the drain's last listing nor the
   playbook's domain check shows it. The same property fails for a node that is
   empty from the beginning: the script calls it "safe to take offline" without
   disabling it, and the scheduler may still use it.
6. **One report may call a guest missing on one host and an orphan on another**
   (`region_missing`). An instance that Nova lost track of after a migration is
   MISSING_DOMAIN where it is on record and ORPHAN_DOMAIN where it is; the
   report does not join the two, and cleaning the orphans destroys its only
   guest.
7. **Running the onboarding again does not complete it** (`onboarding_rerun`). A run
   that is cut while it makes the rules of its security group leaves the group; the
   repetition finds it, reports EXISTS, and ends with code 0 without the rules.

`RebootDisabledEmpty` states what is left of (5): a node that *was* disabled is
rebooted empty when drains do not overlap and no migration has outlasted its
wait.

**Some sentences promise more than the code does.** The modules state seven more
of these, six of them of playbooks; TLC finds each violated when `Tools.cfg` checks it instead
of its properties (no run of their own is kept for them):

* `PreviousIsRestored`: the loop over the backups, newest first, ends with the
  oldest, so after two rotations a rollback restores the certificates from before
  the first (`cert_rotation.yml:165`);
* `RollbackWorks`: keys have no backup that a rollback reads, so the old
  certificate is beside the new key (`cert_rotation.yml:247`);
* `PerfectIsQuiet`: the reach register is parsed as octal and compared with the
  decimal 377, so a full register (255) is reported as "0 of the last 8 polls lost",
  and the branches for falsetickers and variable sources are never taken
  (`ntp_health_check.py:227`);
* `CheckedBeforeReplaced`: the comparison with the key is skipped when the bundle
  has no key or one that cannot be read, and a certificate it lacks is noticed by the copy only, when others
  have been replaced (`cert_rotation.yml:233`, `259`);
* `RotatedIsServed`: only the services of `services_to_reload` are reloaded, with
  failures ignored, and an endpoint may present any certificate
  (`cert_rotation.yml:308`);
* `RolledBackIsBefore`: an automatic rollback leaves what the update created and
  the sections it added, and NetworkPolicies are not in the backup
  (`calico_gnp_update.yml:278`);
* `AllowsFirst`: the ascending order is dropped for all when one policy has none
  (`calico_gnp_update.yml:215`).

`FirstIsUndone`, `RotatedIsWhole`, `BackupIsBack` and `OrderedAllowsFirst` say what
is left of them.

Observations from the reading that no run states: with `preserve_ip` (the default)
every port asks for the guest's first address, so a VM with two NICs is never
provisioned, and its first port stays; a failed export is followed by the conversion
of what it left, and because only the export is done again when the migration is
resumed, the resumed run shows no FAIL row while half a disk is served, and may
power the source off; the pool's slot is given back
between drain and maintain, so more nodes can be out of service than
`--evacuate-hosts` counted on; `verify` accepts a node that is up but disabled;
`skip_capacity_check` of a wave is not passed to assess, which then fails first;
a Python timeout around `ansible-playbook` kills the shell, not necessarily the
play, while the retry starts another; the readiness report says GO at exactly the
floor, where the driver blocks; the help of `--age-days` speaks of idle days, the
code counts from creation; restore points of one second overwrite one another, and
`--restore` and the default profile raise throttles without a look at the health;
a host whose undefined guest goes on running counts as cleaned; a decommissioned
node whose daemons register it again between the four last listings is reported as
"fully removed" with its service back, with code 0; a teardown that is not confirmed
and a restore that is stopped by Ctrl-C, half of its keys set, end with code 0 as
well; a pre-flight or a dry run that cannot authenticate ends with the code for
warnings, and the wave goes on; the skew between
hosts is computed without signs, so a real skew may go unreported, and from rounded
text, so offsets of 99.99 and 299.951 ms are called more than 200 ms apart; the array's
health queries that fail do not keep it from GO, only its first twenty open alerts
are looked at, and a LUN with a single path can hide behind one with three; a subnet of
the wanted name on another network is taken for the spec's own; `meta: end_play` in
a play with `serial` may end a rollback of certificates after the first host.

## 6. What is not modelled

Within the modelled components: formatting and logging; prompts that, when declined,
change nothing (those with a consequence are modelled);
`--dry-run` of the BMM driver and check mode of the playbook (they change
nothing); flavors and Placement classes (one slot each); time (a deadline is a
step that may be taken at any moment); Airflow's retry delays.

Not modelled at all, with the reason for each in `PROJECT.json`:

* the quarterly maintenance playbook: its steps are the driver and the reports,
  and its own state is two files an operator compares;
* the service restart: one rollout and one wait, both the deployment
  controller's;
* the Prometheus exporter, the Calico policy audit, the NUMA, security group,
  disk and network audits, the cluster and workload health roles and the
  hypervisor report: each reads one listing, keeps nothing and acts on nothing,
  and its risk is in parsing a format, which tests reach better;
* firmware validation, the AKS upgrade, the Azure stack and the host roles: lists
  of idempotent module calls whose behaviour is Ansible's or Azure's.

Left out of modelled components because only a warning depends on it: kinds of
NTP, agent and array findings that never reach the exit code.

## 7. The plan

Done, in the order of importance: BMM maintenance (machines powered off), VM
migration (sources powered off), compute waves (nodes rebooted), clean-up and
decommissioning (guests destroyed), network onboarding, certificates and
policies, and the tools that report or throttle.

What remains:

1. `BmmMaintenance` with two change records on one rack: `RacksApart` is a
   hypothesis of the proofs because nothing in the driver enforces it.
2. The stages of the quarterly playbook around the driver, with its snapshots.
3. The playbook that outlives its task (a Python timeout kills the shell around
   `ansible-playbook`, not the play): `MigrationWave` ends it with the task. Then an
   abstract specification of what a wave does to a node (taken out only behind the
   gate, started before it is returned, left alone once it is reported), for the
   wave to implement as `BmmMaintenance` does `MaintenanceWindow`.
4. An abstract specification of the migration: the source serves until the
   instance does.
