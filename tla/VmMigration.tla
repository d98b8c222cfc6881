---------------------------- MODULE VmMigration ----------------------------
(***************************************************************************)
(* Migration of one VMware VM to OpenStack                                 *)
(* (openstack/python/vmware_to_openstack_migrate.py): eight phases, each   *)
(* journalled, so that --resume goes on where an earlier invocation ended. *)
(*                                                                         *)
(* Of the journal's artifacts only the image path needs a variable of its  *)
(* own, because a convert that fails records null for it: the inventory    *)
(* and the image id are there exactly when assess and upload are in        *)
(* "completed", and the export directory is always the one directory of    *)
(* the VM under --staging.                                                 *)
(*                                                                         *)
(* vCenter, Glance, Neutron and Nova are external.                         *)
(***************************************************************************)
EXTENDS Integers, FiniteSets, Sequences

CONSTANTS
  NIC,             \* network interfaces of the source VM
  PhaseLists,      \* the --phase lists the operators use
  DryChoices,      \* the --dry-run values the operators use
  PreserveChoices, \* preserve_mac of the plan
  KeepIpChoices,   \* preserve_ip of the plan, with a guest that tells its address
  MaxFaults        \* bound on failures, timeouts and crashes

PHASES == <<"assess", "snapshot", "export", "convert",
            "upload", "provision", "validate", "cutover">>
Phases == {"assess", "snapshot", "export", "convert",
           "upload", "provision", "validate", "cutover"}

ASSUME NICAssumption == IsFiniteSet(NIC)
ASSUME ListsAssumption == PhaseLists \subseteq Seq(Phases)
ASSUME ChoicesAssumption ==
  /\ DryChoices \subseteq BOOLEAN
  /\ PreserveChoices \subseteq BOOLEAN
  /\ KeepIpChoices \subseteq BOOLEAN
  /\ MaxFaults \in Nat

VARIABLES
  source,     \* the source VM: "On" or "Off"
  disks,      \* the boot disk's VMDK in the staging directory: "none", "partial" or "whole"
  exportFailed, \* history: an export of this VM has failed or was cut short
  file,       \* what the converted disk holds of the source's disks
  image,      \* what the Glance image of the journal holds of them
  ports,      \* NICs that have a Neutron port
  servers,    \* the instances of that name: state, and the disk they boot from
  completed,  \* journal: the phases recorded "ok"
  torn,       \* journal: the file is not readable JSON
  nullPath,   \* journal: a convert that failed, or was dry, left null as the image path
  pc,         \* "idle", "phase", "ports", "boot" or "record"
  todo,       \* phases the invocation still has to go through
  dry,        \* --dry-run of the invocation
  made,       \* NICs the invocation has created ports for
  status,     \* what is about to be recorded: "ok" or "dry-run"
  rows,       \* the report so far: <<phase, outcome>>
  exit,       \* of the last invocation: "none", "raised", 0, 1 or 2
  preserve,   \* a port takes the MAC of its NIC (preserve_mac)
  keepIp,     \* a port takes the guest's first address, whatever its NIC (preserve_ip)
  faults      \* adverse events so far

plant   == <<source, disks, exportFailed, file, image, ports, servers>>
journal == <<completed, torn, nullPath>>
plan    == <<preserve, keepIp>>
process == <<pc, todo, dry, made, status, rows, exit>>
vars    == <<plant, journal, process, plan, faults>>

Content == {"none", "partial", "whole"}
Outcome == {"OK", "FAIL", "SKIPPED", "WOULD_RUN"}

TypeOK ==
  /\ source \in {"On", "Off"}
  /\ disks \in Content /\ file \in Content /\ image \in Content
  /\ exportFailed \in BOOLEAN
  /\ ports \subseteq NIC
  /\ servers \in Seq([state : {"BUILD", "ACTIVE", "ERROR"}, disk : Content])
  /\ completed \subseteq Phases
  /\ torn \in BOOLEAN /\ nullPath \in BOOLEAN
  /\ pc \in {"idle", "phase", "ports", "boot", "record"}
  /\ todo \in Seq(Phases)
  /\ pc \in {"ports", "boot", "record"} => todo # <<>>
  /\ dry \in BOOLEAN
  /\ made \subseteq NIC
  /\ status \in {"ok", "dry-run"}
  /\ rows \subseteq Phases \X Outcome
  /\ exit \in {"none", "raised"} \cup {"0", "1", "2"}
  /\ preserve \in BOOLEAN /\ keepIp \in BOOLEAN
  /\ faults \in 0..MaxFaults

Init ==
  /\ source = "On"
  /\ disks = "none" /\ file = "none" /\ image = "none"
  /\ exportFailed = FALSE
  /\ ports = {}
  /\ servers = <<>>
  /\ completed = {}
  /\ torn = FALSE /\ nullPath = FALSE
  /\ pc = "idle"
  /\ todo = <<>>
  /\ dry = FALSE
  /\ made = {}
  /\ status = "ok"
  /\ rows = {}
  /\ exit = "none"
  /\ preserve \in PreserveChoices
  /\ keepIp \in KeepIpChoices
  /\ faults = 0

Fault == faults < MaxFaults /\ faults' = faults + 1

-----------------------------------------------------------------------------
(* The invocation                                                          *)

\* The journal is read: a torn one raises, and changes nothing.
Start ==
  /\ pc = "idle"
  /\ ~torn
  /\ \E list \in PhaseLists : todo' = list
  /\ \E d \in DryChoices : dry' = d
  /\ pc' = "phase"
  /\ rows' = {}
  /\ exit' = "none"
  /\ UNCHANGED <<made, status>>
  /\ UNCHANGED <<plant, journal, plan, faults>>

Leave(code) ==
  /\ pc' = "idle"
  /\ todo' = <<>>
  /\ exit' = code
  /\ UNCHANGED <<dry, made, status>>

\* The last phase is behind: the exit code tells of any FAIL row.
Finish ==
  /\ pc = "phase"
  /\ todo = <<>>
  /\ Leave(IF \E p \in Phases : <<p, "FAIL">> \in rows THEN "1" ELSE "0")
  /\ UNCHANGED rows
  /\ UNCHANGED <<plant, journal, plan, faults>>

\* Mutant: a phase that is done is looked at again and again.
SkipStays ==
  /\ pc = "phase"
  /\ todo # <<>>
  /\ Head(todo) \in completed \ {"assess"}
  /\ UNCHANGED vars

\* Done in an earlier invocation; assess is always done again.
Skip ==
  /\ pc = "phase"
  /\ todo # <<>>
  /\ Head(todo) \in completed \ {"assess"}
  /\ todo' = Tail(todo)
  /\ UNCHANGED <<pc, dry, made, status, rows, exit>>
  /\ UNCHANGED <<plant, journal, plan, faults>>

At(p) ==
  /\ pc = "phase"
  /\ todo # <<>>
  /\ Head(todo) = p
  /\ p \notin completed \/ p = "assess"

\* Mutant: the loop has moved on when the journal is written.
ReportAdvances(outcome, result) ==
  /\ rows' = rows \cup {<<Head(todo), outcome>>}
  /\ status' = result
  /\ pc' = "record"
  /\ todo' = Tail(todo)
  /\ UNCHANGED <<dry, made, exit>>

\* The phase has added an outcome to the report; result is to be recorded.
Report(outcome, result) ==
  /\ rows' = rows \cup {<<Head(todo), outcome>>}
  /\ status' = result
  /\ pc' = "record"
  /\ UNCHANGED <<todo, dry, made, exit>>

\* The journal is written, and the loop goes on.
Record ==
  /\ pc = "record"
  /\ completed' = IF status = "ok" THEN completed \cup {Head(todo)} ELSE completed
  /\ nullPath' = IF Head(todo) = "convert" THEN status # "ok" ELSE nullPath
  /\ todo' = Tail(todo)
  /\ pc' = "phase"
  /\ UNCHANGED <<dry, made, status, rows, exit>>
  /\ UNCHANGED <<plant, torn, plan, faults>>

\* An exception nothing catches.
Raise == Leave("raised") /\ UNCHANGED rows

\* The process dies anywhere, or a call of it raises.
Crash ==
  /\ pc # "idle"
  /\ Fault
  /\ Raise
  /\ UNCHANGED <<plant, journal, plan>>

\* write_text truncates the journal before it writes it.
CrashInRecord ==
  /\ pc = "record"
  /\ Fault
  /\ torn' = TRUE
  /\ completed' = {}
  /\ nullPath' = FALSE
  /\ Raise
  /\ UNCHANGED <<plant, plan>>

\* The operator removes an unreadable journal; the next run starts afresh.
DiscardJournal ==
  /\ pc = "idle"
  /\ torn
  /\ torn' = FALSE
  /\ UNCHANGED <<plant, completed, nullPath, process, plan, faults>>

-----------------------------------------------------------------------------
(* The phases                                                              *)

\* Mutant: an upload without a path is let through.
LacksInventory(p) ==
  p \in {"snapshot", "upload", "provision"} /\ "assess" \notin completed

\* What a phase takes from the journal is not there: a KeyError, Path(None),
\* or Path(""), which names a directory: a dry run does not open it.
Lacks(p) ==
  \/ p \in {"snapshot", "upload", "provision"} /\ "assess" \notin completed
  \/ p = "upload" /\ (nullPath \/ ("convert" \notin completed /\ ~dry))

LacksInput ==
  /\ \E p \in Phases : At(p) /\ Lacks(p)
  /\ Raise
  /\ UNCHANGED <<plant, journal, plan, faults>>

\* A phase that is due and has its inputs, for real.
Runs(p) == At(p) /\ ~dry /\ ~Lacks(p)

\* A dry run reports what it would do; convert looks for disks all the same.
DryRun ==
  /\ dry
  /\ \E p \in Phases \ {"assess"} : At(p) /\ ~Lacks(p)
  /\ Report(IF Head(todo) = "convert" /\ disks = "none" THEN "FAIL" ELSE "WOULD_RUN",
            "dry-run")
  /\ UNCHANGED <<plant, journal, plan, faults>>

\* assess is the one phase whose failure ends the invocation.
AssessOk ==
  /\ At("assess")
  /\ Report("OK", "ok")
  /\ UNCHANGED <<plant, journal, plan, faults>>

AssessFails ==
  /\ At("assess")
  /\ Fault
  /\ Leave("2")
  /\ rows' = rows \cup {<<"assess", "FAIL">>}
  /\ UNCHANGED <<plant, journal, plan>>

\* Recorded "ok" whether or not govc took the snapshot.
Snapshot ==
  /\ Runs("snapshot")
  /\ \/ Report("OK", "ok") /\ UNCHANGED faults
     \/ Report("FAIL", "ok") /\ Fault
  /\ UNCHANGED <<plant, journal, plan>>

ExportOk ==
  /\ Runs("export")
  /\ disks' = "whole"
  /\ Report("OK", "ok")
  /\ UNCHANGED <<source, exportFailed, file, image, ports, servers>>
  /\ UNCHANGED <<journal, plan, faults>>

\* Mutant: some VMDK in the staging directory is enough.
ExportTakesAnyDisk ==
  /\ Runs("export")
  /\ Fault
  /\ disks' = "partial"
  /\ Report("OK", "ok")
  /\ UNCHANGED <<source, exportFailed, file, image, ports, servers>>
  /\ UNCHANGED <<journal, plan>>

\* govc failed, timed out or left no VMDK: what is there stays.  The invocation
\* goes on.
ExportFails ==
  /\ Runs("export")
  /\ Fault
  /\ disks' \in {disks, "partial"}
  /\ exportFailed' = TRUE
  /\ Report("FAIL", "dry-run")
  /\ UNCHANGED <<source, file, image, ports, servers>>
  /\ UNCHANGED <<journal, plan>>

\* The process dies under govc, which has written some of the disk.
CrashInExport ==
  /\ Runs("export")
  /\ Fault
  /\ disks' = "partial"
  /\ exportFailed' = TRUE
  /\ Raise
  /\ UNCHANGED <<source, file, image, ports, servers>>
  /\ UNCHANGED <<journal, plan>>

\* Whatever VMDKs lie in the staging directory are converted and checked.
ConvertOk ==
  /\ Runs("convert")
  /\ disks # "none"
  /\ file' = disks
  /\ Report("OK", "ok")
  /\ UNCHANGED <<source, disks, exportFailed, image, ports, servers>>
  /\ UNCHANGED <<journal, plan, faults>>

\* No VMDK, or qemu-img failed: upload will find no image path.
ConvertFails ==
  /\ Runs("convert")
  /\ IF disks = "none" THEN UNCHANGED faults ELSE Fault
  /\ Report("FAIL", "dry-run")
  /\ UNCHANGED <<plant, journal, plan>>

Upload ==
  /\ Runs("upload")
  /\ image' = file
  /\ Report("OK", "ok")
  /\ UNCHANGED <<source, disks, exportFailed, file, ports, servers>>
  /\ UNCHANGED <<journal, plan, faults>>

\* The flavor and the first network are there: on to the ports.
BeginProvision ==
  /\ Runs("provision")
  /\ pc' = "ports"
  /\ made' = {}
  /\ UNCHANGED <<todo, dry, status, rows, exit>>
  /\ UNCHANGED <<plant, journal, plan, faults>>

\* Mutant: an address that is in use is taken for the port of this NIC.
CreatePortAnyway ==
  /\ pc = "ports"
  /\ \E n \in NIC \ made :
       /\ ports' = ports \cup {n}
       /\ made' = made \cup {n}
  /\ UNCHANGED <<pc, todo, dry, status, rows, exit>>
  /\ UNCHANGED <<source, disks, exportFailed, file, image, servers>>
  /\ UNCHANGED <<journal, plan, faults>>

\* What is asked for is held by a port already: a MAC is the NIC's own, but
\* every NIC asks for the same address.
InUse(n) == (preserve /\ n \in ports) \/ (keepIp /\ ports # {})

\* Neutron gives a MAC, and an address, out once.
CreatePort ==
  /\ pc = "ports"
  /\ \E n \in NIC \ made :
       /\ ~InUse(n)
       /\ ports' = ports \cup {n}
       /\ made' = made \cup {n}
  /\ UNCHANGED <<pc, todo, dry, status, rows, exit>>
  /\ UNCHANGED <<source, disks, exportFailed, file, image, servers>>
  /\ UNCHANGED <<journal, plan, faults>>

\* No flavor, an unmapped port group, or a port that Neutron refuses: a FAIL
\* row, no instance, and the ports made so far stay.  Recorded "ok".
ProvisionFails ==
  /\ pc = "ports"
  /\ IF \E n \in NIC \ made : InUse(n) THEN UNCHANGED faults ELSE Fault
  /\ Report("FAIL", "ok")
  /\ UNCHANGED <<plant, journal, plan>>

\* image is None when upload has not been recorded: AttributeError.
NoImage ==
  /\ pc = "ports"
  /\ made = NIC
  /\ "upload" \notin completed
  /\ Raise
  /\ UNCHANGED <<plant, journal, plan, faults>>

CreateServer ==
  /\ pc = "ports"
  /\ made = NIC
  /\ "upload" \in completed
  /\ servers' = Append(servers, [state |-> "BUILD", disk |-> image])
  /\ pc' = "boot"
  /\ UNCHANGED <<todo, dry, made, status, rows, exit>>
  /\ UNCHANGED <<source, disks, exportFailed, file, image, ports>>
  /\ UNCHANGED <<journal, plan, faults>>

\* wait_for_server returns an instance that is ACTIVE, and raises on ERROR
\* (and on its timeout: Crash).
ServerUp ==
  /\ pc = "boot"
  /\ servers[Len(servers)].state = "ACTIVE"
  /\ Report("OK", "ok")
  /\ UNCHANGED <<plant, journal, plan, faults>>

ServerInError ==
  /\ pc = "boot"
  /\ servers[Len(servers)].state = "ERROR"
  /\ Raise
  /\ UNCHANGED <<plant, journal, plan, faults>>

\* find_server by name; recorded "ok" whatever it finds.
Validate ==
  /\ Runs("validate")
  /\ Len(servers) <= 1
  /\ Report(IF Len(servers) = 1 /\ servers[1].state = "ACTIVE" THEN "OK" ELSE "FAIL", "ok")
  /\ UNCHANGED <<plant, journal, plan, faults>>

\* Two instances of one name: find_server raises.
ValidateAmbiguous ==
  /\ Runs("validate")
  /\ Len(servers) > 1
  /\ Raise
  /\ UNCHANGED <<plant, journal, plan, faults>>

\* The operator confirms, or declines; recorded "ok" either way.
Cutover ==
  /\ Runs("cutover")
  /\ \/ source' = "Off" /\ Report("OK", "ok")
     \/ source' = source /\ Report("SKIPPED", "ok")
  /\ UNCHANGED <<disks, exportFailed, file, image, ports, servers>>
  /\ UNCHANGED <<journal, plan, faults>>

\* govc failed, or timed out: then the source may be off all the same.
CutoverFails ==
  /\ Runs("cutover")
  /\ Fault
  /\ source' \in {source, "Off"}
  /\ Report("FAIL", "ok")
  /\ UNCHANGED <<disks, exportFailed, file, image, ports, servers>>
  /\ UNCHANGED <<journal, plan>>

Progress ==
  \/ Finish \/ Skip \/ Record \/ LacksInput \/ DryRun
  \/ AssessOk \/ Snapshot \/ ExportOk \/ ConvertOk \/ ConvertFails \/ Upload
  \/ BeginProvision \/ CreatePort \/ ProvisionFails \/ NoImage \/ CreateServer
  \/ ServerUp \/ ServerInError
  \/ Validate \/ ValidateAmbiguous \/ Cutover

Misfortune ==
  AssessFails \/ ExportFails \/ CrashInExport \/ CutoverFails \/ Crash \/ CrashInRecord

-----------------------------------------------------------------------------
(* Nova                                                                    *)

Boot(i, s) ==
  /\ servers[i].state = "BUILD"
  /\ servers' = [servers EXCEPT ![i].state = s]
  /\ UNCHANGED <<source, disks, exportFailed, file, image, ports>>
  /\ UNCHANGED <<journal, process, plan>>

Boots     == \E i \in 1..Len(servers) : Boot(i, "ACTIVE") /\ UNCHANGED faults
BootFails == \E i \in 1..Len(servers) : Boot(i, "ERROR") /\ Fault

Next == Start \/ Progress \/ Misfortune \/ DiscardJournal \/ Boots \/ BootFails

Spec == Init /\ [][Next]_vars

\* A running invocation runs on, every call it makes has a timeout, and Nova
\* ends what it builds.  Failures and crashes are never fair.
FairSpec == Spec /\ WF_vars(Progress) /\ WF_vars(Boots)

-----------------------------------------------------------------------------
(* Properties                                                              *)

\* When one invocation has done everything up to validate with no failure,
\* the instance is up and boots from all of the source's disk.
CleanRunServes ==
  pc = "idle" /\ (\A p \in Phases \ {"cutover"} : <<p, "OK">> \in rows) /\ exit = "0" =>
    /\ Len(servers) = 1
    /\ servers[1] = [state |-> "ACTIVE", disk |-> "whole"]

\* However often provision is resumed, a MAC or an address of the source never
\* ends up on two instances.
OneInstance == preserve \/ keepIp => Len(servers) <= 1

\* The source is powered off only when its disk is in Glance: all of it, unless
\* an export has failed or was cut short.  A failed export does not stop the
\* invocation (lines 505 to 513): what it left is converted, uploaded and
\* served, so half a disk is all that is promised then.
OffOnlyWithDisk ==
  source = "Off" => image = "whole" \/ (image = "partial" /\ exportFailed)

\* Every invocation ends.
RunEnds == pc # "idle" ~> pc = "idle"

\* What a phase that is journalled as completed has left behind.
Did(p) ==
  CASE p = "export"    -> disks # "none"
    [] p = "convert"   -> file # "none"
    [] p = "upload"    -> image # "none"
    [] p = "provision" -> servers # <<>>
    [] OTHER           -> TRUE

\* "Each is journalled to a state file, so --resume picks up from wherever it
\* stopped" (lines 4-6): a resume passes over a phase only when an earlier
\* invocation has done its work.
ResumePicksUp == [][\A p \in Phases : Skip /\ Head(todo) = p => Did(p)]_vars
=============================================================================
