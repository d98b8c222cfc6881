------------------------------ MODULE VmProofs ------------------------------
(***************************************************************************)
(* Proofs about VmMigration: type correctness; that a provision that is    *)
(* resumed never puts the source's addresses on a second instance; that    *)
(* the source is not powered off before its disk is in Glance; and that an *)
(* invocation without a failure leaves one instance with all of the disk.  *)
(***************************************************************************)
EXTENDS VmMigration, TLAPS

USE DEF plan

Servers == [state : {"BUILD", "ACTIVE", "ERROR"}, disk : Content]

\* A phase that is being run is the head of what is left to do.
LEMMA HeadIsPhase ==
  ASSUME todo \in Seq(Phases), todo # <<>>
  PROVE  Head(todo) \in Phases /\ Tail(todo) \in Seq(Phases)
  OBVIOUS

\* Every variable has its type in the first state.
LEMMA InitTyped == Init => TypeOK
<1> SUFFICES ASSUME Init PROVE TypeOK
  OBVIOUS
<1>1. todo \in Seq(Phases) /\ servers \in Seq(Servers)
  BY DEF Init
<1>2. preserve \in BOOLEAN /\ keepIp \in BOOLEAN /\ faults \in 0..MaxFaults
  BY ChoicesAssumption DEF Init
<1> QED  BY <1>1, <1>2 DEF Init, TypeOK, Content, Servers

\* The report and what is recorded keep their types.
LEMMA ReportTyped ==
  ASSUME TypeOK, pc # "idle", todo # <<>>,
         NEW outcome \in Outcome, NEW result \in {"ok", "dry-run"},
         Report(outcome, result)
  PROVE  /\ rows' \subseteq Phases \X Outcome
         /\ status' \in {"ok", "dry-run"}
         /\ pc' = "record"
         /\ todo' = todo /\ dry' = dry /\ made' = made /\ exit' = exit
  BY HeadIsPhase DEF TypeOK, Report

\* An invocation that ends leaves its variables well typed.
LEMMA LeaveTyped ==
  ASSUME TypeOK, NEW code \in {"raised", "0", "1", "2"}, Leave(code)
  PROVE  /\ pc' = "idle" /\ todo' = <<>> /\ exit' = code
         /\ dry' = dry /\ made' = made /\ status' = status
  BY DEF Leave

\* Every step keeps every variable in its type.
LEMMA NextTyped == TypeOK /\ [Next]_vars => TypeOK'
<1> SUFFICES ASSUME TypeOK, [Next]_vars PROVE TypeOK'
  OBVIOUS
<1> USE ChoicesAssumption
<1>e. <<>> \in Seq(Phases)
  OBVIOUS
<1>f. ASSUME Fault PROVE faults' \in 0..MaxFaults
  BY <1>f DEF Fault, TypeOK
<1>1. CASE Start
  BY <1>1, ListsAssumption DEF Start, TypeOK, plant, journal
<1>2. CASE Finish
  BY <1>2, <1>e DEF Finish, Leave, TypeOK, plant, journal
<1>3. CASE Skip
  BY <1>3, HeadIsPhase DEF Skip, TypeOK, plant, journal
<1>4. CASE Record
  BY <1>4, HeadIsPhase DEF Record, TypeOK, plant
<1>5. CASE LacksInput
  BY <1>5, <1>e DEF LacksInput, Raise, Leave, TypeOK, plant, journal
<1>6. CASE DryRun
  <2>1. pc # "idle" /\ todo # <<>>
    BY <1>6 DEF DryRun, At
  <2>2. PICK o \in Outcome : Report(o, "dry-run")
    BY <1>6 DEF DryRun, Outcome
  <2> QED  BY <1>6, <2>1, <2>2, ReportTyped DEF DryRun, TypeOK, plant, journal
<1>7. CASE AssessOk
  <2>1. pc # "idle" /\ todo # <<>>
    BY <1>7 DEF AssessOk, At
  <2>2. PICK o \in Outcome : Report(o, "ok")
    BY <1>7 DEF AssessOk, Outcome
  <2> QED  BY <1>7, <2>1, <2>2, ReportTyped DEF AssessOk, TypeOK, plant, journal
<1>8. CASE Snapshot
  <2>1. pc # "idle" /\ todo # <<>>
    BY <1>8 DEF Snapshot, Runs, At
  <2>2. PICK o \in Outcome : Report(o, "ok")
    BY <1>8 DEF Snapshot, Outcome
  <2>3. faults' \in 0..MaxFaults
    BY <1>8, <1>f DEF Snapshot, TypeOK
  <2> QED  BY <1>8, <2>1, <2>2, <2>3, ReportTyped DEF Snapshot, TypeOK, plant, journal
<1>9. CASE ExportOk \/ ConvertOk \/ Upload
  <2>1. pc # "idle" /\ todo # <<>>
    BY <1>9 DEF ExportOk, ConvertOk, Upload, Runs, At
  <2>2. PICK o \in Outcome : Report(o, "ok")
    BY <1>9 DEF ExportOk, ConvertOk, Upload, Outcome
  <2> QED
    BY <1>9, <2>1, <2>2, ReportTyped
    DEF ExportOk, ConvertOk, Upload, TypeOK, journal, Content
<1>10. CASE ConvertFails \/ ExportFails
  <2>1. pc # "idle" /\ todo # <<>>
    BY <1>10 DEF ConvertFails, ExportFails, Runs, At
  <2>2. PICK o \in Outcome : Report(o, "dry-run")
    BY <1>10 DEF ConvertFails, ExportFails, Outcome
  <2>3. faults' \in 0..MaxFaults
    BY <1>10, <1>f DEF ConvertFails, ExportFails, TypeOK
  <2> QED
    BY <1>10, <2>1, <2>2, <2>3, ReportTyped
    DEF ConvertFails, ExportFails, TypeOK, plant, journal, Content
<1>11. CASE BeginProvision \/ CreatePort
  BY <1>11 DEF BeginProvision, CreatePort, Runs, At, TypeOK, plant, journal
<1>12. CASE ProvisionFails
  <2>1. pc # "idle" /\ todo # <<>>
    BY <1>12 DEF ProvisionFails, TypeOK
  <2>2. PICK o \in Outcome : Report(o, "ok")
    BY <1>12 DEF ProvisionFails, Outcome
  <2>3. faults' \in 0..MaxFaults
    BY <1>12, <1>f DEF ProvisionFails, TypeOK
  <2> QED  BY <1>12, <2>1, <2>2, <2>3, ReportTyped DEF ProvisionFails, TypeOK, plant, journal
<1>13. CASE NoImage \/ ServerInError \/ ValidateAmbiguous
  BY <1>13, <1>e
  DEF NoImage, ServerInError, ValidateAmbiguous, Raise, Leave, TypeOK, plant, journal
<1>14. CASE CreateServer
  <2>1. servers' \in Seq(Servers)
    BY <1>14 DEF CreateServer, TypeOK, Servers
  <2> QED  BY <1>14, <2>1 DEF CreateServer, TypeOK, journal, Servers
<1>15. CASE ServerUp \/ Validate
  <2>1. pc # "idle" /\ todo # <<>>
    BY <1>15 DEF ServerUp, Validate, Runs, At, TypeOK
  <2>2. PICK o \in Outcome : Report(o, "ok")
    BY <1>15 DEF ServerUp, Validate, Outcome
  <2> QED
    BY <1>15, <2>1, <2>2, ReportTyped DEF ServerUp, Validate, TypeOK, plant, journal
<1>16. CASE Cutover \/ CutoverFails
  <2>1. pc # "idle" /\ todo # <<>>
    BY <1>16 DEF Cutover, CutoverFails, Runs, At
  <2>2. PICK o \in Outcome : Report(o, "ok")
    BY <1>16 DEF Cutover, CutoverFails, Outcome
  <2>3. faults' \in 0..MaxFaults
    BY <1>16, <1>f DEF Cutover, CutoverFails, TypeOK
  <2>4. source' \in {"On", "Off"}
    BY <1>16 DEF Cutover, CutoverFails, TypeOK
  <2> QED
    BY <1>16, <2>1, <2>2, <2>3, <2>4, ReportTyped
    DEF Cutover, CutoverFails, TypeOK, journal
<1>17. CASE AssessFails
  <2>1. rows' \subseteq Phases \X Outcome
    BY <1>17 DEF AssessFails, TypeOK, Phases, Outcome
  <2> QED  BY <1>17, <1>e, <1>f, <2>1 DEF AssessFails, Leave, TypeOK, plant, journal
<1>18. CASE Crash \/ CrashInRecord \/ CrashInExport
  BY <1>18, <1>e, <1>f
  DEF Crash, CrashInRecord, CrashInExport, Raise, Leave, TypeOK, Content, plant, journal
<1>19. CASE DiscardJournal
  BY <1>19 DEF DiscardJournal, TypeOK, plant, process
<1>20. CASE Boots \/ BootFails
  <2>1. PICK i \in 1..Len(servers), s \in {"ACTIVE", "ERROR"} : Boot(i, s)
    BY <1>20 DEF Boots, BootFails
  <2>2. servers' \in Seq(Servers)
    <3>1. servers \in Seq(Servers)
      BY DEF TypeOK, Servers
    <3>2. servers[i] \in Servers
      BY <2>1, <3>1
    <3>3. [servers[i] EXCEPT !.state = s] \in Servers
      BY <2>1, <3>2 DEF Servers
    <3>4. servers' = [servers EXCEPT ![i] = [servers[i] EXCEPT !.state = s]]
      BY <2>1 DEF Boot
    <3> QED  BY <2>1, <3>1, <3>3, <3>4
  <2>3. faults' \in 0..MaxFaults
    BY <1>20, <1>f DEF Boots, BootFails, TypeOK
  <2> QED  BY <2>1, <2>2, <2>3 DEF Boot, TypeOK, journal, process, Servers
<1>21. CASE UNCHANGED vars
  BY <1>21 DEF vars, plant, journal, process, TypeOK
<1> QED
  BY <1>1, <1>2, <1>3, <1>4, <1>5, <1>6, <1>7, <1>8, <1>9, <1>10, <1>11, <1>12,
     <1>13, <1>14, <1>15, <1>16, <1>17, <1>18, <1>19, <1>20, <1>21
  DEF Next, Progress, Misfortune

\* Type correctness of the migration, for all NICs, phase lists and bounds.
THEOREM Typing == Spec => []TypeOK
  BY InitTyped, NextTyped, PTL DEF Spec

-----------------------------------------------------------------------------
\* Once there is an instance, every address of the source is taken, and an
\* invocation that provisions again has made no port.
Taken ==
  (preserve \/ keepIp) /\ Len(servers) > 0 =>
    /\ Len(servers) = 1
    /\ ports = NIC
    /\ pc = "ports" => made = {}

\* Until then, an invocation's ports are ports.
Made == pc = "ports" => made \subseteq ports

AddressInv == TypeOK /\ Taken /\ Made

\* A step that leaves ports, instances and plan alone, and does not enter
\* provision, keeps the addresses where they are.
LEMMA Untouched ==
  ASSUME AddressInv, TypeOK',
         UNCHANGED <<ports, plan, made>>, Len(servers') = Len(servers),
         pc' = "ports" => pc = "ports"
  PROVE  AddressInv'
  BY DEF AddressInv, Taken, Made

LEMMA AddressInit == Init => AddressInv
  BY InitTyped DEF Init, AddressInv, Taken, Made

LEMMA AddressStep == NIC # {} /\ AddressInv /\ [Next]_vars => AddressInv'
<1> SUFFICES ASSUME NIC # {}, AddressInv, [Next]_vars PROVE AddressInv'
  OBVIOUS
<1>t. TypeOK /\ TypeOK'
  BY NextTyped DEF AddressInv
<1>1. CASE Start
  BY <1>1, <1>t, Untouched DEF Start, plant, journal
<1>2. CASE Finish \/ Skip \/ Record \/ LacksInput
  BY <1>2, <1>t, Untouched DEF Finish, Skip, Record, LacksInput, Raise, Leave, plant, journal
<1>3. CASE DryRun \/ AssessOk \/ Snapshot \/ ConvertFails \/ ProvisionFails \/ ServerUp \/ Validate
  BY <1>3, <1>t, Untouched
  DEF DryRun, AssessOk, Snapshot, ConvertFails, ProvisionFails, ServerUp, Validate, Report,
      plant, journal
<1>4. CASE ExportOk \/ ConvertOk \/ Upload \/ ExportFails \/ Cutover \/ CutoverFails
  BY <1>4, <1>t, Untouched
  DEF ExportOk, ConvertOk, Upload, ExportFails, Cutover, CutoverFails, Report, journal
<1>5. CASE NoImage \/ ServerInError \/ ValidateAmbiguous \/ AssessFails \/ Crash \/ CrashInRecord
           \/ CrashInExport
  BY <1>5, <1>t, Untouched
  DEF NoImage, ServerInError, ValidateAmbiguous, AssessFails, Crash, CrashInRecord,
      CrashInExport, Raise, Leave, plant, journal
<1>6. CASE BeginProvision
  BY <1>6, <1>t DEF BeginProvision, AddressInv, Taken, Made, plant
<1>7. CASE CreatePort
  <2>1. PICK n \in NIC \ made : /\ ~InUse(n)
                                /\ ports' = ports \cup {n} /\ made' = made \cup {n}
    BY <1>7 DEF CreatePort
  <2>2. ~((preserve \/ keepIp) /\ Len(servers) > 0)
    BY <2>1 DEF AddressInv, Taken, InUse
  <2> QED
    BY <1>7, <1>t, <2>1, <2>2 DEF CreatePort, AddressInv, Taken, Made
<1>8. CASE CreateServer
  <2>1. preserve \/ keepIp => Len(servers) = 0
    BY <1>8, <1>t DEF CreateServer, AddressInv, Taken, TypeOK
  <2>2. preserve \/ keepIp => ports = NIC
    BY <1>8, <1>t DEF CreateServer, AddressInv, Made, TypeOK
  <2>3. Len(servers') = Len(servers) + 1
    BY <1>8, <1>t DEF CreateServer, TypeOK
  <2> QED
    BY <1>8, <1>t, <2>1, <2>2, <2>3 DEF CreateServer, AddressInv, Taken, Made, journal
<1>9. CASE DiscardJournal
  BY <1>9, <1>t, Untouched DEF DiscardJournal, plant, process
<1>10. CASE Boots \/ BootFails
  <2>1. PICK i \in 1..Len(servers), s \in {"ACTIVE", "ERROR"} : Boot(i, s)
    BY <1>10 DEF Boots, BootFails
  <2>2. Len(servers') = Len(servers)
    BY <1>t, <2>1 DEF Boot, TypeOK
  <2> QED  BY <1>t, <2>1, <2>2, Untouched DEF Boot, process
<1>11. CASE UNCHANGED vars
  BY <1>11, <1>t, Untouched DEF vars, plant, process
<1> QED
  BY <1>1, <1>2, <1>3, <1>4, <1>5, <1>6, <1>7, <1>8, <1>9, <1>10, <1>11
  DEF Next, Progress, Misfortune

\* With preserve_mac, or preserve_ip and a known address, a VM that has a
\* network interface ends up on one instance at most, however often provision
\* failed, crashed or was resumed.
THEOREM AddressesStay == NIC # {} /\ Spec => []OneInstance
<1> SUFFICES ASSUME NIC # {} PROVE Spec => []OneInstance
  OBVIOUS
<1>1. AddressInv => OneInstance
  <2>1. ASSUME NEW n \in Nat, n > 0 => n = 1 PROVE n <= 1
    BY <2>1
  <2> SUFFICES ASSUME AddressInv, preserve \/ keepIp PROVE Len(servers) <= 1
    BY DEF OneInstance
  <2>2. Len(servers) \in Nat
    BY DEF AddressInv, TypeOK
  <2>3. Len(servers) > 0 => Len(servers) = 1
    BY Zenon DEF AddressInv, Taken
  <2> QED  BY <2>1, <2>2, <2>3, Zenon
<1>2. AddressInv /\ [Next]_vars => AddressInv'
  BY AddressStep
<1> QED  BY <1>1, <1>2, AddressInit, PTL DEF Spec
-----------------------------------------------------------------------------
\* In a list, an upload comes before every cutover.
UploadBeforeCutover(list) ==
  \A j \in 1..Len(list) : list[j] = "cutover" => \E i \in 1..(j - 1) : list[i] = "upload"

\* What the operators ask for: no --phase list has a cutover without upload.
UploadFirst == \A list \in PhaseLists : UploadBeforeCutover(list)

Writing(p) == pc = "record" /\ Head(todo) = p

\* convert and upload are on record, or about to be, only with their product;
\* before there is an image the source is on, and the upload is still ahead.
ConvertKept ==
  "convert" \in completed \/ (Writing("convert") /\ status = "ok") => file # "none"
UploadKept ==
  "upload" \in completed \/ (Writing("upload") /\ (status = "ok" \/ ~dry)) => image # "none"
UploadAhead ==
  image = "none" =>
    /\ source = "On"
    /\ pc # "idle" /\ ~dry => UploadBeforeCutover(todo)
InProvision == pc \in {"ports", "boot"} => Head(todo) = "provision"

\* Half a disk comes from an export that failed, or was cut short.
HalfIsKnown == "partial" \in {disks, file, image} => exportFailed

ImageInv ==
  TypeOK /\ ConvertKept /\ UploadKept /\ UploadAhead /\ InProvision /\ HalfIsKnown

\* The upload stays ahead while the loop goes through other phases.
LEMMA TailKeepsUpload ==
  ASSUME NEW list \in Seq(Phases), list # <<>>,
         UploadBeforeCutover(list), Head(list) # "upload"
  PROVE  UploadBeforeCutover(Tail(list))
<1> SUFFICES ASSUME NEW j \in 1..Len(Tail(list)), Tail(list)[j] = "cutover"
             PROVE  \E i \in 1..(j - 1) : Tail(list)[i] = "upload"
  BY DEF UploadBeforeCutover
<1>1. j + 1 \in 1..Len(list) /\ list[j + 1] = "cutover"
  OBVIOUS
<1>2. PICK i \in 1..j : list[i] = "upload"
  BY <1>1 DEF UploadBeforeCutover
<1>3. i # 1
  BY <1>2
<1>4. i - 1 \in 1..(j - 1) /\ Tail(list)[i - 1] = "upload"
  BY <1>2, <1>3
<1> QED  BY <1>4

LEMMA ImageInit == Init => ImageInv
  BY InitTyped
  DEF Init, ImageInv, ConvertKept, UploadKept, UploadAhead, InProvision, Writing, HalfIsKnown

\* An invocation that ends, or a step that leaves the disks alone and does not
\* touch the loop, keeps the invariant.
LEMMA ImageQuiet ==
  ASSUME ImageInv, TypeOK', UNCHANGED <<source, file, image>>,
         exportFailed' \/ UNCHANGED <<disks, exportFailed>>,
         completed' \subseteq completed,
         \/ pc' = "idle"
         \/ UNCHANGED <<pc, todo, dry, status>>
  PROVE  ImageInv'
<1>1. HalfIsKnown'
  BY DEF ImageInv, HalfIsKnown
<1> QED
  BY <1>1
  DEF ImageInv, ConvertKept, UploadKept, UploadAhead, InProvision, Writing,
      UploadBeforeCutover

\* A report of a phase other than convert and upload keeps the invariant.
LEMMA ImageReport ==
  ASSUME ImageInv, TypeOK', UNCHANGED <<file, image, completed>>, HalfIsKnown',
         pc # "idle", todo # <<>>, Head(todo) \notin {"convert", "upload"},
         image = "none" => source' = "On",
         NEW o \in Outcome, NEW r \in {"ok", "dry-run"}, Report(o, r)
  PROVE  ImageInv'
  BY DEF ImageInv, ConvertKept, UploadKept, UploadAhead, InProvision, Writing, Report,
         UploadBeforeCutover

\* Half a disk stays known for what it is in every step.
LEMMA HalfStep == ImageInv /\ [Next]_vars => HalfIsKnown'
<1> SUFFICES ASSUME ImageInv, [Next]_vars PROVE HalfIsKnown'
  OBVIOUS
<1>1. CASE UNCHANGED <<disks, file, image, exportFailed>>
  BY <1>1 DEF ImageInv, HalfIsKnown
<1>2. CASE ExportOk \/ ExportFails \/ CrashInExport \/ ConvertOk \/ Upload
  BY <1>2
  DEF ExportOk, ExportFails, CrashInExport, ConvertOk, Upload, ImageInv, HalfIsKnown
<1>3. CASE \/ Start \/ Finish \/ Skip \/ Record \/ LacksInput \/ DryRun \/ AssessOk
           \/ Snapshot \/ ConvertFails \/ BeginProvision \/ ProvisionFails \/ NoImage
           \/ ServerUp \/ ServerInError \/ Validate \/ ValidateAmbiguous \/ AssessFails
           \/ Crash \/ CrashInRecord \/ DiscardJournal \/ UNCHANGED vars
  BY <1>1, <1>3
  DEF Start, Finish, Skip, Record, LacksInput, DryRun, AssessOk, Snapshot, ConvertFails,
      BeginProvision, ProvisionFails, NoImage, ServerUp, ServerInError, Validate,
      ValidateAmbiguous, AssessFails, Crash, CrashInRecord, DiscardJournal, vars, plant
<1>4. CASE CreatePort \/ CreateServer \/ Cutover \/ CutoverFails
  BY <1>1, <1>4 DEF CreatePort, CreateServer, Cutover, CutoverFails
<1>5. CASE Boots \/ BootFails
  BY <1>1, <1>5 DEF Boots, BootFails, Boot
<1> QED
  BY <1>2, <1>3, <1>4, <1>5 DEF Next, Progress, Misfortune

LEMMA ImageStep == UploadFirst /\ ImageInv /\ [Next]_vars => ImageInv'
<1> SUFFICES ASSUME UploadFirst, ImageInv, [Next]_vars PROVE ImageInv'
  OBVIOUS
<1>t. TypeOK /\ TypeOK' /\ HalfIsKnown'
  BY NextTyped, HalfStep DEF ImageInv
<1> USE DEF Writing
<1>1. CASE Start
  <2>1. UploadBeforeCutover(todo')
    BY <1>1 DEF Start, UploadFirst
  <2>2. UploadBeforeCutover(todo)'
    BY <2>1 DEF UploadBeforeCutover
  <2> QED
    BY <1>1, <1>t, <2>2
    DEF Start, ImageInv, ConvertKept, UploadKept, UploadAhead, InProvision, plant, journal
<1>2. CASE Finish \/ LacksInput \/ NoImage \/ ServerInError \/ ValidateAmbiguous
           \/ AssessFails \/ Crash \/ CrashInRecord \/ CrashInExport
  BY <1>2, <1>t, ImageQuiet
  DEF Finish, LacksInput, NoImage, ServerInError, ValidateAmbiguous, AssessFails, Crash,
      CrashInRecord, CrashInExport, Raise, Leave, plant, journal
<1>3. CASE Skip
  <2>1. image = "none" => Head(todo) # "upload"
    BY <1>3 DEF Skip, ImageInv, UploadKept
  <2>2. image = "none" /\ ~dry => UploadBeforeCutover(Tail(todo))
    BY <1>3, <1>t, <2>1, TailKeepsUpload DEF Skip, ImageInv, UploadAhead, TypeOK
  <2>3. image = "none" /\ ~dry => UploadBeforeCutover(todo)'
    BY <1>3, <2>2 DEF Skip, UploadBeforeCutover
  <2> QED
    BY <1>3, <1>t, <2>3
    DEF Skip, ImageInv, ConvertKept, UploadKept, UploadAhead, InProvision, plant, journal
<1>4. CASE Record
  <2>0. todo # <<>>
    BY <1>4, <1>t DEF Record, TypeOK
  <2>1. image = "none" /\ ~dry => Head(todo) # "upload"
    BY <1>4 DEF Record, ImageInv, UploadKept
  <2>2. image = "none" /\ ~dry => UploadBeforeCutover(Tail(todo))
    BY <1>4, <1>t, <2>0, <2>1, TailKeepsUpload DEF Record, ImageInv, UploadAhead, TypeOK
  <2>3. image = "none" /\ ~dry => UploadBeforeCutover(todo)'
    BY <1>4, <2>2 DEF Record, UploadBeforeCutover
  <2>4. ConvertKept' /\ UploadKept'
    BY <1>4 DEF Record, ImageInv, ConvertKept, UploadKept, plant
  <2> QED
    BY <1>4, <1>t, <2>3, <2>4 DEF Record, ImageInv, UploadAhead, InProvision, plant
<1>5. CASE DryRun
  <2>1. dry /\ pc = "phase" /\ todo # <<>>
    BY <1>5 DEF DryRun, At
  <2>2. PICK o \in Outcome : Report(o, "dry-run")
    BY <1>5 DEF DryRun, Outcome
  <2> QED
    BY <1>5, <1>t, <2>1, <2>2
    DEF DryRun, Report, ImageInv, ConvertKept, UploadKept, UploadAhead, InProvision, plant,
        journal
<1>6. CASE AssessOk \/ Snapshot \/ ExportOk \/ ExportFails \/ Validate
  <2>1. /\ pc # "idle" /\ todo # <<>>
        /\ Head(todo) \notin {"convert", "upload"}
    BY <1>6 DEF AssessOk, Snapshot, ExportOk, ExportFails, Validate, Runs, At
  <2>2. PICK o \in Outcome, r \in {"ok", "dry-run"} : Report(o, r)
    BY <1>6 DEF AssessOk, Snapshot, ExportOk, ExportFails, Validate, Outcome
  <2>3. UNCHANGED <<source, file, image, completed>>
    BY <1>6 DEF AssessOk, Snapshot, ExportOk, ExportFails, Validate, plant, journal
  <2> QED  BY <1>t, <2>1, <2>2, <2>3, ImageReport DEF ImageInv, UploadAhead
<1>7. CASE ProvisionFails \/ ServerUp
  <2>1. pc # "idle" /\ todo # <<>> /\ Head(todo) = "provision"
    BY <1>7, <1>t DEF ProvisionFails, ServerUp, ImageInv, InProvision, TypeOK
  <2>2. PICK o \in Outcome : Report(o, "ok")
    BY <1>7 DEF ProvisionFails, ServerUp, Outcome
  <2>3. UNCHANGED <<source, file, image, completed>>
    BY <1>7 DEF ProvisionFails, ServerUp, plant, journal
  <2> QED  BY <1>t, <2>1, <2>2, <2>3, ImageReport DEF ImageInv, UploadAhead
<1>8. CASE Cutover \/ CutoverFails
  <2>1. pc # "idle" /\ todo # <<>> /\ Head(todo) = "cutover" /\ ~dry
    BY <1>8 DEF Cutover, CutoverFails, Runs, At
  <2>2. PICK o \in Outcome : Report(o, "ok")
    BY <1>8 DEF Cutover, CutoverFails, Outcome
  <2>3. UNCHANGED <<file, image, completed>>
    BY <1>8 DEF Cutover, CutoverFails, journal
  <2>4. image # "none"
    <3> SUFFICES ASSUME UploadBeforeCutover(todo) PROVE FALSE
      BY <2>1 DEF ImageInv, UploadAhead
    <3>1. todo \in Seq(Phases)
      BY <1>t DEF TypeOK
    <3>2. 1 \in 1..Len(todo) /\ todo[1] = "cutover"
      BY <2>1, <3>1
    <3>3. \E i \in 1..(1 - 1) : todo[i] = "upload"
      BY <3>2 DEF UploadBeforeCutover
    <3> QED  BY <3>3
  <2> QED  BY <1>t, <2>1, <2>2, <2>3, <2>4, ImageReport
<1>9. CASE ConvertOk \/ ConvertFails
  <2>1. pc = "phase" /\ todo # <<>> /\ Head(todo) = "convert"
    BY <1>9 DEF ConvertOk, ConvertFails, Runs, At
  <2> QED
    BY <1>9, <1>t, <2>1
    DEF ConvertOk, ConvertFails, Report, ImageInv, ConvertKept, UploadKept, UploadAhead,
        InProvision, UploadBeforeCutover, plant, journal
<1>10. CASE Upload
  <2>1. pc = "phase" /\ Head(todo) = "upload" /\ "convert" \in completed
    BY <1>10 DEF Upload, Runs, At, Lacks
  <2>2. image' # "none"
    BY <1>10, <2>1 DEF Upload, ImageInv, ConvertKept
  <2> QED
    BY <1>10, <1>t, <2>1, <2>2
    DEF Upload, Report, ImageInv, ConvertKept, UploadKept, UploadAhead, InProvision, journal
<1>11. CASE BeginProvision \/ CreatePort \/ CreateServer
  <2>1. Head(todo) = "provision" /\ pc # "idle"
    BY <1>11 DEF BeginProvision, CreatePort, CreateServer, Runs, At, ImageInv, InProvision
  <2> QED
    BY <1>11, <1>t, <2>1
    DEF BeginProvision, CreatePort, CreateServer, ImageInv, ConvertKept, UploadKept,
        UploadAhead, InProvision, UploadBeforeCutover, plant, journal
<1>12. CASE DiscardJournal \/ Boots \/ BootFails \/ UNCHANGED vars
  BY <1>12, <1>t, ImageQuiet
  DEF DiscardJournal, Boots, BootFails, Boot, vars, plant, journal, process
<1> QED
  BY <1>1, <1>2, <1>3, <1>4, <1>5, <1>6, <1>7, <1>8, <1>9, <1>10, <1>11, <1>12
  DEF Next, Progress, Misfortune

\* When the source is powered off its disk is in Glance, however often the
\* migration is resumed: all of it, unless an export of the VM has failed or
\* was cut short, and then at least what that export left.
THEOREM SourceOutlivesUpload == UploadFirst /\ Spec => []OffOnlyWithDisk
<1> SUFFICES ASSUME UploadFirst PROVE Spec => []OffOnlyWithDisk
  OBVIOUS
<1>1. ImageInv => OffOnlyWithDisk
  BY DEF ImageInv, UploadAhead, HalfIsKnown, OffOnlyWithDisk, TypeOK, Content
<1>2. ImageInv /\ [Next]_vars => ImageInv'
  BY ImageStep
<1> QED  BY <1>1, <1>2, ImageInit, PTL DEF Spec

-----------------------------------------------------------------------------
(* A clean run                                                             *)

\* The place of a phase in PHASES.
Rank(p) ==
  CASE p = "assess"    -> 1
    [] p = "snapshot"  -> 2
    [] p = "export"    -> 3
    [] p = "convert"   -> 4
    [] p = "upload"    -> 5
    [] p = "provision" -> 6
    [] p = "validate"  -> 7
    [] p = "cutover"   -> 8

Ascending(list) == \A i, j \in 1..Len(list) : i < j => Rank(list[i]) < Rank(list[j])

\* "default: all, in order" (line 445): the lists asked for are parts of
\* PHASES.  The code runs any other list as it is given, and one that exports
\* after it has converted would serve a disk that is not the source's.
ListsInOrder == \A list \in PhaseLists : Ascending(list)

\* What has a row in the report is behind, or is being recorded.
Behind ==
  \A row \in rows : \A i \in 1..Len(todo) :
    \/ Rank(row[1]) < Rank(todo[i])
    \/ pc = "record" /\ i = 1 /\ row[1] = todo[1]

OrderInv == Ascending(todo) /\ Behind

Done(p) == <<p, "OK">> \in rows

\* The disk goes from product to product as it was exported.
DiskInv ==
  Done("export") =>
    /\ disks = "whole"
    /\ Done("convert") =>
         /\ file = "whole"
         /\ Done("upload") => image = "whole"

Copied == Done("export") /\ Done("convert") /\ Done("upload")

\* The last instance is the one this invocation has made.
ServerInv ==
  pc = "boot" \/ Done("provision") =>
    /\ Len(servers) > 0
    /\ Copied => servers[Len(servers)].disk = "whole"

ValidInv == Done("validate") => Len(servers) = 1 /\ servers[1].state = "ACTIVE"

CleanInv == TypeOK /\ InProvision /\ OrderInv /\ DiskInv /\ ServerInv /\ ValidInv

LEMMA RankIsThePlace == \A i \in 1..Len(PHASES) : Rank(PHASES[i]) = i
  BY DEF Rank, PHASES

LEMMA RankTyped == \A p \in Phases : Rank(p) \in 1..8
  BY DEF Rank, Phases

\* A phase that is about to run comes after all that is in the report.
LEMMA RunsLater ==
  ASSUME CleanInv, pc # "record", todo # <<>>, NEW p, NEW o, <<p, o>> \in rows
  PROVE  Rank(p) < Rank(Head(todo))
<1>1. todo \in Seq(Phases)
  BY DEF CleanInv, TypeOK
<1>2. 1 \in 1..Len(todo) /\ Head(todo) = todo[1]
  BY <1>1
<1> QED
  BY <1>2 DEF CleanInv, OrderInv, Behind

\* What the loop does to the order: it reports, goes on, or is left.
LEMMA OrderReport ==
  ASSUME CleanInv, pc \notin {"idle", "record"}, todo # <<>>,
         NEW o, NEW r, Report(o, r)
  PROVE  OrderInv'
<1>1. todo \in Seq(Phases) /\ Head(todo) = todo[1] /\ todo' = todo /\ pc' = "record"
  BY DEF CleanInv, TypeOK, Report
<1>2. Ascending(todo)'
  BY <1>1 DEF CleanInv, OrderInv, Ascending
<1>3. ASSUME NEW row \in rows', NEW i \in 1..Len(todo)
      PROVE  Rank(row[1]) < Rank(todo[i]) \/ (i = 1 /\ row[1] = todo[1])
  <2>1. CASE row \in rows
    BY <2>1 DEF CleanInv, OrderInv, Behind
  <2>2. CASE row[1] = todo[1]
    <3>1. CASE i = 1
      BY <2>2, <3>1
    <3>2. CASE i # 1
      BY <1>1, <2>2, <3>2 DEF CleanInv, OrderInv, Ascending
    <3> QED
      BY <3>1, <3>2
  <2> QED
    BY <1>1, <2>1, <2>2 DEF Report
<1> QED
  BY <1>1, <1>2, <1>3 DEF OrderInv, Behind

LEMMA OrderTail ==
  ASSUME CleanInv, todo # <<>>, todo' = Tail(todo), rows' = rows
  PROVE  OrderInv'
<1>1. todo \in Seq(Phases)
  BY DEF CleanInv, TypeOK
<1>2. \A i \in 1..Len(todo') : i + 1 \in 1..Len(todo) /\ todo'[i] = todo[i + 1] /\ i + 1 # 1
  BY <1>1
<1>3. Ascending(todo)'
  <2> SUFFICES ASSUME NEW i \in 1..Len(todo'), NEW j \in 1..Len(todo'), i < j
               PROVE  Rank(todo'[i]) < Rank(todo'[j])
    BY DEF Ascending
  <2>1. i + 1 < j + 1
    OBVIOUS
  <2> QED
    BY <1>2, <2>1 DEF CleanInv, OrderInv, Ascending
<1>4. Behind'
  BY <1>2 DEF CleanInv, OrderInv, Behind
<1> QED
  BY <1>3, <1>4 DEF OrderInv

LEMMA OrderEnds ==
  ASSUME todo' = <<>>
  PROVE  OrderInv'
<1>1. 1..Len(todo') = {}
  OBVIOUS
<1> QED
  BY <1>1 DEF OrderInv, Ascending, Behind

LEMMA OrderStays ==
  ASSUME CleanInv, UNCHANGED <<todo, rows>>, pc = "record" => pc' = "record"
  PROVE  OrderInv'
  BY DEF CleanInv, OrderInv, Ascending, Behind

Products == <<disks, file, image, servers>>

\* A step that makes nothing, reports nothing and does not enter the wait for
\* the instance keeps what is known of the products.
LEMMA ProductsStay ==
  ASSUME CleanInv, UNCHANGED Products, rows' \subseteq rows, pc' = "boot" => pc = "boot"
  PROVE  DiskInv' /\ ServerInv' /\ ValidInv'
  BY DEF CleanInv, DiskInv, ServerInv, ValidInv, Done, Copied, Products

\* So does a report of a phase that makes nothing, or of a failure.
LEMMA ProductsReport ==
  ASSUME CleanInv, UNCHANGED Products, NEW o, NEW r, Report(o, r),
         \/ o # "OK"
         \/ Head(todo) \notin {"export", "convert", "upload", "provision", "validate"}
  PROVE  DiskInv' /\ ServerInv' /\ ValidInv'
<1>1. \A p \in {"export", "convert", "upload", "provision", "validate"} : Done(p)' => Done(p)
  BY DEF Report, Done
<1>2. pc' = "record"
  BY DEF Report
<1> QED
  BY <1>1, <1>2 DEF CleanInv, DiskInv, ServerInv, ValidInv, Copied, Products

LEMMA CleanInit == Init => CleanInv
<1> SUFFICES ASSUME Init PROVE CleanInv
  OBVIOUS
<1>1. todo = <<>> /\ rows = {} /\ pc = "idle"
  BY DEF Init
<1>2. OrderInv
  <2>1. 1..Len(todo) = {}
    BY <1>1
  <2> QED
    BY <2>1 DEF OrderInv, Ascending, Behind
<1> QED
  BY <1>1, <1>2, InitTyped
  DEF CleanInv, InProvision, DiskInv, ServerInv, ValidInv, Done

LEMMA CleanStep == ListsInOrder /\ CleanInv /\ [Next]_vars => CleanInv'
<1> SUFFICES ASSUME ListsInOrder, CleanInv, [Next]_vars PROVE CleanInv'
  OBVIOUS
<1>t. TypeOK /\ TypeOK'
  BY NextTyped DEF CleanInv
<1>1. CASE Start
  <2>1. Ascending(todo)'
    BY <1>1 DEF Start, ListsInOrder, Ascending
  <2>2. rows' = {} /\ pc' = "phase"
    BY <1>1 DEF Start
  <2> QED
    BY <1>t, <2>1, <2>2
    DEF CleanInv, OrderInv, Behind, InProvision, DiskInv, ServerInv, ValidInv, Done
<1>2. CASE Finish \/ LacksInput \/ NoImage \/ ServerInError \/ ValidateAmbiguous
           \/ Crash \/ CrashInRecord
  <2>1. pc' = "idle" /\ todo' = <<>> /\ rows' = rows /\ UNCHANGED Products
    BY <1>2 DEF Finish, LacksInput, NoImage, ServerInError, ValidateAmbiguous, Crash,
       CrashInRecord, Raise, Leave, plant, Products
  <2> QED
    BY <1>t, <2>1, OrderEnds, ProductsStay DEF CleanInv, InProvision
<1>15. CASE CrashInExport
  <2>1. pc = "phase" /\ todo # <<>> /\ Head(todo) = "export"
    BY <1>15 DEF CrashInExport, Runs, At
  <2>2. pc' = "idle" /\ todo' = <<>> /\ rows' = rows /\ UNCHANGED <<file, image, servers>>
    BY <1>15 DEF CrashInExport, Raise, Leave
  <2>3. ~Done("export") /\ (\A p \in Phases : Done(p)' <=> Done(p))
    BY <2>1, <2>2, RunsLater DEF Done, Rank
  <2>4. DiskInv' /\ ServerInv' /\ ValidInv'
    BY <2>2, <2>3 DEF CleanInv, DiskInv, ServerInv, ValidInv, Copied, Phases
  <2> QED
    BY <1>t, <2>2, <2>4, OrderEnds DEF CleanInv, InProvision
<1>3. CASE AssessFails
  <2>1. /\ pc' = "idle" /\ todo' = <<>> /\ UNCHANGED Products
        /\ rows' = rows \cup {<<"assess", "FAIL">>}
    BY <1>3 DEF AssessFails, Leave, plant, Products
  <2>2. \A p \in Phases : Done(p)' <=> Done(p)
    BY <2>1 DEF Done
  <2>3. DiskInv' /\ ServerInv' /\ ValidInv'
    BY <2>1, <2>2
    DEF CleanInv, DiskInv, ServerInv, ValidInv, Copied, Products, Phases
  <2> QED
    BY <1>t, <2>1, <2>3, OrderEnds DEF CleanInv, InProvision
<1>4. CASE Skip \/ Record
  <2>1. todo # <<>>
    BY <1>4, <1>t DEF Skip, Record, TypeOK
  <2>2. todo' = Tail(todo) /\ rows' = rows /\ pc' = "phase" /\ UNCHANGED Products
    BY <1>4 DEF Skip, Record, plant, Products
  <2> QED
    BY <1>t, <2>1, <2>2, OrderTail, ProductsStay DEF CleanInv, InProvision
<1>5. CASE DryRun
  <2>1. pc = "phase" /\ todo # <<>> /\ UNCHANGED Products
    BY <1>5 DEF DryRun, At, plant, Products
  <2>2. PICK o : o # "OK" /\ Report(o, "dry-run")
    BY <1>5 DEF DryRun
  <2>3. pc' = "record"
    BY <2>2 DEF Report
  <2> QED
    BY <1>t, <2>1, <2>2, <2>3, OrderReport, ProductsReport DEF CleanInv, InProvision
<1>6. CASE AssessOk \/ Snapshot \/ Cutover \/ CutoverFails
  <2>1. pc = "phase" /\ todo # <<>> /\ UNCHANGED Products
    BY <1>6 DEF AssessOk, Snapshot, Cutover, CutoverFails, Runs, At, plant, Products
  <2>2. Head(todo) \in {"assess", "snapshot", "cutover"}
    BY <1>6 DEF AssessOk, Snapshot, Cutover, CutoverFails, Runs, At
  <2>3. PICK o, r : Report(o, r)
    BY <1>6 DEF AssessOk, Snapshot, Cutover, CutoverFails
  <2>4. pc' = "record"
    BY <2>3 DEF Report
  <2> QED
    BY <1>t, <2>1, <2>2, <2>3, <2>4, OrderReport, ProductsReport DEF CleanInv, InProvision
<1>7. CASE ConvertFails \/ ProvisionFails
  <2>1. pc \notin {"idle", "record"} /\ todo # <<>> /\ UNCHANGED Products
    BY <1>7, <1>t DEF ConvertFails, ProvisionFails, Runs, At, plant, Products, TypeOK
  <2>2. PICK r : Report("FAIL", r)
    BY <1>7 DEF ConvertFails, ProvisionFails
  <2>3. pc' = "record"
    BY <2>2 DEF Report
  <2> QED
    BY <1>t, <2>1, <2>2, <2>3, OrderReport, ProductsReport DEF CleanInv, InProvision
<1>8. CASE ExportOk \/ ExportFails \/ ConvertOk \/ Upload
  <2>1. pc = "phase" /\ todo # <<>> /\ Head(todo) \in {"export", "convert", "upload"}
    BY <1>8 DEF ExportOk, ExportFails, ConvertOk, Upload, Runs, At
  <2>2. PICK o, r : Report(o, r) /\ (ExportFails => o = "FAIL")
    BY <1>8 DEF ExportOk, ExportFails, ConvertOk, Upload
  <2>3. pc' = "record" /\ rows' = rows \cup {<<Head(todo), o>>}
    BY <2>2 DEF Report
  <2>4. OrderInv'
    BY <2>1, <2>2, OrderReport
  <2>5. servers' = servers
    BY <1>8 DEF ExportOk, ExportFails, ConvertOk, Upload
  <2>6. ~Done("provision") /\ ~Done("validate")
    BY <2>1, RunsLater DEF Done, Rank
  <2>7. ServerInv' /\ ValidInv'
    BY <2>1, <2>3, <2>6 DEF ServerInv, ValidInv, Done
  <2>8. DiskInv'
    <3>1. CASE ExportOk \/ ExportFails
      <4>1. ~Done("export") /\ ~Done("convert")
        BY <2>1, <3>1, RunsLater DEF Done, Rank, ExportOk, ExportFails, Runs, At
      <4>2. Head(todo) = "export" /\ ~Done("convert")'
        BY <2>3, <3>1, <4>1 DEF Done, ExportOk, ExportFails, Runs, At
      <4>3. Done("export")' => disks' = "whole"
        BY <2>2, <2>3, <3>1, <4>1 DEF Done, ExportOk
      <4> QED
        BY <4>2, <4>3 DEF DiskInv
    <3>2. CASE ConvertOk
      <4>1. Head(todo) = "convert" /\ disks' = disks /\ file' = disks
        BY <3>2 DEF ConvertOk, Runs, At
      <4>2. ~Done("upload")
        BY <2>1, <4>1, RunsLater DEF Done, Rank
      <4>3. ~Done("upload")' /\ (Done("export")' => Done("export"))
        BY <2>3, <4>1, <4>2 DEF Done
      <4> QED
        BY <4>1, <4>3 DEF CleanInv, DiskInv
    <3>3. CASE Upload
      <4>1. Head(todo) = "upload" /\ UNCHANGED <<disks, file>> /\ image' = file
        BY <3>3 DEF Upload, Runs, At
      <4>2. (Done("export")' => Done("export")) /\ (Done("convert")' => Done("convert"))
        BY <2>3, <4>1 DEF Done
      <4> QED
        BY <4>1, <4>2 DEF CleanInv, DiskInv
    <3> QED
      BY <1>8, <3>1, <3>2, <3>3
  <2> QED
    BY <1>t, <2>3, <2>4, <2>7, <2>8 DEF CleanInv, InProvision
<1>9. CASE BeginProvision \/ CreatePort
  <2>1. UNCHANGED <<todo, rows>> /\ pc # "record" /\ pc' = "ports" /\ UNCHANGED Products
    BY <1>9 DEF BeginProvision, CreatePort, Runs, At, plant, Products
  <2>2. Head(todo) = "provision"
    BY <1>9 DEF BeginProvision, CreatePort, Runs, At, CleanInv, InProvision
  <2> QED
    BY <1>t, <2>1, <2>2, OrderStays, ProductsStay DEF CleanInv, InProvision
<1>10. CASE CreateServer
  <2>1. /\ pc = "ports" /\ pc' = "boot" /\ UNCHANGED <<todo, rows, disks, file, image>>
        /\ servers' = Append(servers, [state |-> "BUILD", disk |-> image])
    BY <1>10 DEF CreateServer
  <2>2. todo # <<>> /\ Head(todo) = "provision"
    BY <1>t, <2>1 DEF TypeOK, CleanInv, InProvision
  <2>3. ~Done("validate")
    BY <2>1, <2>2, RunsLater DEF Done, Rank
  <2>4. servers \in Seq(Servers)
    BY <1>t DEF TypeOK, Servers
  <2>5. Len(servers') > 0 /\ servers'[Len(servers')].disk = image
    BY <2>1, <2>4
  <2>6. DiskInv' /\ ServerInv' /\ ValidInv'
    BY <2>1, <2>3, <2>5 DEF CleanInv, DiskInv, ServerInv, ValidInv, Done, Copied
  <2>7. OrderInv'
    BY <2>1, OrderStays
  <2> QED
    BY <1>t, <2>1, <2>2, <2>6, <2>7 DEF CleanInv, InProvision
<1>11. CASE ServerUp
  <2>1. pc = "boot" /\ UNCHANGED Products /\ Report("OK", "ok")
    BY <1>11 DEF ServerUp, plant, Products
  <2>2. todo # <<>> /\ Head(todo) = "provision"
    BY <1>t, <2>1 DEF TypeOK, CleanInv, InProvision
  <2>3. OrderInv' /\ pc' = "record"
    BY <2>1, <2>2, OrderReport DEF Report
  <2>4. \A p \in Phases \ {"provision"} : Done(p)' <=> Done(p)
    BY <2>1, <2>2 DEF Report, Done
  <2>5. DiskInv' /\ ServerInv' /\ ValidInv'
    BY <2>1, <2>3, <2>4
    DEF CleanInv, DiskInv, ServerInv, ValidInv, Copied, Products, Phases
  <2> QED
    BY <1>t, <2>3, <2>5 DEF CleanInv, InProvision
<1>12. CASE Validate
  <2>1. pc = "phase" /\ todo # <<>> /\ Head(todo) = "validate" /\ UNCHANGED Products
    BY <1>12 DEF Validate, Runs, At, plant, Products
  <2>2. PICK o : Report(o, "ok") /\ (o = "OK" => Len(servers) = 1 /\ servers[1].state = "ACTIVE")
    BY <1>12 DEF Validate
  <2>3. OrderInv' /\ pc' = "record"
    BY <2>1, <2>2, OrderReport DEF Report
  <2>4. \A p \in Phases \ {"validate"} : Done(p)' <=> Done(p)
    BY <2>1, <2>2 DEF Report, Done
  <2>5. DiskInv' /\ ServerInv'
    BY <2>1, <2>3, <2>4
    DEF CleanInv, DiskInv, ServerInv, Copied, Products, Phases
  <2>6. ValidInv'
    BY <2>1, <2>2 DEF Report, Done, CleanInv, ValidInv, Products
  <2> QED
    BY <1>t, <2>3, <2>5, <2>6 DEF CleanInv, InProvision
<1>13. CASE DiscardJournal \/ UNCHANGED vars
  <2>1. UNCHANGED <<pc, todo, rows>> /\ UNCHANGED Products
    BY <1>13 DEF DiscardJournal, vars, plant, process, Products
  <2> QED
    BY <1>t, <2>1, OrderStays, ProductsStay DEF CleanInv, InProvision
<1>14. CASE Boots \/ BootFails
  <2>1. PICK i \in 1..Len(servers), s \in {"ACTIVE", "ERROR"} : Boot(i, s)
    BY <1>14 DEF Boots, BootFails
  <2>2. UNCHANGED <<pc, todo, rows, disks, file, image>>
    BY <2>1 DEF Boot, process
  <2>3. servers \in Seq(Servers)
    BY <1>t DEF TypeOK, Servers
  <2>4. /\ Len(servers') = Len(servers)
        /\ \A k \in 1..Len(servers) :
             /\ servers'[k].disk = servers[k].disk
             /\ servers[k].state = "ACTIVE" => servers'[k] = servers[k]
    BY <2>1, <2>3 DEF Boot, Servers
  <2>5. DiskInv' /\ ServerInv' /\ ValidInv'
    BY <2>2, <2>3, <2>4 DEF CleanInv, DiskInv, ServerInv, ValidInv, Done, Copied
  <2> QED
    BY <1>t, <2>2, <2>5, OrderStays DEF CleanInv, InProvision
<1> QED
  BY <1>1, <1>2, <1>3, <1>4, <1>5, <1>6, <1>7, <1>8, <1>9, <1>10, <1>11, <1>12, <1>13, <1>14,
     <1>15
  DEF Next, Progress, Misfortune

\* When one invocation has gone through every phase up to validate with no
\* failure, the one instance is up and holds all of the source's disk: none of
\* the failures, crashes and resumptions before it has left anything behind
\* that it takes for its own.
THEOREM CleanRunHolds == ListsInOrder /\ Spec => []CleanRunServes
<1> SUFFICES ASSUME ListsInOrder PROVE Spec => []CleanRunServes
  OBVIOUS
<1>1. CleanInv => CleanRunServes
  <2> SUFFICES ASSUME CleanInv, \A p \in Phases \ {"cutover"} : <<p, "OK">> \in rows
               PROVE  /\ Len(servers) = 1
                      /\ servers[1] = [state |-> "ACTIVE", disk |-> "whole"]
    BY DEF CleanRunServes
  <2>1. /\ Done("export") /\ Done("convert") /\ Done("upload")
        /\ Done("provision") /\ Done("validate")
    BY DEF Done, Phases
  <2>2. Len(servers) = 1 /\ servers[1].state = "ACTIVE" /\ servers[1].disk = "whole"
    BY <2>1 DEF CleanInv, ServerInv, ValidInv, Copied
  <2>3. servers[1] \in Servers
    <3>1. servers \in Seq(Servers)
      BY DEF CleanInv, TypeOK, Servers
    <3>2. \A k \in 1..Len(servers) : servers[k] \in Servers
      BY <3>1
    <3>3. 1 \in 1..Len(servers)
      BY <2>2
    <3> QED
      BY <3>2, <3>3
  <2> QED
    BY <2>2, <2>3 DEF Servers
<1>2. CleanInv /\ [Next]_vars => CleanInv'
  BY CleanStep
<1> QED
  BY <1>1, <1>2, CleanInit, PTL DEF Spec
=============================================================================
