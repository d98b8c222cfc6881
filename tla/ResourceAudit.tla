--------------------------- MODULE ResourceAudit ----------------------------
(***************************************************************************)
(* openstack/python/orphaned_resource_audit.py: find volumes, snapshots,   *)
(* floating IPs, ports and images nobody uses, report them and, with       *)
(* --delete, delete the ones reported.  Nothing is looked at again between *)
(* the listing and the deletion, while users go on using the region.       *)
(* Output and the sum of gigabytes are left out.                           *)
(***************************************************************************)
EXTENDS Integers, FiniteSets

CONSTANTS
  Resource,      \* what exists or may be created
  KindOf,        \* [Resource -> Kinds]
  VolumeOf,      \* [Resource -> of a snapshot, its volume]
  Exempt,        \* ports of the infrastructure, images protected or not private
  Undated,       \* resources whose created_at cannot be read
  MinAge,        \* --age-days
  MaxUses        \* bound on creations, uses and refused calls

Kinds == {"volume", "snapshot", "floating-ip", "port", "image"}

ASSUME AuditAssumption ==
  /\ KindOf \in [Resource -> Kinds]
  /\ VolumeOf \in [Resource -> Resource]
  /\ \A x \in Resource : KindOf[x] = "snapshot" => KindOf[VolumeOf[x]] = "volume"
  /\ MinAge \in Nat \ {0}
  /\ MaxUses \in Nat

VARIABLES
  exists,   \* resources that are there
  used,     \* volumes attached, IPs associated, ports bound, images booted from
  age,      \* [Resource -> days since it was created up to MinAge, -1 before]
  check,    \* the finder at work, "idle", "next", "confirm" or "delete"
  checks,   \* the checks still to do
  first,    \* what the first of two listings of a finder returned
  orphans,  \* the rows
  auditRc,  \* exit code of the last run
  failures, \* whether a deletion failed
  wasIdle,  \* history: what was unused at some time since the run began
  uses

world == <<exists, used, age>>
audit == <<check, checks, first, orphans, auditRc, failures>>
avars == <<world, audit, wasIdle, uses>>

AuditTypeOK ==
  /\ exists \in SUBSET Resource
  /\ used \in SUBSET Resource
  /\ age \in [Resource -> -1..MinAge]
  /\ check \in {"idle", "next", "snapshots", "images", "confirm", "delete"}
  /\ checks \in SUBSET Kinds
  /\ first \in SUBSET Resource
  /\ orphans \in SUBSET Resource
  /\ auditRc \in 0..1 /\ failures \in BOOLEAN
  /\ wasIdle \in SUBSET Resource
  /\ uses \in 0..MaxUses

Of(kind) == {x \in Resource : KindOf[x] = kind}

\* A snapshot is wanted as long as its volume is there.
InUse(x) == IF KindOf[x] = "snapshot" THEN VolumeOf[x] \in exists ELSE x \in used

AuditInit ==
  /\ exists = {} /\ used = {} /\ age = [x \in Resource |-> -1]
  /\ check = "idle" /\ checks = {} /\ first = {} /\ orphans = {}
  /\ auditRc = 0 /\ failures = FALSE
  /\ wasIdle = {} /\ uses = 0

Use == uses < MaxUses /\ uses' = uses + 1

\* wasIdle follows every step of the region.
Watch == wasIdle' = wasIdle \cup {x \in exists' : ~InUse(x)'}

-----------------------------------------------------------------------------
(* The region.  External.                                                  *)

\* A resource is made by whoever is about to use it, or left unused; a
\* snapshot is made of a volume.
CreateResource(x) ==
  /\ age[x] = -1
  /\ KindOf[x] = "snapshot" => VolumeOf[x] \in exists
  /\ Use
  /\ exists' = exists \cup {x}
  /\ used' \in {used, used \cup {x}}
  /\ age' = [age EXCEPT ![x] = 0]
  /\ UNCHANGED audit /\ Watch

TakeUp(x) ==
  /\ x \in exists \ used /\ KindOf[x] # "snapshot"
  /\ Use
  /\ used' = used \cup {x}
  /\ UNCHANGED <<exists, age, audit>> /\ Watch

Release(x) ==
  /\ x \in exists \cap used
  /\ used' = used \ {x}
  /\ UNCHANGED <<exists, age, audit, uses>> /\ Watch

\* Its owner deletes it; a volume that was forced away leaves its snapshots.
DeleteResource(x) ==
  /\ x \in exists \ used
  /\ Use
  /\ exists' = exists \ {x}
  /\ UNCHANGED <<used, age, audit>> /\ Watch

\* A day goes by; not between the two listings of a finder.
Day ==
  /\ check \notin {"snapshots", "images"}
  /\ \E x \in exists : age[x] < MinAge
  /\ age' = [x \in Resource |-> IF x \in exists /\ age[x] < MinAge THEN age[x] + 1 ELSE age[x]]
  /\ UNCHANGED <<exists, used, audit, uses>> /\ Watch

-----------------------------------------------------------------------------
(* The audit                                                               *)

\* Mutant: a day short.
OlderThanOffByOne(x) == x \notin Undated /\ age[x] >= MinAge - 1

OlderThan(x) == x \notin Undated /\ age[x] >= MinAge

BeginAudit(which) ==
  /\ check = "idle" /\ Use
  /\ check' = "next" /\ checks' = which
  /\ first' = {} /\ orphans' = {} /\ failures' = FALSE
  /\ wasIdle' = {x \in exists : ~InUse(x)}
  /\ UNCHANGED <<world, auditRc>>

\* The finders that look at one list.
FindUnused(kind) ==
  /\ check = "next" /\ kind \in checks \cap {"volume", "floating-ip", "port"}
  /\ checks' = checks \ {kind}
  /\ orphans' = orphans \cup
       {x \in exists \cap Of(kind) : x \notin used \cup Exempt /\ OlderThan(x)}
  /\ UNCHANGED <<check, first, auditRc, failures, world, wasIdle, uses>>

\* find_snapshots lists the volumes, find_images the servers, before the rest.
ListVolumes ==
  /\ check = "next" /\ "snapshot" \in checks
  /\ check' = "snapshots" /\ checks' = checks \ {"snapshot"}
  /\ first' = exists \cap Of("volume")
  /\ UNCHANGED <<orphans, auditRc, failures, world, wasIdle, uses>>

FindSnapshots ==
  /\ check = "snapshots"
  /\ orphans' = orphans \cup
       {x \in exists \cap Of("snapshot") : VolumeOf[x] \notin first /\ OlderThan(x)}
  /\ check' = "next" /\ first' = {}
  /\ UNCHANGED <<checks, auditRc, failures, world, wasIdle, uses>>

ListServers ==
  /\ check = "next" /\ "image" \in checks
  /\ check' = "images" /\ checks' = checks \ {"image"}
  /\ first' = used \cap Of("image")
  /\ UNCHANGED <<orphans, auditRc, failures, world, wasIdle, uses>>

FindImages ==
  /\ check = "images"
  /\ orphans' = orphans \cup
       {x \in exists \cap Of("image") : x \notin first \cup Exempt /\ OlderThan(x)}
  /\ check' = "next" /\ first' = {}
  /\ UNCHANGED <<checks, auditRc, failures, world, wasIdle, uses>>

EndAudit(code) ==
  /\ check' = "idle" /\ auditRc' = code
  /\ checks' = {} /\ first' = {} /\ orphans' = {} /\ failures' = FALSE

\* --project keeps the rows of one project.
Reported ==
  /\ check = "next" /\ checks = {}
  /\ \/ EndAudit(0)
     \/ \E kept \in (SUBSET orphans) \ {{}} :
          /\ check' = "confirm" /\ orphans' = kept
          /\ UNCHANGED <<checks, first, auditRc, failures>>
  /\ UNCHANGED <<world, wasIdle, uses>>

ConfirmReclaim ==
  /\ check = "confirm"
  /\ \/ check' = "delete" /\ UNCHANGED <<checks, first, orphans, auditRc, failures>>
     \/ EndAudit(1)
  /\ UNCHANGED <<world, wasIdle, uses>>

\* Cinder refuses a volume that is attached or has snapshots; Neutron and Glance
\* refuse nothing of what the finders return.  What is gone counts as deleted.
Kept(x) ==
  /\ KindOf[x] = "volume"
  /\ x \in used \/ \E y \in exists : KindOf[y] = "snapshot" /\ VolumeOf[y] = x

Reclaim(x) ==
  /\ check = "delete" /\ x \in orphans
  /\ orphans' = orphans \ {x}
  /\ \/ /\ ~Kept(x)
        /\ exists' = exists \ {x} /\ used' = used \ {x}
        /\ UNCHANGED <<failures, uses>>
     \/ /\ Kept(x)
        /\ failures' = TRUE /\ UNCHANGED <<exists, used, uses>>
     \/ Use /\ failures' = TRUE /\ UNCHANGED <<exists, used>>
  /\ UNCHANGED <<age, check, checks, first, auditRc>> /\ Watch

Reclaimed ==
  /\ check = "delete" /\ orphans = {}
  /\ EndAudit(IF failures THEN 1 ELSE 0)
  /\ UNCHANGED <<world, wasIdle, uses>>

AuditStep ==
  \/ \E x \in Resource :
       CreateResource(x) \/ TakeUp(x) \/ Release(x) \/ DeleteResource(x) \/ Reclaim(x)
  \/ Day
  \/ \E which \in {Kinds} \cup {{kind} : kind \in Kinds} : BeginAudit(which)
  \/ \E kind \in Kinds : FindUnused(kind)
  \/ ListVolumes \/ FindSnapshots \/ ListServers \/ FindImages
  \/ Reported \/ ConfirmReclaim \/ Reclaimed

AuditSpec == AuditInit /\ [][AuditStep]_avars

-----------------------------------------------------------------------------
(* What must hold of it                                                    *)

\* "Find (and optionally delete) unowned resources": what a run deletes was
\* unused at some time after that run began.  Two listings never see one
\* moment; what keeps a volume and its snapshot made between them off the rows
\* is their age.
DeletedWasIdle ==
  [][\A x \in Resource :
       check = "delete" /\ orphans' # orphans /\ x \in exists \ exists' => x \in wasIdle]_avars
=============================================================================
