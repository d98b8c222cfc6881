--------------------------- MODULE OrphanCleanup ----------------------------
(***************************************************************************)
(* openstack/python/orphaned_instance_cleanup.py: reconcile Nova with      *)
(* libvirt and the file system of each node, then, with --clean, remove    *)
(* one class of what was found.  Every listing is a step of its own: Nova  *)
(* moves between them, and between the report and the removal.             *)
(*                                                                         *)
(* The loops of ssh calls that read one property of each domain are one    *)
(* step.  The display of disk usage and --format are left out.             *)
(***************************************************************************)
EXTENDS Hypervisors

VARIABLES
  job,       \* where the invocation is, "idle" when none runs
  target,    \* --clean: "orphan-domains", "stale-dirs", or "report" without it
  left,      \* hosts it has still to reconcile
  seen,      \* what it has listed of the host in hand
  rows,      \* its findings
  jobFailed, \* whether a removal failed
  jobRc      \* exit code of the last invocation

cvars == <<job, target, left, seen, rows, jobFailed, jobRc>>

Finding == [finding : {"ORPHAN_DOMAIN", "MISSING_DOMAIN", "STALE_INSTANCE_DIR"},
            host : Host, instance : Instance]

NothingSeen ==
  [host |-> NoHost, domains |-> {}, known |-> {}, expected |-> {}, dirs |-> {}]

CleanupTypeOK ==
  /\ job \in {"idle", "next", "nova", "dirs", "join", "confirm", "clean"}
  /\ target \in {"report", "orphan-domains", "stale-dirs"}
  /\ left \in SUBSET Host
  /\ seen \in [host : Host \cup {NoHost}, domains : SUBSET Instance,
               known : SUBSET Instance, expected : SUBSET Instance,
               dirs : SUBSET Instance]
  /\ rows \in SUBSET Finding
  /\ jobFailed \in BOOLEAN
  /\ jobRc \in 0..1

CleanupInit ==
  /\ job = "idle" /\ target = "report" /\ left = {} /\ seen = NothingSeen
  /\ rows = {} /\ jobFailed = FALSE /\ jobRc = 0

\* --all-hosts takes the hosts with a service record; --host any one.
BeginCleanup(hosts, what) ==
  /\ job = "idle"
  /\ Event
  /\ job' = "next"
  /\ target' = what
  /\ left' = hosts
  /\ seen' = NothingSeen /\ rows' = {} /\ jobFailed' = FALSE
  /\ touched' = {i \in Instance : toward[i] # NoHost}
  /\ UNCHANGED <<jobRc, at, vm, toward, domain, dir, registry>>

\* libvirt_domains: a host whose list fails is skipped.
ListDomains(h) ==
  /\ job = "next" /\ h \in left
  /\ left' = left \ {h}
  /\ \/ /\ job' = "nova"
        /\ seen' = [NothingSeen EXCEPT !.host = h, !.domains = domain[h]]
        /\ UNCHANGED events
     \/ Event /\ UNCHANGED <<job, seen>>
  /\ UNCHANGED <<target, rows, jobFailed, jobRc, instances, registry>>

\* nova_instances, less the deleted ones: reconcile treats a deleted server
\* and an absent one alike, so whether that listing works makes no difference.
ListInstances ==
  /\ job = "nova"
  /\ job' = "dirs"
  /\ seen' = [seen EXCEPT !.known = On(seen.host),
                !.expected = {i \in On(seen.host) : vm[i] = "active"}]
  /\ UNCHANGED <<target, left, rows, jobFailed, jobRc, hvars>>

\* instance_directories: no directory is listed when ls fails.
ListDirs ==
  /\ job = "dirs"
  /\ job' = "join"
  /\ \/ seen' = [seen EXCEPT !.dirs = dir[seen.host]] /\ UNCHANGED events
     \/ Event /\ UNCHANGED seen
  /\ UNCHANGED <<target, left, rows, jobFailed, jobRc, instances, registry>>

Found(kind, h, who) == [finding : {kind}, host : {h}, instance : who]

OrphanDomains(s, uuids) == {i \in uuids : i \notin s.known}
MissingDomains(s, uuids) == s.expected \ uuids
\* Mutant: a directory is wanted only by an instance that should be running.
StaleDirsOfIdle(s, uuids) == {i \in s.dirs : i \notin s.expected /\ i \notin uuids}

StaleDirs(s, uuids) == {i \in s.dirs : i \notin s.known /\ i \notin uuids}

\* reconcile: the UUID of each listed domain is asked for, of which one that
\* is gone or does not answer drops out; then the three lists are joined.
Join ==
  /\ job = "join"
  /\ \E silent \in SUBSET (seen.domains \cap domain[seen.host]) :
       LET uuids == (seen.domains \cap domain[seen.host]) \ silent
           h     == seen.host
       IN  /\ IF silent = {} THEN UNCHANGED events ELSE Event
           /\ rows' = rows
                \cup Found("ORPHAN_DOMAIN", h, OrphanDomains(seen, uuids))
                \cup Found("MISSING_DOMAIN", h, MissingDomains(seen, uuids))
                \cup Found("STALE_INSTANCE_DIR", h, StaleDirs(seen, uuids))
  /\ job' = "next"
  /\ seen' = NothingSeen
  /\ UNCHANGED <<target, left, jobFailed, jobRc>>
  /\ UNCHANGED <<instances, registry>>

Selected ==
  {r \in rows : \/ target = "orphan-domains" /\ r.finding = "ORPHAN_DOMAIN"
                \/ target = "stale-dirs" /\ r.finding = "STALE_INSTANCE_DIR"}

EndCleanup(code) ==
  /\ job' = "idle" /\ jobRc' = code
  /\ target' = "report" /\ left' = {} /\ seen' = NothingSeen
  /\ rows' = {} /\ jobFailed' = FALSE

\* The report is printed.  Nothing to clean, --dry-run or no --clean: the end.
Report ==
  /\ job = "next" /\ left = {}
  /\ \/ EndCleanup(0)
     \/ Selected # {} /\ job' = "confirm"
        /\ UNCHANGED <<target, left, seen, rows, jobFailed, jobRc>>
  /\ UNCHANGED hvars

Confirm ==
  /\ job = "confirm"
  /\ \/ job' = "clean"
        /\ UNCHANGED <<target, left, seen, rows, jobFailed, jobRc>>
     \/ EndCleanup(1)
  /\ UNCHANGED hvars

\* virsh destroy, then virsh undefine: only the second one's code counts.
\* What is no longer there cannot be undefined.  A guest whose destroy fails
\* goes on running although undefine succeeds.
CleanDomain(r) ==
  /\ job = "clean" /\ target = "orphan-domains" /\ r \in Selected
  /\ rows' = rows \ {r}
  /\ \/ /\ domain' = [domain EXCEPT ![r.host] = @ \ {r.instance}]
        /\ jobFailed' = (jobFailed \/ r.instance \notin domain[r.host])
        /\ UNCHANGED events
     \/ Event /\ UNCHANGED <<domain, jobFailed>>
     \/ Event /\ jobFailed' = TRUE /\ UNCHANGED domain
     \/ /\ Event /\ jobFailed' = TRUE
        /\ domain' = [domain EXCEPT ![r.host] = @ \ {r.instance}]
  /\ UNCHANGED <<job, target, left, seen, jobRc>>
  /\ UNCHANGED <<at, vm, toward, dir, touched, registry>>

\* rm -rf of one directory.
CleanDir(r) ==
  /\ job = "clean" /\ target = "stale-dirs" /\ r \in Selected
  /\ rows' = rows \ {r}
  /\ \/ /\ dir' = [dir EXCEPT ![r.host] = @ \ {r.instance}]
        /\ UNCHANGED <<events, jobFailed>>
     \/ Event /\ jobFailed' = TRUE /\ UNCHANGED dir
  /\ UNCHANGED <<job, target, left, seen, jobRc>>
  /\ UNCHANGED <<at, vm, toward, domain, touched, registry>>

\* Mutant: an exit code of its own for removals that failed.
CleanedOrTwo ==
  /\ job = "clean" /\ Selected = {}
  /\ EndCleanup(IF jobFailed THEN 2 ELSE 0)
  /\ UNCHANGED hvars

Cleaned ==
  /\ job = "clean" /\ Selected = {}
  /\ EndCleanup(IF jobFailed THEN 1 ELSE 0)
  /\ UNCHANGED hvars

CleanupStep ==
  \/ \E hosts \in {{h \in Host : svc[h] # "gone"}} \cup {{h} : h \in Host},
        what \in {"report", "orphan-domains", "stale-dirs"} : BeginCleanup(hosts, what)
  \/ \E h \in Host : ListDomains(h)
  \/ ListInstances \/ ListDirs \/ Join \/ Report \/ Confirm
  \/ \E r \in rows : CleanDomain(r) \/ CleanDir(r)
  \/ Cleaned

-----------------------------------------------------------------------------
(* What must hold of it                                                    *)

Removes(h, i) == \/ i \in domain[h] /\ i \notin domain'[h]
                 \/ i \in dir[h] /\ i \notin dir'[h]

\* The removal of a finding is the only step of a clean-up that shortens rows.
Removing == job = "clean" /\ rows' # rows /\ job' = "clean"

\* Neither the domain nor the directory of an instance that is on its host in
\* Nova's records, and that nothing has built or moved since the clean-up
\* began, is removed, whatever was listed when: clean never looks again.
SettledIsSafe ==
  [][\A h \in Host, i \in Instance :
       Removing /\ Removes(h, i) => i \notin On(h) \ touched]_<<hvars, cvars>>

\* "MISSING_DOMAIN is never cleaned up; it needs a person"
\* (orphaned_instance_cleanup.py:13): the only guest of an instance that the
\* same report calls missing is not destroyed.
MissingIsLeftAlone ==
  [][\A h \in Host : \A r \in rows :
       /\ Removing /\ r.finding = "MISSING_DOMAIN" /\ Live(r.instance)
       /\ {g \in Host : r.instance \in domain[g]} = {h}
       => r.instance \in domain'[h]]_<<hvars, cvars>>
=============================================================================
