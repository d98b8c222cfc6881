---------------------------- MODULE PolicyUpdate ----------------------------
(***************************************************************************)
(* The Calico policy update playbook                                       *)
(* (src/kubernetes/ansible/calico_gnp_update.yml): back up, validate,      *)
(* apply, verify, roll back; or restore from a backup.                     *)
(*                                                                         *)
(* A policy is a few sections (of its spec), each with a version: the      *)
(* number of the run that applied it, 0 for what was there before.  The    *)
(* API server merges what `state: present` sends into the object it has;   *)
(* with `apply: true` it also removes the sections that were applied       *)
(* before and are not sent again.  Check mode changes nothing and is left  *)
(* out.                                                                    *)
(***************************************************************************)
EXTENDS Integers, FiniteSets

CONSTANTS
  Policy,      \* names, of policies of both kinds
  Global,      \* those of kind GlobalNetworkPolicy
  Platform,    \* those with the label tier: platform
  Deny,        \* those whose selector and types make a cluster-wide deny
  DnsAllow,    \* those that allow egress to port 53
  Section,
  Directories, \* what -e policy_dir may name: sets of sections per policy
  AtFirst,     \* the same, of what is there to begin with
  None,        \* no order, or no such section
  Order,       \* [Policy -> order or None]
  ReservedBelow,
  MaxRuns,     \* bound on runs of the playbook
  MaxRefusals  \* bound on calls that fail

ASSUME PolicyAssumption ==
  /\ Global \subseteq Policy /\ Deny \subseteq Global
  /\ Directories \subseteq [Policy -> SUBSET Section]
  /\ AtFirst \subseteq [Policy -> SUBSET Section]
  /\ None \notin Int /\ Order \in [Policy -> Int \cup {None}]
  /\ ReservedBelow \in Int /\ MaxRuns \in Nat /\ MaxRefusals \in Nat

VARIABLES
  live,      \* [Policy -> its sections and those last applied]
  saved,     \* backup_dir: the contents of its files
  task,      \* the next task
  directory, \* [Policy -> the sections in policy_dir, {} when not there]
  existing,  \* existing_gnp
  todo,      \* the items of the present loop that are left
  broken,    \* an item of the present loop failed
  ending,    \* how the last run ended
  before,    \* history: live when the run began
  runs, refusals

updateVars ==
  <<live, saved, task, directory, existing, todo, broken, ending, before, runs, refusals>>

PolicyObject == [spec : [Section -> 0..MaxRuns \cup {None}], applied : SUBSET Section]
Absent == [spec |-> [s \in Section |-> None], applied |-> {}]
Sections(object) == {s \in Section : object.spec[s] # None}

PolicyTypeOK ==
  /\ live \in [Policy -> PolicyObject] /\ before \in [Policy -> PolicyObject]
  /\ existing \in [Global -> PolicyObject] /\ saved \subseteq [Global -> PolicyObject]
  /\ task \in {"idle", "back up", "validate", "apply", "verify", "restore", "return"}
  /\ directory \in [Policy -> SUBSET Section]
  /\ todo \subseteq Policy /\ broken \in BOOLEAN
  /\ ending \in {"none", "running", "ok", "failed", "unhealthy", "rolled back", "restored"}
  /\ runs \in 0..MaxRuns /\ refusals \in 0..MaxRefusals

UpdateInit ==
  /\ \E there \in AtFirst :
       live = [p \in Policy |->
         [spec |-> [s \in Section |-> IF s \in there[p] THEN 0 ELSE None],
          applied |-> there[p]]]
  /\ before = live /\ existing = [p \in Global |-> Absent]
  /\ saved = {} /\ task = "idle" /\ ending = "none"
  /\ directory = [p \in Policy |-> {}] /\ todo = {} /\ broken = FALSE
  /\ runs = 0 /\ refusals = 0

Refusal == refusals < MaxRefusals /\ refusals' = refusals + 1

Ends(how) == task' = "idle" /\ ending' = how

\* Mutant: what an earlier run fetched is taken for what is there.
BeginUpdateCached ==
  /\ task = "idle" /\ runs < MaxRuns
  /\ directory' \in Directories
  /\ existing' = IF saved = {} THEN [p \in Global |-> live[p]] ELSE existing
  /\ before' = live
  /\ runs' = runs + 1
  /\ task' = "back up" /\ ending' = "running"
  /\ UNCHANGED <<live, saved, todo, broken, refusals>>

\* Fetch every existing GlobalNetworkPolicy: those, and not the others.
BeginUpdate ==
  /\ task = "idle" /\ runs < MaxRuns
  /\ directory' \in Directories
  /\ existing' = [p \in Global |-> live[p]] /\ before' = live
  /\ runs' = runs + 1
  /\ task' = "back up" /\ ending' = "running"
  /\ UNCHANGED <<live, saved, todo, broken, refusals>>

BackUpPolicies ==
  /\ task = "back up"
  /\ \/ saved' = saved \cup {existing} /\ task' = "validate"
        /\ UNCHANGED <<ending, refusals>>
     \/ Refusal /\ Ends("failed") /\ UNCHANGED saved
  /\ UNCHANGED <<live, directory, existing, todo, broken, before, runs>>

Given == {p \in Policy : directory[p] # {}}

\* An empty directory, a tenant's policy in the platform's range of orders, and
\* a cluster-wide deny in a set that allows no DNS are rejected.
Admissible ==
  /\ Given # {}
  /\ \A p \in Given \cap Global : Order[p] = None \/ Order[p] >= ReservedBelow \/ p \in Platform
  /\ Given \cap Deny = {} \/ Given \cap DnsAllow # {}

\* The asserts, then a dry run of every policy on the API server.
ValidatePolicies ==
  /\ task = "validate"
  /\ IF ~Admissible
     THEN Ends("failed") /\ UNCHANGED <<todo, broken, refusals>>
     ELSE \/ task' = "apply" /\ todo' = Given /\ broken' = FALSE
             /\ UNCHANGED <<ending, refusals>>
          \/ Refusal /\ Ends("failed") /\ UNCHANGED <<todo, broken>>
  /\ UNCHANGED <<live, saved, directory, existing, before, runs>>

\* Mutant: sorted the other way round.
IsNextDescending(p) ==
  p \in todo /\ ((\A q \in Given : Order[q] # None) => \A q \in todo : Order[p] >= Order[q])

\* Ascending order, when all of the policies have one; in the order of the
\* files, which may be any, when one has none.
IsNext(p) ==
  p \in todo /\ ((\A q \in Given : Order[q] # None) => \A q \in todo : Order[p] <= Order[q])

\* What `apply: true` makes of an object.
AppliedOn(object, sections) ==
  [spec |-> [s \in Section |-> IF s \in sections THEN runs
                               ELSE IF s \in object.applied THEN None
                               ELSE object.spec[s]],
   applied |-> sections]

\* What `state: present` makes of an object: sections that are not sent stay.
Merged(object, old) ==
  [spec |-> [s \in Section |-> IF old.spec[s] # None THEN old.spec[s] ELSE object.spec[s]],
   applied |-> old.applied]

\* One item of a loop.  One that fails does not end the loop, and may have
\* taken effect.
Item(p, object) ==
  /\ todo' = todo \ {p}
  /\ \/ live' = [live EXCEPT ![p] = object] /\ UNCHANGED <<broken, refusals>>
     \/ live' \in {live, [live EXCEPT ![p] = object]} /\ broken' = TRUE /\ Refusal

ApplyPolicy(p) ==
  /\ task = "apply" /\ IsNext(p)
  /\ Item(p, AppliedOn(live[p], directory[p]))
  /\ UNCHANGED <<saved, task, directory, existing, ending, before, runs>>

AppliedAll ==
  /\ task = "apply" /\ todo = {}
  /\ IF broken THEN Ends("failed") ELSE task' = "verify" /\ UNCHANGED ending
  /\ UNCHANGED <<live, saved, directory, existing, todo, broken, before, runs, refusals>>

\* calico-node is looked at first, and ends the run when a pod of it is not
\* Running; then DNS is tried, and rolled back when it does not resolve.
VerifyPolicies ==
  /\ task = "verify"
  /\ \/ Ends("ok") /\ UNCHANGED <<todo, refusals>>
     \/ Refusal /\ Ends("unhealthy") /\ UNCHANGED todo
     \/ Refusal /\ task' = "restore" /\ UNCHANGED ending
        /\ todo' = {p \in Global : existing[p] # Absent}
  /\ UNCHANGED <<live, saved, directory, existing, broken, before, runs>>

\* -e rollback_from: the same loop over the contents of a file.
BeginReturn ==
  /\ task = "idle" /\ runs < MaxRuns
  /\ existing' \in saved /\ before' = live
  /\ directory' = [p \in Policy |-> {}]
  /\ todo' = {p \in Global : existing'[p] # Absent} /\ broken' = FALSE
  /\ runs' = runs + 1
  /\ task' = "return" /\ ending' = "running"
  /\ UNCHANGED <<live, saved, refusals>>

RestorePolicy(p) ==
  /\ task \in {"restore", "return"} /\ p \in todo
  /\ Item(p, Merged(live[p], existing[p]))
  /\ UNCHANGED <<saved, task, directory, existing, ending, before, runs>>

\* Mutant: items that fail are not looked at.
RestoredAllGoesOn ==
  /\ task \in {"restore", "return"} /\ todo = {}
  /\ Ends(IF task = "return" THEN "restored" ELSE "rolled back")
  /\ UNCHANGED <<live, saved, directory, existing, todo, broken, before, runs, refusals>>

RestoredAll ==
  /\ task \in {"restore", "return"} /\ todo = {}
  /\ Ends(IF broken THEN "failed" ELSE IF task = "return" THEN "restored" ELSE "rolled back")
  /\ UNCHANGED <<live, saved, directory, existing, todo, broken, before, runs, refusals>>

\* The run is cut.
UpdateCut ==
  /\ task # "idle" /\ Refusal /\ Ends("failed")
  /\ UNCHANGED <<live, saved, directory, existing, todo, broken, before, runs>>

UpdateNext ==
  \/ BeginUpdate \/ BackUpPolicies \/ ValidatePolicies \/ AppliedAll \/ VerifyPolicies
  \/ BeginReturn \/ RestoredAll \/ UpdateCut
  \/ \E p \in Policy : ApplyPolicy(p) \/ RestorePolicy(p)

UpdateSpec == UpdateInit /\ [][UpdateNext]_updateVars
-----------------------------------------------------------------------------
(***************************************************************************)
(* Properties                                                              *)
(***************************************************************************)

\* After a rollback that reports no failure, its own or one from a file, every
\* GlobalNetworkPolicy of the backup has every section it had then, whatever
\* failed before it.  (It may have more, see RolledBackIsBefore.)
BackupIsBack ==
  ending \in {"rolled back", "restored"} =>
    \A p \in Global : \A s \in Sections(existing[p]) : live[p].spec[s] = existing[p].spec[s]

\* Whatever an update applies, half applies, rolls back or leaves, a policy
\* that is not in the policy directory stays as it was when the run began
\* (the rollback re-applies those too, with what was fetched).
OthersUntouched ==
  Given # {} => \A p \in Policy \ Given : live[p] = before[p]

\* "Backs up every existing GNP before touching anything"
\* (calico_gnp_update.yml:16): while an update changes a policy, a file has
\* what all of them were when the run began.
BackedUpFirst ==
  [][task = "apply" /\ live' # live => [p \in Global |-> before[p]] \in saved]_updateVars

(***************************************************************************)
(* What the header of the playbook says and the code does not do: TLC      *)
(* finds both of these violated when they are checked instead of the rest. *)
(***************************************************************************)

\* "rolls back automatically if the post-check fails"
\* (calico_gnp_update.yml:25): a run that says it has rolled back has put the
\* policies it changed back.
RolledBackIsBefore ==
  ending = "rolled back" => \A p \in Policy : live[p].spec = before[p].spec

Earlier(a, d) == Order[a] # None /\ (Order[d] = None \/ Order[a] < Order[d])

\* "there is no window in which traffic is denied with no allow in place"
\* (calico_gnp_update.yml:208): a deny that is new is there only with the allow
\* of the same directory whose order is lower.
AllowsFirst ==
  \A d \in Given \cap Deny, a \in Given \cap DnsAllow :
    Earlier(a, d) /\ Sections(before[d]) = {} /\ Sections(live[d]) # {}
      => Sections(live[a]) # {}

-----------------------------------------------------------------------------
\* What is left of AllowsFirst: as long as no policy of the directory lacks an
\* order, and until one fails to apply, wherever the loop stops.
OrderedAllowsFirst ==
  task \in {"apply", "verify"} /\ ~broken /\ (\A p \in Given : Order[p] # None) => AllowsFirst
=============================================================================
