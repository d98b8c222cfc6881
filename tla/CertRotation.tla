---------------------------- MODULE CertRotation ----------------------------
(***************************************************************************)
(* The certificate rotation playbook on one host                           *)
(* (src/security/ansible/cert_rotation.yml, run with --tags rotate, as the *)
(* tag never of its second play demands).                                  *)
(*                                                                         *)
(* A certificate is known by its version: 0 is what the host started with, *)
(* n what the n-th rotation brought (every rotation has a bundle of its    *)
(* own).  A copy on the host keeps the modification time, so backups of    *)
(* one path are ordered by version.  A task that loops over paths tries    *)
(* every one of them, also after a failure, and then fails; a host that    *)
(* failed takes part no more, and its notified handlers do not run.        *)
(***************************************************************************)
EXTENDS Integers, FiniteSetsExt

CONSTANTS
  Path,           \* the certificates of the host, of cert_paths
  MaxRotations,   \* bound on rotations
  MaxRollbacks,   \* bound on rollbacks
  MaxTroubles     \* bound on items that fail for no fault of the bundle

ASSUME CertBounds ==
  /\ IsFiniteSet(Path)
  /\ MaxRotations \in Nat /\ MaxRollbacks \in Nat /\ MaxTroubles \in Nat

VARIABLES
  cert, key,      \* the version of the certificate and of the key at a path
  served,         \* the certificate the services of a path present
  backups,        \* backup_dir: pairs of a path and the version it had
  play,           \* the next task of the play
  bundle,         \* what cert_bundle_dir holds for a path
  listed,         \* certificates: the paths the first play could read
  result,         \* how the last run of the playbook ended
  previous,       \* history: the certificates the last rotation replaced
  rotations, rollbacks, troubles  \* counters, bounded

files == <<cert, key, served, backups>>
counters == <<rotations, rollbacks, troubles>>
cvars == <<files, play, bundle, listed, result, previous, counters>>

\* Mismatched is a pair that can be seen to be; sealed one whose key is there but
\* cannot be read (encrypted, or no key at all), which may be as wrong.
Kind == {"good", "early", "expired", "mismatched", "sealed", "no key", "absent"}
Version == 0..MaxRotations

CertTypeOK ==
  /\ cert \in [Path -> Version] /\ key \in [Path -> Version]
  /\ served \in [Path -> Version] /\ previous \in [Path -> Version]
  /\ backups \subseteq Path \X Version
  /\ play \in {"idle", "validate", "back up", "certificates", "keys", "flush", "verify", "restore"}
  /\ bundle \in [Path -> Kind] /\ listed \subseteq Path
  /\ result \in {"none", "running", "rotated", "restored", "failed"}
  /\ rotations \in Version /\ rollbacks \in 0..MaxRollbacks /\ troubles \in 0..MaxTroubles

CertInit ==
  /\ cert = [p \in Path |-> 0] /\ key = cert /\ served = cert /\ previous = cert
  /\ backups = {} /\ play = "idle" /\ listed = {} /\ result = "none"
  /\ bundle = [p \in Path |-> "absent"]
  /\ rotations = 0 /\ rollbacks = 0 /\ troubles = 0

\* The items of a loop that fail for no fault of the bundle.
Botched(F) == troubles + Cardinality(F) <= MaxTroubles /\ troubles' = troubles + Cardinality(F)

\* A loop has been through its items, of which those of F failed.
GoOn(F, next) ==
  /\ play' = IF F = {} THEN next ELSE "idle"
  /\ result' = IF F = {} THEN "running" ELSE "failed"

\* Both plays up to the search for new certificates.  A certificate that is
\* not there or cannot be read is not in the inventory.
BeginRotation ==
  /\ play = "idle" /\ rotations < MaxRotations
  /\ rotations' = rotations + 1
  /\ bundle' \in [Path -> Kind]
  /\ listed' \in {L \in SUBSET Path : Cardinality(Path \ L) <= MaxTroubles - troubles}
  /\ troubles' = troubles + Cardinality(Path \ listed')
  /\ play' = "validate" /\ result' = "running"
  /\ UNCHANGED <<files, previous, rollbacks>>

\* The asserts on the files of the bundle, on those the inventory does not
\* know too.  The comparison with the key is skipped when no public key came back,
\* for want of the key or because it could not be read, and what the bundle lacks
\* is not looked at.
Rejected == {p \in Path : bundle[p] \in {"expired", "mismatched"}}

ValidateBundle ==
  /\ play = "validate"
  /\ GoOn(Rejected, "back up")
  /\ UNCHANGED <<files, bundle, listed, previous, counters>>

\* Mutant: a backup that fails is passed over.
BackUpBestEffort ==
  /\ play = "back up"
  /\ \E F \in SUBSET listed :
       /\ Botched(F) /\ GoOn({}, "certificates")
       /\ backups' = backups \cup {<<p, cert[p]>> : p \in listed \ F}
  /\ UNCHANGED <<cert, key, served, bundle, listed, previous, rotations, rollbacks>>

\* Mutant: a path that has a backup is not backed up again.
BackUpOnce ==
  /\ play = "back up"
  /\ \E F \in SUBSET listed :
       /\ Botched(F) /\ GoOn(F, "certificates")
       /\ backups' = backups \cup {<<p, cert[p]>> :
                        p \in {q \in listed \ F : \A v \in Version : <<q, v>> \notin backups}}
  /\ UNCHANGED <<cert, key, served, bundle, listed, previous, rotations, rollbacks>>

BackUp ==
  /\ play = "back up"
  /\ \E F \in SUBSET listed :
       /\ Botched(F) /\ GoOn(F, "certificates")
       /\ backups' = backups \cup {<<p, cert[p]>> : p \in listed \ F}
  /\ UNCHANGED <<cert, key, served, bundle, listed, previous, rotations, rollbacks>>

\* What a copy from the bundle makes of the files at the paths, when those of
\* lacking are not in the bundle and those of F fail.
Install(file, lacking, F) ==
  [p \in Path |-> IF p \in listed \ (lacking \cup F) THEN rotations ELSE file[p]]

InstallCertificates ==
  LET lacking == {p \in listed : bundle[p] = "absent"}
  IN  /\ play = "certificates"
      /\ \E F \in SUBSET (listed \ lacking) :
           /\ Botched(F) /\ GoOn(F \cup lacking, "keys")
           /\ cert' = Install(cert, lacking, F)
      /\ previous' = cert
      /\ UNCHANGED <<key, served, backups, bundle, listed, rotations, rollbacks>>

\* Mutant: a key that cannot be copied is passed over.
InstallKeysBestEffort ==
  LET lacking == {p \in listed : bundle[p] = "no key"}
  IN  /\ play = "keys"
      /\ \E F \in SUBSET (listed \ lacking) :
           /\ Botched(F) /\ GoOn({}, "flush")
           /\ key' = Install(key, lacking, F)
      /\ UNCHANGED <<cert, served, backups, bundle, listed, previous, rotations, rollbacks>>

InstallKeys ==
  LET lacking == {p \in listed : bundle[p] = "no key"}
  IN  /\ play = "keys"
      /\ \E F \in SUBSET (listed \ lacking) :
           /\ Botched(F) /\ GoOn(F \cup lacking, "flush")
           /\ key' = Install(key, lacking, F)
      /\ UNCHANGED <<cert, served, backups, bundle, listed, previous, rotations, rollbacks>>

\* Reload TLS services: those of services_to_reload, failures ignored.  A
\* service that cannot load the pair goes on with what it has.
Reload(onDisk) ==
  \E L \in SUBSET {p \in Path : onDisk[p] = key[p]} :
    served' = [p \in Path |-> IF p \in L THEN onDisk[p] ELSE served[p]]

Flush ==
  /\ play = "flush" /\ Reload(cert)
  /\ play' = "verify"
  /\ UNCHANGED <<cert, key, backups, bundle, listed, result, previous, counters>>

\* An endpoint that presents any certificate passes; one that presents none
\* fails the host.
Verify ==
  /\ play = "verify" /\ play' = "idle"
  /\ \/ result' = "rotated" /\ UNCHANGED troubles
     \/ result' = "failed" /\ Botched({"endpoint"})
  /\ UNCHANGED <<files, bundle, listed, previous, rotations, rollbacks>>

\* -e rollback=true
BeginRollback ==
  /\ play = "idle" /\ rollbacks < MaxRollbacks
  /\ rollbacks' = rollbacks + 1
  /\ IF backups = {} THEN play' = "idle" /\ result' = "failed"
                     ELSE play' = "restore" /\ result' = "running"
  /\ UNCHANGED <<files, bundle, listed, previous, rotations, troubles>>

Saved(p) == {v \in Version : <<p, v>> \in backups}

\* Every backup is copied to its path, newest first: the last copy that does
\* not fail is the oldest one's.  Keys are not backed up.  (Whether end_play
\* lets the notified handler run depends on the version of Ansible; Reload may
\* take no service.)
Restored(failed) ==
  [p \in Path |-> LET copied == {v \in Saved(p) : <<p, v>> \notin failed}
                  IN  IF copied = {} THEN cert[p] ELSE Min(copied)]

Restore ==
  /\ play = "restore" /\ play' = "idle"
  /\ \E F \in SUBSET backups :
       /\ Botched(F)
       /\ cert' = Restored(F)
       /\ \/ F = {} /\ result' = "restored" /\ Reload(cert')
          \/ F # {} /\ result' = "failed" /\ UNCHANGED served
  /\ UNCHANGED <<key, backups, bundle, listed, previous, rotations, rollbacks>>

\* The run is cut: Ctrl-C, a lost connection, or the controller dies.
RotationCut ==
  /\ play # "idle" /\ Botched({"controller"})
  /\ play' = "idle" /\ result' = "failed"
  /\ UNCHANGED <<files, bundle, listed, previous, rotations, rollbacks>>

CertNext ==
  \/ BeginRotation \/ ValidateBundle \/ BackUp \/ InstallCertificates \/ InstallKeys
  \/ Flush \/ Verify \/ BeginRollback \/ Restore \/ RotationCut

CertSpec == CertInit /\ [][CertNext]_cvars
-----------------------------------------------------------------------------
(***************************************************************************)
(* Properties                                                              *)
(***************************************************************************)

\* However many rotations came before and whatever failed in them, a rotation
\* replaces no certificate of which backup_dir has no copy (the backup before
\* the installation, and the failed task that ends the host's play).
InstallSaves ==
  [][\A p \in Path :
       play = "certificates" /\ cert'[p] # cert[p] => <<p, cert[p]>> \in backups]_cvars

\* A run that ends in the summary has put the new certificate and the new key
\* at every path of the inventory, both of the bundle; a bundle that lacks one
\* of them, or has an expired one, or a pair seen to be mismatched, never gets
\* there.  (A pair whose key could not be read does, see CheckedBeforeReplaced.)
RotatedIsWhole ==
  result = "rotated" =>
    \A p \in listed : /\ cert[p] = rotations /\ key[p] = rotations
                      /\ bundle[p] \in {"good", "early", "sealed"}

\* As long as there has been one rotation, failed or not, a rollback that
\* reports no failure puts every certificate of the host back, and may be
\* repeated.  (From the second rotation on it goes back too far, see
\* PreviousIsRestored; the keys never come back, see RollbackWorks.)
FirstIsUndone ==
  result = "restored" /\ rotations = 1 => \A p \in Path : cert[p] = 0

(***************************************************************************)
(* What the header of the playbook says and the code does not do: TLC      *)
(* finds each of these violated when it is checked instead of the above.   *)
(***************************************************************************)

\* "The previous certificate is always backed up and `-e rollback=true`
\* restores it" (cert_rotation.yml:20): what the last rotation replaced.
PreviousIsRestored ==
  result = "restored" => \A p \in Path : Saved(p) # {} => cert[p] = previous[p]

\* "the fastest fix at 03:00 is putting back what worked"
\* (cert_rotation.yml:21): after a rollback certificate and key of a path that
\* was rotated belong together, so that its service can load them.
RollbackWorks ==
  result = "restored" => \A p \in Path : Saved(p) # {} => cert[p] = key[p]

\* "Every one of those is checked BEFORE the old certificate is replaced"
\* (cert_rotation.yml:15, of wrong, mismatched and expired certificates).
CheckedBeforeReplaced ==
  [][play = "certificates" /\ cert' # cert => \A p \in listed : bundle[p] = "good"]_cvars

\* "Verify each endpoint now serves the new certificate"
\* (cert_rotation.yml:294).
RotatedIsServed ==
  result = "rotated" => \A p \in listed : served[p] = cert[p]
=============================================================================
