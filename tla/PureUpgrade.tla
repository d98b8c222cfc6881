---------------------------- MODULE PureUpgrade -----------------------------
(***************************************************************************)
(* storage/python/pure_upgrade_preflight.py: the checks before an upgrade  *)
(* of a FlashArray, and the upgrade they are for, which restarts one       *)
(* controller after the other.  Every request, probe and ssh call may fail *)
(* and the array and the hosts change between the checks.                  *)
(*                                                                         *)
(* Warnings do not count for the verdict and are left out, and with them   *)
(* --min-severity.  Token expiry, version, alerts and capacity are each    *)
(* one critical condition of the array.  All five checks are asked for.    *)
(***************************************************************************)
EXTENDS Integers, FiniteSets

CONSTANTS
  Controller,   \* the controllers of the array
  Vip,          \* its data addresses
  Client,       \* --from-hosts
  Lun,          \* volumes a client may have mapped
  Port,         \* target ports a LUN is reached through
  OwnerOf,      \* [Port -> Controller]
  MaxMishaps    \* bound on runs, failed queries and changes

Here == "here"

ASSUME UpgradeAssumption ==
  /\ IsFiniteSet(Port) /\ IsFiniteSet(Lun)
  /\ Here \notin Client
  /\ OwnerOf \in [Port -> Controller]
  /\ MaxMishaps \in Nat

Conditions == {"token expired", "bad version path", "critical alert", "full"}

VARIABLES
  up,           \* controllers that are ready
  conditions,   \* of the array, those that are critical
  vips,         \* data addresses configured
  reachable,    \* <<from, vip>> that answer, from a client or from here
  mapped,       \* [Client -> its LUNs]
  paths,        \* [Client -> [Lun -> ports with an active path]]
  faulty,       \* clients that list a path as failed
  preflight,    \* the check that is next, "idle" when no run is going on
  probed,       \* clients whose multipath was asked for
  criticals,    \* what was found
  verdict,      \* of the last run: "none", "GO" or "NO-GO"
  pureRc,       \* exit code of the last run
  strict,       \* --fail-on-findings
  authenticated,\* no critical finding about the token
  answered,     \* history: checks whose queries were all answered
  asRead,       \* history: [Client -> the LUNs and the paths when it was asked]
  mishaps

array == <<up, conditions, vips, reachable, mapped, paths, faulty>>
rest  == <<preflight, probed, criticals, verdict, pureRc, strict, authenticated, answered, asRead>>
pvars == <<array, rest, mishaps>>

Checks == {"token", "version", "health", "vip", "paths"}

NothingRead == [c \in Client |-> [luns |-> {}, paths |-> [l \in Lun |-> {}]]]

PureTypeOK ==
  /\ up \in SUBSET Controller
  /\ conditions \in SUBSET Conditions
  /\ vips \in SUBSET Vip
  /\ reachable \in SUBSET ((Client \cup {Here}) \X Vip)
  /\ mapped \in [Client -> SUBSET Lun]
  /\ paths \in [Client -> [Lun -> SUBSET Port]]
  /\ preflight \in Checks \cup {"idle", "verdict"}
  /\ probed \in SUBSET Client
  /\ criticals \in SUBSET Checks
  /\ verdict \in {"none", "GO", "NO-GO"}
  /\ pureRc \in 0..2 /\ strict \in BOOLEAN /\ authenticated \in BOOLEAN
  /\ answered \in SUBSET (Checks \cup Client)
  /\ faulty \in SUBSET Client
  /\ asRead \in [Client -> [luns : SUBSET Lun, paths : [Lun -> SUBSET Port]]]
  /\ mishaps \in 0..MaxMishaps

PureInit ==
  /\ up = Controller /\ conditions = {} /\ vips = Vip
  /\ reachable = (Client \cup {Here}) \X Vip
  /\ mapped = [c \in Client |-> Lun]
  /\ paths = [c \in Client |-> [l \in Lun |-> Port]]
  /\ faulty = {}
  /\ preflight = "idle" /\ probed = {} /\ criticals = {} /\ verdict = "none"
  /\ pureRc = 0 /\ strict = FALSE /\ authenticated = FALSE
  /\ answered = {} /\ asRead = NothingRead /\ mishaps = 0

Mishap == mishaps < MaxMishaps /\ mishaps' = mishaps + 1
Answers(checks) == answered' = answered \cup checks

-----------------------------------------------------------------------------
(* The array and its hosts.  External.                                     *)

ArrayChanges ==
  /\ Mishap
  /\ \/ up' \in (SUBSET Controller) \ {up} /\ UNCHANGED <<conditions, vips>>
     \/ conditions' \in {{}} \cup {{c} : c \in Conditions} /\ UNCHANGED <<up, vips>>
     \/ \E v \in Vip : vips' = vips \ {v} /\ UNCHANGED <<up, conditions>>
  /\ UNCHANGED <<reachable, mapped, paths, faulty, rest>>

LosePath(c, l, p) ==
  /\ Mishap /\ p \in paths[c][l]
  /\ paths' = [paths EXCEPT ![c][l] = @ \ {p}]
  /\ faulty' \in {faulty, faulty \cup {c}}
  /\ UNCHANGED <<up, conditions, vips, reachable, mapped, rest>>

Unmap(c, l) ==
  /\ Mishap /\ l \in mapped[c]
  /\ mapped' = [mapped EXCEPT ![c] = @ \ {l}]
  /\ UNCHANGED <<up, conditions, vips, reachable, paths, faulty, rest>>

LoseRoute(from, v) ==
  /\ Mishap /\ <<from, v>> \in reachable
  /\ reachable' = reachable \ {<<from, v>>}
  /\ UNCHANGED <<up, conditions, vips, mapped, paths, faulty, rest>>

-----------------------------------------------------------------------------
(* The checks                                                              *)

BeginPreflight(s) ==
  /\ preflight = "idle" /\ Mishap
  /\ preflight' = "token" /\ strict' = s
  /\ probed' = {} /\ criticals' = {} /\ verdict' = "none" /\ authenticated' = FALSE
  /\ answered' = {} /\ asRead' = NothingRead
  /\ UNCHANGED <<array, pureRc>>

Checked(this, next, critical) ==
  /\ preflight = this /\ preflight' = next
  /\ criticals' = IF critical THEN criticals \cup {this} ELSE criticals
  /\ UNCHANGED <<array, verdict, pureRc, strict>>

\* authenticated: no critical row of check_token, an expired token of any admin
\* included.  Without it the checks that need the API are not made.
CheckToken ==
  \/ LET expired == "token expired" \in conditions
     IN  /\ Checked("token", IF expired THEN "vip" ELSE "version", expired)
         /\ authenticated' = ~expired /\ Answers({"token"})
         /\ UNCHANGED <<probed, asRead, mishaps>>
  \/ /\ Checked("token", "vip", TRUE)           \* rejected or out of reach
     /\ Mishap /\ UNCHANGED <<probed, asRead, authenticated, answered>>
  \/ /\ Checked("token", "version", FALSE)      \* the admins cannot be listed
     /\ Mishap /\ authenticated' = TRUE /\ UNCHANGED <<probed, asRead, answered>>

\* A query that is not answered is a warning at most.
CheckVersion ==
  \/ /\ Checked("version", "health", "bad version path" \in conditions)
     /\ Answers({"version"}) /\ UNCHANGED <<probed, asRead, authenticated, mishaps>>
  \/ /\ Checked("version", "health", FALSE)
     /\ Mishap /\ UNCHANGED <<probed, asRead, authenticated, answered>>

Unready == Cardinality(up) < 2
Troubled == {"critical alert", "full"} \cap conditions # {}

\* Controllers, alerts and space are three queries; of one that fails nothing
\* is said at all.
CheckHealth ==
  \/ /\ Checked("health", "vip", Unready \/ up # Controller \/ Troubled)
     /\ Answers({"health"}) /\ UNCHANGED <<probed, asRead, authenticated, mishaps>>
  \/ /\ \E critical \in {FALSE, Unready \/ up # Controller, Troubled} :
          Checked("health", "vip", critical)
     /\ Mishap /\ UNCHANGED <<probed, asRead, authenticated, answered>>

Unreached == {v \in vips : \E from \in Client \cup {Here} : <<from, v>> \notin reachable}

\* A probe that fails is critical.  One data address is; none is not.  When the
\* interfaces cannot be listed, as when the token was rejected, only the
\* management address is probed.
CheckVips ==
  \/ /\ Checked("vip", "paths", Unreached # {} \/ Cardinality(vips) = 1)
     /\ Answers({"vip"}) /\ UNCHANGED <<probed, asRead, authenticated, mishaps>>
  \/ /\ \E critical \in BOOLEAN : Checked("vip", "paths", critical)
     /\ IF "token" \in criticals THEN UNCHANGED mishaps ELSE Mishap
     /\ UNCHANGED <<probed, asRead, authenticated, answered>>

\* The active paths of all LUNs of a host are counted together.  A path that is
\* lost for good is not listed as failed.
ActivePaths(c) == {lp \in Lun \X Port : lp[1] \in mapped[c] /\ lp[2] \in paths[c][lp[1]]}

\* Mutant: one path for each LUN is enough.
TooFewPathsOfOne(c) == Cardinality(ActivePaths(c)) < Cardinality(mapped[c])

TooFewPaths(c) == Cardinality(ActivePaths(c)) < 2 * Cardinality(mapped[c])

CheckMultipath(c) ==
  /\ preflight = "paths" /\ c \notin probed
  /\ probed' = probed \cup {c}
  /\ \/ /\ criticals' = IF c \in faulty \/ TooFewPaths(c) THEN criticals \cup {"paths"} ELSE criticals
        /\ Answers({c})
        /\ asRead' = [asRead EXCEPT ![c] = [luns |-> mapped[c], paths |-> paths[c]]]
        /\ UNCHANGED mishaps
     \/ Mishap /\ UNCHANGED <<criticals, answered, asRead>>
  /\ UNCHANGED <<array, preflight, verdict, pureRc, strict, authenticated>>

Verdict ==
  /\ preflight = "paths" /\ probed = Client
  /\ verdict' = IF criticals = {} THEN "GO" ELSE "NO-GO"
  /\ pureRc' = IF criticals # {} /\ (strict \/ "token" \in criticals) THEN 2 ELSE 0
  /\ preflight' = "idle"
  /\ UNCHANGED <<array, probed, criticals, strict, authenticated, answered, asRead, mishaps>>

PureStep ==
  \/ ArrayChanges
  \/ \E c \in Client, l \in Lun : Unmap(c, l) \/ \E p \in Port : LosePath(c, l, p)
  \/ \E from \in Client \cup {Here}, v \in Vip : LoseRoute(from, v)
  \/ \E s \in BOOLEAN : BeginPreflight(s)
  \/ CheckToken \/ CheckVersion \/ CheckHealth \/ CheckVips
  \/ \E c \in Client : CheckMultipath(c)
  \/ Verdict

PureSpec == PureInit /\ [][PureStep]_pvars

-----------------------------------------------------------------------------
(* What must hold of it                                                    *)

\* What a LUN is left with while a controller restarts.
PathsWithout(ctrl, ports) == {p \in ports : OwnerOf[p] # ctrl}

\* "fewer than two per LUN means no controller redundancy": the check adds up the
\* paths of all LUNs of a client.  What GO is worth, of every client that could be
\* asked and on any array: a LUN that the restart of a controller would cut off,
\* as the paths were when the client was asked, has two of them or more, all
\* through that controller, or hides behind a LUN with more than two.
GoSurvivesRestart ==
  verdict = "GO" =>
    \A c \in Client \cap answered : \A ctrl \in Controller, l \in asRead[c].luns :
      \/ PathsWithout(ctrl, asRead[c].paths[l]) # {}
      \/ Cardinality(asRead[c].paths[l]) >= 2
      \/ \E m \in asRead[c].luns : Cardinality(asRead[c].paths[m]) > 2
=============================================================================
