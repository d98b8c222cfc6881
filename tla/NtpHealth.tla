----------------------------- MODULE NtpHealth ------------------------------
(***************************************************************************)
(* network/python/ntp_health_check.py: a sweep asks every host for its     *)
(* tracking state and its time sources and grades what it reads.  The      *)
(* hosts are asked in parallel and go on polling their sources meanwhile.  *)
(*                                                                         *)
(* The reachability register of a source is the number the code computes   *)
(* with, eight bits.  Grades by stratum, reference, leap, dispersion and   *)
(* skew are each a comparison with a constant: one flag stands for those   *)
(* that are critical, the warnings are left out.  Offsets and limits are   *)
(* integers in one unit; of the errors of floating-point arithmetic only   *)
(* that of the spread at its limit is modelled.                            *)
(***************************************************************************)
EXTENDS Integers, FiniteSets, FiniteSetsExt

CONSTANTS
  Server,       \* the hosts swept
  Source,       \* the time sources, each one configured on every host
  Offset,       \* what a host's clock may be off by
  MaxOffset,    \* --max-offset-ms
  MaxSkew,      \* --max-skew-ms
  MinSources,   \* --min-sources
  Fine, Coarse, \* what the last digit printed of an offset counts for, within
                \* --max-offset-ms and above it
  MaxPolls,     \* bound on polls
  MaxUpsets     \* bound on sweeps, failed queries and changes of a host

ASSUME NtpAssumption ==
  /\ IsFiniteSet(Server) /\ IsFiniteSet(Source)
  /\ Offset \subseteq Int
  /\ MaxOffset \in Nat /\ MaxSkew \in Nat /\ MinSources \in Nat
  /\ Fine \in Nat \ {0} /\ Coarse \in Nat \ {0} /\ Fine <= Coarse
  /\ MaxPolls \in Nat /\ MaxUpsets \in Nat

REACHABILITY_PERFECT == 377

VARIABLES
  reach,     \* [Server -> [Source -> the register]]
  recent,    \* history: [Server -> [Source -> the last eight polls, newest first]]
  mark,      \* [Server -> [Source -> "*" selected, "+" usable, "x" falseticker]]
  daemon,    \* [Server -> "chrony", "ntpd" or "none"]
  drifting,  \* servers at stratum 16, or on their local clock
  offset,    \* [Server -> of its clock]
  asked,     \* [Server -> how far the sweep has come with it]
  read,      \* history: [Server -> its recent polls and its offset when asked]
  findings,
  offsets,   \* [Server -> what cross_host_consistency will compare, or Unread]
  ntpRc,     \* exit code of the last sweep, with --fail-on-findings
  polls, upsets

hosts  == <<reach, recent, mark, daemon, drifting, offset>>
sweep  == <<asked, read, findings, offsets, ntpRc>>
nvars  == <<hosts, sweep, polls, upsets>>

Unread == -1
Fleet == "fleet"
Polls == [1..8 -> BOOLEAN]

NtpFinding ==
  [severity : {"CRITICAL", "WARN", "INFO"}, host : Server \cup {Fleet},
   check : {"sync", "offset", "sources", "loss", "falseticker", "consistency"},
   subject : Source \cup {"-"}, missed : 0..8]

NtpTypeOK ==
  /\ reach \in [Server -> [Source -> 0..255]]
  /\ recent \in [Server -> [Source -> Polls]]
  /\ mark \in [Server -> [Source -> {"*", "+", "x"}]]
  /\ daemon \in [Server -> {"chrony", "ntpd", "none"}]
  /\ drifting \in SUBSET Server
  /\ offset \in [Server -> Offset]
  /\ asked \in [Server -> {"idle", "no", "sources", "yes", "silent"}]
  /\ read \in [Server -> [polls : [Source -> Polls], offset : Offset]]
  /\ findings \in SUBSET NtpFinding
  /\ offsets \in [Server -> Int]
  /\ ntpRc \in 0..1
  /\ polls \in 0..MaxPolls /\ upsets \in 0..MaxUpsets

AllAnswered == [s \in Source |-> [n \in 1..8 |-> TRUE]]

NtpInit ==
  /\ reach = [h \in Server |-> [s \in Source |-> 255]]
  /\ recent = [h \in Server |-> AllAnswered]
  /\ mark = [h \in Server |-> [s \in Source |-> "+"]]
  /\ daemon = [h \in Server |-> "chrony"]
  /\ drifting = {}
  /\ offset \in [Server -> Offset]
  /\ asked = [h \in Server |-> "idle"]
  /\ read = [h \in Server |-> [polls |-> AllAnswered, offset |-> offset[h]]]
  /\ findings = {} /\ offsets = [h \in Server |-> Unread] /\ ntpRc = 0
  /\ polls = 0 /\ upsets = 0

Upset == upsets < MaxUpsets /\ upsets' = upsets + 1

-----------------------------------------------------------------------------
(* The hosts.  External.                                                   *)

Shifted(r, answered) == (2 * r + (IF answered THEN 1 ELSE 0)) % 256

Poll(h, s, answered) ==
  /\ polls < MaxPolls /\ polls' = polls + 1
  /\ reach' = [reach EXCEPT ![h][s] = Shifted(@, answered)]
  /\ recent' = [recent EXCEPT ![h][s] = [n \in 1..8 |-> IF n = 1 THEN answered ELSE @[n - 1]]]
  /\ UNCHANGED <<mark, daemon, drifting, offset, sweep, upsets>>

Remark(h, s, m) ==
  /\ mark[h][s] # m /\ Upset
  /\ m = "*" => \A t \in Source : mark[h][t] # "*"
  /\ mark' = [mark EXCEPT ![h][s] = m]
  /\ UNCHANGED <<reach, recent, daemon, drifting, offset, sweep, polls>>

Replace(h, d) ==
  /\ daemon[h] # d /\ Upset
  /\ daemon' = [daemon EXCEPT ![h] = d]
  /\ UNCHANGED <<reach, recent, mark, drifting, offset, sweep, polls>>

Drift(h, ms) ==
  /\ offset[h] # ms /\ Upset
  /\ offset' = [offset EXCEPT ![h] = ms]
  /\ drifting' \in {drifting, drifting \cup {h}}
  /\ UNCHANGED <<reach, recent, mark, daemon, sweep, polls>>

-----------------------------------------------------------------------------
(* The sweep                                                               *)

Row(severity, h, what, subject, missed) ==
  [severity |-> severity, host |-> h, check |-> what, subject |-> subject, missed |-> missed]

Abs(n) == IF n < 0 THEN -n ELSE n

\* The digits of an eight-bit number, each by what it counts for.
Bits == {1, 2, 4, 8, 16, 32, 64, 128}

\* Mutant: the last of the eight bits is lost.
OnesOfSeven(r) == Cardinality({b \in Bits \ {1} : (r \div b) % 2 = 1})

\* bin(reach).count("1")
Ones(r) == Cardinality({b \in Bits : (r \div b) % 2 = 1})
Missed(r) == 8 - Ones(r)

Reachable(h) == {s \in Source : reach[h][s] > 0}

\* What check_host says of one source, and check_ntpd, which knows no
\* falsetickers and grades loss as a warning unless it is total.
GradeSource(h, s) ==
  LET r == reach[h][s]
      chrony == daemon[h] = "chrony"
  IN  IF r = 0 THEN {Row("CRITICAL", h, "loss", s, 8)}
      ELSE IF r # REACHABILITY_PERFECT
      THEN {Row(IF chrony /\ Missed(r) >= 4 THEN "CRITICAL" ELSE "WARN", h, "loss", s, Missed(r))}
      ELSE IF ~chrony THEN {}
      ELSE IF mark[h][s] = "x" THEN {Row("WARN", h, "falseticker", s, 0)}
      ELSE {Row("INFO", h, "sources", s, 0)}

Unselected(h) == \A s \in Source : mark[h][s] # "*"

GradeSources(h) ==
  (UNION {GradeSource(h, s) : s \in Source})
    \cup (IF Unselected(h) THEN {Row("CRITICAL", h, "sync", "-", 0)} ELSE {})
    \cup (IF Cardinality(Reachable(h)) < MinSources
          THEN {Row("WARN", h, "sources", "-", 0)} ELSE {})

\* The offset loses its sign, is graded, and is printed with two digits or one.
GradeOffset(h) ==
  LET ms == Abs(offset[h])
  IN  Row(IF ms > MaxOffset * 10 THEN "CRITICAL" ELSE IF ms > MaxOffset THEN "WARN" ELSE "INFO",
          h, "offset", "-", 0)

\* Rounding to a multiple of the last digit: to either of two that are as near.
Rounded(n, grain) ==
  {r \in {grain * (n \div grain), grain * (n \div grain + 1)} : 2 * Abs(r - n) <= grain}

\* What main reads back of it.
Printed(h) ==
  LET ms == Abs(offset[h])
  IN  Rounded(ms, IF ms > MaxOffset THEN Coarse ELSE Fine)

BeginSweep ==
  /\ \A h \in Server : asked[h] = "idle"
  /\ Upset
  /\ asked' = [h \in Server |-> "no"]
  /\ findings' = {} /\ offsets' = [h \in Server |-> Unread]
  /\ UNCHANGED <<hosts, read, ntpRc, polls>>

\* chronyc tracking; failing that, ntpq; failing that, the host is unreachable.
AskTracking(h) ==
  /\ asked[h] = "no"
  /\ \/ /\ daemon[h] = "chrony"
        /\ findings' = findings \cup {GradeOffset(h)}
             \cup (IF h \in drifting THEN {Row("CRITICAL", h, "sync", "-", 0)} ELSE {})
        /\ \E ms \in Printed(h) : offsets' = [offsets EXCEPT ![h] = ms]
        /\ read' = [read EXCEPT ![h].offset = offset[h]]
        /\ asked' = [asked EXCEPT ![h] = "sources"]
        /\ UNCHANGED upsets
     \/ /\ daemon[h] = "ntpd"
        /\ findings' = findings \cup GradeSources(h)
             \cup (IF ~Unselected(h) /\ Abs(offset[h]) > MaxOffset
                   THEN {Row("CRITICAL", h, "offset", "-", 0)} ELSE {})
        /\ read' = [read EXCEPT ![h].polls = recent[h]]
        /\ asked' = [asked EXCEPT ![h] = "yes"]
        /\ UNCHANGED <<offsets, upsets>>
     \/ /\ IF daemon[h] = "none" THEN UNCHANGED upsets ELSE Upset
        /\ findings' = findings \cup {Row("CRITICAL", h, "sync", "-", 0)}
        /\ asked' = [asked EXCEPT ![h] = "silent"]
        /\ UNCHANGED <<offsets, read>>
  /\ UNCHANGED <<hosts, ntpRc, polls>>

\* chronyc sources; when it fails, nothing is said of them.
ListSources(h) ==
  /\ asked[h] = "sources"
  /\ \/ /\ daemon[h] = "chrony"
        /\ findings' = findings \cup GradeSources(h)
        /\ read' = [read EXCEPT ![h].polls = recent[h]]
        /\ asked' = [asked EXCEPT ![h] = "yes"]
        /\ UNCHANGED upsets
     \/ /\ IF daemon[h] = "chrony" THEN Upset ELSE UNCHANGED upsets
        /\ asked' = [asked EXCEPT ![h] = "silent"]
        /\ UNCHANGED <<findings, read>>
  /\ UNCHANGED <<hosts, offsets, ntpRc, polls>>

\* cross_host_consistency.
Compared == {h \in Server : offsets[h] # Unread}

\* Mutant: how far off the worst host is.
SpreadOfOne(values) == Max(values)

Spread(values) == Max(values) - Min(values)

\* The row; when the spread is just --max-skew-ms it may come out as more:
\* (0.2543 - 0.0543) * 1000 > 200.
Consistency ==
  LET apart == Spread({offsets[h] : h \in Compared})
      Graded(severity) == {Row(severity, Fleet, "consistency", "-", 0)}
  IN  IF Cardinality(Compared) < 2 THEN {{}}
      ELSE (IF apart >= MaxSkew THEN {Graded("CRITICAL")} ELSE {})
             \cup (IF apart <= MaxSkew THEN {Graded("INFO")} ELSE {})

EndSweep ==
  /\ \A h \in Server : asked[h] \in {"yes", "silent"}
  /\ \E rows \in Consistency : findings' = findings \cup rows
  /\ ntpRc' = IF \E f \in findings' : f.severity = "CRITICAL" THEN 1 ELSE 0
  /\ asked' = [h \in Server |-> "idle"]
  /\ offsets' = [h \in Server |-> Unread]
  /\ UNCHANGED <<hosts, read, polls, upsets>>

NtpStep ==
  \/ \E h \in Server :
       \/ \E s \in Source :
            \/ \E answered \in BOOLEAN : Poll(h, s, answered)
            \/ \E m \in {"*", "+", "x"} : Remark(h, s, m)
       \/ \E d \in {"chrony", "ntpd", "none"} : Replace(h, d)
       \/ \E ms \in Offset : Drift(h, ms)
       \/ AskTracking(h) \/ ListSources(h)
  \/ BeginSweep \/ EndSweep

NtpSpec == NtpInit /\ [][NtpStep]_nvars

-----------------------------------------------------------------------------
(* What must hold of it                                                    *)

Lost(p) == Cardinality({n \in 1..8 : ~p[n]})

\* The register the code computes with is an octal number read off a line; what
\* it says must be what happened: of a host whose sources were listed, every
\* source that missed polls has a loss finding with their number, critical from
\* four on for chrony, and total loss is critical for either daemon.
LossIsGraded ==
  \A h \in Server, s \in Source :
    asked[h] = "yes" /\ Lost(read[h].polls[s]) > 0 =>
      \E f \in findings :
        /\ f.host = h /\ f.check = "loss" /\ f.subject = s
        /\ f.missed = Lost(read[h].polls[s])
        /\ f.missed = 8 \/ (f.missed >= 4 /\ offsets[h] # Unread) => f.severity = "CRITICAL"

\* An alarm about the fleet is false by no more than the rounding: two of the
\* clocks read are really apart by --max-skew-ms less one unit of the last digit
\* printed, whichever sides of the limit the two were printed on and whatever
\* signs they have lost.  (The converse fails: a host ahead and one behind look
\* alike.)
SkewIsReal ==
  [][\A f \in findings' \ findings :
       f.check = "consistency" /\ f.severity = "CRITICAL" =>
         \E g, h \in Compared : read[g].offset - read[h].offset >= MaxSkew - Coarse]_nvars

\* "377 means all eight succeeded; anything less means loss"
\* (ntp_health_check.py:33-34): a source that answered all eight polls is not
\* reported for loss.
PerfectIsQuiet ==
  \A f \in findings : f.check = "loss" => f.missed > 0
=============================================================================
