---------------------------- MODULE OsdThrottle -----------------------------
(***************************************************************************)
(* storage/python/ceph_osd_throttle.py: set the recovery throttles of the  *)
(* OSDs from a profile, after writing the values they had to a restore     *)
(* point, or set them back from one.  Several operators may run it.        *)
(*                                                                         *)
(* `config get` of all tunables is one step, `config set` of each is one.  *)
(* --show, --watch, --dry-run and the display change nothing and are left  *)
(* out; so is that the cluster cannot be reached at the start.             *)
(***************************************************************************)
EXTENDS Integers, FiniteSets

CONSTANTS
  Operator,     \* who runs the script
  Tunable,      \* the keys of the configuration
  Setting,      \* their values
  Unknown,      \* what is noted of a key that could not be read
  NoPoint,      \* no restore point
  Profile,
  PROFILES,     \* [Profile -> [Tunable -> Setting]]
  HEAVY_PROFILES,
  Shipped,      \* [Tunable -> Setting]: the configuration to begin with
  MaxSeconds,   \* bound on the clock
  MaxThrottles  \* bound on invocations, failed calls and changes of health

ASSUME ThrottleAssumption ==
  /\ Unknown \notin Setting
  /\ PROFILES \in [Profile -> [Tunable -> Setting]]
  /\ HEAVY_PROFILES \subseteq Profile
  /\ Shipped \in [Tunable -> Setting]
  /\ MaxSeconds \in Nat /\ MaxThrottles \in Nat

Noted == Setting \cup {Unknown}

\* A restore point: what is written, and, as history, the configuration before
\* the run that wrote it and whether nobody else was at work until then.
Point == [previous : [Tunable -> Noted], before : [Tunable -> Setting], sure : BOOLEAN]

ASSUME NoPointAssumption == NoPoint \notin Point

VARIABLES
  config,    \* [Tunable -> Setting]
  healthOk,  \* HEALTH_OK
  second,    \* the clock
  points,    \* [0..MaxSeconds -> Point or NoPoint]: the state directory
  step,      \* [Operator -> where the run is]
  wanted,    \* [Operator -> what it sets, Unknown where nothing or done]
  noted,     \* [Operator -> current_values]
  mine,      \* [Operator -> stamp of the point it writes or restores]
  failing,   \* [Operator -> a set failed]
  throttleRc,\* [Operator -> exit code of its last run]
  atStart,   \* history: [Operator -> config when its run began]
  byOneself, \* history: [Operator -> nobody else at work since then]
  throttles

tvars == <<config, healthOk, second, points, step, wanted, noted, mine, failing,
           throttleRc, atStart, byOneself, throttles>>
memory == <<wanted, noted, mine, failing>>
past   == <<atStart, byOneself>>

Nowhere == [k \in Tunable |-> Unknown]

ThrottleTypeOK ==
  /\ config \in [Tunable -> Setting]
  /\ healthOk \in BOOLEAN
  /\ second \in 0..MaxSeconds
  /\ points \in [0..MaxSeconds -> Point \cup {NoPoint}]
  /\ step \in [Operator -> {"idle", "refuse", "values", "save", "apply", "restore"}]
  /\ wanted \in [Operator -> [Tunable -> Noted]]
  /\ noted \in [Operator -> [Tunable -> Noted]]
  /\ mine \in [Operator -> 0..MaxSeconds]
  /\ failing \in [Operator -> BOOLEAN]
  /\ throttleRc \in [Operator -> 0..2]
  /\ atStart \in [Operator -> [Tunable -> Setting]]
  /\ byOneself \in [Operator -> BOOLEAN]
  /\ throttles \in 0..MaxThrottles

ThrottleInit ==
  /\ config = Shipped /\ healthOk = TRUE /\ second = 0
  /\ points = [s \in 0..MaxSeconds |-> NoPoint]
  /\ step = [o \in Operator |-> "idle"]
  /\ wanted = [o \in Operator |-> Nowhere]
  /\ noted = [o \in Operator |-> Nowhere]
  /\ mine = [o \in Operator |-> 0]
  /\ failing = [o \in Operator |-> FALSE]
  /\ throttleRc = [o \in Operator |-> 0]
  /\ atStart = [o \in Operator |-> Shipped]
  /\ byOneself = [o \in Operator |-> FALSE]
  /\ throttles = 0

Count == throttles < MaxThrottles /\ throttles' = throttles + 1

To(o, where) == step' = [step EXCEPT ![o] = where]

EndThrottle(o, code) ==
  /\ To(o, "idle")
  /\ throttleRc' = [throttleRc EXCEPT ![o] = code]
  /\ wanted' = [wanted EXCEPT ![o] = Nowhere]
  /\ noted' = [noted EXCEPT ![o] = Nowhere]
  /\ mine' = [mine EXCEPT ![o] = 0]
  /\ failing' = [failing EXCEPT ![o] = FALSE]

\* External: the cluster and the clock.
HealthChanges ==
  /\ Count /\ healthOk' = ~healthOk
  /\ UNCHANGED <<config, second, points, step, memory, throttleRc, past>>

Second ==
  /\ second < MaxSeconds /\ second' = second + 1
  /\ UNCHANGED <<config, healthOk, points, step, memory, throttleRc, past, throttles>>

Invoke(o, where, values, stamp) ==
  /\ step[o] = "idle" /\ Count
  /\ To(o, where)
  /\ wanted' = [wanted EXCEPT ![o] = values]
  /\ mine' = [mine EXCEPT ![o] = stamp]
  /\ atStart' = [atStart EXCEPT ![o] = config]
  /\ byOneself' = [p \in Operator |-> p = o /\ \A q \in Operator : step[q] = "idle"]
  /\ UNCHANGED <<config, healthOk, second, points, noted, failing, throttleRc>>

\* --restore: only what was known is set, and without a look at the health.
BeginRestore(o, stamp) ==
  /\ points[stamp] # NoPoint
  /\ Invoke(o, "restore", points[stamp].previous, stamp)

\* --profile, with the refusal of a heavy one.
BeginProfile(o, profile, force) ==
  /\ Invoke(o, IF profile \in HEAVY_PROFILES /\ ~healthOk /\ ~force THEN "refuse" ELSE "values",
            PROFILES[profile], 0)

Refuse(o) ==
  /\ step[o] = "refuse"
  /\ EndThrottle(o, 2)
  /\ UNCHANGED <<config, healthOk, second, points, past, throttles>>

\* current_values: a key that does not answer is noted as unknown.
ReadValues(o) ==
  /\ step[o] = "values"
  /\ \E silent \in SUBSET Tunable :
       /\ IF silent = {} THEN UNCHANGED throttles ELSE Count
       /\ noted' = [noted EXCEPT ![o] = [k \in Tunable |->
                      IF k \in silent THEN Unknown ELSE config[k]]]
  /\ To(o, "save")
  /\ UNCHANGED <<config, healthOk, second, points, wanted, mine, failing, throttleRc, past>>

\* Mutant: the values that will be set are saved.
SaveRestorePointAfter(o) ==
  /\ step[o] = "save"
  /\ points' = [points EXCEPT ![second] =
       [previous |-> wanted[o], before |-> atStart[o], sure |-> byOneself[o]]]
  /\ mine' = [mine EXCEPT ![o] = second]
  /\ To(o, "apply")
  /\ UNCHANGED <<config, healthOk, second, wanted, noted, failing, throttleRc, past, throttles>>

\* save_restore_point: the file is named by the second it is written in.
SaveRestorePoint(o) ==
  /\ step[o] = "save"
  /\ points' = [points EXCEPT ![second] =
       [previous |-> noted[o], before |-> atStart[o], sure |-> byOneself[o]]]
  /\ mine' = [mine EXCEPT ![o] = second]
  /\ To(o, "apply")
  /\ UNCHANGED <<config, healthOk, second, wanted, noted, failing, throttleRc, past, throttles>>

\* Mutant: a set that failed is not counted.
ApplyValueUncounted(o, k) ==
  /\ step[o] \in {"apply", "restore"} /\ wanted[o][k] # Unknown
  /\ wanted' = [wanted EXCEPT ![o][k] = Unknown]
  /\ \/ config' = [config EXCEPT ![k] = wanted[o][k]] /\ UNCHANGED throttles
     \/ Count /\ UNCHANGED config
  /\ UNCHANGED <<healthOk, second, points, step, noted, mine, failing, throttleRc, past>>

\* One round of apply_values.  A set that fails or times out may have been
\* carried out; the others are tried all the same.
ApplyValue(o, k) ==
  /\ step[o] \in {"apply", "restore"} /\ wanted[o][k] # Unknown
  /\ wanted' = [wanted EXCEPT ![o][k] = Unknown]
  /\ \/ /\ config' = [config EXCEPT ![k] = wanted[o][k]]
        /\ UNCHANGED <<failing, throttles>>
     \/ /\ Count /\ failing' = [failing EXCEPT ![o] = TRUE]
        /\ config' \in {config, [config EXCEPT ![k] = wanted[o][k]]}
  /\ UNCHANGED <<healthOk, second, points, step, noted, mine, throttleRc, past>>

Applied(o) ==
  /\ step[o] \in {"apply", "restore"} /\ wanted[o] = Nowhere
  /\ EndThrottle(o, IF failing[o] THEN 1 ELSE 0)
  /\ UNCHANGED <<config, healthOk, second, points, past, throttles>>

\* Stopped where it is: Ctrl-C is caught, logged, and ends with code 0; a kill,
\* or a restore point that cannot be written, does not.
Interrupted(o) ==
  /\ step[o] # "idle" /\ Count
  /\ \E code \in {0, 1} : EndThrottle(o, code)
  /\ UNCHANGED <<config, healthOk, second, points, past>>

ThrottleStep ==
  \/ HealthChanges \/ Second
  \/ \E o \in Operator :
       \/ \E stamp \in 0..MaxSeconds : BeginRestore(o, stamp)
       \/ \E profile \in Profile, force \in BOOLEAN : BeginProfile(o, profile, force)
       \/ Refuse(o) \/ ReadValues(o) \/ SaveRestorePoint(o)
       \/ \E k \in Tunable : ApplyValue(o, k)
       \/ Applied(o) \/ Interrupted(o)

ThrottleSpec == ThrottleInit /\ [][ThrottleStep]_tvars

-----------------------------------------------------------------------------
(* What must hold of it                                                    *)

\* "Writes a restore point before changing anything": while a run that has been
\* alone sets values, the file it names holds all that it could read of the
\* configuration before it; what it could not read has a name, too.
UndoIsThere ==
  \A o \in Operator : step[o] = "apply" /\ byOneself[o] =>
    /\ points[mine[o]] # NoPoint
    /\ \A k \in Tunable : points[mine[o]].previous[k] \in {atStart[o][k], Unknown}

\* "--restore puts the cluster back exactly as it was": whatever ran, failed or
\* was interrupted since, a restore that was alone, comes to its end and ends with
\* code 0 leaves what was there before the run that wrote the point, if that one
\* was alone and could read all of it.  (The exit code alone does not say so: a
\* restore stopped by Ctrl-C ends with code 0, too.)
RestoredExactly ==
  [][\A o \in Operator :
       LET point == points[mine[o]]
       IN  /\ step[o] = "restore" /\ Applied(o) /\ throttleRc'[o] = 0 /\ byOneself[o]
           /\ point.sure /\ \A k \in Tunable : point.previous[k] # Unknown
           => config' = point.before]_tvars
=============================================================================
