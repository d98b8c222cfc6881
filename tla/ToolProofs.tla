----------------------------- MODULE ToolProofs -----------------------------
(***************************************************************************)
(* Theorems about four tools that share nothing: the OSD throttle, the     *)
(* pre-flight of an array upgrade, the audit of orphaned resources and the *)
(* NTP health check, each for every value of its constants.                *)
(***************************************************************************)
EXTENDS OsdThrottle, PureUpgrade, ResourceAudit, NtpHealth, FiniteSetTheorems,
        FunctionTheorems, WellFoundedInduction, TLAPS

-----------------------------------------------------------------------------
(* OsdThrottle                                                             *)

\* While a run that is alone reads, saves and sets, nobody else does anything:
\* until it sets something the configuration is the one it began with, and what
\* it noted is true of that one.
AloneInv ==
  \A o \in Operator : byOneself[o] =>
    /\ \A q \in Operator : q # o => step[q] = "idle"
    /\ step[o] \in {"refuse", "values", "save"} => config = atStart[o]
    /\ step[o] = "save" => \A k \in Tunable : noted[o][k] \in {atStart[o][k], Unknown}

TInv == ThrottleTypeOK /\ AloneInv /\ UndoIsThere

\* The flags stay flags.
LEMMA ThrottleFlags ==
  ASSUME ThrottleTypeOK, ThrottleStep
  PROVE  /\ healthOk' \in BOOLEAN
         /\ failing' \in [Operator -> BOOLEAN]
         /\ byOneself' \in [Operator -> BOOLEAN]
<1>1. healthOk' \in BOOLEAN
  BY ZenonT(30) DEF ThrottleStep, HealthChanges, Second, BeginRestore, BeginProfile, Invoke, Refuse,
     ReadValues, SaveRestorePoint, ApplyValue, Applied, Interrupted, EndThrottle, ThrottleTypeOK
<1>2. failing' \in [Operator -> BOOLEAN]
  BY ZenonT(30) DEF ThrottleStep, HealthChanges, Second, BeginRestore, BeginProfile, Invoke, Refuse,
     ReadValues, SaveRestorePoint, ApplyValue, Applied, Interrupted, EndThrottle, ThrottleTypeOK,
     memory
<1>3. byOneself' \in [Operator -> BOOLEAN]
  BY ZenonT(30) DEF ThrottleStep, HealthChanges, Second, BeginRestore, BeginProfile, Invoke, Refuse,
     ReadValues, SaveRestorePoint, ApplyValue, Applied, Interrupted, EndThrottle, ThrottleTypeOK,
     past
<1> QED
  BY <1>1, <1>2, <1>3

\* Every action keeps the types.
LEMMA ThrottleTypes == ThrottleTypeOK /\ [ThrottleStep]_tvars => ThrottleTypeOK'
<1> SUFFICES ASSUME ThrottleTypeOK, [ThrottleStep]_tvars PROVE ThrottleTypeOK'
  OBVIOUS
<1> USE ThrottleAssumption DEF Noted, Nowhere, Count, To, memory, past
<1>1. CASE UNCHANGED tvars
  BY <1>1 DEF tvars, ThrottleTypeOK
<1>2. CASE ThrottleStep
  <2>b. /\ healthOk' \in BOOLEAN
        /\ failing' \in [Operator -> BOOLEAN]
        /\ byOneself' \in [Operator -> BOOLEAN]
    BY <1>2, ThrottleFlags
  <2> USE <2>b
  <2>1. CASE HealthChanges \/ Second
    BY <2>1 DEF HealthChanges, Second, ThrottleTypeOK
  <2>2. ASSUME NEW o \in Operator, NEW where \in {"restore", "refuse", "values"},
               NEW values \in [Tunable -> Noted], NEW stamp \in 0..MaxSeconds,
               Invoke(o, where, values, stamp)
        PROVE  ThrottleTypeOK'
    BY <2>2 DEF Invoke, ThrottleTypeOK
  <2>3. ASSUME NEW o \in Operator, NEW stamp \in 0..MaxSeconds, BeginRestore(o, stamp)
        PROVE  ThrottleTypeOK'
    <3>1. points[stamp] \in Point
      BY <2>3, NoPointAssumption DEF BeginRestore, ThrottleTypeOK
    <3>2. points[stamp].previous \in [Tunable -> Noted]
      BY <3>1 DEF Point
    <3> QED
      BY <2>2, <2>3, <3>2 DEF BeginRestore
  <2>4. ASSUME NEW o \in Operator, NEW profile \in Profile, NEW force \in BOOLEAN,
               BeginProfile(o, profile, force)
        PROVE  ThrottleTypeOK'
    <3>1. PROFILES[profile] \in [Tunable -> Noted]
      OBVIOUS
    <3>2. \E where \in {"refuse", "values"} : Invoke(o, where, PROFILES[profile], 0)
      BY <2>4 DEF BeginProfile
    <3> QED
      BY <2>2, <3>1, <3>2
  <2>5. ASSUME NEW o \in Operator, NEW code \in 0..2, EndThrottle(o, code),
               UNCHANGED <<config, healthOk, second, points, past>>,
               throttles' \in 0..MaxThrottles
        PROVE  ThrottleTypeOK'
    BY <2>5 DEF EndThrottle, ThrottleTypeOK
  <2>6. ASSUME NEW o \in Operator, Refuse(o) \/ Applied(o) \/ Interrupted(o)
        PROVE  ThrottleTypeOK'
    <3>1. throttles' \in 0..MaxThrottles
      BY <2>6 DEF Refuse, Applied, Interrupted, ThrottleTypeOK
    <3> QED
      BY <2>5, <2>6, <3>1 DEF Refuse, Applied, Interrupted
  <2>7. ASSUME NEW o \in Operator, ReadValues(o) PROVE ThrottleTypeOK'
    BY <2>7 DEF ReadValues, ThrottleTypeOK
  <2>8. ASSUME NEW o \in Operator, SaveRestorePoint(o) PROVE ThrottleTypeOK'
    <3> DEFINE point == [previous |-> noted[o], before |-> atStart[o], sure |-> byOneself[o]]
    <3>1. byOneself[o] \in BOOLEAN
      BY Zenon DEF ThrottleTypeOK
    <3>2. point \in Point
      BY <3>1 DEF Point, ThrottleTypeOK
    <3>3. points' = [points EXCEPT ![second] = point]
      BY <2>8 DEF SaveRestorePoint
    <3> HIDE DEF point
    <3>4. points' \in [0..MaxSeconds -> Point \cup {NoPoint}]
      BY <3>2, <3>3 DEF ThrottleTypeOK
    <3> QED
      BY <2>8, <3>4 DEF SaveRestorePoint, ThrottleTypeOK
  <2>9. ASSUME NEW o \in Operator, NEW k \in Tunable, ApplyValue(o, k) PROVE ThrottleTypeOK'
    <3>1. wanted[o][k] \in Setting
      BY <2>9 DEF ApplyValue, ThrottleTypeOK
    <3>2. config' \in [Tunable -> Setting]
      BY <2>9, <3>1 DEF ApplyValue, ThrottleTypeOK
    <3>3. wanted' \in [Operator -> [Tunable -> Noted]] /\ throttles' \in 0..MaxThrottles
      BY <2>9 DEF ApplyValue, ThrottleTypeOK
    <3> QED
      BY <2>9, <3>2, <3>3 DEF ApplyValue, ThrottleTypeOK
  <2> QED
    BY <1>2, <2>1, <2>3, <2>4, <2>6, <2>7, <2>8, <2>9 DEF ThrottleStep
<1> QED
  BY <1>1, <1>2

\* Nothing is owed to begin with.
LEMMA ThrottleInitInv == ThrottleInit => TInv
<1> SUFFICES ASSUME ThrottleInit PROVE TInv
  OBVIOUS
<1>1. /\ healthOk \in BOOLEAN
      /\ failing \in [Operator -> BOOLEAN]
      /\ byOneself \in [Operator -> BOOLEAN]
  BY Zenon DEF ThrottleInit
<1>2. ThrottleTypeOK
  BY <1>1, ThrottleAssumption DEF ThrottleInit, ThrottleTypeOK, Noted, Nowhere
<1>3. \A o \in Operator : ~byOneself[o]
  BY Zenon DEF ThrottleInit
<1> QED
  BY <1>2, <1>3 DEF TInv, AloneInv, UndoIsThere

\* Every step leaves a run that is alone with a true note and a true file.
LEMMA ThrottleStepInv == TInv /\ [ThrottleStep]_tvars => AloneInv' /\ UndoIsThere'
<1> SUFFICES ASSUME TInv, [ThrottleStep]_tvars, NEW o \in Operator, byOneself'[o]
             PROVE  /\ \A q \in Operator : q # o => step'[q] = "idle"
                    /\ step'[o] \in {"refuse", "values", "save"} => config' = atStart'[o]
                    /\ step'[o] = "save" =>
                         \A k \in Tunable : noted'[o][k] \in {atStart'[o][k], Unknown}
                    /\ step'[o] = "apply" =>
                         /\ points'[mine'[o]] # NoPoint
                         /\ \A k \in Tunable :
                              points'[mine'[o]].previous[k] \in {atStart'[o][k], Unknown}
  BY DEF AloneInv, UndoIsThere
<1> DEFINE Goal == /\ \A q \in Operator : q # o => step'[q] = "idle"
                   /\ step'[o] \in {"refuse", "values", "save"} => config' = atStart'[o]
                   /\ step'[o] = "save" =>
                        \A k \in Tunable : noted'[o][k] \in {atStart'[o][k], Unknown}
                   /\ step'[o] = "apply" =>
                        /\ points'[mine'[o]] # NoPoint
                        /\ \A k \in Tunable :
                             points'[mine'[o]].previous[k] \in {atStart'[o][k], Unknown}
<1> USE ThrottleAssumption DEF To, memory, past
<1>a. ThrottleTypeOK
  BY DEF TInv
<1>o. byOneself[o] =>
        /\ \A q \in Operator : q # o => step[q] = "idle"
        /\ step[o] \in {"refuse", "values", "save"} => config = atStart[o]
        /\ step[o] = "save" => \A k \in Tunable : noted[o][k] \in {atStart[o][k], Unknown}
        /\ step[o] = "apply" =>
             /\ points[mine[o]] # NoPoint
             /\ \A k \in Tunable : points[mine[o]].previous[k] \in {atStart[o][k], Unknown}
  BY DEF TInv, AloneInv, UndoIsThere
<1>1. CASE UNCHANGED tvars
  BY <1>1, <1>o DEF tvars
<1>2. CASE HealthChanges \/ Second
  BY <1>2, <1>o DEF HealthChanges, Second
<1>3. ASSUME NEW q \in Operator, NEW where \in {"restore", "refuse", "values"}, NEW values,
             NEW stamp, Invoke(q, where, values, stamp)
      PROVE  Goal
  <2>1. byOneself'[o] = (o = q /\ \A x \in Operator : step[x] = "idle")
    BY <1>3, Zenon DEF Invoke
  <2> QED
    BY <1>3, <1>a, <2>1 DEF Invoke, ThrottleTypeOK
<1>4. ASSUME NEW q \in Operator, NEW stamp \in 0..MaxSeconds, BeginRestore(q, stamp) PROVE Goal
  BY <1>3, <1>4 DEF BeginRestore
<1>5. ASSUME NEW q \in Operator, NEW profile \in Profile, NEW force \in BOOLEAN,
             BeginProfile(q, profile, force)
      PROVE  Goal
  BY <1>3, <1>5 DEF BeginProfile
<1>6. ASSUME NEW q \in Operator, Refuse(q) \/ Applied(q) \/ Interrupted(q) PROVE Goal
  <2>1. byOneself[o]
    BY <1>6 DEF Refuse, Applied, Interrupted
  <2> QED
    BY <1>6, <1>a, <1>o, <2>1 DEF Refuse, Applied, Interrupted, EndThrottle, ThrottleTypeOK
<1>7. ASSUME NEW q \in Operator, ReadValues(q) PROVE Goal
  <2>1. byOneself[o] /\ q = o
    BY <1>7, <1>o DEF ReadValues
  <2> QED
    BY <1>7, <1>a, <1>o, <2>1 DEF ReadValues, ThrottleTypeOK
<1>8. ASSUME NEW q \in Operator, SaveRestorePoint(q) PROVE Goal
  <2>1. byOneself[o] /\ q = o
    BY <1>8, <1>o DEF SaveRestorePoint
  <2>2. /\ points'[second] =
             [previous |-> noted[o], before |-> atStart[o], sure |-> byOneself[o]]
        /\ mine'[o] = second
        /\ step'[o] = "apply"
    BY <1>8, <1>a, <2>1 DEF SaveRestorePoint, ThrottleTypeOK
  <2>3. points'[second] \in Point \cup {NoPoint} /\ points'[second] # NoPoint
    <3>1. byOneself[o] \in BOOLEAN
      BY <1>a, Zenon DEF ThrottleTypeOK
    <3>2. points'[second] \in Point
      BY <1>a, <2>2, <3>1 DEF ThrottleTypeOK, Point
    <3> QED
      BY <3>2, NoPointAssumption
  <2> QED
    BY <1>8, <1>a, <1>o, <2>1, <2>2, <2>3 DEF SaveRestorePoint, ThrottleTypeOK
<1>9. ASSUME NEW q \in Operator, NEW k \in Tunable, ApplyValue(q, k) PROVE Goal
  <2>1. byOneself[o] /\ q = o
    BY <1>9, <1>o DEF ApplyValue
  <2> QED
    BY <1>9, <1>a, <1>o, <2>1 DEF ApplyValue, ThrottleTypeOK
<1> QED
  BY <1>1, <1>2, <1>4, <1>5, <1>6, <1>7, <1>8, <1>9 DEF ThrottleStep

\* The throttle's invariant holds in every state.
THEOREM ThrottleInductive == ThrottleSpec => []TInv
<1>1. TInv /\ [ThrottleStep]_tvars => TInv'
  BY ThrottleTypes, ThrottleStepInv DEF TInv
<1> QED
  BY <1>1, ThrottleInitInv, PTL DEF ThrottleSpec

\* Operators, clock and cluster keep every variable's type.
THEOREM ThrottleTypeCorrect == ThrottleSpec => []ThrottleTypeOK
<1>1. TInv => ThrottleTypeOK
  BY DEF TInv
<1> QED
  BY <1>1, ThrottleInductive, PTL

\* A profile applied by an operator who is alone can be undone at every moment:
\* the file is written first, and nothing overwrites it before the run ends.
THEOREM UndoAtHand == ThrottleSpec => []UndoIsThere
<1>1. TInv => UndoIsThere
  BY DEF TInv
<1> QED
  BY <1>1, ThrottleInductive, PTL

\* What a point says of a run that was alone is true of what was before it.
PointsInv ==
  \A stamp \in 0..MaxSeconds : points[stamp] # NoPoint /\ points[stamp].sure =>
    \A k \in Tunable : points[stamp].previous[k] \in {points[stamp].before[k], Unknown}

\* A restore that is alone, of a point that knows every value: what it no longer
\* wants has been set, unless a set failed.
Whole(point) == \A k \in Tunable : point.previous[k] # Unknown

RestoreInv ==
  \A o \in Operator : byOneself[o] /\ step[o] = "restore" =>
    /\ points[mine[o]] # NoPoint
    /\ ~failing[o] /\ Whole(points[mine[o]]) =>
         \A k \in Tunable : \/ wanted[o][k] = points[mine[o]].previous[k]
                           \/ /\ wanted[o][k] = Unknown
                              /\ config[k] = points[mine[o]].previous[k]

\* Only a run that was alone when it read signs a point as sure.
LEMMA PointsStep == TInv /\ PointsInv /\ [ThrottleStep]_tvars => PointsInv'
<1> SUFFICES ASSUME TInv, PointsInv, [ThrottleStep]_tvars, NEW stamp \in 0..MaxSeconds,
                    points'[stamp] # NoPoint, points'[stamp].sure
             PROVE  \A k \in Tunable :
                      points'[stamp].previous[k] \in {points'[stamp].before[k], Unknown}
  BY DEF PointsInv
<1>a. ThrottleTypeOK
  BY DEF TInv
<1>1. ASSUME points' = points
      PROVE  \A k \in Tunable :
               points'[stamp].previous[k] \in {points'[stamp].before[k], Unknown}
  BY <1>1 DEF PointsInv
<1>2. ASSUME NEW q \in Operator, SaveRestorePoint(q)
      PROVE  \A k \in Tunable :
               points'[stamp].previous[k] \in {points'[stamp].before[k], Unknown}
  <2>1. CASE stamp # second
    <3>1. points'[stamp] = points[stamp]
      BY <1>2, <1>a, <2>1 DEF SaveRestorePoint, ThrottleTypeOK
    <3> QED
      BY <3>1 DEF PointsInv
  <2>2. CASE stamp = second
    <3>1. points'[stamp] =
            [previous |-> noted[q], before |-> atStart[q], sure |-> byOneself[q]]
      BY <1>2, <1>a, <2>2 DEF SaveRestorePoint, ThrottleTypeOK
    <3>2. byOneself[q]
      BY <3>1
    <3>3. \A k \in Tunable : noted[q][k] \in {atStart[q][k], Unknown}
      BY <1>2, <3>2 DEF TInv, AloneInv, SaveRestorePoint
    <3> QED
      BY <3>1, <3>3
  <2> QED
    BY <2>1, <2>2
<1>3. points' = points \/ \E q \in Operator : SaveRestorePoint(q)
  BY Zenon DEF ThrottleStep, tvars, HealthChanges, Second, BeginRestore, BeginProfile, Invoke,
     Refuse, ReadValues, ApplyValue, Applied, Interrupted
<1> QED
  BY <1>1, <1>2, <1>3

\* A restore forgets a value only by setting it, or by failing.
LEMMA RestoreStep == TInv /\ RestoreInv /\ [ThrottleStep]_tvars => RestoreInv'
<1> SUFFICES ASSUME TInv, RestoreInv, [ThrottleStep]_tvars,
                    NEW o \in Operator, byOneself'[o], step'[o] = "restore"
             PROVE  /\ points'[mine'[o]] # NoPoint
                    /\ ~failing'[o] /\ Whole(points'[mine'[o]]) =>
                         \A k \in Tunable :
                           \/ wanted'[o][k] = points'[mine'[o]].previous[k]
                           \/ /\ wanted'[o][k] = Unknown
                              /\ config'[k] = points'[mine'[o]].previous[k]
  BY DEF RestoreInv, Whole
<1> DEFINE Goal == /\ points'[mine'[o]] # NoPoint
                   /\ ~failing'[o] /\ Whole(points'[mine'[o]]) =>
                        \A k \in Tunable :
                          \/ wanted'[o][k] = points'[mine'[o]].previous[k]
                          \/ /\ wanted'[o][k] = Unknown
                             /\ config'[k] = points'[mine'[o]].previous[k]
<1> USE ThrottleAssumption DEF To, memory, past
<1>a. ThrottleTypeOK
  BY DEF TInv
<1>o. byOneself[o] => \A q \in Operator : q # o => step[q] = "idle"
  BY DEF TInv, AloneInv
<1>r. byOneself[o] /\ step[o] = "restore" =>
        /\ points[mine[o]] # NoPoint
        /\ ~failing[o] /\ Whole(points[mine[o]]) =>
             \A k \in Tunable :
               \/ wanted[o][k] = points[mine[o]].previous[k]
               \/ wanted[o][k] = Unknown /\ config[k] = points[mine[o]].previous[k]
  BY DEF RestoreInv
<1>1. CASE UNCHANGED tvars
  BY <1>1, <1>r DEF tvars
<1>2. CASE HealthChanges \/ Second
  BY <1>2, <1>r DEF HealthChanges, Second
<1>4. ASSUME NEW q \in Operator, NEW stamp \in 0..MaxSeconds, BeginRestore(q, stamp) PROVE Goal
  <2>1. byOneself'[o] = (o = q /\ \A x \in Operator : step[x] = "idle")
    BY <1>4, Zenon DEF BeginRestore, Invoke
  <2>2. o = q
    BY <2>1
  <2>3. /\ mine'[o] = stamp /\ points' = points
        /\ wanted'[o] = points[stamp].previous
    BY <1>4, <1>a, <2>2 DEF BeginRestore, Invoke, ThrottleTypeOK
  <2> QED
    BY <1>4, <2>3 DEF BeginRestore
<1>5. ASSUME NEW q \in Operator, NEW profile \in Profile, NEW force \in BOOLEAN,
             BeginProfile(q, profile, force)
      PROVE  Goal
  <2>1. byOneself'[o] = (o = q /\ \A x \in Operator : step[x] = "idle")
    BY <1>5, Zenon DEF BeginProfile, Invoke
  <2>2. o = q
    BY <2>1
  <2>3. step'[o] # "restore"
    BY <1>5, <1>a, <2>2 DEF BeginProfile, Invoke, ThrottleTypeOK
  <2> QED
    BY <2>3
<1>6. ASSUME NEW q \in Operator, Refuse(q) \/ Applied(q) \/ Interrupted(q) PROVE Goal
  <2>1. byOneself[o] /\ step[q] # "idle"
    BY <1>6 DEF Refuse, Applied, Interrupted
  <2>2. q = o
    BY <1>o, <2>1
  <2>3. step'[o] = "idle"
    BY <1>6, <1>a, <2>2 DEF Refuse, Applied, Interrupted, EndThrottle, ThrottleTypeOK
  <2> QED
    BY <2>3
<1>7. ASSUME NEW q \in Operator, ReadValues(q) \/ SaveRestorePoint(q) PROVE Goal
  <2>1. byOneself[o] /\ q = o
    BY <1>7, <1>o DEF ReadValues, SaveRestorePoint
  <2>2. step'[o] # "restore"
    BY <1>7, <1>a, <2>1 DEF ReadValues, SaveRestorePoint, ThrottleTypeOK
  <2> QED
    BY <2>2
<1>9. ASSUME NEW q \in Operator, NEW k \in Tunable, ApplyValue(q, k) PROVE Goal
  <2>1. byOneself[o] /\ q = o /\ step[o] = "restore"
    BY <1>9, <1>a, <1>o DEF ApplyValue, ThrottleTypeOK
  <2>2. points' = points /\ mine' = mine
    BY <1>9 DEF ApplyValue
  <2>3. wanted'[o] = [wanted[o] EXCEPT ![k] = Unknown]
    BY <1>9, <1>a, <2>1 DEF ApplyValue, ThrottleTypeOK
  <2>4. failing'[o] \/ (config' = [config EXCEPT ![k] = wanted[o][k]] /\ failing' = failing)
    BY <1>9, <1>a, <2>1, Zenon DEF ApplyValue, ThrottleTypeOK
  <2>5. wanted[o][k] # Unknown
    BY <1>9, <2>1 DEF ApplyValue
  <2> QED
    BY <1>a, <1>r, <2>1, <2>2, <2>3, <2>4, <2>5 DEF ThrottleTypeOK
<1> QED
  BY <1>1, <1>2, <1>4, <1>5, <1>6, <1>7, <1>9 DEF ThrottleStep

\* Whatever ran, failed or was interrupted between a profile and its restore: a
\* restore that is alone and comes to its end with code 0 leaves what was there
\* before the profile, if that one was alone and could read all of it.
THEOREM RestoreIsExact == ThrottleSpec => RestoredExactly
<1> DEFINE Inv == TInv /\ PointsInv /\ RestoreInv
<1>1. ThrottleInit => PointsInv /\ RestoreInv
  BY DEF ThrottleInit, PointsInv, RestoreInv
<1>2. Inv /\ [ThrottleStep]_tvars => Inv'
  BY ThrottleTypes, ThrottleStepInv, PointsStep, RestoreStep DEF TInv
<1>3. ASSUME Inv, [ThrottleStep]_tvars, NEW o \in Operator,
             step[o] = "restore", Applied(o), throttleRc'[o] = 0, byOneself[o],
             points[mine[o]].sure, Whole(points[mine[o]])
      PROVE  config' = points[mine[o]].before
  <2> USE DEF To, memory, past
  <2>a. ThrottleTypeOK
    BY <1>3 DEF TInv
  <2>2. Applied(o) /\ ~failing[o]
    BY <1>3, <2>a DEF Applied, EndThrottle, ThrottleTypeOK
  <2>3. config' = config /\ \A k \in Tunable : wanted[o][k] = Unknown
    BY <2>2 DEF Applied, Nowhere
  <2>4. /\ points[mine[o]] # NoPoint
        /\ \A k \in Tunable : config[k] = points[mine[o]].previous[k]
    BY <1>3, <2>2, <2>3 DEF RestoreInv, Whole
  <2>5. points[mine[o]] \in Point /\ mine[o] \in 0..MaxSeconds
    BY <2>a, <2>4 DEF ThrottleTypeOK
  <2>6. \A k \in Tunable : points[mine[o]].previous[k] = points[mine[o]].before[k]
    BY <1>3, <2>4, <2>5 DEF PointsInv, Whole
  <2>7. config \in [Tunable -> Setting] /\ points[mine[o]].before \in [Tunable -> Setting]
    BY <2>a, <2>5 DEF ThrottleTypeOK, Point
  <2> QED
    BY <2>3, <2>4, <2>6, <2>7
<1>4. Inv /\ [ThrottleStep]_tvars =>
        \A o \in Operator :
          LET point == points[mine[o]]
          IN  /\ step[o] = "restore" /\ Applied(o) /\ throttleRc'[o] = 0 /\ byOneself[o]
              /\ point.sure /\ \A k \in Tunable : point.previous[k] # Unknown
              => config' = point.before
  BY <1>3 DEF Whole
<1> HIDE DEF Inv
<1>5. ThrottleInit => Inv
  BY <1>1, ThrottleInitInv DEF Inv
<1> QED
  BY <1>2, <1>4, <1>5, PTL DEF ThrottleSpec, RestoredExactly
-----------------------------------------------------------------------------
(* PureUpgrade                                                             *)

\* What was read of a client shows fewer than two paths for each LUN.
Counted(r) == {lp \in Lun \X Port : lp[1] \in r.luns /\ lp[2] \in r.paths[lp[1]]}
Short(r) == Cardinality(Counted(r)) < 2 * Cardinality(r.luns)

\* A verdict stands while no run is going on; GO is one without findings; what
\* was read and is short is a finding.
VerdictInv ==
  /\ preflight # "idle" => verdict = "none"
  /\ verdict = "GO" => criticals = {}
  /\ "paths" \notin criticals => \A c \in Client : ~Short(asRead[c])

UInv == PureTypeOK /\ VerdictInv

\* The flags stay flags.
LEMMA PureFlags ==
  ASSUME PureTypeOK, PureStep
  PROVE  strict' \in BOOLEAN /\ authenticated' \in BOOLEAN
<1>1. strict' \in BOOLEAN
  BY ZenonT(30) DEF PureStep, ArrayChanges, Unmap, LosePath, LoseRoute, BeginPreflight, CheckToken,
     CheckVersion, CheckHealth, CheckVips, CheckMultipath, Verdict, Checked, PureTypeOK, rest
<1>2. authenticated' \in BOOLEAN
  BY ZenonT(30) DEF PureStep, ArrayChanges, Unmap, LosePath, LoseRoute, BeginPreflight, CheckToken,
     CheckVersion, CheckHealth, CheckVips, CheckMultipath, Verdict, Checked, PureTypeOK, rest
<1> QED
  BY <1>1, <1>2

\* A check that ends goes to the next one, with its finding.
LEMMA CheckedTypes ==
  ASSUME PureTypeOK, NEW this \in Checks, NEW next \in Checks, NEW critical,
         Checked(this, next, critical),
         probed' = probed, asRead' = asRead, mishaps' \in 0..MaxMishaps,
         answered' = answered \/ \E x \in Checks : answered' = answered \cup {x},
         strict' \in BOOLEAN, authenticated' \in BOOLEAN
  PROVE  PureTypeOK'
  BY DEF Checked, PureTypeOK, array

\* Every action keeps the types.
LEMMA PureTypes == PureTypeOK /\ [PureStep]_pvars => PureTypeOK'
<1> SUFFICES ASSUME PureTypeOK, [PureStep]_pvars PROVE PureTypeOK'
  OBVIOUS
<1> USE UpgradeAssumption DEF Mishap, array, rest
<1>1. CASE UNCHANGED pvars
  BY <1>1 DEF pvars, PureTypeOK
<1>2. CASE PureStep
  <2>b. strict' \in BOOLEAN /\ authenticated' \in BOOLEAN
    BY <1>2, PureFlags
  <2> USE <2>b
  <2>1. CASE ArrayChanges
    <3>1. up' \in SUBSET Controller /\ conditions' \in SUBSET Conditions /\ vips' \in SUBSET Vip
      BY <2>1 DEF ArrayChanges, PureTypeOK
    <3> QED
      BY <2>1, <3>1 DEF ArrayChanges, PureTypeOK
  <2>2. ASSUME NEW c \in Client, NEW l \in Lun, Unmap(c, l) PROVE PureTypeOK'
    BY <2>2 DEF Unmap, PureTypeOK
  <2>3. ASSUME NEW c \in Client, NEW l \in Lun, NEW p \in Port, LosePath(c, l, p)
        PROVE  PureTypeOK'
    BY <2>3 DEF LosePath, PureTypeOK
  <2>4. ASSUME NEW from \in Client \cup {Here}, NEW v \in Vip, LoseRoute(from, v)
        PROVE  PureTypeOK'
    BY <2>4 DEF LoseRoute, PureTypeOK
  <2>5. ASSUME NEW s \in BOOLEAN, BeginPreflight(s) PROVE PureTypeOK'
    BY <2>5 DEF BeginPreflight, PureTypeOK, NothingRead, Checks
  <2>6. CASE CheckToken \/ CheckVersion \/ CheckHealth \/ CheckVips
    <3>0. mishaps' = mishaps \/ Mishap
      BY <2>6, Zenon DEF CheckToken, CheckVersion, CheckHealth, CheckVips
    <3>1. mishaps' \in 0..MaxMishaps
      BY <3>0 DEF PureTypeOK
    <3>2. answered' = answered \/ \E x \in Checks : answered' = answered \cup {x}
      BY <2>6 DEF CheckToken, CheckVersion, CheckHealth, CheckVips, Answers, Checks
    <3>3. probed' = probed /\ asRead' = asRead
      BY <2>6 DEF CheckToken, CheckVersion, CheckHealth, CheckVips
    <3>4. PICK this \in Checks, next \in Checks : \E critical : Checked(this, next, critical)
      BY <2>6 DEF CheckToken, CheckVersion, CheckHealth, CheckVips, Checks
    <3> QED
      BY <3>1, <3>2, <3>3, <3>4, CheckedTypes
  <2>10. ASSUME NEW c \in Client, CheckMultipath(c) PROVE PureTypeOK'
    <3>1. [luns |-> mapped[c], paths |-> paths[c]]
            \in [luns : SUBSET Lun, paths : [Lun -> SUBSET Port]]
      BY DEF PureTypeOK
    <3>2. asRead' \in [Client -> [luns : SUBSET Lun, paths : [Lun -> SUBSET Port]]]
      BY <2>10, <3>1 DEF CheckMultipath, PureTypeOK
    <3>3. criticals' \in SUBSET Checks /\ probed' \in SUBSET Client
      BY <2>10 DEF CheckMultipath, Checks, PureTypeOK
    <3>4. answered' = answered \/ answered' = answered \cup {c}
      BY <2>10, Zenon DEF CheckMultipath, Answers
    <3>5. mishaps' = mishaps \/ Mishap
      BY <2>10, Zenon DEF CheckMultipath
    <3>6. answered' \in SUBSET (Checks \cup Client) /\ mishaps' \in 0..MaxMishaps
      BY <3>4, <3>5 DEF PureTypeOK
    <3> QED
      BY <2>10, <3>2, <3>3, <3>6 DEF CheckMultipath, PureTypeOK
  <2>11. CASE Verdict
    BY <2>11 DEF Verdict, PureTypeOK
  <2> QED
    BY <1>2, <2>1, <2>2, <2>3, <2>4, <2>5, <2>6, <2>10, <2>11 DEF PureStep
<1> QED
  BY <1>1, <1>2

\* Nothing has been read to begin with, and nothing is not short.
LEMMA NothingIsNotShort == ASSUME NEW c \in Client PROVE ~Short(NothingRead[c])
<1>1. NothingRead[c].luns = {} /\ Counted(NothingRead[c]) = {}
  BY DEF NothingRead, Counted
<1> QED
  BY <1>1, FS_EmptySet DEF Short

\* Before the first report nothing is known and nothing is promised.
LEMMA PureInitInv == PureInit => UInv
<1> SUFFICES ASSUME PureInit PROVE UInv
  OBVIOUS
<1>1. strict \in BOOLEAN /\ authenticated \in BOOLEAN
  BY Zenon DEF PureInit
<1>2. PureTypeOK
  BY <1>1, UpgradeAssumption DEF PureInit, PureTypeOK, NothingRead
<1>3. VerdictInv
  BY NothingIsNotShort DEF PureInit, VerdictInv
<1> QED
  BY <1>2, <1>3 DEF UInv

\* A run that begins forgets all; then findings only become more.
LEMMA VerdictStep == UInv /\ [PureStep]_pvars => VerdictInv'
<1> SUFFICES ASSUME UInv, [PureStep]_pvars PROVE VerdictInv'
  OBVIOUS
<1>a. PureTypeOK /\ VerdictInv
  BY DEF UInv
<1> USE <1>a DEF VerdictInv, array, rest
<1>1. CASE UNCHANGED pvars
  BY <1>1 DEF pvars, Short, Counted
<1>2. ASSUME UNCHANGED rest PROVE VerdictInv'
  BY <1>2 DEF Short, Counted
<1>3. ASSUME NEW s \in BOOLEAN, BeginPreflight(s) PROVE VerdictInv'
  BY <1>3, NothingIsNotShort DEF BeginPreflight, Short, Counted
<1>4. ASSUME NEW this \in Checks, NEW next \in Checks, NEW critical, Checked(this, next, critical),
             asRead' = asRead
      PROVE  VerdictInv'
  <2>1. verdict' = "none" /\ criticals \subseteq criticals'
    BY <1>4 DEF Checked, Checks
  <2> QED
    BY <1>4, <2>1 DEF Short, Counted
<1>5. CASE CheckToken \/ CheckVersion \/ CheckHealth \/ CheckVips
  BY <1>4, <1>5 DEF CheckToken, CheckVersion, CheckHealth, CheckVips, Checks
<1>6. ASSUME NEW c \in Client, CheckMultipath(c) PROVE VerdictInv'
  <2>1. verdict' = "none" /\ criticals \subseteq criticals'
    BY <1>6 DEF CheckMultipath
  <2>2. CASE asRead' = asRead
    BY <2>1, <2>2 DEF Short, Counted
  <2>3. CASE asRead' = [asRead EXCEPT ![c] = [luns |-> mapped[c], paths |-> paths[c]]]
    <3>1. "paths" \notin criticals' => ~TooFewPaths(c) \/ asRead' = asRead
      BY <1>6 DEF CheckMultipath
    <3>2. Short([luns |-> mapped[c], paths |-> paths[c]]) <=> TooFewPaths(c)
      BY DEF Short, Counted, TooFewPaths, ActivePaths
    <3>3. asRead'[c] = [luns |-> mapped[c], paths |-> paths[c]]
      BY <2>3 DEF PureTypeOK
    <3>4. \A x \in Client : x # c => asRead'[x] = asRead[x]
      BY <2>3 DEF PureTypeOK
    <3>5. "paths" \notin criticals' => ~Short(asRead'[c])
      BY <2>1, <3>1, <3>2, <3>3
    <3>6. "paths" \notin criticals' => \A x \in Client : ~Short(asRead'[x])
      BY <2>1, <3>4, <3>5
    <3> QED
      BY <2>1, <3>6 DEF Short, Counted
  <2> QED
    BY <1>6, <2>2, <2>3 DEF CheckMultipath
<1>7. CASE Verdict
  BY <1>7 DEF Verdict, Short, Counted
<1> QED
  BY <1>1, <1>2, <1>3, <1>5, <1>6, <1>7
     DEF PureStep, ArrayChanges, Unmap, LosePath, LoseRoute

\* Two different values, and three, counted.
LEMMA TwoApart ==
  ASSUME NEW p, NEW q, p # q
  PROVE  IsFiniteSet({p, q}) /\ Cardinality({p, q}) = 2
<1>1. IsFiniteSet({p}) /\ Cardinality({p}) = 1
  BY FS_Singleton
<1>2. q \notin {p} /\ {p, q} = {p} \cup {q}
  OBVIOUS
<1> QED
  BY <1>1, <1>2, FS_AddElement

\* The third of three different values.
LEMMA ThreeApart ==
  ASSUME NEW p, NEW q, NEW e, p # q, p # e, q # e
  PROVE  IsFiniteSet({e, p, q}) /\ Cardinality({e, p, q}) = 3
<1>1. IsFiniteSet({p, q}) /\ Cardinality({p, q}) = 2
  BY TwoApart
<1>2. e \notin {p, q} /\ {e, p, q} = {p, q} \cup {e}
  OBVIOUS
<1> QED
  BY <1>1, <1>2, FS_AddElement

\* When no LUN has more than two paths, twice as many paths as LUNs is two for
\* each: a path is sent to its LUN and 1 or 2, no two of them to the same.
LEMMA NoneIsHidden ==
  ASSUME NEW r \in [luns : SUBSET Lun, paths : [Lun -> SUBSET Port]], ~Short(r),
         \A m \in r.luns : ~(Cardinality(r.paths[m]) > 2),
         NEW l \in r.luns
  PROVE  Cardinality(r.paths[l]) >= 2
<1> DEFINE First(m) == CHOOSE p \in r.paths[m] : TRUE
           place == [lp \in Counted(r) |-> <<lp[1], IF lp[2] = First(lp[1]) THEN 1 ELSE 2>>]
           places == r.luns \X {1, 2}
<1>1. \A m \in r.luns : IsFiniteSet(r.paths[m]) /\ Cardinality(r.paths[m]) \in Nat
  BY UpgradeAssumption, FS_Subset, FS_CardinalityType
<1>2. IsFiniteSet(r.luns) /\ Cardinality(r.luns) \in Nat
  BY UpgradeAssumption, FS_Subset, FS_CardinalityType
<1>3. IsFiniteSet(places) /\ Cardinality(places) = Cardinality(r.luns) * 2
  <2>1. IsFiniteSet({1, 2}) /\ Cardinality({1, 2}) = 2
    <3>1. 1 # 2
      OBVIOUS
    <3> QED
      BY <3>1, TwoApart, Zenon
  <2> QED
    BY <1>2, <2>1, FS_Product
<1>4. ASSUME NEW m \in r.luns, NEW p \in r.paths[m], NEW q \in r.paths[m],
             p # First(m), q # First(m)
      PROVE  p = q
  <2> SUFFICES ASSUME p # q PROVE FALSE
    OBVIOUS
  <2>1. First(m) \in r.paths[m]
    OBVIOUS
  <2> DEFINE three == {First(m), p, q}
  <2>2. IsFiniteSet(three) /\ Cardinality(three) = 3
    <3> HIDE DEF First
    <3> QED
      BY <1>4, ThreeApart
  <2>3. three \subseteq r.paths[m]
    BY <2>1
  <2>4. Cardinality(three) <= Cardinality(r.paths[m])
    BY <1>1, <2>3, FS_Subset
  <2> QED
    BY <1>1, <2>2, <2>4
<1>5. \A lp \in Counted(r) : lp = <<lp[1], lp[2]>> /\ lp[1] \in r.luns /\ lp[2] \in r.paths[lp[1]]
  BY DEF Counted
<1>6. ASSUME NEW a \in Counted(r), NEW b \in Counted(r), place[a] = place[b] PROVE a = b
  <2>1. a[1] = b[1] /\ (a[2] = First(a[1]) <=> b[2] = First(b[1]))
    <3> DEFINE x == IF a[2] = First(a[1]) THEN 1 ELSE 2
               y == IF b[2] = First(b[1]) THEN 1 ELSE 2
    <3>1. place[a] = <<a[1], x>> /\ place[b] = <<b[1], y>>
      OBVIOUS
    <3>2. a[1] = b[1] /\ x = y
      <4>1. <<a[1], x>> = <<b[1], y>>
        <5> HIDE DEF place, First, x, y
        <5> QED
          BY <1>6, <3>1
      <4> HIDE DEF place, First, x, y
      <4> QED
        BY <4>1
    <3> HIDE DEF place, First
    <3>3. a[2] = First(a[1]) <=> x = 1
      OBVIOUS
    <3>4. b[2] = First(b[1]) <=> y = 1
      OBVIOUS
    <3> QED
      BY <3>2, <3>3, <3>4
  <2>2. a[2] = b[2]
    <3> HIDE DEF First
    <3> QED
      BY <1>4, <1>5, <2>1
  <2> QED
    BY <1>5, <2>1, <2>2
<1> SUFFICES ASSUME ~(Cardinality(r.paths[l]) >= 2) PROVE FALSE
  OBVIOUS
<1>7. ASSUME NEW p \in r.paths[l] PROVE p = First(l)
  <2> SUFFICES ASSUME p # First(l) PROVE FALSE
    OBVIOUS
  <2>1. First(l) \in r.paths[l]
    OBVIOUS
  <2>2. IsFiniteSet({p, First(l)}) /\ Cardinality({p, First(l)}) = 2
    <3> HIDE DEF First
    <3> QED
      BY TwoApart
  <2>3. {p, First(l)} \subseteq r.paths[l]
    BY <2>1
  <2>4. Cardinality({p, First(l)}) <= Cardinality(r.paths[l])
    BY <1>1, <2>3, FS_Subset
  <2> QED
    BY <1>1, <2>2, <2>4
<1>8. place \in [Counted(r) -> places \ {<<l, 2>>}]
  <2> SUFFICES ASSUME NEW lp \in Counted(r) PROVE place[lp] \in places \ {<<l, 2>>}
    OBVIOUS
  <2>1. place[lp] = <<lp[1], IF lp[2] = First(lp[1]) THEN 1 ELSE 2>>
    OBVIOUS
  <2>2. lp[1] = l => lp[2] = First(lp[1])
    BY <1>5, <1>7
  <2> HIDE DEF First, place
  <2> QED
    BY <1>5, <2>1, <2>2
<1>9. /\ IsFiniteSet(places \ {<<l, 2>>})
      /\ Cardinality(places \ {<<l, 2>>}) = Cardinality(places) - 1
  <2>1. <<l, 2>> \in places
    OBVIOUS
  <2> HIDE DEF places
  <2> QED
    BY <1>3, <2>1, FS_RemoveElement
<1>10. place \in Injection(Counted(r), places \ {<<l, 2>>})
  <2> HIDE DEF place, places
  <2> QED
    BY <1>6, <1>8, Fun_IsInj
<1> HIDE DEF place, places
<1>11. Cardinality(Counted(r)) <= Cardinality(places) - 1 /\ IsFiniteSet(Counted(r))
  BY <1>9, <1>10, FS_Injection DEF ExistsInjection
<1>12. Cardinality(Counted(r)) \in Nat
  BY <1>11, FS_CardinalityType
<1> QED
  BY <1>2, <1>3, <1>11, <1>12 DEF Short

\* The pre-flight's invariant holds in every state.
THEOREM PureInductive == PureSpec => []UInv
<1>1. UInv /\ [PureStep]_pvars => UInv'
  BY PureTypes, VerdictStep DEF UInv
<1> QED
  BY <1>1, PureInitInv, PTL DEF PureSpec

\* The array, its clients and the pre-flight keep every variable's type.
THEOREM PureTypeCorrect == PureSpec => []PureTypeOK
<1>1. UInv => PureTypeOK
  BY DEF UInv
<1> QED
  BY <1>1, PureInductive, PTL

\* GO on any array: of the LUNs of a client, which are counted together, one that
\* the restart of a controller cuts off has its two paths through that controller,
\* or there is one with more than two.
THEOREM GoIsSafe == PureSpec => []GoSurvivesRestart
<1>1. UInv => GoSurvivesRestart
  <2> SUFFICES ASSUME UInv, verdict = "GO", NEW c \in Client, NEW l \in asRead[c].luns
               PROVE  \/ Cardinality(asRead[c].paths[l]) >= 2
                      \/ \E m \in asRead[c].luns : Cardinality(asRead[c].paths[m]) > 2
    BY DEF GoSurvivesRestart
  <2>1. ~Short(asRead[c])
    BY DEF UInv, VerdictInv
  <2>2. asRead[c] \in [luns : SUBSET Lun, paths : [Lun -> SUBSET Port]]
    BY DEF UInv, PureTypeOK
  <2> QED
    BY <2>1, <2>2, NoneIsHidden
<1> QED
  BY <1>1, PureInductive, PTL
-----------------------------------------------------------------------------
(* ResourceAudit                                                           *)


\* While a run goes on, what is unused now has been seen to be.
WatchInv == check # "idle" => \A x \in exists : ~InUse(x) => x \in wasIdle

\* Between the two listings of a finder no day goes by: what the second one will
\* find old was there at the first one, and unused then if it was not in it.
TwoListingsInv ==
  /\ check = "snapshots" => \A x \in exists \cap Of("snapshot") :
       age[x] >= 1 /\ VolumeOf[x] \notin first => x \in wasIdle
  /\ check = "images" => \A x \in exists \cap Of("image") :
       age[x] >= 1 /\ x \notin first => x \in wasIdle

\* A row stands for a resource that was unused at some time.
OrphansInv == check # "idle" => orphans \subseteq wasIdle

AInv == AuditTypeOK /\ WatchInv /\ TwoListingsInv /\ OrphansInv

-----------------------------------------------------------------------------
\* The flag stays a flag.
LEMMA FailuresFlag ==
  ASSUME AuditTypeOK, AuditStep
  PROVE  failures' \in BOOLEAN
  BY ZenonT(30) DEF AuditStep, CreateResource, TakeUp, Release, DeleteResource, Reclaim, Day,
     BeginAudit, FindUnused, ListVolumes, FindSnapshots, ListServers, FindImages, Reported,
     ConfirmReclaim, Reclaimed, EndAudit, AuditTypeOK, audit

\* The empty region owes nothing.
LEMMA AuditInitInv == AuditInit => AInv
<1> SUFFICES ASSUME AuditInit PROVE AInv
  OBVIOUS
<1>1. failures \in BOOLEAN
  BY DEF AuditInit
<1>2. AuditTypeOK
  BY <1>1, AuditAssumption DEF AuditInit, AuditTypeOK
<1>3. WatchInv /\ TwoListingsInv /\ OrphansInv
  BY DEF AuditInit, WatchInv, TwoListingsInv, OrphansInv
<1> QED
  BY <1>2, <1>3 DEF AInv

\* Every step keeps the types.
LEMMA AuditStepTypes == AuditTypeOK /\ [AuditStep]_avars => AuditTypeOK'
<1> SUFFICES ASSUME AuditTypeOK, [AuditStep]_avars PROVE AuditTypeOK'
  OBVIOUS
<1>u. CASE UNCHANGED avars
  BY <1>u DEF avars, world, audit, AuditTypeOK
<1>s. CASE AuditStep
  <2>b. failures' \in BOOLEAN
    BY <1>s, FailuresFlag
  <2> USE <2>b, AuditAssumption DEF AuditTypeOK, Use, Watch, world, audit, Of
  <2>1. ASSUME NEW x \in Resource, CreateResource(x) PROVE AuditTypeOK'
    BY <2>1 DEF CreateResource
  <2>2. ASSUME NEW x \in Resource, TakeUp(x) PROVE AuditTypeOK'
    BY <2>2 DEF TakeUp
  <2>3. ASSUME NEW x \in Resource, Release(x) \/ DeleteResource(x) PROVE AuditTypeOK'
    BY <2>3 DEF Release, DeleteResource
  <2>4. ASSUME NEW x \in Resource, Reclaim(x) PROVE AuditTypeOK'
    BY <2>4 DEF Reclaim
  <2>5. CASE Day
    BY <2>5 DEF Day
  <2>6. ASSUME NEW which \in SUBSET Kinds, BeginAudit(which) PROVE AuditTypeOK'
    BY <2>6 DEF BeginAudit
  <2>7. ASSUME NEW kind \in Kinds, FindUnused(kind) PROVE AuditTypeOK'
    BY <2>7 DEF FindUnused
  <2>8. CASE ListVolumes \/ FindSnapshots
    BY <2>8 DEF ListVolumes, FindSnapshots
  <2>9. CASE ListServers \/ FindImages
    BY <2>9 DEF ListServers, FindImages
  <2>10. CASE Reported \/ ConfirmReclaim \/ Reclaimed
    BY <2>10 DEF Reported, ConfirmReclaim, Reclaimed, EndAudit
  <2> QED
    BY <1>s, <2>1, <2>2, <2>3, <2>4, <2>5, <2>6, <2>7, <2>8, <2>9, <2>10 DEF AuditStep
<1> QED
  BY <1>u, <1>s

\* A step of the region, or a deletion, watches what is unused.
LEMMA WatchedStep ==
  ASSUME AInv, Watch, UNCHANGED <<check, first>>, orphans' \subseteq orphans,
         \A x \in exists' : age'[x] >= 1 /\ check \in {"snapshots", "images"} =>
           x \in exists /\ age[x] >= 1
  PROVE  WatchInv' /\ TwoListingsInv' /\ OrphansInv'
  BY DEF AInv, WatchInv, TwoListingsInv, OrphansInv, Watch, InUse, Of

\* Every step of the region and of the audit keeps the invariant.
LEMMA AuditStepInv == AInv /\ [AuditStep]_avars => WatchInv' /\ TwoListingsInv' /\ OrphansInv'
<1> SUFFICES ASSUME AInv, [AuditStep]_avars PROVE WatchInv' /\ TwoListingsInv' /\ OrphansInv'
  OBVIOUS
<1> DEFINE Goal == WatchInv' /\ TwoListingsInv' /\ OrphansInv'
<1> USE DEF world, audit
<1>1. ASSUME NEW x \in Resource, CreateResource(x) PROVE Goal
  <2>1. Watch /\ UNCHANGED <<check, first, orphans>> /\ exists' = exists \cup {x} /\ age'[x] = 0
        /\ \A y \in Resource : y # x => age'[y] = age[y]
    BY <1>1, AuditAssumption DEF CreateResource, AInv, AuditTypeOK
  <2>2. exists \subseteq Resource
    BY DEF AInv, AuditTypeOK
  <2> QED
    BY <2>1, <2>2, WatchedStep
<1>2. ASSUME NEW x \in Resource, TakeUp(x) \/ Release(x) \/ DeleteResource(x) PROVE Goal
  BY <1>2, WatchedStep DEF TakeUp, Release, DeleteResource
<1>3. ASSUME NEW x \in Resource, Reclaim(x) PROVE Goal
  BY <1>3, WatchedStep DEF Reclaim
<1>4. CASE Day
  BY <1>4, WatchedStep DEF Day
<1>5. ASSUME NEW which, BeginAudit(which) PROVE Goal
  BY <1>5 DEF BeginAudit, WatchInv, TwoListingsInv, OrphansInv, InUse
<1>6. ASSUME NEW kind, FindUnused(kind) PROVE Goal
  BY <1>6 DEF FindUnused, AInv, WatchInv, TwoListingsInv, OrphansInv, InUse, Of
<1>7. CASE ListVolumes
  BY <1>7, AuditAssumption
     DEF ListVolumes, AInv, AuditTypeOK, WatchInv, TwoListingsInv, OrphansInv, InUse, Of
<1>8. CASE FindSnapshots
  BY <1>8, AuditAssumption
     DEF FindSnapshots, AInv, AuditTypeOK, WatchInv, TwoListingsInv, OrphansInv, InUse, Of, OlderThan
<1>9. CASE ListServers
  BY <1>9 DEF ListServers, AInv, WatchInv, TwoListingsInv, OrphansInv, InUse, Of
<1>10. CASE FindImages
  BY <1>10, AuditAssumption
     DEF FindImages, AInv, AuditTypeOK, WatchInv, TwoListingsInv, OrphansInv, InUse, Of, OlderThan
<1>11. CASE Reported \/ ConfirmReclaim \/ Reclaimed
  BY <1>11 DEF Reported, ConfirmReclaim, Reclaimed, EndAudit, AInv, WatchInv, TwoListingsInv,
     OrphansInv, InUse
<1>12. CASE UNCHANGED avars
  BY <1>12 DEF avars, AInv, WatchInv, TwoListingsInv, OrphansInv, InUse
<1> QED
  BY <1>1, <1>2, <1>3, <1>4, <1>5, <1>6, <1>7, <1>8, <1>9, <1>10, <1>11, <1>12 DEF AuditStep

-----------------------------------------------------------------------------
\* The invariant holds in every state.
THEOREM AuditInductive == AuditSpec => []AInv
<1>1. AInv /\ [AuditStep]_avars => AInv'
  BY AuditStepTypes, AuditStepInv DEF AInv
<1> QED
  BY <1>1, AuditInitInv, PTL DEF AuditSpec

\* The region and the run keep every variable's type.
THEOREM AuditTypeCorrect == AuditSpec => []AuditTypeOK
<1>1. AInv => AuditTypeOK
  BY DEF AInv
<1> QED
  BY <1>1, AuditInductive, PTL

\* However the region is used between the listings, the question and the
\* deletions, a run deletes only what was unused at some time since it began.
THEOREM OnlyIdleDeleted == AuditSpec => DeletedWasIdle
<1>1. ASSUME AInv, [AuditStep]_avars, NEW x \in Resource,
             check = "delete", orphans' # orphans, x \in exists \ exists'
      PROVE  x \in wasIdle
  <2>1. PICK y \in Resource : Reclaim(y)
    BY <1>1 DEF AuditStep, CreateResource, TakeUp, Release, DeleteResource, Day, BeginAudit,
       FindUnused, ListVolumes, FindSnapshots, ListServers, FindImages, Reported,
       ConfirmReclaim, Reclaimed, EndAudit, avars, world, audit
  <2>2. y \in orphans /\ x = y
    BY <1>1, <2>1 DEF Reclaim
  <2> QED
    BY <1>1, <2>2 DEF AInv, OrphansInv
<1>2. AInv /\ [AuditStep]_avars =>
        [\A x \in Resource :
           check = "delete" /\ orphans' # orphans /\ x \in exists \ exists' => x \in wasIdle]_avars
  BY <1>1
<1> QED
  BY <1>2, AuditInductive, PTL DEF AuditSpec, DeletedWasIdle

-----------------------------------------------------------------------------
(* NtpHealth                                                               *)

\* The number whose digits are the last eight polls, the newest the lowest.
Bit(got) == IF got THEN 1 ELSE 0
Register(p) ==
  Bit(p[1]) + 2 * Bit(p[2]) + 4 * Bit(p[3]) + 8 * Bit(p[4])
    + 16 * Bit(p[5]) + 32 * Bit(p[6]) + 64 * Bit(p[7]) + 128 * Bit(p[8])

\* What the digit of the n-th poll counts for.
Weight(n) ==
  CASE n = 1 -> 1  [] n = 2 -> 2  [] n = 3 -> 4  [] n = 4 -> 8
    [] n = 5 -> 16 [] n = 6 -> 32 [] n = 7 -> 64 [] n = 8 -> 128

LEMMA RegisterTyped == \A p \in Polls : Register(p) \in 0..255
<1> SUFFICES ASSUME NEW p \in Polls PROVE Register(p) \in 0..255
  OBVIOUS
<1>1. \A n \in 1..8 : Bit(p[n]) \in 0..1
  BY DEF Bit
<1> QED
  BY <1>1 DEF Register

\* A poll shifts the digits, and the oldest falls out.
LEMMA PollShifts ==
  ASSUME NEW p \in Polls, NEW got \in BOOLEAN, NEW q \in Polls,
         q[1] = got, \A n \in 2..8 : q[n] = p[n - 1]
  PROVE  Register(q) = Shifted(Register(p), got)
<1>1. \A n \in 1..8 : Bit(p[n]) \in 0..1
  BY DEF Bit
<1>2. Bit(q[1]) = Bit(got) /\ Bit(got) \in 0..1
  BY DEF Bit
<1>3. /\ q[2] = p[1] /\ q[3] = p[2] /\ q[4] = p[3] /\ q[5] = p[4]
      /\ q[6] = p[5] /\ q[7] = p[6] /\ q[8] = p[7]
  <2>1. q[2] = p[2 - 1] /\ q[3] = p[3 - 1] /\ q[4] = p[4 - 1] /\ q[5] = p[5 - 1]
    OBVIOUS
  <2>2. q[6] = p[6 - 1] /\ q[7] = p[7 - 1] /\ q[8] = p[8 - 1]
    OBVIOUS
  <2> QED
    BY <2>1, <2>2
<1>4. 2 * Register(p) + Bit(got) = Register(q) + 256 * Bit(p[8])
  BY <1>1, <1>2, <1>3 DEF Register
<1>5. Register(q) \in 0..255
  BY RegisterTyped
<1>6. (2 * Register(p) + Bit(got)) % 256 = Register(q)
  BY <1>1, <1>4, <1>5
<1> QED
  BY <1>6 DEF Shifted, Bit

\* Dividing by what a digit counts for leaves that digit last.
LEMMA DigitOfRegister ==
  ASSUME NEW p \in Polls, NEW n \in 1..8
  PROVE  (Register(p) \div Weight(n)) % 2 = Bit(p[n])
<1> DEFINE a(k) == Bit(p[k])
<1>1. /\ a(1) \in 0..1 /\ a(2) \in 0..1 /\ a(3) \in 0..1 /\ a(4) \in 0..1
      /\ a(5) \in 0..1 /\ a(6) \in 0..1 /\ a(7) \in 0..1 /\ a(8) \in 0..1
  BY DEF Bit
<1>2. Register(p) = a(1) + 2 * a(2) + 4 * a(3) + 8 * a(4)
                    + 16 * a(5) + 32 * a(6) + 64 * a(7) + 128 * a(8)
  BY DEF Register
<1> HIDE DEF a
<1>3. (Register(p) \div 1) % 2 = a(1)
  BY <1>1, <1>2
<1>4. (Register(p) \div 2) % 2 = a(2)
  BY <1>1, <1>2
<1>5. (Register(p) \div 4) % 2 = a(3)
  BY <1>1, <1>2
<1>6. (Register(p) \div 8) % 2 = a(4)
  BY <1>1, <1>2
<1>7. (Register(p) \div 16) % 2 = a(5)
  BY <1>1, <1>2
<1>8. (Register(p) \div 32) % 2 = a(6)
  BY <1>1, <1>2
<1>9. (Register(p) \div 64) % 2 = a(7)
  BY <1>1, <1>2
<1>10. (Register(p) \div 128) % 2 = a(8)
  BY <1>1, <1>2
<1>11. n = 1 \/ n = 2 \/ n = 3 \/ n = 4 \/ n = 5 \/ n = 6 \/ n = 7 \/ n = 8
  OBVIOUS
<1> QED
  BY <1>3, <1>4, <1>5, <1>6, <1>7, <1>8, <1>9, <1>10, <1>11 DEF Weight, a

\* The digits and the polls are as many as one another.
LEMMA WeightsAreBits ==
  /\ \A n \in 1..8 : Weight(n) \in Bits
  /\ \A b \in Bits : \E n \in 1..8 : Weight(n) = b
  /\ \A m, n \in 1..8 : Weight(m) = Weight(n) => m = n
<1>1. \A n \in 1..8 : n = 1 \/ n = 2 \/ n = 3 \/ n = 4 \/ n = 5 \/ n = 6 \/ n = 7 \/ n = 8
  OBVIOUS
<1>2. \A n \in 1..8 : Weight(n) \in Bits
  BY <1>1 DEF Weight, Bits
<1>3. \A b \in Bits : \E n \in 1..8 : Weight(n) = b
  BY DEF Weight, Bits
<1>4. \A m, n \in 1..8 : Weight(m) = Weight(n) => m = n
  BY <1>1 DEF Weight
<1> QED
  BY <1>2, <1>3, <1>4

LEMMA EightPolls == IsFiniteSet(1..8) /\ Cardinality(1..8) = 8
<1>1. 1 \in Int /\ 8 \in Int /\ ~(1 > 8) /\ 8 - 1 + 1 = 8
  OBVIOUS
<1> QED
  BY <1>1, FS_Interval, Zenon

\* The code's count of ones is the number of polls that were answered.
LEMMA OnesAreAnswers ==
  ASSUME NEW p \in Polls
  PROVE  /\ IsFiniteSet({n \in 1..8 : p[n]})
         /\ Ones(Register(p)) = Cardinality({n \in 1..8 : p[n]})
<1> DEFINE S == {n \in 1..8 : p[n]}
           T == {b \in Bits : (Register(p) \div b) % 2 = 1}
           f == [n \in S |-> Weight(n)]
<1>1. \A n \in 1..8 : Weight(n) \in T <=> n \in S
  BY DigitOfRegister, WeightsAreBits DEF Bit, Polls
<1>2. f \in [S -> T]
  BY <1>1
<1>3. \A m, n \in S : f[m] = f[n] => m = n
  BY WeightsAreBits
<1>4. ASSUME NEW b \in T PROVE \E n \in S : f[n] = b
  <2>1. PICK n \in 1..8 : Weight(n) = b
    BY WeightsAreBits
  <2> QED
    BY <1>1, <2>1
<1>5. f \in Bijection(S, T)
  BY <1>2, <1>3, <1>4, Fun_IsBij
<1>6. IsFiniteSet(S)
  BY EightPolls, FS_Subset
<1> QED
  BY <1>5, <1>6, FS_Bijection DEF ExistsBijection, Ones

\* So what it takes for the number of polls missed is that number.
LEMMA MissedIsLost ==
  ASSUME NEW p \in Polls
  PROVE  /\ Missed(Register(p)) = Lost(p)
         /\ Lost(p) \in 0..8
         /\ Lost(p) = 8 <=> Register(p) = 0
<1> DEFINE S == {n \in 1..8 : p[n]}
<1>1. IsFiniteSet(S) /\ Ones(Register(p)) = Cardinality(S) /\ Cardinality(S) \in Nat
  BY OnesAreAnswers, FS_CardinalityType
<1>2. {n \in 1..8 : ~p[n]} = (1..8) \ S /\ (1..8) \cap S = S
  BY DEF Polls
<1>3. Cardinality((1..8) \ S) = Cardinality(1..8) - Cardinality((1..8) \cap S)
  BY EightPolls, FS_Difference
<1>4. Lost(p) = 8 - Cardinality(S)
  BY <1>2, <1>3, EightPolls DEF Lost
<1>5. Cardinality(S) <= 8
  BY EightPolls, FS_Subset
<1>6. Cardinality(S) = 0 <=> S = {}
  BY <1>1, FS_EmptySet
<1>7. S = {} <=> Register(p) = 0
  <2>1. S = {} <=> \A n \in 1..8 : Bit(p[n]) = 0
    BY DEF Bit, Polls
  <2>2. \A n \in 1..8 : Bit(p[n]) \in 0..1
    BY DEF Bit
  <2>3. Register(p) = 0 <=> \A n \in 1..8 : Bit(p[n]) = 0
    <3>1. (\A n \in 1..8 : Bit(p[n]) = 0) => Register(p) = 0
      BY DEF Register
    <3>2. ASSUME Register(p) = 0, NEW n \in 1..8 PROVE Bit(p[n]) = 0
      <4>1. n = 1 \/ n = 2 \/ n = 3 \/ n = 4 \/ n = 5 \/ n = 6 \/ n = 7 \/ n = 8
        OBVIOUS
      <4> QED
        BY <2>2, <3>2, <4>1 DEF Register
    <3> QED
      BY <3>1, <3>2
  <2> QED
    BY <2>1, <2>3
<1> QED
  BY <1>1, <1>4, <1>5, <1>6, <1>7 DEF Missed

-----------------------------------------------------------------------------
\* A row about the sources is about one of them, or one of two about them all.
LEMMA SourceRows ==
  ASSUME NEW h, NEW f \in GradeSources(h)
  PROVE  \/ f \in UNION {GradeSource(h, s) : s \in Source}
         \/ f = Row("CRITICAL", h, "sync", "-", 0)
         \/ f = Row("WARN", h, "sources", "-", 0)
<1>1. \A X, c, x, d, y : f \in X \cup (IF c THEN {x} ELSE {}) \cup (IF d THEN {y} ELSE {})
                         => f \in X \/ f = x \/ f = y
  OBVIOUS
<1> QED
  BY <1>1, Zenon DEF GradeSources

\* The rows of the report are findings.
LEMMA GradesTyped ==
  ASSUME NtpTypeOK, NEW h \in Server, \A s \in Source : Missed(reach[h][s]) \in 0..8
  PROVE  GradeSources(h) \subseteq NtpFinding /\ GradeOffset(h) \in NtpFinding
<1>1. ASSUME NEW s \in Source PROVE GradeSource(h, s) \subseteq NtpFinding
  BY <1>1 DEF GradeSource, Row, NtpFinding
<1>2. GradeOffset(h) \in NtpFinding
  BY DEF GradeOffset, Row, NtpFinding
<1>3. /\ Row("CRITICAL", h, "sync", "-", 0) \in NtpFinding
      /\ Row("WARN", h, "sources", "-", 0) \in NtpFinding
  BY DEF Row, NtpFinding
<1>4. ASSUME NEW f \in GradeSources(h) PROVE f \in NtpFinding
  <2>1. \/ f \in UNION {GradeSource(h, s) : s \in Source}
        \/ f = Row("CRITICAL", h, "sync", "-", 0)
        \/ f = Row("WARN", h, "sources", "-", 0)
    BY <1>4, SourceRows
  <2>2. CASE f \in UNION {GradeSource(h, s) : s \in Source}
    BY <1>1, <2>2
  <2> QED
    BY <1>3, <2>1, <2>2
<1> QED
  BY <1>2, <1>4

\* The register is what the polls make it.
RegisterInv == \A h \in Server, s \in Source : reach[h][s] = Register(recent[h][s])

\* Printed to a unit of the last digit, at most half of it is lost or gained.
Near(n, m) == 2 * (n - m) <= Coarse /\ 2 * (m - n) <= Coarse

LEMMA RoundedIsNear ==
  ASSUME NEW n \in Nat, NEW grain \in Nat \ {0}, grain <= Coarse, NEW r \in Rounded(n, grain)
  PROVE  r \in Nat /\ Near(r, n)
<1>1. n \div grain \in Nat
  OBVIOUS
<1>2. grain * (n \div grain) \in Nat /\ grain * (n \div grain + 1) \in Nat
  BY <1>1
<1>3. r \in Nat
  BY <1>2 DEF Rounded
<1>4. 2 * Abs(r - n) <= grain
  BY DEF Rounded
<1> QED
  BY <1>3, <1>4, NtpAssumption DEF Abs, Near

\* What is kept of a host's offset is, to the rounding, how far off its clock was
\* when it was asked; of a host that is still to be asked there is nothing.
OffsetsInv ==
  \A h \in Server :
    /\ offsets[h] # Unread => offsets[h] \in Nat /\ Near(offsets[h], Abs(read[h].offset))
    /\ asked[h] = "no" => offsets[h] = Unread

NtpInv == NtpTypeOK /\ RegisterInv /\ OffsetsInv /\ LossIsGraded

\* What is read back of an offset is near it.
LEMMA PrintedIsNear ==
  ASSUME NtpTypeOK, NEW h \in Server, NEW ms \in Printed(h)
  PROVE  ms \in Nat /\ Near(ms, Abs(offset[h]))
<1>1. Abs(offset[h]) \in Nat
  <2>1. offset[h] \in Int
    BY NtpAssumption DEF NtpTypeOK
  <2> QED
    BY <2>1 DEF Abs
<1>2. PICK grain \in {Coarse, Fine} : ms \in Rounded(Abs(offset[h]), grain)
  BY DEF Printed
<1> QED
  BY <1>1, <1>2, RoundedIsNear, NtpAssumption

LEMMA NtpInitHolds == NtpInit => NtpInv
<1> SUFFICES ASSUME NtpInit PROVE NtpInv
  OBVIOUS
<1>1. [n \in 1..8 |-> TRUE] \in Polls /\ AllAnswered \in [Source -> Polls]
  BY DEF Polls, AllAnswered
<1>2. NtpTypeOK
  BY <1>1, NtpAssumption DEF NtpInit, NtpTypeOK, Unread
<1>3. RegisterInv
  <2> SUFFICES ASSUME NEW h \in Server, NEW s \in Source
               PROVE  reach[h][s] = Register(recent[h][s])
    BY DEF RegisterInv
  <2>1. reach[h][s] = 255 /\ \A n \in 1..8 : Bit(recent[h][s][n]) = 1
    BY DEF NtpInit, AllAnswered, Bit
  <2> QED
    BY <2>1 DEF Register
<1> QED
  BY <1>2, <1>3 DEF NtpInit, NtpInv, OffsetsInv, LossIsGraded

\* What is said of a source that missed polls.
LEMMA GradeTells ==
  ASSUME NtpTypeOK, RegisterInv, NEW h \in Server, NEW s \in Source,
         Lost(recent[h][s]) > 0
  PROVE  \E f \in GradeSources(h) :
           /\ f.host = h /\ f.check = "loss" /\ f.subject = s
           /\ f.missed = Lost(recent[h][s])
           /\ f.missed = 8 \/ (f.missed >= 4 /\ daemon[h] = "chrony") => f.severity = "CRITICAL"
<1> DEFINE r == reach[h][s]
           lost == Lost(recent[h][s])
<1>1. recent[h][s] \in Polls /\ r = Register(recent[h][s])
  BY DEF NtpTypeOK, RegisterInv
<1>2. Missed(r) = lost /\ lost \in 0..8 /\ (lost = 8 <=> r = 0) /\ r \in 0..255
  BY <1>1, MissedIsLost, RegisterTyped
<1>3. \A f \in GradeSource(h, s) : f \in GradeSources(h)
  BY DEF GradeSources
<1>4. CASE r = 0
  <2>1. Row("CRITICAL", h, "loss", s, 8) \in GradeSource(h, s)
    BY <1>4 DEF GradeSource
  <2> QED
    BY <1>2, <1>3, <1>4, <2>1 DEF Row
<1>5. CASE r # 0
  <2>1. r # REACHABILITY_PERFECT
    BY <1>2 DEF REACHABILITY_PERFECT
  <2>2. Row(IF daemon[h] = "chrony" /\ Missed(r) >= 4 THEN "CRITICAL" ELSE "WARN",
            h, "loss", s, Missed(r)) \in GradeSource(h, s)
    BY <1>5, <2>1 DEF GradeSource
  <2> QED
    BY <1>2, <1>3, <1>5, <2>2 DEF Row
<1> QED
  BY <1>4, <1>5

LEMMA NtpStepTyped == NtpInv /\ [NtpStep]_nvars => NtpTypeOK'
<1> SUFFICES ASSUME NtpInv, [NtpStep]_nvars PROVE NtpTypeOK'
  OBVIOUS
<1> USE NtpAssumption DEF NtpInv, NtpTypeOK, hosts, sweep
<1>g. ASSUME NEW h \in Server
      PROVE  GradeSources(h) \subseteq NtpFinding /\ GradeOffset(h) \in NtpFinding
  BY RegisterTyped, MissedIsLost, GradesTyped DEF RegisterInv
<1>u. Upset => upsets' \in 0..MaxUpsets
  BY DEF Upset
<1>r. ASSUME NEW h \in Server,
             \/ read' = read
             \/ read' = [read EXCEPT ![h].offset = offset[h]]
             \/ read' = [read EXCEPT ![h].polls = recent[h]]
      PROVE  read' \in [Server -> [polls : [Source -> Polls], offset : Offset]]
  <2>1. /\ [read[h] EXCEPT !.offset = offset[h]] \in [polls : [Source -> Polls], offset : Offset]
        /\ [read[h] EXCEPT !.polls = recent[h]] \in [polls : [Source -> Polls], offset : Offset]
    OBVIOUS
  <2> QED
    BY <1>r, <2>1
<1>1. ASSUME NEW h \in Server, NEW s \in Source, NEW got \in BOOLEAN, Poll(h, s, got)
      PROVE  NtpTypeOK'
  <2>1. polls' \in 0..MaxPolls
    BY <1>1 DEF Poll
  <2>2. Shifted(reach[h][s], got) \in 0..255
    <3>1. reach[h][s] \in 0..255
      OBVIOUS
    <3> QED
      BY <3>1 DEF Shifted
  <2>3. reach' \in [Server -> [Source -> 0..255]]
    BY <1>1, <2>2 DEF Poll
  <2>4. [n \in 1..8 |-> IF n = 1 THEN got ELSE recent[h][s][n - 1]] \in Polls
    <3>1. recent[h][s] \in [1..8 -> BOOLEAN]
      BY DEF Polls
    <3>2. \A n \in 1..8 : n # 1 => n - 1 \in 1..8
      OBVIOUS
    <3> QED
      BY <3>1, <3>2 DEF Polls
  <2>5. recent' \in [Server -> [Source -> Polls]]
    BY <1>1, <2>4 DEF Poll
  <2> QED
    BY <1>1, <2>1, <2>3, <2>5 DEF Poll
<1>2. ASSUME NEW h \in Server, NEW s \in Source, NEW m \in {"*", "+", "x"}, Remark(h, s, m)
      PROVE  NtpTypeOK'
  BY <1>2, <1>u DEF Remark
<1>3. ASSUME NEW h \in Server, NEW d \in {"chrony", "ntpd", "none"}, Replace(h, d)
      PROVE  NtpTypeOK'
  BY <1>3, <1>u DEF Replace
<1>4. ASSUME NEW h \in Server, NEW ms \in Offset, Drift(h, ms)
      PROVE  NtpTypeOK'
  BY <1>4, <1>u DEF Drift
<1>5. ASSUME NEW h \in Server, AskTracking(h)
      PROVE  NtpTypeOK'
  <2>1. /\ Row("CRITICAL", h, "sync", "-", 0) \in NtpFinding
        /\ Row("CRITICAL", h, "offset", "-", 0) \in NtpFinding
    BY DEF Row, NtpFinding
  <2>2. findings' \in SUBSET NtpFinding
    BY <1>5, <1>g, <2>1 DEF AskTracking
  <2>3. asked' \in [Server -> {"idle", "no", "sources", "yes", "silent"}]
    BY <1>5 DEF AskTracking
  <2>4. offsets' \in [Server -> Int] /\ upsets' \in 0..MaxUpsets
    <3>1. \A ms \in Printed(h) : ms \in Int
      BY PrintedIsNear
    <3> QED
      BY <1>5, <1>u, <3>1 DEF AskTracking
  <2>5. read' \in [Server -> [polls : [Source -> Polls], offset : Offset]]
    BY <1>5, <1>r DEF AskTracking
  <2> QED
    BY <1>5, <2>2, <2>3, <2>4, <2>5 DEF AskTracking
<1>6. ASSUME NEW h \in Server, ListSources(h)
      PROVE  NtpTypeOK'
  <2>1. findings' \in SUBSET NtpFinding
    BY <1>6, <1>g DEF ListSources
  <2>2. upsets' \in 0..MaxUpsets
    BY <1>6, <1>u DEF ListSources
  <2>3. read' \in [Server -> [polls : [Source -> Polls], offset : Offset]]
    BY <1>6, <1>r DEF ListSources
  <2> QED
    BY <1>6, <2>1, <2>2, <2>3 DEF ListSources
<1>7. CASE BeginSweep
  BY <1>7, <1>u DEF BeginSweep, Unread
<1>8. CASE EndSweep
  <2>1. \A severity \in {"CRITICAL", "INFO"} :
          Row(severity, Fleet, "consistency", "-", 0) \in NtpFinding
    BY DEF Row, NtpFinding
  <2>2. \A rows \in Consistency : rows \subseteq NtpFinding
    BY <2>1 DEF Consistency
  <2> QED
    BY <1>8, <2>2 DEF EndSweep, Unread
<1>9. CASE UNCHANGED nvars
  BY <1>9 DEF nvars
<1> HIDE DEF NtpInv, NtpTypeOK, hosts, sweep
<1> QED
  BY <1>1, <1>2, <1>3, <1>4, <1>5, <1>6, <1>7, <1>8, <1>9 DEF NtpStep

LEMMA RegisterStep == NtpInv /\ [NtpStep]_nvars => RegisterInv'
<1> SUFFICES ASSUME NtpInv, [NtpStep]_nvars PROVE RegisterInv'
  OBVIOUS
<1> USE DEF NtpInv, NtpTypeOK, hosts
<1>1. ASSUME NEW h \in Server, NEW s \in Source, NEW got \in BOOLEAN, Poll(h, s, got)
      PROVE  RegisterInv'
  <2> DEFINE p == recent[h][s]
             q == [n \in 1..8 |-> IF n = 1 THEN got ELSE p[n - 1]]
  <2>1. p \in Polls /\ q \in Polls
    <3>1. p \in [1..8 -> BOOLEAN]
      BY DEF Polls
    <3>2. \A n \in 1..8 : n # 1 => n - 1 \in 1..8
      OBVIOUS
    <3> QED
      BY <3>1, <3>2 DEF Polls
  <2>2. q[1] = got /\ \A n \in 2..8 : q[n] = p[n - 1]
    OBVIOUS
  <2>3. Register(q) = Shifted(reach[h][s], got)
    <3>1. reach[h][s] = Register(p)
      BY DEF RegisterInv
    <3> HIDE DEF p, q
    <3> QED
      BY <2>1, <2>2, <3>1, PollShifts
  <2>4. reach'[h][s] = Register(recent'[h][s])
    BY <1>1, <2>3 DEF Poll
  <2> SUFFICES ASSUME NEW g \in Server, NEW t \in Source
               PROVE  reach'[g][t] = Register(recent'[g][t])
    BY DEF RegisterInv
  <2>5. CASE g = h /\ t = s
    BY <2>4, <2>5
  <2>6. CASE ~(g = h /\ t = s)
    BY <1>1, <2>6 DEF Poll, RegisterInv
  <2> QED
    BY <2>5, <2>6
<1>2. CASE UNCHANGED <<reach, recent>>
  BY <1>2 DEF RegisterInv
<1>3. ASSUME NEW h \in Server, AskTracking(h) \/ ListSources(h)
      PROVE  UNCHANGED <<reach, recent>>
  BY <1>3 DEF AskTracking, ListSources
<1> QED
  BY <1>1, <1>2, <1>3 DEF NtpStep, Remark, Replace, Drift, BeginSweep, EndSweep, nvars

LEMMA OffsetsStep == NtpInv /\ [NtpStep]_nvars => OffsetsInv'
<1> SUFFICES ASSUME NtpInv, [NtpStep]_nvars PROVE OffsetsInv'
  OBVIOUS
<1> USE DEF NtpInv, NtpTypeOK, OffsetsInv
<1>1. ASSUME NEW h \in Server, AskTracking(h)
      PROVE  OffsetsInv'
  <2>1. CASE /\ \E ms \in Printed(h) : offsets' = [offsets EXCEPT ![h] = ms]
             /\ read' = [read EXCEPT ![h].offset = offset[h]]
             /\ asked' = [asked EXCEPT ![h] = "sources"]
    <3>1. PICK ms \in Printed(h) : offsets' = [offsets EXCEPT ![h] = ms]
      BY <2>1
    <3>2. ms \in Nat /\ Near(ms, Abs(offset[h]))
      BY PrintedIsNear
    <3>3. offsets'[h] = ms /\ read'[h].offset = offset[h]
      BY <2>1, <3>1
    <3> QED
      BY <2>1, <3>1, <3>2, <3>3
  <2>2. CASE /\ offsets' = offsets /\ asked' \in {[asked EXCEPT ![h] = "yes"], [asked EXCEPT ![h] = "silent"]}
             /\ read' = read \/ read' = [read EXCEPT ![h].polls = recent[h]]
    <3>1. \A g \in Server : read'[g].offset = read[g].offset
      <4>1. [read[h] EXCEPT !.polls = recent[h]].offset = read[h].offset
        OBVIOUS
      <4>2. CASE read' = [read EXCEPT ![h].polls = recent[h]]
        BY <4>1, <4>2
      <4> QED
        BY <2>2, <4>2
    <3>2. \A g \in Server : asked'[g] = "no" => asked[g] = "no"
      BY <2>2
    <3> QED
      BY <2>2, <3>1, <3>2
  <2> QED
    BY <1>1, <2>1, <2>2 DEF AskTracking
<1>2. ASSUME NEW h \in Server, ListSources(h)
      PROVE  OffsetsInv'
  <2>1. [read[h] EXCEPT !.polls = recent[h]].offset = read[h].offset
    OBVIOUS
  <2>2. \A g \in Server : read'[g].offset = read[g].offset
    BY <1>2, <2>1 DEF ListSources
  <2>3. offsets' = offsets /\ \A g \in Server : asked'[g] = "no" => asked[g] = "no"
    BY <1>2 DEF ListSources
  <2> QED
    BY <2>2, <2>3
<1>3. CASE BeginSweep \/ EndSweep
  BY <1>3 DEF BeginSweep, EndSweep
<1>4. CASE UNCHANGED sweep
  BY <1>4 DEF sweep
<1>5. ASSUME NEW h \in Server,
             \/ \E s \in Source :
                  \/ \E got \in BOOLEAN : Poll(h, s, got)
                  \/ \E m \in {"*", "+", "x"} : Remark(h, s, m)
             \/ \E d \in {"chrony", "ntpd", "none"} : Replace(h, d)
             \/ \E ms \in Offset : Drift(h, ms)
      PROVE  UNCHANGED sweep
  BY <1>5 DEF Poll, Remark, Replace, Drift
<1> QED
  BY <1>1, <1>2, <1>3, <1>4, <1>5 DEF NtpStep, nvars

LEMMA LossStep == NtpInv /\ [NtpStep]_nvars => LossIsGraded'
<1> SUFFICES ASSUME NtpInv, [NtpStep]_nvars, NEW g \in Server, NEW t \in Source,
                    asked'[g] = "yes", Lost(read'[g].polls[t]) > 0
             PROVE  \E f \in findings' :
                      /\ f.host = g /\ f.check = "loss" /\ f.subject = t
                      /\ f.missed = Lost(read'[g].polls[t])
                      /\ f.missed = 8 \/ (f.missed >= 4 /\ offsets'[g] # Unread)
                           => f.severity = "CRITICAL"
  BY DEF LossIsGraded
<1> USE DEF NtpInv, NtpTypeOK
<1>1. CASE /\ asked[g] = "yes" /\ findings \subseteq findings'
           /\ read'[g].polls = read[g].polls /\ offsets'[g] = offsets[g]
  BY <1>1 DEF LossIsGraded
<1>2. CASE /\ GradeSources(g) \subseteq findings' /\ read'[g].polls = recent[g]
           /\ offsets'[g] # Unread => daemon[g] = "chrony"
  <2>1. Lost(recent[g][t]) > 0
    BY <1>2
  <2>2. PICK f \in GradeSources(g) :
          /\ f.host = g /\ f.check = "loss" /\ f.subject = t
          /\ f.missed = Lost(recent[g][t])
          /\ f.missed = 8 \/ (f.missed >= 4 /\ daemon[g] = "chrony") => f.severity = "CRITICAL"
    BY <2>1, GradeTells
  <2> QED
    BY <1>2, <2>2
<1>3. ASSUME NEW h \in Server, AskTracking(h)
      PROVE  <1>1!1 \/ <1>2!1
  <2>1. CASE g = h
    BY <1>3, <2>1 DEF AskTracking, OffsetsInv
  <2>2. CASE g # h
    BY <1>3, <2>2 DEF AskTracking
  <2> QED
    BY <2>1, <2>2
<1>4. ASSUME NEW h \in Server, ListSources(h)
      PROVE  <1>1!1 \/ <1>2!1
  <2>1. CASE g = h
    BY <1>4, <2>1 DEF ListSources
  <2>2. CASE g # h
    BY <1>4, <2>2 DEF ListSources
  <2> QED
    BY <2>1, <2>2
<1>5. CASE BeginSweep \/ EndSweep
  BY <1>5 DEF BeginSweep, EndSweep
<1>6. CASE UNCHANGED sweep
  BY <1>1, <1>6 DEF sweep
<1>7. ASSUME NEW h \in Server,
             \/ \E s \in Source :
                  \/ \E got \in BOOLEAN : Poll(h, s, got)
                  \/ \E m \in {"*", "+", "x"} : Remark(h, s, m)
             \/ \E d \in {"chrony", "ntpd", "none"} : Replace(h, d)
             \/ \E ms \in Offset : Drift(h, ms)
      PROVE  UNCHANGED sweep
  BY <1>7 DEF Poll, Remark, Replace, Drift
<1> QED
  BY <1>1, <1>2, <1>3, <1>4, <1>5, <1>6, <1>7 DEF NtpStep, nvars

LEMMA NtpInvariant == NtpSpec => []NtpInv
<1>1. NtpInv /\ [NtpStep]_nvars => NtpInv'
  BY NtpStepTyped, RegisterStep, OffsetsStep, LossStep DEF NtpInv
<1> QED
  BY <1>1, NtpInitHolds, PTL DEF NtpSpec

\* Every variable of the check keeps its type.
THEOREM NtpTypeCorrect == NtpSpec => []NtpTypeOK
<1>1. NtpInv => NtpTypeOK
  BY DEF NtpInv
<1> QED
  BY <1>1, NtpInvariant, PTL

\* The register that is read as an octal number says what happened: whichever
\* polls were lost, the loss finding has their number and its severity.
THEOREM LossIsTold == NtpSpec => []LossIsGraded
<1>1. NtpInv => LossIsGraded
  BY DEF NtpInv
<1> QED
  BY <1>1, NtpInvariant, PTL

\* A finite set of natural numbers has a least and a greatest element: the one
\* with the fewest above it.
LEMMA LeastValue ==
  ASSUME NEW S, S \subseteq Nat, S # {}
  PROVE  \E x \in S : \A y \in S : x <= y
<1>1. PICK x \in S : \A y \in S : ~(<<y, x>> \in OpToRel(<, Nat))
  BY WFMin, NatLessThanWellFounded
<1>2. OpToRel(<, Nat) = {pair \in Nat \X Nat : pair[1] < pair[2]}
  BY DEF OpToRel
<1>3. ASSUME NEW y \in S PROVE x <= y
  <2>1. x \in Nat /\ y \in Nat /\ ~(<<y, x>> \in {pair \in Nat \X Nat : pair[1] < pair[2]})
    BY <1>1, <1>2
  <2> QED
    BY <2>1
<1> QED
  BY <1>3

LEMMA GreatestValue ==
  ASSUME NEW S, S \subseteq Nat, S # {}, IsFiniteSet(S)
  PROVE  \E x \in S : \A y \in S : x >= y
<1> DEFINE Above(x) == {y \in S : y > x}
           Counts == {Cardinality(Above(x)) : x \in S}
<1>1. \A x \in S : IsFiniteSet(Above(x)) /\ Cardinality(Above(x)) \in Nat
  BY FS_Subset, FS_CardinalityType
<1>2. Counts \subseteq Nat /\ Counts # {}
  BY <1>1
<1> HIDE DEF Counts
<1>3. PICK c \in Counts : \A d \in Counts : c <= d
  BY <1>2, LeastValue
<1>4. PICK x \in S : c = Cardinality(Above(x))
  BY DEF Counts
<1>5. ASSUME NEW y \in S, ~(x >= y) PROVE FALSE
  <2>1. y > x
    BY <1>5
  <2>2. Above(y) \subseteq Above(x) /\ y \in Above(x) /\ y \notin Above(y)
    <3>1. Above(y) \subseteq Above(x)
      <4>1. \A z \in S : z > y => z > x
        BY <2>1
      <4> QED
        BY <4>1
    <3>2. y \in Above(x)
      BY <2>1
    <3>3. ~(y > y)
      OBVIOUS
    <3> QED
      BY <3>1, <3>2, <3>3
  <2>3. Cardinality(Above(y)) \in Counts
    BY DEF Counts
  <2>4. Cardinality(Above(x)) <= Cardinality(Above(y))
    BY <1>3, <1>4, <2>3
  <2>5. /\ Cardinality(Above(y)) <= Cardinality(Above(x))
        /\ Cardinality(Above(x)) = Cardinality(Above(y)) => Above(x) = Above(y)
    BY <1>1, <2>2, FS_Subset
  <2>6. Cardinality(Above(x)) = Cardinality(Above(y))
    BY <1>1, <2>4, <2>5
  <2> QED
    BY <2>2, <2>5, <2>6
<1> QED
  BY <1>5

LEMMA SpreadIsBetweenTwo ==
  ASSUME NEW S, S \subseteq Nat, S # {}, IsFiniteSet(S)
  PROVE  \E x, y \in S : Spread(S) = x - y
<1>1. Max(S) \in S
  BY GreatestValue DEF Max
<1>2. Min(S) \in S
  BY LeastValue DEF Min
<1> QED
  BY <1>1, <1>2 DEF Spread

\* Clocks whose distances from the right time are that far apart are at least
\* as far apart themselves.
LEMMA AbsApart ==
  ASSUME NEW a \in Int, NEW b \in Int, NEW m \in Int, Abs(a) - Abs(b) >= m
  PROVE  a - b >= m \/ b - a >= m
  BY DEF Abs

\* What is said of one host is not about the fleet.
LEMMA HostRows ==
  ASSUME NEW h \in Server
  PROVE  /\ \A f \in GradeSources(h) : f.check # "consistency"
         /\ GradeOffset(h).check # "consistency"
         /\ \A severity, what : Row(severity, h, what, "-", 0).check = what
<1>1. \A f : f \in GradeSources(h) =>
        \/ \E s \in Source : f \in GradeSource(h, s)
        \/ f = Row("CRITICAL", h, "sync", "-", 0)
        \/ f = Row("WARN", h, "sources", "-", 0)
  BY SourceRows
<1>2. \A s \in Source : \A f \in GradeSource(h, s) : f.check # "consistency"
  BY DEF GradeSource, Row
<1>3. GradeOffset(h).check # "consistency"
  BY DEF GradeOffset, Row
<1>4. \A severity, what : Row(severity, h, what, "-", 0).check = what
  BY DEF Row
<1>5. "sync" # "consistency" /\ "sources" # "consistency"
  OBVIOUS
<1> QED
  BY <1>1, <1>2, <1>3, <1>4, <1>5

\* An alarm about the fleet is false by no more than the rounding: two of the
\* clocks that were read are apart by what is allowed, ahead or behind, less one
\* unit of the last digit printed.
THEOREM SkewAlarmsAreReal == NtpSpec => SkewIsReal
<1>1. NtpInv /\ [NtpStep]_nvars =>
        [\A f \in findings' \ findings :
           f.check = "consistency" /\ f.severity = "CRITICAL" =>
             \E g, h \in Compared : read[g].offset - read[h].offset >= MaxSkew - Coarse]_nvars
  <2> SUFFICES ASSUME NtpInv, NtpStep, NEW f \in findings' \ findings,
                      f.check = "consistency", f.severity = "CRITICAL"
               PROVE  \E g, h \in Compared : read[g].offset - read[h].offset >= MaxSkew - Coarse
    BY DEF nvars, hosts, sweep
  <2>1. CASE EndSweep
    <3> DEFINE S == {offsets[h] : h \in Compared}
    <3>1. PICK rows \in Consistency : f \in rows
      BY <2>1 DEF EndSweep
    <3>2. ~(Cardinality(Compared) < 2) /\ Spread(S) >= MaxSkew
      <4>1. ~(Cardinality(Compared) < 2)
        BY <3>1 DEF Consistency
      <4>2. Spread(S) >= MaxSkew \/ rows = {Row("INFO", Fleet, "consistency", "-", 0)}
        BY <3>1, <4>1 DEF Consistency
      <4> QED
        BY <3>1, <4>1, <4>2 DEF Row
    <3>3. IsFiniteSet(Compared) /\ Compared # {}
      <4>1. IsFiniteSet(Compared)
        BY NtpAssumption, FS_Subset DEF Compared
      <4> QED
        BY <3>2, <4>1, FS_EmptySet
    <3>4. \A h \in Compared : /\ read[h].offset \in Int /\ offsets[h] \in Nat
                              /\ Near(offsets[h], Abs(read[h].offset))
      BY NtpAssumption DEF Compared, NtpInv, NtpTypeOK, OffsetsInv
    <3>5. S \subseteq Nat /\ S # {}
      BY <3>3, <3>4
    <3>6. IsFiniteSet(S)
      <4>1. [h \in Compared |-> offsets[h]] \in Surjection(Compared, S)
        BY Fun_IsSurj
      <4> QED
        BY <3>3, <4>1, FS_Surjection DEF ExistsSurjection
    <3>7. PICK x \in S, y \in S : Spread(S) = x - y
      BY <3>5, <3>6, SpreadIsBetweenTwo
    <3>8. PICK g \in Compared, h \in Compared : x = offsets[g] /\ y = offsets[h]
      BY <3>7
    <3>9. Abs(read[g].offset) - Abs(read[h].offset) >= MaxSkew - Coarse
      <4>1. /\ offsets[g] - offsets[h] >= MaxSkew
            /\ MaxSkew \in Nat /\ Coarse \in Nat
        BY <3>2, <3>7, <3>8, NtpAssumption
      <4>2. /\ offsets[g] \in Nat /\ offsets[h] \in Nat
            /\ 2 * (offsets[g] - Abs(read[g].offset)) <= Coarse
            /\ 2 * (Abs(read[h].offset) - offsets[h]) <= Coarse
        BY <3>4, <3>8 DEF Near
      <4>3. Abs(read[g].offset) \in Int /\ Abs(read[h].offset) \in Int
        BY <3>4 DEF Abs
      <4> QED
        BY <4>1, <4>2, <4>3
    <3>10. MaxSkew - Coarse \in Int
      BY NtpAssumption
    <3> QED
      BY <3>4, <3>9, <3>10, AbsApart
  <2>2. ASSUME NEW h \in Server, AskTracking(h) \/ ListSources(h)
        PROVE  f.check # "consistency"
    <3>1. \/ f \in GradeSources(h)
          \/ f = GradeOffset(h)
          \/ \E c \in {"sync", "offset"} : f = Row("CRITICAL", h, c, "-", 0)
      BY <2>2 DEF AskTracking, ListSources
    <3> QED
      BY <3>1, HostRows
  <2>3. CASE findings' \subseteq findings
    BY <2>3
  <2> QED
    BY <2>1, <2>2, <2>3
    DEF NtpStep, Poll, Remark, Replace, Drift, BeginSweep, sweep
<1> QED
  BY <1>1, NtpInvariant, PTL DEF NtpSpec, SkewIsReal
=============================================================================
