-------------------------- MODULE OnboardingProofs --------------------------
(***************************************************************************)
(* Theorems about NetworkOnboarding, for any specs, names, overlaps and    *)
(* numbers of runs and failures.  Moves says what one step of a run can    *)
(* change; NInv is what the teardown and the overlaps need, AppliedNInv    *)
(* what a repeated apply needs.                                            *)
(***************************************************************************)
EXTENDS NetworkOnboarding, SequenceTheorems, TLAPS

\* A step of the run for p.
Acts(p) ==
  \/ Begin(p, "validate") \/ Begin(p, "validate delete") \/ Validate(p)
  \/ LookInVain(p) \/ ApplyNet(p) \/ ApplySubnet(p) \/ SubnetsDone(p) \/ ApplyRouter(p) \/ Attach(p)
  \/ ApplyGroup(p) \/ ApplyRule(p) \/ RulesDone(p)
  \/ DeleteRouter(p) \/ DeleteSubnet(p) \/ SubnetsDeleted(p) \/ DeleteNet(p) \/ DeleteGroup(p)
  \/ Abort(p) \/ Refused(p) \/ Dies(p)

\* The flags stay flags.
LEMMA OnboardingFlags ==
  ASSUME OnboardingTypeOK, NEW p \in Blueprint, Acts(p)
  PROVE  /\ absent' \in [Blueprint -> BOOLEAN]
         /\ alone' \in [Blueprint -> BOOLEAN]
         /\ cut' \in [Blueprint -> BOOLEAN]
<1>1. absent' = absent \/ \E b \in BOOLEAN : absent' = [absent EXCEPT ![p] = b]
  BY ZenonT(30) DEF Acts, Begin, Validate, LookInVain, ApplyNet, ApplySubnet, SubnetsDone, ApplyRouter,
     Attach, ApplyGroup, ApplyRule, RulesDone, DeleteRouter, DeleteSubnet, SubnetsDeleted, DeleteNet,
     DeleteGroup, Refused, Dies, Abort, Traceback, End, Looked, run
<1>2. \/ alone' = alone
      \/ alone' = [q \in Blueprint |->
                     IF q = p THEN \A o \in Blueprint : pc[o] = "idle" ELSE FALSE]
  BY ZenonT(30) DEF Acts, Begin, Validate, LookInVain, ApplyNet, ApplySubnet, SubnetsDone, ApplyRouter,
     Attach, ApplyGroup, ApplyRule, RulesDone, DeleteRouter, DeleteSubnet, SubnetsDeleted, DeleteNet,
     DeleteGroup, Refused, Dies, Abort, history
<1>3. \/ cut' = cut
      \/ cut' = [cut EXCEPT ![p] = @ \/ pc[p] = "rules"]
      \/ cut' = [q \in Blueprint |-> cut[q] /\ <<GroupOf[q], q>> \in groups']
  BY ZenonT(30) DEF Acts, Begin, Validate, LookInVain, ApplyNet, ApplySubnet, SubnetsDone, ApplyRouter,
     Attach, ApplyGroup, ApplyRule, RulesDone, DeleteRouter, DeleteSubnet, SubnetsDeleted, DeleteNet,
     DeleteGroup, Refused, Dies, Abort, Traceback, history
<1>4. absent' \in [Blueprint -> BOOLEAN]
  BY <1>1, Zenon DEF OnboardingTypeOK
<1>5. alone' \in [Blueprint -> BOOLEAN]
  BY <1>2, Zenon DEF OnboardingTypeOK
<1>6. cut' \in [Blueprint -> BOOLEAN]
  BY <1>3, Zenon DEF OnboardingTypeOK
<1> QED
  BY <1>4, <1>5, <1>6

\* The ways a step of p's run changes what Neutron has, what the run remembers
\* and where it is.
NetsMoves(p) ==
  \/ nets' = nets
  \/ pc[p] = "net" /\ nets' = nets \cup {<<NetOf[p], p>>}
  \/ /\ pc[p] = "delete net" /\ nets' = nets \ Find(nets, NetOf[p])
     /\ subs' = subs \ SubnetsOn(NetOf[p])

SubsMoves(p) ==
  \/ subs' = subs
  \/ /\ pc[p] = "subnets" /\ nth[p] <= Len(SubnetsOf[p])
     /\ \E net \in theNet[p] \cap nets :
          subs' = subs \cup {[id |-> <<SubnetsOf[p][nth[p]], p>>, net |-> net]}
  \/ /\ pc[p] = "delete subnets" /\ nth[p] <= Len(SubnetsOf[p])
     /\ subs' = {s \in subs : s.id[1] # SubnetsOf[p][nth[p]]}
  \/ pc[p] = "delete net" /\ subs' = subs \ SubnetsOn(NetOf[p])

RoutersMoves(p) ==
  \/ routers' = routers
  \/ pc[p] = "router" /\ routers' = routers \cup {<<RouterOf[p], p>>}
  \/ pc[p] = "delete router" /\ routers' = routers \ Find(routers, RouterOf[p])

IfsMoves(p) ==
  \/ ifs' = ifs
  \/ /\ pc[p] = "attach"
     /\ \E failing \in SUBSET theSubs[p] :
          ifs' = ifs \cup {i \in theRouter[p] \X (theSubs[p] \ failing) : Attachable(i[1], i[2])}
  \/ /\ pc[p] = "delete router"
     /\ \E off \in SUBSET {i \in ifs : i[1] \in Find(routers, RouterOf[p]) /\ i[2][1] \in NamesOf(p)} :
          ifs' = ifs \ off

GroupsMove(p) ==
  \/ groups' = groups
  \/ GroupOf[p] # NoName /\ groups' = groups \cup {<<GroupOf[p], p>>}
  \/ groups' = groups \ Find(groups, GroupOf[p])

RulesMove(p) ==
  \/ ruleCount' = ruleCount
  \/ ruleCount' = [ruleCount EXCEPT ![p] = 0]
  \/ ruleCount' = [ruleCount EXCEPT ![p] = @ + 1]

NthMoves(p) ==
  \/ nth' = nth
  \/ nth' = [nth EXCEPT ![p] = 0]
  \/ nth' = [nth EXCEPT ![p] = 1]
  \/ nth' = [nth EXCEPT ![p] = @ + 1]

TheNetMoves(p) ==
  \/ theNet' = theNet
  \/ theNet' = [theNet EXCEPT ![p] = Nothing]
  \/ theNet' = [theNet EXCEPT ![p] = Find(nets, NetOf[p])]
  \/ theNet' = [theNet EXCEPT ![p] = {<<NetOf[p], p>>}]

TheSubsMove(p) ==
  \/ theSubs' = theSubs
  \/ theSubs' = [theSubs EXCEPT ![p] = {}]
  \/ /\ pc[p] = "subnets" /\ nth[p] <= Len(SubnetsOf[p])
     /\ \/ theSubs' = [theSubs EXCEPT ![p] = @ \cup Find(SubnetIds, SubnetsOf[p][nth[p]])]
        \/ theSubs' = [theSubs EXCEPT ![p] = @ \cup {<<SubnetsOf[p][nth[p]], p>>}]

TheRouterMoves(p) ==
  \/ theRouter' = theRouter
  \/ theRouter' = [theRouter EXCEPT ![p] = Nothing]
  \/ theRouter' = [theRouter EXCEPT ![p] = Find(routers, RouterOf[p])]
  \/ pc[p] = "router" /\ theRouter' = [theRouter EXCEPT ![p] = {<<RouterOf[p], p>>}]

SkippedMoves(p) == skipped' \in {skipped, skipped \cup {p}, skipped \ {p}}

RcMoves(p) ==
  rc' = rc \/ \E code \in 0..2 : rc' = [rc EXCEPT ![p] = code]

BoundsMove(p) ==
  /\ begins' = begins \/ (begins < MaxBegins /\ begins' = begins + 1)
  /\ callFaults' = callFaults \/ (callFaults < MaxCallFaults /\ callFaults' = callFaults + 1)

StageMoves(p) ==
  \/ pc' = pc /\ nth' = nth
  \/ /\ pc' = pc /\ nth' = [nth EXCEPT ![p] = @ + 1]
     /\ pc[p] = "delete subnets" => subs' = {s \in subs : s.id[1] # SubnetsOf[p][nth[p]]}
  \/ \E stage \in {"idle", "validate", "validate delete", "delete router", "attach", "group",
                   "rules"} : pc' = [pc EXCEPT ![p] = stage]
  \/ pc[p] = "validate" /\ NoOverlap(p) /\ pc' = [pc EXCEPT ![p] = "net"]
  \/ pc[p] = "net" /\ pc' = [pc EXCEPT ![p] = "subnets"] /\ nth' = [nth EXCEPT ![p] = 1]
  \/ RouterOf[p] # NoName /\ pc' = [pc EXCEPT ![p] = "router"]
  \/ /\ pc[p] = "delete router"
     /\ pc' = [pc EXCEPT ![p] = "delete subnets"] /\ nth' = [nth EXCEPT ![p] = 1]
     /\ routers' = routers \ Find(routers, RouterOf[p])
  \/ /\ pc[p] = "delete subnets" /\ nth[p] > Len(SubnetsOf[p])
     /\ pc' = [pc EXCEPT ![p] = "delete net"]
  \/ /\ pc[p] = "delete net" /\ pc' = [pc EXCEPT ![p] = "delete group"]
     /\ nets' = nets \ Find(nets, NetOf[p])

\* Every step of a run makes one of these moves of each variable.
LEMMA Moves ==
  ASSUME NEW p \in Blueprint, Acts(p)
  PROVE  /\ NetsMoves(p) /\ SubsMoves(p) /\ RoutersMoves(p) /\ IfsMoves(p) /\ GroupsMove(p)
         /\ RulesMove(p) /\ NthMoves(p) /\ TheNetMoves(p) /\ TheSubsMove(p) /\ TheRouterMoves(p)
         /\ RcMoves(p) /\ BoundsMove(p) /\ StageMoves(p) /\ SkippedMoves(p)
<1>0. 0 \in 0..2 /\ 1 \in 0..2 /\ 2 \in 0..2
  OBVIOUS
<1> USE DEF Acts, Begin, Validate, LookInVain, ApplyNet, ApplySubnet, SubnetsDone, ApplyRouter, Attach,
     ApplyGroup, ApplyRule, RulesDone, DeleteRouter, DeleteSubnet, SubnetsDeleted, DeleteNet, DeleteGroup,
     Refused, Dies, Abort, Traceback, CallFault, End, Goto, neutron, run, held
<1>1. NetsMoves(p)
  BY ZenonT(60) DEF NetsMoves
<1>2. SubsMoves(p)
  BY ZenonT(60) DEF SubsMoves
<1>3. RoutersMoves(p)
  BY ZenonT(60) DEF RoutersMoves
<1>4. IfsMoves(p)
  BY ZenonT(60) DEF IfsMoves
<1>5. GroupsMove(p)
  BY ZenonT(60) DEF GroupsMove
<1>6. RulesMove(p)
  BY ZenonT(60) DEF RulesMove
<1>7. NthMoves(p)
  BY ZenonT(60) DEF NthMoves
<1>8. TheNetMoves(p)
  BY ZenonT(60) DEF TheNetMoves
<1>9. TheSubsMove(p)
  BY ZenonT(60) DEF TheSubsMove
<1>10. TheRouterMoves(p)
  BY ZenonT(60) DEF TheRouterMoves
<1>11. RcMoves(p)
  BY <1>0, ZenonT(60) DEF RcMoves
<1>12. BoundsMove(p)
  BY ZenonT(60) DEF BoundsMove
<1>13. StageMoves(p)
  BY ZenonT(60) DEF StageMoves
<1>14. SkippedMoves(p)
  BY ZenonT(60) DEF SkippedMoves, history
<1> QED
  BY <1>1, <1>2, <1>3, <1>4, <1>5, <1>6, <1>7, <1>8, <1>9, <1>10, <1>11, <1>12, <1>13, <1>14

-----------------------------------------------------------------------------
\* A run is at a subnet of its spec, and at a router only if the spec has one.
PlaceInv ==
  \A p \in Blueprint :
    /\ pc[p] \in {"subnets", "delete subnets"} => nth[p] >= 1
    /\ pc[p] = "router" => RouterOf[p] # NoName

\* Everything bears a name of the spec whose run made it, and a subnet is on a
\* network of that spec's name which is still there.
NamesInv ==
  /\ \A s \in subs : s.id[1] \in NamesOf(s.id[2]) /\ s.net[1] = NetOf[s.id[2]] /\ s.net \in nets
  /\ \A i \in ifs : i[2][1] \in NamesOf(i[2][2])
  /\ \A p \in Blueprint :
       /\ \A o \in theNet[p] : o[1] = NetOf[p]
       /\ \A t \in theSubs[p] : t[1] \in NamesOf(t[2])

\* While a run that is alone goes on, nobody else does anything.
LoneInv ==
  \A p, q \in Blueprint : alone[p] /\ pc[p] # "idle" /\ q # p => pc[q] = "idle"

\* What such a run has found free of overlaps stays so until it has its subnets.
CheckedInv ==
  \A p \in Blueprint : alone[p] /\ pc[p] \in {"net", "subnets"} =>
    \A n \in NamesOf(p), s \in subs : s.id[1] \notin NamesOf(p) => <<n, s.id[1]>> \notin Overlaps

\* What a lone teardown has deleted so far.
TeardownInv ==
  \A p \in Blueprint : alone[p] =>
    /\ pc[p] \in {"delete subnets", "delete net", "delete group"} => Missing(routers, RouterOf[p])
    /\ pc[p] = "delete subnets" =>
         \A k \in DOMAIN SubnetsOf[p], s \in subs : k < nth[p] => s.id[1] # SubnetsOf[p][k]
    /\ pc[p] \in {"delete net", "delete group"} => \A s \in subs : s.id[1] \notin NamesOf(p)
    /\ pc[p] = "delete group" => Missing(nets, NetOf[p])

\* Every step keeps the types.
LEMMA OnboardingTypes ==
  ASSUME OnboardingTypeOK, PlaceInv, NEW p \in Blueprint, Acts(p)
  PROVE  OnboardingTypeOK'
<1>m. /\ NetsMoves(p) /\ SubsMoves(p) /\ RoutersMoves(p) /\ IfsMoves(p) /\ GroupsMove(p)
      /\ RulesMove(p) /\ NthMoves(p) /\ TheNetMoves(p) /\ TheSubsMove(p) /\ TheRouterMoves(p)
      /\ RcMoves(p) /\ BoundsMove(p) /\ StageMoves(p) /\ SkippedMoves(p)
  BY Moves
<1>0. /\ NetOf[p] \in Name /\ RouterOf[p] \in Name \cup {NoName} /\ GroupOf[p] \in Name \cup {NoName}
      /\ MaxBegins \in Nat /\ MaxCallFaults \in Nat
  BY OnboardingAssumption
<1>f. \A S, n : Find(S, n) \subseteq S
  BY DEF Find
<1>s. SubnetIds \subseteq Object
  BY DEF SubnetIds, OnboardingTypeOK, Subnet
<1>n. pc[p] \in {"subnets", "delete subnets"} /\ nth[p] <= Len(SubnetsOf[p])
        => SubnetsOf[p][nth[p]] \in Name
  <2>1. SubnetsOf[p] \in Seq(Name)
    BY OnboardingAssumption
  <2>2. nth[p] \in Nat
    BY DEF OnboardingTypeOK
  <2>3. pc[p] \in {"subnets", "delete subnets"} => nth[p] >= 1
    BY DEF PlaceInv
  <2>4. SUFFICES ASSUME nth[p] >= 1, nth[p] <= Len(SubnetsOf[p])
                 PROVE  SubnetsOf[p][nth[p]] \in Name
    BY <2>3
  <2>5. nth[p] \in 1..Len(SubnetsOf[p])
    BY <2>1, <2>2, <2>4
  <2> QED
    BY <2>1, <2>5
<1>o. /\ <<NetOf[p], p>> \in Object
      /\ RouterOf[p] # NoName => <<RouterOf[p], p>> \in Object
      /\ GroupOf[p] # NoName => <<GroupOf[p], p>> \in Object
      /\ pc[p] = "router" => RouterOf[p] # NoName
  BY <1>0 DEF Object, PlaceInv
<1>1. nets' \in SUBSET Object
  BY <1>m, <1>o DEF NetsMoves, OnboardingTypeOK
<1>2. subs' \in SUBSET Subnet
  <2>1. CASE \E net \in theNet[p] \cap nets :
               /\ pc[p] = "subnets" /\ nth[p] <= Len(SubnetsOf[p])
               /\ subs' = subs \cup {[id |-> <<SubnetsOf[p][nth[p]], p>>, net |-> net]}
    <3>1. PICK net \in theNet[p] \cap nets :
               subs' = subs \cup {[id |-> <<SubnetsOf[p][nth[p]], p>>, net |-> net]}
      BY <2>1
    <3>2. <<SubnetsOf[p][nth[p]], p>> \in Object
      BY <2>1, <1>n DEF Object
    <3>3. net \in Object
      BY DEF OnboardingTypeOK
    <3>4. [id |-> <<SubnetsOf[p][nth[p]], p>>, net |-> net] \in Subnet
      BY <3>2, <3>3 DEF Subnet
    <3> QED
      BY <3>1, <3>4 DEF OnboardingTypeOK
  <2>2. CASE subs' \subseteq subs
    BY <2>2 DEF OnboardingTypeOK
  <2> QED
    BY <1>m, <2>1, <2>2 DEF SubsMoves
<1>3. routers' \in SUBSET Object
  BY <1>m, <1>o DEF RoutersMoves, OnboardingTypeOK
<1>4. ifs' \in SUBSET (Object \X Object)
  BY <1>m DEF IfsMoves, OnboardingTypeOK
<1>5. groups' \in SUBSET Object
  BY <1>m, <1>o DEF GroupsMove, OnboardingTypeOK
<1>6. ruleCount' \in [Blueprint -> Nat]
  BY <1>m DEF RulesMove, OnboardingTypeOK
<1>7. pc' \in [Blueprint -> Stages] /\ rc' \in [Blueprint -> 0..2]
  <2>1. pc' = pc \/ \E stage \in Stages : pc' = [pc EXCEPT ![p] = stage]
    <3>1. pc' = pc \/ \E stage \in {"idle", "validate", "validate delete", "delete router",
                                   "attach", "group", "rules", "net", "subnets", "router",
                                   "delete subnets", "delete net", "delete group"} :
                        pc' = [pc EXCEPT ![p] = stage]
      BY <1>m, ZenonT(60) DEF StageMoves
    <3> QED
      BY <3>1 DEF Stages, DeleteStages
  <2>2. pc' \in [Blueprint -> Stages]
    BY <2>1 DEF OnboardingTypeOK
  <2>3. rc' \in [Blueprint -> 0..2]
    BY <1>m DEF RcMoves, OnboardingTypeOK
  <2> QED
    BY <2>2, <2>3
<1>8. nth' \in [Blueprint -> Nat]
  BY <1>m DEF NthMoves, OnboardingTypeOK
<1>9. theNet' \in [Blueprint -> SUBSET Object]
  <2>1. Find(nets, NetOf[p]) \in SUBSET Object /\ {<<NetOf[p], p>>} \in SUBSET Object
    BY <1>0, <1>f DEF OnboardingTypeOK, Object
  <2> QED
    BY <1>m, <2>1 DEF TheNetMoves, OnboardingTypeOK, Nothing
<1>10. theSubs' \in [Blueprint -> SUBSET Object]
  <2>1. Find(SubnetIds, SubnetsOf[p][nth[p]]) \in SUBSET Object
    BY <1>f, <1>s
  <2>2. pc[p] = "subnets" /\ nth[p] <= Len(SubnetsOf[p])
          => {<<SubnetsOf[p][nth[p]], p>>} \in SUBSET Object
    BY <1>n DEF Object
  <2>3. /\ theSubs[p] \cup Find(SubnetIds, SubnetsOf[p][nth[p]]) \in SUBSET Object
        /\ pc[p] = "subnets" /\ nth[p] <= Len(SubnetsOf[p])
             => theSubs[p] \cup {<<SubnetsOf[p][nth[p]], p>>} \in SUBSET Object
    BY <2>1, <2>2 DEF OnboardingTypeOK
  <2> HIDE <2>1, <2>2
  <2> QED
    BY <1>m, <2>3 DEF TheSubsMove, OnboardingTypeOK
<1>11. theRouter' \in [Blueprint -> SUBSET Object]
  <2>1. /\ Find(routers, RouterOf[p]) \in SUBSET Object
        /\ pc[p] = "router" => {<<RouterOf[p], p>>} \in SUBSET Object
    BY <1>o, <1>f DEF OnboardingTypeOK
  <2> QED
    BY <1>m, <2>1 DEF TheRouterMoves, OnboardingTypeOK, Nothing
<1>12. begins' \in 0..MaxBegins /\ callFaults' \in 0..MaxCallFaults
  BY <1>m, <1>0 DEF BoundsMove, OnboardingTypeOK
<1>13. /\ absent' \in [Blueprint -> BOOLEAN]
       /\ alone' \in [Blueprint -> BOOLEAN]
       /\ cut' \in [Blueprint -> BOOLEAN]
  BY OnboardingFlags
<1>14. skipped' \in SUBSET Blueprint
  BY <1>m DEF SkippedMoves, OnboardingTypeOK
<1> QED
  BY <1>1, <1>2, <1>3, <1>4, <1>5, <1>6, <1>7, <1>8, <1>9, <1>10, <1>11, <1>12, <1>13, <1>14
     DEF OnboardingTypeOK

\* What is idle can only begin.
LEMMA IdleBegins ==
  ASSUME NEW p \in Blueprint, Acts(p), pc[p] = "idle"
  PROVE  Begin(p, "validate") \/ Begin(p, "validate delete")
<1>1. Wanted(p) = NoName /\ Among(p) = {}
  BY DEF Wanted, Among
<1>2. ~Ambiguous(Among(p), Wanted(p)) /\ Doomed(p) = {}
  BY <1>1 DEF Ambiguous, Missing, Find, Doomed
<1>3. ~LookInVain(p) /\ ~Refused(p) /\ ~Dies(p) /\ ~Abort(p)
  BY <1>1, <1>2 DEF LookInVain, Refused, Dies, Abort
<1> QED
  BY <1>3 DEF Acts, Validate, ApplyNet, ApplySubnet, SubnetsDone, ApplyRouter, Attach, ApplyGroup, ApplyRule,
     RulesDone, DeleteRouter, DeleteSubnet, SubnetsDeleted, DeleteNet, DeleteGroup

\* What is not idle does not begin.
LEMMA BusyStays ==
  ASSUME NEW p \in Blueprint, Acts(p), pc[p] # "idle"
  PROVE  alone' = alone
  BY ZenonT(30) DEF Acts, Begin, Validate, LookInVain, ApplyNet, ApplySubnet, SubnetsDone, ApplyRouter,
     Attach, ApplyGroup, ApplyRule, RulesDone, DeleteRouter, DeleteSubnet, SubnetsDeleted, DeleteNet,
     DeleteGroup, Refused, Dies, Abort, history

\* Whoever is still alone and at work after a step took that step.
LEMMA LoneActs ==
  ASSUME OnboardingTypeOK, LoneInv, NEW q \in Blueprint, Acts(q),
         NEW p \in Blueprint, alone'[p], pc'[p] # "idle"
  PROVE  p = q
<1> SUFFICES ASSUME p # q PROVE FALSE
  OBVIOUS
<1>1. pc'[p] = pc[p]
  <2>1. StageMoves(q)
    BY Moves
  <2> QED
    BY <2>1 DEF StageMoves, OnboardingTypeOK
<1>2. CASE pc[q] = "idle"
  <2>1. alone' = [o \in Blueprint |->
                    IF o = q THEN \A r \in Blueprint : pc[r] = "idle" ELSE FALSE]
    BY <1>2, IdleBegins DEF Begin
  <2> QED
    BY <2>1, Zenon
<1>3. CASE pc[q] # "idle"
  BY <1>1, <1>3, BusyStays DEF LoneInv
<1> QED
  BY <1>2, <1>3

\* Every step of a run keeps PlaceInv.
LEMMA PlaceStep ==
  ASSUME OnboardingTypeOK, PlaceInv, NEW p \in Blueprint, Acts(p)
  PROVE  PlaceInv'
<1>1. StageMoves(p)
  BY Moves
<1> QED
  <2>1. SUFFICES ASSUME NEW q \in Blueprint
                 PROVE  /\ pc'[q] \in {"subnets", "delete subnets"} => nth'[q] >= 1
                        /\ pc'[q] = "router" => RouterOf[q] # NoName
    BY DEF PlaceInv
  <2>2. CASE q # p
    <3>1. NthMoves(p)
      BY Moves
    <3>2. pc'[q] = pc[q] /\ nth'[q] = nth[q]
      BY <1>1, <2>2, <3>1 DEF StageMoves, NthMoves, OnboardingTypeOK
    <3> QED
      BY <3>2 DEF PlaceInv
  <2>3. CASE q = p
    <3>1. nth \in [Blueprint -> Nat] /\ pc \in [Blueprint -> Stages]
      BY DEF OnboardingTypeOK
    <3>2. CASE pc' = pc /\ (nth' = nth \/ nth' = [nth EXCEPT ![p] = @ + 1])
      <4>1. pc'[p] = pc[p] /\ nth[p] \in Nat
        BY <3>1, <3>2
      <4>2. nth'[p] \in Nat /\ nth'[p] >= nth[p]
        BY <3>1, <3>2
      <4>3. /\ pc[p] \in {"subnets", "delete subnets"} => nth[p] >= 1
            /\ pc[p] = "router" => RouterOf[p] # NoName
        BY DEF PlaceInv
      <4> QED
        <5>1. CASE pc[p] \in {"subnets", "delete subnets"}
          <6>1. nth[p] >= 1
            BY <4>3, <5>1
          <6>2. nth'[p] >= 1
            BY <4>1, <4>2, <6>1
          <6> QED
            BY <2>3, <4>1, <4>3, <6>2
        <5>2. CASE pc[p] \notin {"subnets", "delete subnets"}
          BY <2>3, <4>1, <4>3, <5>2
        <5> QED
          BY <5>1, <5>2
    <3>3. CASE \E stage \in Stages \ {"subnets", "delete subnets", "router"} :
                 pc' = [pc EXCEPT ![p] = stage]
      BY <2>3, <3>1, <3>3
    <3>4. CASE RouterOf[p] # NoName /\ pc' = [pc EXCEPT ![p] = "router"]
      BY <2>3, <3>1, <3>4
    <3>5. CASE /\ \E stage \in {"subnets", "delete subnets"} : pc' = [pc EXCEPT ![p] = stage]
               /\ nth' = [nth EXCEPT ![p] = 1]
      <4>1. nth'[p] = 1
        BY <3>1, <3>5
      <4>2. pc'[p] # "router"
        BY <3>1, <3>5
      <4> QED
        BY <2>3, <4>1, <4>2
    <3> QED
      BY <1>1, <3>2, <3>3, <3>4, <3>5 DEF StageMoves, Stages, DeleteStages
  <2> QED
    BY <2>2, <2>3

\* Every step of a run keeps LoneInv.
LEMMA LoneStep ==
  ASSUME OnboardingTypeOK, LoneInv, NEW p \in Blueprint, Acts(p)
  PROVE  LoneInv'
<1> SUFFICES ASSUME NEW o \in Blueprint, NEW q \in Blueprint, alone'[o], pc'[o] # "idle", q # o
             PROVE  pc'[q] = "idle"
  BY DEF LoneInv
<1>1. o = p
  BY LoneActs
<1>2. pc'[q] = pc[q]
  <2>1. StageMoves(p)
    BY Moves
  <2> QED
    BY <1>1, <2>1 DEF StageMoves, OnboardingTypeOK
<1>3. CASE pc[p] = "idle"
  <2>1. alone' = [r \in Blueprint |->
                    IF r = p THEN \A z \in Blueprint : pc[z] = "idle" ELSE FALSE]
    BY <1>3, IdleBegins DEF Begin
  <2>2. \A z \in Blueprint : pc[z] = "idle"
    BY <1>1, <2>1, Zenon
  <2> QED
    BY <1>2, <2>2
<1>4. CASE pc[p] # "idle"
  BY <1>1, <1>2, <1>4, BusyStays DEF LoneInv
<1> QED
  BY <1>3, <1>4

\* Counting along a sequence.
LEMMA Counting ==
  ASSUME NEW k \in Nat, NEW n \in Nat, NEW l \in Nat
  PROVE  /\ n >= 1 /\ n <= l => n \in 1..l
         /\ k >= 1 => ~(k < 1)
         /\ k < n + 1 => k < n \/ k = n
         /\ n > l /\ k <= l => k < n
OBVIOUS

\* The positions of a spec's subnets are the numbers up to their count.
LEMMA Positions ==
  ASSUME NEW p \in Blueprint
  PROVE  /\ DOMAIN SubnetsOf[p] = 1..Len(SubnetsOf[p])
         /\ Len(SubnetsOf[p]) \in Nat
         /\ \A k \in DOMAIN SubnetsOf[p] : k \in Nat /\ k >= 1 /\ k <= Len(SubnetsOf[p])
<1>1. SubnetsOf[p] \in Seq(Name)
  BY OnboardingAssumption
<1>2. DOMAIN SubnetsOf[p] = 1..Len(SubnetsOf[p]) /\ Len(SubnetsOf[p]) \in Nat
  BY <1>1, LenProperties
<1>3. \A k \in 1..Len(SubnetsOf[p]) : k \in Nat /\ k >= 1 /\ k <= Len(SubnetsOf[p])
  BY <1>2
<1> QED
  BY <1>2, <1>3, Zenon

\* The subnet a run is at is of its spec.
LEMMA OwnName ==
  ASSUME OnboardingTypeOK, PlaceInv, NEW p \in Blueprint,
         pc[p] \in {"subnets", "delete subnets"}, nth[p] <= Len(SubnetsOf[p])
  PROVE  nth[p] \in DOMAIN SubnetsOf[p] /\ SubnetsOf[p][nth[p]] \in NamesOf(p)
<1>1. nth[p] \in Nat
  BY DEF OnboardingTypeOK
<1>2. nth[p] >= 1
  BY DEF PlaceInv
<1>3. nth[p] \in DOMAIN SubnetsOf[p]
  <2>1. Len(SubnetsOf[p]) \in Nat
    BY Positions
  <2>2. nth[p] \in 1..Len(SubnetsOf[p])
    BY <1>1, <1>2, <2>1, Counting, Zenon
  <2> QED
    BY <2>2, Positions, Zenon
<1> QED
  BY <1>3 DEF NamesOf

\* Every step of a run keeps NamesInv.
LEMMA NamesStep ==
  ASSUME OnboardingTypeOK, PlaceInv, NamesInv, NEW p \in Blueprint, Acts(p)
  PROVE  NamesInv'
<1>m. NetsMoves(p) /\ SubsMoves(p) /\ IfsMoves(p) /\ TheNetMoves(p) /\ TheSubsMove(p)
  BY Moves
<1>n. pc[p] = "subnets" /\ nth[p] <= Len(SubnetsOf[p]) => SubnetsOf[p][nth[p]] \in NamesOf(p)
  BY OwnName
<1>1. ASSUME NEW s \in subs'
      PROVE  s.id[1] \in NamesOf(s.id[2]) /\ s.net[1] = NetOf[s.id[2]] /\ s.net \in nets'
  <2>1. CASE s \in subs
    <3>1. s.id[1] \in NamesOf(s.id[2]) /\ s.net[1] = NetOf[s.id[2]] /\ s.net \in nets
      BY <2>1 DEF NamesInv
    <3>2. s.net \in nets'
      BY <1>m, <1>1, <3>1 DEF NetsMoves, Find, SubnetsOn
    <3> QED
      BY <3>1, <3>2
  <2>2. CASE s \notin subs
    <3>1. /\ pc[p] = "subnets" /\ nth[p] <= Len(SubnetsOf[p])
          /\ \E net \in theNet[p] \cap nets :
               subs' = subs \cup {[id |-> <<SubnetsOf[p][nth[p]], p>>, net |-> net]}
      BY <1>m, <1>1, <2>2 DEF SubsMoves
    <3>2. PICK net \in theNet[p] \cap nets :
               subs' = subs \cup {[id |-> <<SubnetsOf[p][nth[p]], p>>, net |-> net]}
      BY <3>1
    <3>3. s = [id |-> <<SubnetsOf[p][nth[p]], p>>, net |-> net]
      BY <1>1, <2>2, <3>2
    <3>4. s.id[1] = SubnetsOf[p][nth[p]] /\ s.id[2] = p /\ s.net = net
      BY <3>3
    <3>5. net[1] = NetOf[p]
      BY DEF NamesInv
    <3>6. nets' = nets
      BY <1>m, <3>1 DEF NetsMoves
    <3> QED
      BY <1>n, <3>1, <3>4, <3>5, <3>6
  <2> QED
    BY <2>1, <2>2
<1>2. ASSUME NEW i \in ifs'
      PROVE  i[2][1] \in NamesOf(i[2][2])
  <2>1. CASE i \in ifs
    BY <2>1 DEF NamesInv
  <2>2. CASE i \notin ifs
    <3>0. \E failing \in SUBSET theSubs[p] :
            ifs' = ifs \cup {j \in theRouter[p] \X (theSubs[p] \ failing) : Attachable(j[1], j[2])}
      BY <1>m, <1>2, <2>2 DEF IfsMoves
    <3>1. i[2] \in theSubs[p]
      BY <3>0, <1>2, <2>2
    <3> QED
      BY <3>1 DEF NamesInv
  <2> QED
    BY <2>1, <2>2
<1>3. ASSUME NEW q \in Blueprint, NEW o \in theNet'[q]
      PROVE  o[1] = NetOf[q]
  <2>1. CASE theNet' = theNet \/ q # p
    <3>1. theNet'[q] = theNet[q]
      BY <1>m, <2>1 DEF TheNetMoves, OnboardingTypeOK
    <3> QED
      BY <1>3, <3>1 DEF NamesInv
  <2>2. CASE theNet' # theNet /\ q = p
    <3>1. theNet'[p] \subseteq Find(nets, NetOf[p]) \cup {<<NetOf[p], p>>}
      BY <1>m, <2>2 DEF TheNetMoves, OnboardingTypeOK, Nothing
    <3> QED
      BY <1>3, <2>2, <3>1 DEF Find
  <2> QED
    BY <2>1, <2>2
<1>4. ASSUME NEW q \in Blueprint, NEW t \in theSubs'[q]
      PROVE  t[1] \in NamesOf(t[2])
  <2>1. CASE t \in theSubs[q]
    BY <2>1 DEF NamesInv
  <2>2. CASE t \notin theSubs[q]
    <3>1. /\ q = p /\ pc[p] = "subnets" /\ nth[p] <= Len(SubnetsOf[p])
          /\ t \in SubnetIds \cup {<<SubnetsOf[p][nth[p]], p>>}
      BY <1>m, <1>4, <2>2 DEF TheSubsMove, OnboardingTypeOK, Find
    <3>2. CASE t \in SubnetIds
      BY <3>2 DEF SubnetIds, NamesInv
    <3>3. CASE t = <<SubnetsOf[p][nth[p]], p>>
      BY <1>n, <3>1, <3>3
    <3> QED
      BY <3>1, <3>2, <3>3
  <2> QED
    BY <2>1, <2>2
<1> QED
  BY <1>1, <1>2, <1>3, <1>4 DEF NamesInv

\* Every step of a run keeps CheckedInv.
LEMMA CheckedStep ==
  ASSUME OnboardingTypeOK, PlaceInv, LoneInv, CheckedInv, NEW p \in Blueprint, Acts(p)
  PROVE  CheckedInv'
<1> SUFFICES ASSUME NEW q \in Blueprint, alone'[q], pc'[q] \in {"net", "subnets"},
                    NEW n \in NamesOf(q), NEW s \in subs', s.id[1] \notin NamesOf(q)
             PROVE  <<n, s.id[1]>> \notin Overlaps
  BY DEF CheckedInv, NamesOf
<1>1. q = p
  BY LoneActs
<1>m. SubsMoves(p) /\ StageMoves(p) /\ pc \in [Blueprint -> Stages]
  BY Moves DEF OnboardingTypeOK
<1>2. pc[p] \in {"validate", "net", "subnets"}
  BY <1>1, <1>m DEF StageMoves
<1>3. alone[p]
  BY <1>1, <1>2, BusyStays
<1>4. s \in subs
  <2>1. pc[p] = "subnets" /\ nth[p] <= Len(SubnetsOf[p]) => SubnetsOf[p][nth[p]] \in NamesOf(p)
    BY OwnName
  <2>2. \/ subs' = subs
        \/ /\ pc[p] = "subnets" /\ nth[p] <= Len(SubnetsOf[p])
           /\ \E net \in theNet[p] \cap nets :
                subs' = subs \cup {[id |-> <<SubnetsOf[p][nth[p]], p>>, net |-> net]}
    BY <1>2, <1>m DEF SubsMoves
  <2>3. ASSUME NEW net, s = [id |-> <<SubnetsOf[p][nth[p]], p>>, net |-> net],
               pc[p] = "subnets", nth[p] <= Len(SubnetsOf[p])
        PROVE  FALSE
    BY <1>1, <2>1, <2>3
  <2> QED
    BY <2>2, <2>3
<1>5. CASE pc[p] = "validate"
  <2>1. NoOverlap(p)
    BY <1>1, <1>5, <1>m DEF StageMoves
  <2>2. s.id \in SubnetIds /\ s.id[1] # n
    BY <1>1, <1>4 DEF SubnetIds
  <2> QED
    BY <1>1, <2>1, <2>2 DEF NoOverlap
<1>6. CASE pc[p] \in {"net", "subnets"}
  BY <1>1, <1>3, <1>4, <1>6 DEF CheckedInv
<1> QED
  BY <1>2, <1>5, <1>6

\* Every step of a run keeps TeardownInv.
LEMMA TeardownStep ==
  ASSUME OnboardingTypeOK, PlaceInv, LoneInv, TeardownInv, NEW p \in Blueprint, Acts(p)
  PROVE  TeardownInv'
<1> SUFFICES ASSUME NEW q \in Blueprint, alone'[q]
             PROVE  /\ pc'[q] \in {"delete subnets", "delete net", "delete group"}
                         => Missing(routers', RouterOf[q])
                    /\ pc'[q] = "delete subnets" =>
                         \A k \in DOMAIN SubnetsOf[q], s \in subs' :
                           k < nth'[q] => s.id[1] # SubnetsOf[q][k]
                    /\ pc'[q] \in {"delete net", "delete group"} =>
                         \A s \in subs' : s.id[1] \notin NamesOf(q)
                    /\ pc'[q] = "delete group" => Missing(nets', NetOf[q])
  BY DEF TeardownInv, Missing, Find, NamesOf
<1> SUFFICES ASSUME pc'[q] \in {"delete subnets", "delete net", "delete group"}
             PROVE  /\ Missing(routers', RouterOf[q])
                    /\ pc'[q] = "delete subnets" =>
                         \A k \in DOMAIN SubnetsOf[q], s \in subs' :
                           k < nth'[q] => s.id[1] # SubnetsOf[q][k]
                    /\ pc'[q] \in {"delete net", "delete group"} =>
                         \A s \in subs' : s.id[1] \notin NamesOf(q)
                    /\ pc'[q] = "delete group" => Missing(nets', NetOf[q])
  OBVIOUS
<1>1. q = p
  BY LoneActs
<1>m. /\ NetsMoves(p) /\ SubsMoves(p) /\ RoutersMoves(p) /\ StageMoves(p)
      /\ pc \in [Blueprint -> Stages] /\ nth \in [Blueprint -> Nat]
  BY Moves DEF OnboardingTypeOK
<1>2. pc[p] \in {"delete router", "delete subnets", "delete net", "delete group"}
  BY <1>1, <1>m DEF StageMoves
<1>3. alone[p]
  BY <1>1, <1>2, BusyStays
<1>4. subs' \subseteq subs
  BY <1>2, <1>m DEF SubsMoves
<1>5. pc[p] # "delete router" => Missing(routers', RouterOf[p])
  BY <1>2, <1>3, <1>m DEF RoutersMoves, TeardownInv
<1>6. CASE pc[p] = "delete router"
  <2>1. pc'[p] = "delete subnets" /\ nth'[p] = 1 /\ routers' = routers \ Find(routers, RouterOf[p])
    BY <1>1, <1>6, <1>m DEF StageMoves
  <2>2. Missing(routers', RouterOf[p])
    BY <2>1 DEF Missing, Find
  <2>3. \A k \in DOMAIN SubnetsOf[p] : k \in Nat /\ k >= 1
    BY Positions, Zenon
  <2>4. \A k \in DOMAIN SubnetsOf[p] : ~(k < nth'[p])
    BY <2>1, <2>3, Counting, Zenon
  <2> QED
    BY <1>1, <2>1, <2>2, <2>4
<1>7. CASE pc[p] = "delete subnets" /\ pc' = pc
  <2>1. \/ nth'[p] = nth[p]
        \/ nth'[p] = nth[p] + 1 /\ subs' = {s \in subs : s.id[1] # SubnetsOf[p][nth[p]]}
    BY <1>1, <1>7, <1>m DEF StageMoves
  <2>2. \A k \in DOMAIN SubnetsOf[p], s \in subs : k < nth[p] => s.id[1] # SubnetsOf[p][k]
    BY <1>3, <1>7 DEF TeardownInv
  <2>3. nth[p] \in Nat
    BY <1>m
  <2>4. ASSUME NEW k \in DOMAIN SubnetsOf[p], NEW s \in subs', k < nth'[p]
        PROVE  s.id[1] # SubnetsOf[p][k]
    <3>1. CASE nth'[p] = nth[p]
      BY <1>4, <2>2, <2>4, <3>1
    <3>2. CASE nth'[p] = nth[p] + 1 /\ subs' = {z \in subs : z.id[1] # SubnetsOf[p][nth[p]]}
      <4>0. k \in Nat
        BY Positions, Zenon
      <4>1. k < nth[p] \/ k = nth[p]
        BY <2>3, <2>4, <3>2, <4>0, Counting, Zenon
      <4> QED
        BY <2>2, <2>4, <3>2, <4>1
    <3> QED
      BY <2>1, <3>1, <3>2
  <2> QED
    BY <1>1, <1>5, <1>7, <2>4
<1>8. CASE pc[p] = "delete subnets" /\ pc' # pc
  <2>1. pc'[p] = "delete net" /\ nth[p] > Len(SubnetsOf[p])
    BY <1>1, <1>8, <1>m DEF StageMoves
  <2>2. \A k \in DOMAIN SubnetsOf[p] : k < nth[p]
    <3>1. nth[p] \in Nat
      BY <1>m
    <3>2. Len(SubnetsOf[p]) \in Nat
      BY Positions
    <3>3. \A k \in Nat : k <= Len(SubnetsOf[p]) => k < nth[p]
      BY <2>1, <3>1, <3>2, Counting, Zenon
    <3> QED
      BY <3>3, Positions, Zenon
  <2>3. \A s \in subs : s.id[1] \notin NamesOf(p)
    BY <1>3, <1>8, <2>2 DEF TeardownInv, NamesOf
  <2> QED
    BY <1>1, <1>4, <1>5, <1>8, <2>1, <2>3
<1>9. CASE pc[p] \in {"delete net", "delete group"}
  <2>1. \A s \in subs' : s.id[1] \notin NamesOf(p)
    BY <1>3, <1>4, <1>9 DEF TeardownInv
  <2>2. pc'[p] # "delete subnets"
    BY <1>1, <1>9, <1>m DEF StageMoves
  <2>3. pc[p] = "delete net" /\ pc'[p] = "delete group" => nets' = nets \ Find(nets, NetOf[p])
    BY <1>m DEF StageMoves
  <2>4. pc[p] = "delete group" => nets' = nets /\ Missing(nets, NetOf[p])
    BY <1>3, <1>m DEF NetsMoves, TeardownInv
  <2>5. pc'[p] = "delete group" => Missing(nets', NetOf[p])
    BY <1>9, <2>3, <2>4 DEF Missing, Find
  <2> QED
    BY <1>1, <1>5, <1>9, <2>1, <2>2, <2>5
<1> QED
  BY <1>2, <1>6, <1>7, <1>8, <1>9

\* What the teardown and the overlaps need.
NInv == OnboardingTypeOK /\ PlaceInv /\ NamesInv /\ LoneInv /\ CheckedInv /\ TeardownInv

\* Nothing has been made and nobody works.
LEMMA OnboardingInitInv == OnboardingInit => NInv
<1> SUFFICES ASSUME OnboardingInit PROVE NInv
  OBVIOUS
<1>1. OnboardingTypeOK
  <2>1. MaxBegins \in Nat /\ MaxCallFaults \in Nat
    BY OnboardingAssumption
  <2> QED
    BY <2>1 DEF OnboardingInit, OnboardingTypeOK, Nothing, Stages, DeleteStages
<1>2. PlaceInv /\ LoneInv /\ CheckedInv
  BY DEF OnboardingInit, PlaceInv, LoneInv, CheckedInv
<1>3. NamesInv
  BY DEF OnboardingInit, NamesInv, Nothing
<1>4. TeardownInv
  BY DEF OnboardingInit, TeardownInv
<1> QED
  BY <1>1, <1>2, <1>3, <1>4 DEF NInv

\* Every step, and every stutter, keeps the invariant.
LEMMA OnboardingStepInv == NInv /\ [OnboardingStep]_ovars => NInv'
<1> SUFFICES ASSUME NInv, [OnboardingStep]_ovars PROVE NInv'
  OBVIOUS
<1>1. CASE UNCHANGED ovars
  <2>1. OnboardingTypeOK' /\ PlaceInv'
    BY <1>1 DEF ovars, neutron, run, held, history, NInv, OnboardingTypeOK, PlaceInv
  <2>2. NamesInv' /\ LoneInv'
    BY <1>1 DEF ovars, neutron, run, held, history, NInv, NamesInv, NamesOf, LoneInv
  <2>3. CheckedInv' /\ TeardownInv'
    BY <1>1 DEF ovars, neutron, run, held, history, NInv, CheckedInv, TeardownInv, NamesOf, Missing, Find
  <2> QED
    BY <2>1, <2>2, <2>3 DEF NInv
<1>2. ASSUME NEW p \in Blueprint, Acts(p) PROVE NInv'
  BY <1>2, OnboardingTypes, PlaceStep, NamesStep, LoneStep, CheckedStep, TeardownStep DEF NInv
<1> QED
  BY <1>1, <1>2, Zenon DEF OnboardingStep, Acts

\* The invariant of onboarding that the theorems below rest on.
THEOREM OnboardingInductive == OnboardingSpec => []NInv
BY OnboardingInitInv, OnboardingStepInv, PTL DEF OnboardingSpec

\* The region and the runs have their types, whoever works on which spec.
THEOREM OnboardingTypeCorrect == OnboardingSpec => []OnboardingTypeOK
<1>1. NInv => OnboardingTypeOK
  BY DEF NInv
<1> QED
  BY <1>1, OnboardingInductive, PTL

\* Only a run itself moves it.
LEMMA OwnSteps ==
  ASSUME OnboardingTypeOK, NEW q \in Blueprint, Acts(q), NEW p \in Blueprint, Steps(p)
  PROVE  p = q
<1>1. StageMoves(q) /\ NthMoves(q) /\ RulesMove(q)
  BY Moves
<1>2. CASE p # q
  <2>1. pc'[p] = pc[p]
    BY <1>1, <1>2 DEF StageMoves, OnboardingTypeOK
  <2>2. nth'[p] = nth[p]
    BY <1>1, <1>2 DEF NthMoves, OnboardingTypeOK
  <2>3. ruleCount'[p] = ruleCount[p]
    BY <1>1, <1>2 DEF RulesMove, OnboardingTypeOK
  <2> QED
    BY <2>1, <2>2, <2>3 DEF Steps
<1> QED
  BY <1>2

\* What one run at a time creates overlaps nothing of another spec, for any
\* specs and any number of runs cut short before it.
THEOREM NothingOverlaps == OnboardingSpec => NoOverlapAlone
<1>1. ASSUME NInv, [OnboardingStep]_ovars, NEW p \in Blueprint, NEW s \in subs' \ subs, NEW o \in subs,
             pc[p] = "subnets", Steps(p), alone[p], o.id[1] \notin NamesOf(p)
      PROVE  <<s.id[1], o.id[1]>> \notin Overlaps
  <2>1. subs' # subs
    BY <1>1
  <2>2. PICK q \in Blueprint : Acts(q)
    BY <1>1, <2>1, Zenon DEF OnboardingStep, Acts, ovars, neutron
  <2>3. p = q
    BY <1>1, <2>2, OwnSteps DEF NInv
  <2>4. SubsMoves(p)
    BY <2>2, <2>3, Moves
  <2>5. /\ nth[p] <= Len(SubnetsOf[p])
        /\ \E net \in theNet[p] \cap nets :
             subs' = subs \cup {[id |-> <<SubnetsOf[p][nth[p]], p>>, net |-> net]}
    BY <1>1, <2>1, <2>4 DEF SubsMoves
  <2>6. SubnetsOf[p][nth[p]] \in NamesOf(p)
    BY <1>1, <2>5, OwnName DEF NInv
  <2>7. s.id[1] = SubnetsOf[p][nth[p]]
    BY <1>1, <2>5
  <2> QED
    BY <1>1, <2>6, <2>7 DEF NInv, CheckedInv
<1>2. NInv /\ [OnboardingStep]_ovars =>
        [\A p \in Blueprint : \A s \in subs' \ subs, o \in subs :
           pc[p] = "subnets" /\ Steps(p) /\ alone[p] /\ o.id[1] \notin NamesOf(p)
             => <<s.id[1], o.id[1]>> \notin Overlaps]_ovars
  BY <1>1
<1> QED
  BY <1>2, OnboardingInductive, PTL DEF OnboardingSpec, NoOverlapAlone

\* A teardown takes no subnet and no interface of a spec that shares no name
\* with it, whatever else is going on.
THEOREM OthersAreSpared == OnboardingSpec => DeleteSparesOthers
<1>1. ASSUME NInv, [OnboardingStep]_ovars, NEW p \in Blueprint, NEW q \in Blueprint,
             NetOf[p] # NetOf[q], NamesOf(p) \cap NamesOf(q) = {}, pc[p] \in DeleteStages, Steps(p)
      PROVE  /\ \A s \in subs : s.id[2] = q => s \in subs'
             /\ \A i \in ifs : i[2][2] = q => i \in ifs'
  <2>1. PICK r \in Blueprint : Acts(r)
    <3>1. ~UNCHANGED ovars
      BY <1>1 DEF Steps, ovars, run, neutron
    <3> QED
      BY <1>1, <3>1, Zenon DEF OnboardingStep, Acts
  <2>2. r = p
    BY <1>1, <2>1, OwnSteps DEF NInv
  <2>3. SubsMoves(p) /\ IfsMoves(p)
    BY <2>1, <2>2, Moves
  <2>4. ASSUME NEW s \in subs, s.id[2] = q PROVE s \in subs'
    <3>1. s.id[1] \in NamesOf(q) /\ s.net[1] = NetOf[q]
      BY <1>1, <2>4 DEF NInv, NamesInv
    <3>2. s.id[1] \notin NamesOf(p)
      BY <1>1, <3>1
    <3>3. pc[p] = "delete subnets" /\ nth[p] <= Len(SubnetsOf[p]) => SubnetsOf[p][nth[p]] \in NamesOf(p)
      BY <1>1, OwnName DEF NInv
    <3>4. s \notin SubnetsOn(NetOf[p])
      BY <1>1, <3>1 DEF SubnetsOn
    <3> QED
      BY <2>3, <2>4, <3>2, <3>3, <3>4 DEF SubsMoves
  <2>5. ASSUME NEW i \in ifs, i[2][2] = q PROVE i \in ifs'
    <3>1. i[2][1] \in NamesOf(q)
      BY <1>1, <2>5 DEF NInv, NamesInv
    <3>2. i[2][1] \notin NamesOf(p)
      BY <1>1, <3>1
    <3> QED
      BY <2>3, <2>5, <3>2 DEF IfsMoves
  <2> QED
    BY <2>4, <2>5
<1>2. NInv /\ [OnboardingStep]_ovars =>
        [\A p, q \in Blueprint :
           /\ p # q /\ NetOf[p] # NetOf[q] /\ NamesOf(p) \cap NamesOf(q) = {}
           /\ pc[p] \in DeleteStages /\ Steps(p)
           =>
             /\ \A s \in subs : s.id[2] = q => s \in subs'
             /\ \A i \in ifs : i[2][2] = q => i \in ifs']_ovars
  BY <1>1
<1> QED
  BY <1>2, OnboardingInductive, PTL DEF OnboardingSpec, DeleteSparesOthers

\* A run that ends with code 0 was not refused anything, nor did it die.
LEMMA ZeroIsClean ==
  ASSUME OnboardingTypeOK, NEW p \in Blueprint, rc'[p] = 0
  PROVE  ~Refused(p) /\ ~Dies(p)
<1>1. Refused(p) \/ Dies(p) => rc' = [rc EXCEPT ![p] = 1]
  BY Zenon DEF Refused, Dies, Traceback, End
<1>2. rc' = [rc EXCEPT ![p] = 1] => rc'[p] = 1
  BY DEF OnboardingTypeOK
<1>3. 0 # 1
  OBVIOUS
<1> QED
  BY <1>1, <1>2, <1>3, Zenon

\* A lone teardown that ends with code 0 was not confirmed and has changed
\* nothing, or has left nothing under the names of its spec, whatever lay there
\* before.
THEOREM TornDownIsGone == OnboardingSpec => DeletedIsGone
<1>1. ASSUME NInv, [OnboardingStep]_ovars, NEW p \in Blueprint,
             pc[p] \in DeleteStages, pc'[p] = "idle", rc'[p] = 0, alone[p]
      PROVE  (pc[p] = "delete router" /\ UNCHANGED neutron) \/ Gone(p)'
  <2>0. OnboardingTypeOK /\ pc[p] # "idle"
    BY <1>1 DEF NInv, DeleteStages
  <2>1. PICK r \in Blueprint : Acts(r)
    <3>1. ~UNCHANGED ovars
      BY <1>1, <2>0 DEF ovars, run
    <3> QED
      BY <1>1, <3>1, Zenon DEF OnboardingStep, Acts
  <2>2. r = p
    <3>1. Steps(p)
      BY <1>1, <2>0 DEF Steps
    <3> QED
      BY <2>0, <2>1, <3>1, OwnSteps
  <2>3. ~Refused(p) /\ ~Dies(p)
    BY <1>1, <2>0, ZeroIsClean
  <2>4. ~LookInVain(p)
    BY <1>1, <2>0 DEF LookInVain
  <2>5. ~DeleteRouter(p) /\ ~DeleteSubnet(p) /\ ~SubnetsDeleted(p) /\ ~DeleteNet(p)
    <3>1. DeleteRouter(p) => pc'[p] = "delete subnets" \/ rc'[p] = 1
      BY <2>0 DEF DeleteRouter, Goto, End, OnboardingTypeOK
    <3>2. DeleteSubnet(p) => pc' = pc
      BY DEF DeleteSubnet
    <3>3. SubnetsDeleted(p) \/ DeleteNet(p) => pc'[p] \in {"delete net", "delete group"}
      BY <2>0 DEF SubnetsDeleted, DeleteNet, Goto, OnboardingTypeOK
    <3> QED
      BY <1>1, <2>0, <3>1, <3>2, <3>3
  <2>6. Abort(p) \/ DeleteGroup(p)
    BY <1>1, <2>1, <2>2, <2>3, <2>4, <2>5 DEF Acts, Begin, Validate, ApplyNet, ApplySubnet, SubnetsDone,
       ApplyRouter, Attach, ApplyGroup, ApplyRule, RulesDone, DeleteStages
  <2>7. CASE Abort(p)
    BY <2>7 DEF Abort
  <2>8. CASE DeleteGroup(p)
    <3>1. /\ groups' = groups \ Find(groups, GroupOf[p])
          /\ nets' = nets /\ routers' = routers /\ subs' = subs /\ pc[p] = "delete group"
      BY <2>8 DEF DeleteGroup
    <3>2. Missing(groups', GroupOf[p])
      BY <3>1 DEF Missing, Find
    <3>3. /\ Missing(nets, NetOf[p]) /\ Missing(routers, RouterOf[p])
          /\ \A s \in subs : s.id[1] \notin NamesOf(p)
      BY <1>1, <3>1 DEF NInv, TeardownInv
    <3>4. NamesOf(p)' = NamesOf(p)
      BY DEF NamesOf
    <3> QED
      BY <3>1, <3>2, <3>3, <3>4 DEF Gone, Missing, Find
  <2> QED
    BY <2>6, <2>7, <2>8
<1>2. NInv /\ [OnboardingStep]_ovars =>
        [\A p \in Blueprint :
           pc[p] \in DeleteStages /\ pc'[p] = "idle" /\ rc'[p] = 0 /\ alone[p] =>
             (pc[p] = "delete router" /\ UNCHANGED neutron) \/ Gone(p)']_ovars
  BY <1>1
<1> QED
  BY <1>2, OnboardingInductive, PTL DEF OnboardingSpec, DeletedIsGone

-----------------------------------------------------------------------------
\* What was looked for in vain is still to be made.
AbsentInv == \A p \in Blueprint : absent[p] => Wanted(p) # NoName

\* A group has all its rules, or its run is making them, or was cut short.
RulesThere(p) == ruleCount[p] >= RulesOf[p]

GroupsInv ==
  \A g \in groups :
    /\ g[1] = GroupOf[g[2]]
    /\ cut[g[2]] \/ pc[g[2]] = "rules" \/ RulesThere(g[2])

\* What a lone run has found or made so far is there once.
AsApplied(p) ==
  /\ absent[p] => Missing(Among(p), Wanted(p))
  /\ pc[p] \in {"subnets", "router", "attach", "group", "rules"} => Unique(nets, NetOf[p])
  /\ pc[p] = "subnets" =>
       \A k \in DOMAIN SubnetsOf[p] : k < nth[p] => Unique(SubnetIds, SubnetsOf[p][k])
  /\ pc[p] \in {"router", "attach", "group", "rules"} =>
       \A n \in NamesOf(p) : Unique(SubnetIds, n)
  /\ pc[p] \in {"attach", "group", "rules"} /\ RouterOf[p] # NoName => Unique(routers, RouterOf[p])
  /\ pc[p] = "rules" =>
       GroupOf[p] # NoName /\ Find(groups, GroupOf[p]) = {<<GroupOf[p], p>>}

\* What it holds in memory is what it is to attach, and once that is done every
\* subnet has an interface.
AsHeld(p) ==
  /\ pc[p] = "subnets" =>
       \A k \in DOMAIN SubnetsOf[p] :
         k < nth[p] => Find(SubnetIds, SubnetsOf[p][k]) \subseteq theSubs[p]
  /\ pc[p] \in {"router", "attach"} =>
       \A n \in NamesOf(p) : Find(SubnetIds, n) \subseteq theSubs[p]
  /\ pc[p] = "attach" => RouterOf[p] # NoName /\ theRouter[p] = Find(routers, RouterOf[p])
  /\ pc[p] \in {"group", "rules"} /\ RouterOf[p] # NoName => Interfaced(p)

HeldInv == \A p \in Blueprint : alone[p] /\ pc[p] # "idle" => AsHeld(p)

AppliedInv == \A p \in Blueprint : alone[p] /\ pc[p] # "idle" => AsApplied(p)

\* What is made where nothing of the name was is the one of its name; others stay unique.
LEMMA Added ==
  ASSUME NEW S, NEW n, NEW o, o[1] = n, Missing(S, n)
  PROVE  /\ Find(S \cup {o}, n) = {o}
         /\ Unique(S \cup {o}, n)
         /\ \A m : Unique(S, m) => Unique(S \cup {o}, m)
<1>1. Find(S \cup {o}, n) = {o}
  BY DEF Missing, Find
<1>2. ASSUME NEW m, Unique(S, m) PROVE Unique(S \cup {o}, m)
  <2>1. PICK z \in S : Find(S, m) = {z}
    BY <1>2 DEF Unique
  <2>2. m # n
    BY <2>1 DEF Missing
  <2>3. Find(S \cup {o}, m) = {z}
    BY <2>1, <2>2 DEF Find
  <2> QED
    BY <2>1, <2>3 DEF Unique
<1> QED
  BY <1>1, <1>2 DEF Unique

\* After a step of p's, only a lookup that found nothing leaves it looking.
LEMMA AbsentStep ==
  ASSUME OnboardingTypeOK, AbsentInv, NEW p \in Blueprint, Acts(p)
  PROVE  /\ AbsentInv'
         /\ absent'[p] => LookInVain(p)
<1>1. absent' = absent \/ \E b \in BOOLEAN : absent' = [absent EXCEPT ![p] = b]
  BY ZenonT(30) DEF Acts, Begin, Validate, LookInVain, ApplyNet, ApplySubnet, SubnetsDone, ApplyRouter,
     Attach, ApplyGroup, ApplyRule, RulesDone, DeleteRouter, DeleteSubnet, SubnetsDeleted, DeleteNet,
     DeleteGroup, Refused, Dies, Abort, Traceback, End, Looked, run
<1>2. \/ LookInVain(p)
      \/ absent' = [absent EXCEPT ![p] = FALSE]
      \/ /\ absent' = absent
         /\ \/ pc[p] \in {"idle", "validate", "validate delete", "attach", "rules", "delete router",
                          "delete subnets", "delete net", "delete group"}
            \/ pc[p] = "subnets" /\ nth[p] > Len(SubnetsOf[p])
  BY ZenonT(30) DEF Acts, Begin, Validate, LookInVain, ApplyNet, ApplySubnet, SubnetsDone, ApplyRouter,
     Attach, ApplyGroup, ApplyRule, RulesDone, DeleteRouter, DeleteSubnet, SubnetsDeleted, DeleteNet,
     DeleteGroup, Refused, Dies, Abort, Traceback, End, Looked, run
<1>3. nth[p] > Len(SubnetsOf[p]) => ~(nth[p] <= Len(SubnetsOf[p]))
  <2>1. nth[p] \in Nat /\ Len(SubnetsOf[p]) \in Nat
    BY Positions DEF OnboardingTypeOK
  <2>2. \A n, l \in Nat : n > l => ~(n <= l)
    OBVIOUS
  <2> QED
    BY <2>1, <2>2, Zenon
<1>4. CASE LookInVain(p)
  <2>2. \A q \in Blueprint : Wanted(q)' = Wanted(q)
    BY <1>4, Zenon DEF LookInVain, Wanted
  <2>3. absent' = [absent EXCEPT ![p] = TRUE] /\ Wanted(p) # NoName
    BY <1>4, Zenon DEF LookInVain
  <2>4. ASSUME NEW q \in Blueprint, absent'[q] PROVE Wanted(q) # NoName
    <3>1. CASE q = p
      BY <2>3, <3>1
    <3>2. CASE q # p
      <4>1. absent[q]
        BY <2>3, <2>4, <3>2, Zenon DEF OnboardingTypeOK
      <4> QED
        BY <4>1 DEF AbsentInv
    <3> QED
      BY <3>1, <3>2
  <2> QED
    BY <1>4, <2>2, <2>4, Zenon DEF AbsentInv
<1>5. CASE ~LookInVain(p)
  <2>1. ~absent'[p]
    <3>1. CASE absent' = [absent EXCEPT ![p] = FALSE]
      BY <3>1, Zenon DEF OnboardingTypeOK
    <3>2. CASE absent' = absent /\ Wanted(p) = NoName
      BY <3>2, Zenon DEF AbsentInv
    <3>3. \/ pc[p] \in {"idle", "validate", "validate delete", "attach", "rules", "delete router",
                        "delete subnets", "delete net", "delete group"}
          \/ pc[p] = "subnets" /\ ~(nth[p] <= Len(SubnetsOf[p]))
          => Wanted(p) = NoName
      BY DEF Wanted
    <3> QED
      BY <1>2, <1>3, <1>5, <3>1, <3>2, <3>3, Zenon
  <2>2. ASSUME NEW q \in Blueprint, absent'[q] PROVE Wanted(q)' # NoName
    <3>1. q # p
      BY <2>1, <2>2
    <3>2. absent[q]
      BY <1>1, <2>2, <3>1, Zenon DEF OnboardingTypeOK
    <3>3. StageMoves(p) /\ NthMoves(p)
      BY Moves
    <3>4. pc'[q] = pc[q]
      BY <3>1, <3>3 DEF StageMoves, OnboardingTypeOK
    <3>5. nth'[q] = nth[q]
      BY <3>1, <3>3 DEF NthMoves, OnboardingTypeOK
    <3>6. Wanted(q)' = Wanted(q)
      BY <3>4, <3>5, Zenon DEF Wanted
    <3> QED
      BY <3>2, <3>6, Zenon DEF AbsentInv
  <2> QED
    BY <2>1, <2>2, Zenon DEF AbsentInv
<1> QED
  BY <1>4, <1>5

\* Every step of a run keeps GroupsInv.
LEMMA GroupsStep ==
  ASSUME OnboardingTypeOK, GroupsInv, NEW p \in Blueprint, Acts(p)
  PROVE  GroupsInv'
<1>m. GroupsMove(p) /\ RulesMove(p) /\ StageMoves(p)
  BY Moves
<1>1. \/ cut' = cut
      \/ cut' = [cut EXCEPT ![p] = @ \/ pc[p] = "rules"]
      \/ cut' = [q \in Blueprint |-> cut[q] /\ <<GroupOf[q], q>> \in groups']
  BY ZenonT(30) DEF Acts, Begin, Validate, LookInVain, ApplyNet, ApplySubnet, SubnetsDone, ApplyRouter,
     Attach, ApplyGroup, ApplyRule, RulesDone, DeleteRouter, DeleteSubnet, SubnetsDeleted, DeleteNet,
     DeleteGroup, Refused, Dies, Abort, Traceback, history
<1>2. \/ ruleCount' = ruleCount \/ ruleCount' = [ruleCount EXCEPT ![p] = @ + 1]
      \/ pc' = [pc EXCEPT ![p] = "rules"]
  BY ZenonT(30) DEF Acts, Begin, Validate, LookInVain, ApplyNet, ApplySubnet, SubnetsDone, ApplyRouter,
     Attach, ApplyGroup, ApplyRule, RulesDone, DeleteRouter, DeleteSubnet, SubnetsDeleted, DeleteNet,
     DeleteGroup, Refused, Dies, Abort, Goto, neutron
<1>3. pc[p] = "rules" => \/ pc' = pc
                         \/ RulesThere(p) /\ ruleCount' = ruleCount
                         \/ cut' = [cut EXCEPT ![p] = @ \/ pc[p] = "rules"]
  BY ZenonT(30) DEF Acts, Begin, Validate, LookInVain, ApplyNet, ApplySubnet, SubnetsDone, ApplyRouter,
     Attach, ApplyGroup, ApplyRule, RulesDone, DeleteRouter, DeleteSubnet, SubnetsDeleted, DeleteNet,
     DeleteGroup, Refused, Dies, Abort, Traceback, run, neutron, RulesThere
<1>4. groups' = groups \cup {<<GroupOf[p], p>>} => groups' = groups \/ pc' = [pc EXCEPT ![p] = "rules"]
  BY ZenonT(30) DEF Acts, Begin, Validate, LookInVain, ApplyNet, ApplySubnet, SubnetsDone, ApplyRouter,
     Attach, ApplyGroup, ApplyRule, RulesDone, DeleteRouter, DeleteSubnet, SubnetsDeleted, DeleteNet,
     DeleteGroup, Refused, Dies, Abort, Goto, neutron
<1>t. /\ pc \in [Blueprint -> Stages] /\ ruleCount \in [Blueprint -> Nat] /\ cut \in [Blueprint -> BOOLEAN]
      /\ groups \subseteq Object /\ groups' \subseteq Object
  <2>1. GroupOf[p] # NoName => <<GroupOf[p], p>> \in Object
    BY OnboardingAssumption DEF Object
  <2> QED
    BY <1>m, <2>1 DEF OnboardingTypeOK, GroupsMove
<1>5. ASSUME NEW q \in Blueprint, RulesThere(q), pc' # [pc EXCEPT ![p] = "rules"] \/ q # p
      PROVE  RulesThere(q)'
  <2>1. ruleCount[q] \in Nat /\ RulesOf[q] \in Nat
    BY <1>t, OnboardingAssumption
  <2>2. ruleCount'[q] = ruleCount[q] \/ ruleCount'[q] = ruleCount[q] + 1
    BY <1>2, <1>5, <1>m, <1>t DEF RulesMove
  <2>3. \A m, n \in Nat : m >= n => m + 1 >= n
    OBVIOUS
  <2> QED
    BY <1>5, <2>1, <2>2, <2>3, Zenon DEF RulesThere
<1>6. ASSUME NEW g \in groups'
      PROVE  /\ g[1] = GroupOf[g[2]]
             /\ cut'[g[2]] \/ pc'[g[2]] = "rules" \/ RulesThere(g[2])'
  <2>0. g[2] \in Blueprint /\ g = <<g[1], g[2]>>
    BY <1>t DEF Object
  <2>1. CASE pc' = [pc EXCEPT ![p] = "rules"] /\ g[2] = p
    <3>1. g[1] = GroupOf[p]
      BY <1>m, <1>6, <2>1 DEF GroupsMove, GroupsInv
    <3>2. pc'[p] = "rules"
      BY <1>t, <2>1
    <3> QED
      BY <2>1, <3>1, <3>2
  <2>2. CASE ~(pc' = [pc EXCEPT ![p] = "rules"] /\ g[2] = p)
    <3>1. g \in groups
      <4>1. CASE groups' = groups \cup {<<GroupOf[p], p>>}
        BY <1>4, <1>6, <2>2, <4>1
      <4>2. CASE groups' \subseteq groups
        BY <1>6, <4>2
      <4> QED
        BY <1>m, <4>1, <4>2 DEF GroupsMove
    <3>2. g[1] = GroupOf[g[2]]
      BY <3>1 DEF GroupsInv
    <3>3. CASE cut[g[2]]
      <4>1. <<GroupOf[g[2]], g[2]>> \in groups'
        BY <1>6, <2>0, <3>2
      <4>2. cut'[g[2]]
        BY <1>1, <1>t, <2>0, <3>3, <4>1, Zenon
      <4> QED
        BY <3>2, <4>2
    <3>4. CASE RulesThere(g[2])
      <4>1. RulesThere(g[2])'
        BY <1>5, <2>0, <2>2, <3>4
      <4> QED
        BY <3>2, <4>1
    <3>5. CASE pc[g[2]] = "rules"
      <4>1. CASE g[2] # p
        <5>1. pc'[g[2]] = "rules"
          BY <1>m, <1>t, <2>0, <3>5, <4>1 DEF StageMoves
        <5> QED
          BY <3>2, <5>1
      <4>2. CASE g[2] = p
        <5>1. CASE pc' = pc
          BY <3>2, <3>5, <5>1
        <5>2. CASE RulesThere(p) /\ ruleCount' = ruleCount
          BY <3>2, <4>2, <5>2 DEF RulesThere
        <5>3. CASE cut' = [cut EXCEPT ![p] = @ \/ pc[p] = "rules"]
          <6>1. cut'[p]
            BY <1>t, <3>5, <4>2, <5>3, Zenon
          <6> QED
            BY <3>2, <4>2, <6>1
        <5> QED
          BY <1>3, <3>5, <4>2, <5>1, <5>2, <5>3
      <4> QED
        BY <4>1, <4>2
    <3> QED
      BY <3>1, <3>3, <3>4, <3>5 DEF GroupsInv
  <2> QED
    BY <2>1, <2>2
<1> QED
  BY <1>6, Zenon DEF GroupsInv

\* Every step of a run keeps AppliedInv.
LEMMA AppliedStep ==
  ASSUME OnboardingTypeOK, PlaceInv, LoneInv, AbsentInv, AppliedInv, NEW p \in Blueprint, Acts(p)
  PROVE  AppliedInv'
<1> SUFFICES ASSUME NEW q \in Blueprint, alone'[q], pc'[q] # "idle" PROVE AsApplied(q)'
  BY Zenon DEF AppliedInv
<1>1. q = p
  BY LoneActs
<1>2. absent'[p] => LookInVain(p)
  BY AbsentStep
<1>m. pc \in [Blueprint -> Stages] /\ nth \in [Blueprint -> Nat]
  BY DEF OnboardingTypeOK
<1>3. CASE pc'[p] \notin {"subnets", "router", "attach", "group", "rules"} /\ ~LookInVain(p)
  BY <1>1, <1>2, <1>3, Zenon DEF AsApplied
<1>4. CASE LookInVain(p)
  <2>0. /\ UNCHANGED <<nets, subs, routers, groups, pc, nth>>
        /\ SubnetIds' = SubnetIds
    BY <1>4 DEF LookInVain, neutron, SubnetIds
  <2>1. alone[p] /\ AsApplied(p)
    BY <1>1, <2>0, BusyStays DEF AppliedInv
  <2>2. Missing(Among(p), Wanted(p))'
    BY <1>4, <2>0, Zenon DEF LookInVain, Among, Wanted
  <2> QED
    BY <1>1, <2>0, <2>1, <2>2, Zenon DEF AsApplied
<1>5. CASE ~LookInVain(p) /\ pc'[p] \in {"subnets", "router", "attach", "group", "rules"}
  <2>0. ~absent'[p] /\ pc[p] # "idle"
    <3>1. Begin(p, "validate") \/ Begin(p, "validate delete") => pc'[p] \in {"validate", "validate delete"}
      BY <1>m DEF Begin, Goto
    <3> QED
      BY <1>2, <1>5, <3>1, IdleBegins
  <2>1. alone[p] /\ AsApplied(p)
    BY <1>1, <2>0, BusyStays DEF AppliedInv
  <2>2. \/ ApplyNet(p) \/ ApplySubnet(p) \/ SubnetsDone(p) \/ ApplyRouter(p) \/ Attach(p)
        \/ ApplyGroup(p) \/ ApplyRule(p)
    <3>1. \/ ApplyNet(p) \/ ApplySubnet(p) \/ SubnetsDone(p) \/ ApplyRouter(p) \/ Attach(p)
          \/ ApplyGroup(p) \/ ApplyRule(p) \/ LookInVain(p)
          \/ \E stage \in {"idle", "validate", "validate delete", "net", "delete router", "delete subnets",
                           "delete net", "delete group"} : pc' = [pc EXCEPT ![p] = stage]
          \/ pc' = pc /\ pc[p] = "delete subnets"
      BY ZenonT(60) DEF Acts, Begin, Validate, RulesDone, DeleteRouter, DeleteSubnet, SubnetsDeleted,
         DeleteNet, DeleteGroup, Refused, Dies, Abort, Traceback, End, Goto, run
    <3> QED
      BY <1>5, <1>m, <3>1
  <2>3. CASE ApplyNet(p)
    <3>1. Unique(nets', NetOf[p])
      <4>1. CASE Exists(p) /\ nets' = nets
        BY <2>3, <4>1 DEF ApplyNet, Exists, Among, Wanted
      <4>2. CASE absent[p] /\ nets' = nets \cup {<<NetOf[p], p>>}
        <5>1. Missing(nets, NetOf[p])
          BY <2>1, <2>3, <4>2 DEF ApplyNet, AsApplied, Among, Wanted
        <5> QED
          BY <4>2, <5>1, Added
      <4> QED
        BY <2>3, <4>1, <4>2 DEF ApplyNet
    <3>2. pc'[p] = "subnets" /\ nth'[p] = 1
      BY <2>3, <1>m DEF ApplyNet, Goto
    <3>3. \A k \in DOMAIN SubnetsOf[p] : ~(k < nth'[p])
      BY <3>2, Positions, Counting, Zenon
    <3> QED
      BY <1>1, <2>0, <3>1, <3>2, <3>3 DEF AsApplied
  <2>4. CASE ApplySubnet(p)
    <3> DEFINE n == SubnetsOf[p][nth[p]]
    <3>0. pc[p] = "subnets" /\ pc' = pc /\ nets' = nets /\ nth' = [nth EXCEPT ![p] = @ + 1]
      BY <2>4 DEF ApplySubnet
    <3>1. Wanted(p) = n /\ Among(p) = SubnetIds
      BY <2>4 DEF ApplySubnet, Wanted, Among
    <3>2. Unique(SubnetIds', n) /\ \A m : Unique(SubnetIds, m) => Unique(SubnetIds', m)
      <4>1. CASE Exists(p) /\ subs' = subs
        BY <3>1, <4>1 DEF Exists, SubnetIds
      <4>2. ASSUME absent[p], NEW net, subs' = subs \cup {[id |-> <<n, p>>, net |-> net]}
            PROVE  Unique(SubnetIds', n) /\ \A m : Unique(SubnetIds, m) => Unique(SubnetIds', m)
        <5>1. Missing(SubnetIds, n)
          BY <2>1, <3>1, <4>2 DEF AsApplied
        <5>2. SubnetIds' = SubnetIds \cup {<<n, p>>}
          <6> DEFINE made == [id |-> <<n, p>>, net |-> net]
          <6>1. made.id = <<n, p>> /\ subs' = subs \cup {made}
            BY <4>2
          <6> HIDE DEF made, n
          <6> QED
            BY <6>1 DEF SubnetIds
        <5> HIDE DEF n
        <5> QED
          BY <5>1, <5>2, Added
      <4> QED
        BY <2>4, <4>1, <4>2 DEF ApplySubnet
    <3>3. ASSUME NEW k \in DOMAIN SubnetsOf[p], k < nth'[p] PROVE Unique(SubnetIds', SubnetsOf[p][k])
      <4>1. k \in Nat /\ nth[p] \in Nat /\ nth'[p] = nth[p] + 1
        <5>1. nth[p] \in Nat /\ nth'[p] = nth[p] + 1
          BY <1>m, <3>0
        <5> QED
          BY <5>1, Positions, Zenon
      <4>2. k < nth[p] \/ k = nth[p]
        BY <3>3, <4>1, Counting, Zenon
      <4>3. k < nth[p] => Unique(SubnetIds, SubnetsOf[p][k])
        BY <2>1, <3>0, Zenon DEF AsApplied
      <4> QED
        BY <3>2, <4>2, <4>3
    <3> QED
      BY <1>1, <2>0, <2>1, <3>0, <3>3, Zenon DEF AsApplied
  <2>5. CASE SubnetsDone(p)
    <3>0. /\ pc[p] = "subnets" /\ nth[p] > Len(SubnetsOf[p]) /\ nets' = nets /\ SubnetIds' = SubnetIds
          /\ pc'[p] = "router" \/ (pc'[p] = "group" /\ RouterOf[p] = NoName)
      BY <2>5, <1>m DEF SubnetsDone, Goto, neutron, SubnetIds
    <3>1. \A k \in DOMAIN SubnetsOf[p] : k < nth[p]
      <4>1. nth[p] \in Nat
        BY <1>m
      <4> QED
        BY <3>0, <4>1, Positions, Counting, Zenon
    <3>2. \A n \in NamesOf(p) : Unique(SubnetIds', n)
      <4>1. \A k \in DOMAIN SubnetsOf[p] : Unique(SubnetIds, SubnetsOf[p][k])
        BY <2>1, <3>0, <3>1, Zenon DEF AsApplied
      <4> QED
        BY <3>0, <4>1 DEF NamesOf
    <3> QED
      BY <1>1, <2>0, <2>1, <3>0, <3>2 DEF AsApplied
  <2>6. CASE ApplyRouter(p)
    <3>0. pc[p] = "router" /\ pc'[p] = "attach" /\ nets' = nets /\ SubnetIds' = SubnetIds
      BY <2>6, <1>m DEF ApplyRouter, Goto, SubnetIds
    <3>1. Wanted(p) = RouterOf[p] /\ Among(p) = routers
      BY <3>0 DEF Wanted, Among
    <3>2. Unique(routers', RouterOf[p])
      <4>1. CASE Exists(p) /\ routers' = routers
        BY <3>1, <4>1 DEF Exists
      <4>2. CASE absent[p] /\ routers' = routers \cup {<<RouterOf[p], p>>}
        <5>1. Missing(routers, RouterOf[p])
          BY <2>1, <3>1, <4>2 DEF AsApplied
        <5> QED
          BY <4>2, <5>1, Added
      <4> QED
        BY <2>6, <4>1, <4>2 DEF ApplyRouter
    <3> QED
      BY <1>1, <2>0, <2>1, <3>0, <3>2 DEF AsApplied
  <2>7. CASE Attach(p)
    <3>0. /\ pc[p] = "attach" /\ pc'[p] = "group" /\ nets' = nets /\ SubnetIds' = SubnetIds
          /\ routers' = routers
      BY <2>7, <1>m DEF Attach, Goto, SubnetIds
    <3> QED
      BY <1>1, <2>0, <2>1, <3>0 DEF AsApplied
  <2>8. CASE ApplyGroup(p)
    <3>0. /\ pc[p] = "group" /\ nets' = nets /\ SubnetIds' = SubnetIds /\ routers' = routers
          /\ GroupOf[p] # NoName /\ absent[p]
          /\ groups' = groups \cup {<<GroupOf[p], p>>} /\ pc'[p] = "rules"
      <4>1. End(p, 0) => pc'[p] = "idle"
        BY <1>m DEF End, Goto
      <4> QED
        BY <1>5, <2>8, <4>1, <1>m DEF ApplyGroup, Goto, SubnetIds
    <3>1. Missing(groups, GroupOf[p])
      BY <2>1, <3>0 DEF AsApplied, Wanted, Among
    <3>2. Find(groups', GroupOf[p]) = {<<GroupOf[p], p>>}
      <4>1. <<GroupOf[p], p>>[1] = GroupOf[p]
        OBVIOUS
      <4>2. Find(groups \cup {<<GroupOf[p], p>>}, GroupOf[p]) = {<<GroupOf[p], p>>}
        BY <3>1, <4>1 DEF Missing, Find
      <4> QED
        BY <3>0, <4>2
    <3> QED
      BY <1>1, <2>0, <2>1, <3>0, <3>2 DEF AsApplied
  <2>9. CASE ApplyRule(p)
    <3>0. UNCHANGED <<nets, subs, routers, groups, pc, nth>> /\ SubnetIds' = SubnetIds
      BY <2>9 DEF ApplyRule, run, SubnetIds
    <3> QED
      BY <1>1, <2>0, <2>1, <3>0, Zenon DEF AsApplied
  <2> QED
    BY <2>2, <2>3, <2>4, <2>5, <2>6, <2>7, <2>8, <2>9
<1> QED
  BY <1>3, <1>4, <1>5

\* Every step of a run keeps HeldInv.
LEMMA HeldStep ==
  ASSUME OnboardingTypeOK, PlaceInv, LoneInv, AbsentInv, AppliedInv, HeldInv,
         NEW p \in Blueprint, Acts(p)
  PROVE  HeldInv'
<1> SUFFICES ASSUME NEW q \in Blueprint, alone'[q], pc'[q] # "idle" PROVE AsHeld(q)'
  BY Zenon DEF HeldInv
<1>1. q = p
  BY LoneActs
<1>m. /\ pc \in [Blueprint -> Stages] /\ nth \in [Blueprint -> Nat]
      /\ theSubs \in [Blueprint -> SUBSET Object] /\ theRouter \in [Blueprint -> SUBSET Object]
  BY DEF OnboardingTypeOK
<1>2. CASE pc'[p] \notin {"subnets", "router", "attach", "group", "rules"}
  BY <1>1, <1>2, Zenon DEF AsHeld
<1>3. CASE pc'[p] \in {"subnets", "router", "attach", "group", "rules"}
  <2>0. pc[p] # "idle"
    <3>1. Begin(p, "validate") \/ Begin(p, "validate delete") => pc'[p] \in {"validate", "validate delete"}
      BY <1>m DEF Begin, Goto
    <3> QED
      BY <1>3, <3>1, IdleBegins
  <2>1. AsApplied(p) /\ AsHeld(p)
    BY <1>1, <2>0, BusyStays DEF AppliedInv, HeldInv
  <2>2. \/ ApplyNet(p) \/ ApplySubnet(p) \/ SubnetsDone(p) \/ ApplyRouter(p) \/ Attach(p)
        \/ ApplyGroup(p) \/ ApplyRule(p) \/ LookInVain(p)
    <3>1. \/ ApplyNet(p) \/ ApplySubnet(p) \/ SubnetsDone(p) \/ ApplyRouter(p) \/ Attach(p)
          \/ ApplyGroup(p) \/ ApplyRule(p) \/ LookInVain(p)
          \/ \E stage \in {"idle", "validate", "validate delete", "net", "delete router", "delete subnets",
                           "delete net", "delete group"} : pc' = [pc EXCEPT ![p] = stage]
          \/ pc' = pc /\ pc[p] = "delete subnets"
      BY ZenonT(60) DEF Acts, Begin, Validate, RulesDone, DeleteRouter, DeleteSubnet, SubnetsDeleted,
         DeleteNet, DeleteGroup, Abort, Refused, Dies, Traceback, End, Goto, run
    <3> QED
      BY <1>3, <1>m, <3>1
  <2>3. CASE LookInVain(p) \/ ApplyRule(p)
    <3>1. /\ UNCHANGED <<subs, routers, ifs, pc, nth, theSubs, theRouter, skipped>>
          /\ SubnetIds' = SubnetIds
      BY <2>3 DEF LookInVain, ApplyRule, neutron, held, history, run, SubnetIds
    <3> QED
      BY <1>1, <2>1, <3>1, Zenon DEF AsHeld, Interfaced
  <2>4. CASE ApplyNet(p)
    <3>1. pc'[p] = "subnets" /\ nth'[p] = 1
      BY <2>4, <1>m DEF ApplyNet, Goto
    <3>2. \A k \in DOMAIN SubnetsOf[p] : ~(k < nth'[p])
      BY <3>1, Positions, Counting, Zenon
    <3> QED
      BY <1>1, <3>1, <3>2 DEF AsHeld
  <2>5. CASE ApplySubnet(p)
    <3> DEFINE n == SubnetsOf[p][nth[p]]
    <3>0. pc[p] = "subnets" /\ pc' = pc /\ nth' = [nth EXCEPT ![p] = @ + 1]
      BY <2>5 DEF ApplySubnet
    <3>1. Wanted(p) = n /\ Among(p) = SubnetIds
      BY <2>5 DEF ApplySubnet, Wanted, Among
    <3>2. /\ Find(SubnetIds', n) \subseteq theSubs'[p]
          /\ \A m : Find(SubnetIds, m) \subseteq theSubs[p] => Find(SubnetIds', m) \subseteq theSubs'[p]
      <4>1. CASE Exists(p) /\ subs' = subs /\ theSubs' = [theSubs EXCEPT ![p] = @ \cup Find(SubnetIds, n)]
        <5>1. SubnetIds' = SubnetIds /\ theSubs'[p] = theSubs[p] \cup Find(SubnetIds, n)
          BY <1>m, <4>1 DEF SubnetIds
        <5> QED
          BY <5>1
      <4>2. ASSUME absent[p], NEW net, subs' = subs \cup {[id |-> <<n, p>>, net |-> net]},
                   theSubs' = [theSubs EXCEPT ![p] = @ \cup {<<n, p>>}]
            PROVE  /\ Find(SubnetIds', n) \subseteq theSubs'[p]
                   /\ \A m : Find(SubnetIds, m) \subseteq theSubs[p]
                              => Find(SubnetIds', m) \subseteq theSubs'[p]
        <5>1. Find(SubnetIds, n) = {}
          BY <2>1, <3>1, <4>2 DEF AsApplied, Missing
        <5>2. SubnetIds' = SubnetIds \cup {<<n, p>>}
          <6> DEFINE made == [id |-> <<n, p>>, net |-> net]
          <6>1. made.id = <<n, p>> /\ subs' = subs \cup {made}
            BY <4>2
          <6> HIDE DEF made, n
          <6> QED
            BY <6>1 DEF SubnetIds
        <5>3. theSubs'[p] = theSubs[p] \cup {<<n, p>>}
          BY <1>m, <4>2
        <5> HIDE DEF n
        <5> QED
          BY <5>1, <5>2, <5>3 DEF Find
      <4> QED
        BY <2>5, <4>1, <4>2 DEF ApplySubnet
    <3>3. ASSUME NEW k \in DOMAIN SubnetsOf[p], k < nth'[p]
          PROVE  Find(SubnetIds', SubnetsOf[p][k]) \subseteq theSubs'[p]
      <4>1. k \in Nat /\ nth[p] \in Nat /\ nth'[p] = nth[p] + 1
        <5>1. nth[p] \in Nat /\ nth'[p] = nth[p] + 1
          BY <1>m, <3>0
        <5> QED
          BY <5>1, Positions, Zenon
      <4>2. k < nth[p] \/ k = nth[p]
        BY <3>3, <4>1, Counting, Zenon
      <4>3. k < nth[p] => Find(SubnetIds, SubnetsOf[p][k]) \subseteq theSubs[p]
        BY <2>1, <3>0, Zenon DEF AsHeld
      <4> QED
        BY <3>2, <4>2, <4>3
    <3> QED
      BY <1>1, <3>0, <3>3, Zenon DEF AsHeld
  <2>6. CASE SubnetsDone(p)
    <3>0. /\ pc[p] = "subnets" /\ nth[p] > Len(SubnetsOf[p]) /\ SubnetIds' = SubnetIds
          /\ theSubs' = theSubs
          /\ pc'[p] = "router" \/ (pc'[p] = "group" /\ RouterOf[p] = NoName)
      BY <2>6, <1>m DEF SubnetsDone, Goto, neutron, SubnetIds, held
    <3>1. \A k \in DOMAIN SubnetsOf[p] : k < nth[p]
      <4>1. nth[p] \in Nat
        BY <1>m
      <4> QED
        BY <3>0, <4>1, Positions, Counting, Zenon
    <3>2. \A n \in NamesOf(p) : Find(SubnetIds', n) \subseteq theSubs'[p]
      <4>1. \A k \in DOMAIN SubnetsOf[p] : Find(SubnetIds, SubnetsOf[p][k]) \subseteq theSubs[p]
        BY <2>1, <3>0, <3>1, Zenon DEF AsHeld
      <4> QED
        BY <3>0, <4>1 DEF NamesOf
    <3> QED
      BY <1>1, <3>0, <3>2 DEF AsHeld
  <2>7. CASE ApplyRouter(p)
    <3>0. pc[p] = "router" /\ pc'[p] = "attach" /\ SubnetIds' = SubnetIds /\ theSubs' = theSubs
      BY <2>7, <1>m DEF ApplyRouter, Goto, SubnetIds
    <3>1. Wanted(p) = RouterOf[p] /\ Among(p) = routers /\ RouterOf[p] # NoName
      BY <3>0 DEF Wanted, Among, PlaceInv
    <3>2. theRouter'[p] = Find(routers', RouterOf[p])
      <4>1. CASE Exists(p) /\ routers' = routers /\ theRouter' = [theRouter EXCEPT ![p] = Find(routers, RouterOf[p])]
        BY <1>m, <4>1
      <4>2. CASE /\ absent[p] /\ routers' = routers \cup {<<RouterOf[p], p>>}
                 /\ theRouter' = [theRouter EXCEPT ![p] = {<<RouterOf[p], p>>}]
        <5>1. Missing(routers, RouterOf[p])
          BY <2>1, <3>1, <4>2 DEF AsApplied
        <5>2. Find(routers \cup {<<RouterOf[p], p>>}, RouterOf[p]) = {<<RouterOf[p], p>>}
          BY <5>1 DEF Missing, Find
        <5> QED
          BY <1>m, <4>2, <5>2
      <4> QED
        BY <2>7, <4>1, <4>2 DEF ApplyRouter
    <3> QED
      BY <1>1, <2>1, <3>0, <3>1, <3>2 DEF AsHeld
  <2>8. CASE Attach(p)
    <3>0. /\ pc[p] = "attach" /\ pc'[p] = "group" /\ SubnetIds' = SubnetIds /\ routers' = routers
      BY <2>8, <1>m DEF Attach, Goto, SubnetIds
    <3>1. Interfaced(p)'
      <4>1. PICK failing \in SUBSET theSubs[p] :
              /\ skipped' = IF failing = {} THEN skipped \ {p} ELSE skipped \cup {p}
              /\ ifs' = ifs \cup {i \in theRouter[p] \X (theSubs[p] \ failing) : Attachable(i[1], i[2])}
        BY <2>8 DEF Attach
      <4>2. CASE failing # {}
        BY <4>1, <4>2 DEF Interfaced
      <4>3. CASE failing = {}
        <5>0. PICK r \in routers : Find(routers, RouterOf[p]) = {r}
          BY <2>1, <3>0 DEF AsApplied, AsHeld, Unique
        <5>1. theRouter[p] = {r} /\ r[1] = RouterOf[p]
          BY <2>1, <3>0, <5>0 DEF AsHeld, Find
        <5>2. ASSUME NEW t \in SubnetIds, t[1] \in NamesOf(p)
              PROVE  \E i \in ifs' : i[2] = t \/ (i[1][1] = RouterOf[p] /\ <<t[1], i[2][1]>> \in Overlaps)
          <6>1. t \in theSubs[p]
            BY <2>1, <3>0, <5>2 DEF AsHeld, Find
          <6>2. CASE Attachable(r, t)
            <7>1. <<r, t>> \in ifs'
              BY <4>1, <4>3, <5>1, <6>1, <6>2
            <7>2. <<r, t>>[2] = t
              OBVIOUS
            <7> QED
              BY <7>1, <7>2
          <6>3. CASE ~Attachable(r, t)
            <7>1. PICK i \in ifs : i[2] = t \/ (i[1] = r /\ <<t[1], i[2][1]>> \in Overlaps)
              BY <5>0, <5>2, <6>3 DEF Attachable
            <7>2. i \in ifs'
              BY <4>1
            <7> QED
              BY <5>1, <7>1, <7>2
          <6> QED
            BY <6>2, <6>3
        <5>3. NamesOf(p)' = NamesOf(p)
          BY DEF NamesOf
        <5> QED
          BY <3>0, <5>2, <5>3 DEF Interfaced
      <4> QED
        BY <4>2, <4>3
    <3> QED
      BY <1>1, <3>0, <3>1 DEF AsHeld
  <2>9. CASE ApplyGroup(p)
    <3>0. /\ pc[p] = "group" /\ pc'[p] \in {"idle", "rules"} /\ SubnetIds' = SubnetIds
          /\ UNCHANGED <<ifs, skipped>>
      BY <2>9, <1>m DEF ApplyGroup, Goto, End, SubnetIds, history
    <3>1. RouterOf[p] # NoName => Interfaced(p)'
      BY <2>1, <3>0, Zenon DEF AsHeld, Interfaced, NamesOf
    <3> QED
      BY <1>1, <1>3, <3>0, <3>1 DEF AsHeld
  <2> QED
    BY <2>2, <2>3, <2>4, <2>5, <2>6, <2>7, <2>8, <2>9
<1> QED
  BY <1>2, <1>3

\* No subnet name is used on two networks.
NamesApart ==
  \A p, q \in Blueprint : NetOf[p] # NetOf[q] => NamesOf(p) \cap NamesOf(q) = {}

\* What a repeated apply needs as well.
AppliedNInv == NInv /\ AbsentInv /\ GroupsInv /\ AppliedInv /\ HeldInv

\* The invariant of apply that the last theorem rests on.
THEOREM AppliedInductive == OnboardingSpec => []AppliedNInv
<1>1. OnboardingInit => AppliedNInv
  <2> SUFFICES ASSUME OnboardingInit PROVE AppliedNInv
    OBVIOUS
  <2>1. NInv
    BY OnboardingInitInv
  <2>2. AbsentInv /\ GroupsInv /\ AppliedInv /\ HeldInv
    BY DEF OnboardingInit, AbsentInv, GroupsInv, AppliedInv, HeldInv
  <2> QED
    BY <2>1, <2>2 DEF AppliedNInv
<1>2. AppliedNInv /\ [OnboardingStep]_ovars => AppliedNInv'
  <2> SUFFICES ASSUME AppliedNInv, [OnboardingStep]_ovars PROVE AppliedNInv'
    OBVIOUS
  <2>1. NInv /\ NInv'
    BY OnboardingStepInv DEF AppliedNInv
  <2>2. CASE UNCHANGED ovars
    <3>0. UNCHANGED <<nets, subs, routers, groups, ruleCount, pc, nth, absent, alone, cut,
                      ifs, theSubs, theRouter, skipped>>
      BY <2>2 DEF ovars, neutron, run, held, history
    <3>1. AbsentInv'
      BY <3>0, Zenon DEF AppliedNInv, AbsentInv, Wanted
    <3>2. GroupsInv'
      BY <3>0, Zenon DEF AppliedNInv, GroupsInv, RulesThere
    <3>3. \A p \in Blueprint : AsApplied(p)' = AsApplied(p)
      BY <3>0, Zenon DEF AsApplied, Wanted, Among, SubnetIds
    <3>4. AppliedInv'
      BY <3>0, <3>3, Zenon DEF AppliedNInv, AppliedInv
    <3>5. \A p \in Blueprint : AsHeld(p)' = AsHeld(p)
      BY <3>0, Zenon DEF AsHeld, Interfaced, SubnetIds
    <3>6. HeldInv'
      BY <3>0, <3>5, Zenon DEF AppliedNInv, HeldInv
    <3> QED
      BY <2>1, <3>1, <3>2, <3>4, <3>6 DEF AppliedNInv
  <2>3. ASSUME NEW p \in Blueprint, Acts(p) PROVE AppliedNInv'
    <3>1. AbsentInv' /\ GroupsInv'
      BY <2>1, <2>3, AbsentStep, GroupsStep DEF NInv, AppliedNInv
    <3>2. AppliedInv'
      BY <2>1, <2>3, AppliedStep DEF NInv, AppliedNInv
    <3>3. HeldInv'
      BY <2>1, <2>3, HeldStep DEF NInv, AppliedNInv
    <3> QED
      BY <2>1, <3>1, <3>2, <3>3 DEF AppliedNInv
  <2> QED
    BY <2>2, <2>3, Zenon DEF OnboardingStep, Acts
<1> QED
  BY <1>1, <1>2, PTL DEF OnboardingSpec

\* A lone run that ends with code 0 leaves what the spec names, and its subnets
\* attached, whatever was cut short before, if no subnet name is used twice;
\* rules that a run cut short has left out stay out.
THEOREM AppliedStays == ASSUME NamesApart PROVE OnboardingSpec => AppliedIsThere
<1>1. ASSUME AppliedNInv, [OnboardingStep]_ovars, NEW p \in Blueprint,
             Applies(p), alone[p]
      PROVE  Provided(p)'
  <2>0. NInv /\ OnboardingTypeOK
    BY <1>1 DEF AppliedNInv, NInv
  <2>a. pc[p] \in {"group", "rules"} /\ pc'[p] = "idle" /\ rc'[p] = 0
    BY <1>1 DEF Applies
  <2>1. PICK r \in Blueprint : Acts(r)
    <3>1. ~UNCHANGED ovars
      BY <2>a DEF ovars, run
    <3> QED
      BY <1>1, <3>1, Zenon DEF OnboardingStep, Acts
  <2>2. r = p
    <3>1. Steps(p)
      BY <2>a DEF Steps
    <3> QED
      BY <2>0, <2>1, <3>1, OwnSteps
  <2>3. ~Refused(p) /\ ~Dies(p)
    BY <2>0, <2>a, ZeroIsClean
  <2>5. ApplyGroup(p) \/ RulesDone(p)
    <3>1. ~LookInVain(p) /\ ~ApplyRule(p)
      BY <2>a DEF LookInVain, ApplyRule, run
    <3> QED
      BY <2>a, <2>1, <2>2, <2>3, <3>1 DEF Acts, Abort, Begin, Validate, ApplyNet, ApplySubnet, SubnetsDone,
         ApplyRouter, Attach, DeleteRouter, DeleteSubnet, SubnetsDeleted, DeleteNet, DeleteGroup
  <2>6. /\ UNCHANGED <<nets, subs, routers, ifs, groups, ruleCount, cut, skipped>>
        /\ \/ GroupOf[p] = NoName
           \/ pc[p] = "group" /\ Exists(p)
           \/ pc[p] = "rules" /\ RulesThere(p)
    <3>1. Goto(p, "rules") => pc'[p] = "rules"
      BY <2>0 DEF OnboardingTypeOK, Goto
    <3> QED
      BY <2>a, <2>5, <3>1 DEF ApplyGroup, RulesDone, neutron, history, RulesThere
  <2>7. AsApplied(p) /\ AsHeld(p)
    BY <1>1, <2>a DEF AppliedNInv, AppliedInv, HeldInv
  <2>8. /\ Unique(nets, NetOf[p])
        /\ RouterOf[p] # NoName => Unique(routers, RouterOf[p]) /\ Interfaced(p)
    BY <2>a, <2>7 DEF AsApplied, AsHeld
  <2>9. ASSUME NEW n \in NamesOf(p)
        PROVE  Unique(SubnetIds, n) /\ \A s \in subs : s.id[1] = n => s.net \in Find(nets, NetOf[p])
    <3>1. Unique(SubnetIds, n)
      BY <2>a, <2>7 DEF AsApplied
    <3>2. ASSUME NEW s \in subs, s.id[1] = n PROVE s.net \in Find(nets, NetOf[p])
      <4>1. n \in NamesOf(s.id[2]) /\ s.net[1] = NetOf[s.id[2]] /\ s.net \in nets
        BY <2>0, <3>2 DEF NInv, NamesInv
      <4>2. s.id[2] \in Blueprint
        BY <2>0 DEF OnboardingTypeOK, Subnet, Object
      <4>3. NetOf[s.id[2]] = NetOf[p]
        BY <4>1, <4>2 DEF NamesApart
      <4> QED
        BY <4>1, <4>3 DEF Find
    <3> QED
      BY <3>1, <3>2
  <2>10. GroupOf[p] # NoName => RulesComplete(GroupOf[p])
    <3>1. CASE pc[p] = "group" /\ Exists(p) /\ GroupOf[p] # NoName
      <4>1. PICK g \in groups : Find(groups, GroupOf[p]) = {g}
        BY <3>1 DEF Exists, Unique, Wanted, Among
      <4>2. g \in Object /\ g[1] = GroupOf[p]
        BY <2>0, <4>1 DEF OnboardingTypeOK, Find
      <4>3. g[2] \in Blueprint /\ g = <<GroupOf[p], g[2]>>
        BY <4>2 DEF Object
      <4>4. pc[g[2]] # "rules"
        BY <1>1, <2>0, <3>1, <4>3 DEF NInv, LoneInv
      <4>5. cut[g[2]] \/ RulesThere(g[2])
        BY <1>1, <4>4 DEF AppliedNInv, GroupsInv
      <4> QED
        BY <4>1, <4>3, <4>5, Zenon DEF RulesComplete, RulesThere
    <3>2. CASE pc[p] = "rules" /\ RulesThere(p)
      <4>1. Find(groups, GroupOf[p]) = {<<GroupOf[p], p>>}
        BY <2>7, <3>2 DEF AsApplied
      <4> QED
        BY <3>2, <4>1, Zenon DEF RulesComplete, RulesThere
    <3> QED
      BY <2>6, <3>1, <3>2
  <2>11. Provided(p)
    BY <2>8, <2>9, <2>10, Zenon DEF Provided
  <2>12. SubnetIds' = SubnetIds
    BY <2>6 DEF SubnetIds
  <2> QED
    BY <2>6, <2>11, <2>12, Zenon DEF Provided, RulesComplete, Interfaced
<1>2. AppliedNInv /\ [OnboardingStep]_ovars =>
        [\A p \in Blueprint : Applies(p) /\ alone[p] => Provided(p)']_ovars
  BY <1>1
<1>3. OnboardingSpec => []AppliedNInv
  BY AppliedInductive
<1> QED
  BY <1>2, <1>3, PTL DEF OnboardingSpec, AppliedIsThere
=============================================================================
