-------------------------- MODULE NetworkOnboarding -------------------------
(***************************************************************************)
(* openstack/python/network_onboarding.py: validate a YAML spec against    *)
(* the region, then create what it names (network, subnets, router with    *)
(* interfaces, security group with rules), or tear it down.  One operator  *)
(* works on each spec; several may work at once.  A call that fails        *)
(* outside a try block ends the run where it is.                           *)
(*                                                                         *)
(* Everything is looked up by name, and Neutron's names are not unique: an *)
(* object is its name and the spec whose run made it.  What a spec can get *)
(* wrong by itself (pools, gateways, CIDR syntax, VLAN range) is one flag. *)
(* The specs are of one project.  --validate-only and --dry-run change     *)
(* nothing and are left out.                                               *)
(***************************************************************************)
EXTENDS Integers, Sequences, FiniteSets

CONSTANTS
  Blueprint,    \* the YAML specs
  Name,         \* names of networks, subnets, routers and groups
  NoName,       \* of a spec: it has no router, or no security group
  NetOf,        \* [Blueprint -> Name]
  Vlan,         \* [Blueprint -> segmentation id]
  SubnetsOf,    \* [Blueprint -> Seq(Name)]
  RouterOf,     \* [Blueprint -> Name or NoName]
  GroupOf,      \* [Blueprint -> Name or NoName]
  RulesOf,      \* [Blueprint -> number of rules]
  Overlaps,     \* pairs of subnet names whose CIDRs overlap
  Sound,        \* specs without a mistake of their own
  MaxBegins,    \* bound on invocations
  MaxCallFaults \* bound on calls that fail

ASSUME OnboardingAssumption ==
  /\ NoName \notin Name
  /\ NetOf \in [Blueprint -> Name]
  /\ SubnetsOf \in [Blueprint -> Seq(Name)]
  /\ RouterOf \in [Blueprint -> Name \cup {NoName}]
  /\ GroupOf \in [Blueprint -> Name \cup {NoName}]
  /\ RulesOf \in [Blueprint -> Nat]
  /\ Overlaps \subseteq Name \X Name
  /\ \A pair \in Overlaps : <<pair[2], pair[1]>> \in Overlaps
  /\ MaxBegins \in Nat /\ MaxCallFaults \in Nat

VARIABLES
  nets, subs, routers, ifs, groups, \* what Neutron has
  ruleCount, \* [Blueprint -> rules of the group its run made]
  pc,        \* [Blueprint -> where its run is]
  nth,       \* [Blueprint -> the subnet or rule its run has come to]
  absent,    \* [Blueprint -> its run has looked for the next object in vain]
  theNet,    \* [Blueprint -> the network its run found or made]
  theSubs,   \* [Blueprint -> created_subnets]
  theRouter, \* [Blueprint -> the router its run found or made]
  rc,        \* [Blueprint -> exit code of its last run]
  alone,     \* history: [Blueprint -> no other run since its run began]
  cut,       \* history: [Blueprint -> its group was left without all rules]
  skipped,   \* history: specs whose last attachments failed in part
  begins, callFaults

neutron == <<nets, subs, routers, ifs, groups, ruleCount>>
held    == <<theNet, theSubs, theRouter>>
run     == <<pc, nth, absent, held, rc>>
history == <<alone, cut, skipped>>
ovars   == <<neutron, run, history, begins, callFaults>>

Object == Name \X Blueprint
Subnet == [id : Object, net : Object]
Nothing == {}

DeleteStages == {"delete router", "delete subnets", "delete net", "delete group"}
Stages == {"idle", "validate", "net", "subnets", "router", "attach", "group", "rules",
           "validate delete"} \cup DeleteStages

OnboardingTypeOK ==
  /\ nets \in SUBSET Object
  /\ subs \in SUBSET Subnet
  /\ routers \in SUBSET Object
  /\ ifs \in SUBSET (Object \X Object)
  /\ groups \in SUBSET Object
  /\ ruleCount \in [Blueprint -> Nat]
  /\ pc \in [Blueprint -> Stages]
  /\ nth \in [Blueprint -> Nat]
  /\ absent \in [Blueprint -> BOOLEAN]
  /\ theNet \in [Blueprint -> SUBSET Object]
  /\ theSubs \in [Blueprint -> SUBSET Object]
  /\ theRouter \in [Blueprint -> SUBSET Object]
  /\ rc \in [Blueprint -> 0..2]
  /\ alone \in [Blueprint -> BOOLEAN]
  /\ cut \in [Blueprint -> BOOLEAN]
  /\ skipped \in SUBSET Blueprint
  /\ begins \in 0..MaxBegins
  /\ callFaults \in 0..MaxCallFaults

OnboardingInit ==
  /\ nets = {} /\ subs = {} /\ routers = {} /\ ifs = {} /\ groups = {}
  /\ ruleCount = [p \in Blueprint |-> 0]
  /\ pc = [p \in Blueprint |-> "idle"]
  /\ nth = [p \in Blueprint |-> 0]
  /\ absent = [p \in Blueprint |-> FALSE]
  /\ theNet = [p \in Blueprint |-> Nothing]
  /\ theSubs = [p \in Blueprint |-> {}]
  /\ theRouter = [p \in Blueprint |-> Nothing]
  /\ rc = [p \in Blueprint |-> 0]
  /\ alone = [p \in Blueprint |-> FALSE]
  /\ cut = [p \in Blueprint |-> FALSE]
  /\ skipped = {}
  /\ begins = 0 /\ callFaults = 0

CallFault == callFaults < MaxCallFaults /\ callFaults' = callFaults + 1

\* find_network and its kind: by name, over all projects; two are an error.
Find(objects, n) == {o \in objects : o[1] = n}
Missing(objects, n)   == Find(objects, n) = {}
Unique(objects, n)    == \E o \in objects : Find(objects, n) = {o}
Ambiguous(objects, n) == ~Missing(objects, n) /\ ~Unique(objects, n)

SubnetIds == {s.id : s \in subs}

Goto(p, stage) == pc' = [pc EXCEPT ![p] = stage]

\* The end of a run; what it held in memory is gone.
End(p, code) ==
  /\ Goto(p, "idle")
  /\ rc' = [rc EXCEPT ![p] = code]
  /\ nth' = [nth EXCEPT ![p] = 0]
  /\ absent' = [absent EXCEPT ![p] = FALSE]
  /\ theNet' = [theNet EXCEPT ![p] = Nothing]
  /\ theSubs' = [theSubs EXCEPT ![p] = {}]
  /\ theRouter' = [theRouter EXCEPT ![p] = Nothing]

\* An exception nobody catches.
Traceback(p) ==
  /\ End(p, 1)
  /\ cut' = [cut EXCEPT ![p] = @ \/ pc[p] = "rules"]

Begin(p, stage) ==
  /\ pc[p] = "idle" /\ begins < MaxBegins
  /\ begins' = begins + 1
  /\ Goto(p, stage)
  /\ alone' = [q \in Blueprint |->
       IF q = p THEN \A o \in Blueprint : pc[o] = "idle" ELSE FALSE]
  /\ UNCHANGED <<neutron, nth, absent, held, rc, cut, skipped, callFaults>>

-----------------------------------------------------------------------------
(* validate                                                                *)

VlanFree(p) == \A o \in nets : o[1] = NetOf[p] \/ Vlan[o[2]] # Vlan[p]

NamesOf(p) == {SubnetsOf[p][k] : k \in DOMAIN SubnetsOf[p]}

\* Mutant: the check is dropped.
NoOverlapUnchecked(p) == TRUE

\* Subnets of the same name are not compared, nor those of the spec itself.
NoOverlap(p) ==
  \A n \in NamesOf(p), o \in SubnetIds : o[1] # n => <<n, o[1]>> \notin Overlaps

Validate(p) ==
  /\ pc[p] \in {"validate", "validate delete"}
  /\ IF p \in Sound /\ VlanFree(p) /\ NoOverlap(p)
     THEN /\ Goto(p, IF pc[p] = "validate" THEN "net" ELSE "delete router")
          /\ UNCHANGED <<nth, absent, held, rc>>
     ELSE End(p, 2)
  /\ UNCHANGED <<neutron, history, begins, callFaults>>

-----------------------------------------------------------------------------
(* apply_spec                                                              *)

\* What the run has to look up where it is, and among what.
Wanted(p) ==
  CASE pc[p] = "net"     -> NetOf[p]
    [] pc[p] = "subnets" -> IF nth[p] <= Len(SubnetsOf[p]) THEN SubnetsOf[p][nth[p]] ELSE NoName
    [] pc[p] = "router"  -> RouterOf[p]
    [] pc[p] = "group"   -> GroupOf[p]
    [] OTHER             -> NoName

Among(p) ==
  CASE pc[p] = "net"     -> nets
    [] pc[p] = "subnets" -> SubnetIds
    [] pc[p] = "router"  -> routers
    [] pc[p] = "group"   -> groups
    [] OTHER             -> {}

\* The lookup and the creation are two calls: others may create in between.
LookInVain(p) ==
  /\ Wanted(p) # NoName /\ Missing(Among(p), Wanted(p))
  /\ ~absent[p]
  /\ absent' = [absent EXCEPT ![p] = TRUE]
  /\ UNCHANGED <<neutron, pc, nth, held, rc, history, begins, callFaults>>

\* Mutant: the first of several of a name is taken.
ExistsAny(p) == ~absent[p] /\ Find(Among(p), Wanted(p)) # {}

Exists(p) == ~absent[p] /\ Unique(Among(p), Wanted(p))

Looked(p) == absent' = [absent EXCEPT ![p] = FALSE]

\* Neutron refuses a second network on a VLAN.
ApplyNet(p) ==
  /\ pc[p] = "net"
  /\ \/ /\ Exists(p)
        /\ theNet' = [theNet EXCEPT ![p] = Find(nets, NetOf[p])]
        /\ UNCHANGED nets
     \/ /\ absent[p] /\ \A o \in nets : Vlan[o[2]] # Vlan[p]
        /\ nets' = nets \cup {<<NetOf[p], p>>}
        /\ theNet' = [theNet EXCEPT ![p] = {<<NetOf[p], p>>}]
  /\ Goto(p, "subnets")
  /\ nth' = [nth EXCEPT ![p] = 1]
  /\ Looked(p)
  /\ UNCHANGED <<subs, routers, ifs, groups, ruleCount, theSubs, theRouter, rc>>
  /\ UNCHANGED <<history, begins, callFaults>>

\* One round of the loop.  Neutron refuses a subnet on a network that is gone,
\* or one that overlaps another subnet of its network.
Fits(n, net) == \A s \in subs : s.net = net => <<n, s.id[1]>> \notin Overlaps

ApplySubnet(p) ==
  /\ pc[p] = "subnets" /\ nth[p] <= Len(SubnetsOf[p])
  /\ LET n == SubnetsOf[p][nth[p]]
     IN  \/ /\ Exists(p)
            /\ theSubs' = [theSubs EXCEPT ![p] = @ \cup Find(SubnetIds, n)]
            /\ UNCHANGED subs
         \/ \E net \in theNet[p] \cap nets :
              /\ absent[p] /\ Fits(n, net)
              /\ subs' = subs \cup {[id |-> <<n, p>>, net |-> net]}
              /\ theSubs' = [theSubs EXCEPT ![p] = @ \cup {<<n, p>>}]
  /\ nth' = [nth EXCEPT ![p] = @ + 1]
  /\ Looked(p)
  /\ UNCHANGED <<nets, routers, ifs, groups, ruleCount, pc, theNet, theRouter, rc>>
  /\ UNCHANGED <<history, begins, callFaults>>

SubnetsDone(p) ==
  /\ pc[p] = "subnets" /\ nth[p] > Len(SubnetsOf[p])
  /\ Goto(p, IF RouterOf[p] = NoName THEN "group" ELSE "router")
  /\ UNCHANGED <<neutron, nth, absent, held, rc, history, begins, callFaults>>

ApplyRouter(p) ==
  /\ pc[p] = "router"
  /\ \/ /\ Exists(p)
        /\ theRouter' = [theRouter EXCEPT ![p] = Find(routers, RouterOf[p])]
        /\ UNCHANGED routers
     \/ /\ absent[p]
        /\ routers' = routers \cup {<<RouterOf[p], p>>}
        /\ theRouter' = [theRouter EXCEPT ![p] = {<<RouterOf[p], p>>}]
  /\ Goto(p, "attach")
  /\ Looked(p)
  /\ UNCHANGED <<nets, subs, ifs, groups, ruleCount, nth, theNet, theSubs, rc>>
  /\ UNCHANGED <<history, begins, callFaults>>

\* Neutron refuses what is gone, what is attached and what overlaps.  Whatever
\* the reason, a refusal is a SKIPPED row and the run goes on.
Attachable(r, s) ==
  /\ r \in routers /\ s \in SubnetIds
  /\ \A i \in ifs : i[2] # s
  /\ \A i \in ifs : i[1] = r => <<s[1], i[2][1]>> \notin Overlaps

Attach(p) ==
  /\ pc[p] = "attach"
  /\ \E failing \in SUBSET theSubs[p] :
       /\ IF failing = {} THEN UNCHANGED callFaults ELSE CallFault
       /\ skipped' = IF failing = {} THEN skipped \ {p} ELSE skipped \cup {p}
       /\ ifs' = ifs \cup {i \in theRouter[p] \X (theSubs[p] \ failing) : Attachable(i[1], i[2])}
  /\ Goto(p, "group")
  /\ UNCHANGED <<nets, subs, routers, groups, ruleCount, nth, absent, held, rc>>
  /\ UNCHANGED <<alone, cut, begins>>

\* A group that exists is taken as it is: its rules are not looked at.
ApplyGroup(p) ==
  /\ pc[p] = "group"
  /\ \/ /\ GroupOf[p] = NoName \/ Exists(p)
        /\ End(p, 0)
        /\ UNCHANGED <<groups, ruleCount>>
     \/ /\ GroupOf[p] # NoName /\ absent[p]
        /\ groups' = groups \cup {<<GroupOf[p], p>>}
        /\ ruleCount' = [ruleCount EXCEPT ![p] = 0]
        /\ Goto(p, "rules") /\ Looked(p)
        /\ UNCHANGED <<nth, held, rc>>
  /\ UNCHANGED <<nets, subs, routers, ifs, history, begins, callFaults>>

ApplyRule(p) ==
  /\ pc[p] = "rules" /\ ruleCount[p] < RulesOf[p]
  /\ <<GroupOf[p], p>> \in groups
  /\ ruleCount' = [ruleCount EXCEPT ![p] = @ + 1]
  /\ UNCHANGED <<nets, subs, routers, ifs, groups, run, history, begins, callFaults>>

RulesDone(p) ==
  /\ pc[p] = "rules" /\ ruleCount[p] >= RulesOf[p]
  /\ End(p, 0)
  /\ UNCHANGED <<neutron, history, begins, callFaults>>

-----------------------------------------------------------------------------
(* delete_spec                                                             *)

\* The operator is asked first; a teardown that is not confirmed ends with
\* code 0.
Abort(p) ==
  /\ pc[p] = "delete router"
  /\ End(p, 0)
  /\ UNCHANGED <<neutron, history, begins, callFaults>>

RouterDeletable(p) ==
  /\ ~Ambiguous(routers, RouterOf[p])
  /\ Missing(routers, RouterOf[p]) \/ \A n \in NamesOf(p) : ~Ambiguous(SubnetIds, n)

\* Mutant: the router loses all its interfaces.
DeleteRouterWhole(p) ==
  /\ pc[p] = "delete router" /\ RouterDeletable(p)
  /\ LET old == Find(routers, RouterOf[p])
     IN  ifs' = {i \in ifs : i[1] \notin old} /\ routers' = routers \ old
  /\ Goto(p, "delete subnets")
  /\ nth' = [nth EXCEPT ![p] = 1]
  /\ UNCHANGED <<absent, held, rc, nets, subs, groups, ruleCount, history, begins, callFaults>>

\* The interfaces of its subnets are taken off, but for those that somebody uses
\* (the error is only logged); then the router is deleted, which Neutron refuses
\* while it has an interface.
DeleteRouter(p) ==
  /\ pc[p] = "delete router" /\ RouterDeletable(p)
  /\ LET old == Find(routers, RouterOf[p])
     IN  /\ \E off \in SUBSET {i \in ifs : i[1] \in old /\ i[2][1] \in NamesOf(p)} :
              ifs' = ifs \ off
         /\ \/ /\ \A i \in ifs' : i[1] \notin old
               /\ routers' = routers \ old
               /\ Goto(p, "delete subnets")
               /\ nth' = [nth EXCEPT ![p] = 1]
               /\ UNCHANGED <<absent, held, rc>>
            \/ /\ \E i \in ifs' : i[1] \in old
               /\ UNCHANGED routers
               /\ End(p, 1)
  /\ UNCHANGED <<nets, subs, groups, ruleCount, history, begins, callFaults>>

\* Neutron refuses to delete a subnet that has an interface.
SubnetDeletable(n) ==
  ~Ambiguous(SubnetIds, n) /\ \A i \in ifs : i[2] \notin Find(SubnetIds, n)

DeleteSubnet(p) ==
  /\ pc[p] = "delete subnets" /\ nth[p] <= Len(SubnetsOf[p])
  /\ LET n == SubnetsOf[p][nth[p]]
     IN  SubnetDeletable(n) /\ subs' = {s \in subs : s.id[1] # n}
  /\ nth' = [nth EXCEPT ![p] = @ + 1]
  /\ UNCHANGED <<nets, routers, ifs, groups, ruleCount, pc, absent, held, rc>>
  /\ UNCHANGED <<history, begins, callFaults>>

SubnetsDeleted(p) ==
  /\ pc[p] = "delete subnets" /\ nth[p] > Len(SubnetsOf[p])
  /\ Goto(p, "delete net")
  /\ UNCHANGED <<neutron, nth, absent, held, rc, history, begins, callFaults>>

\* Neutron deletes a network with its subnets unless one has an interface.
SubnetsOn(n) == {s \in subs : s.net[1] = n}

NetDeletable(p) ==
  /\ ~Ambiguous(nets, NetOf[p])
  /\ \A s \in SubnetsOn(NetOf[p]), i \in ifs : i[2] # s.id

DeleteNet(p) ==
  /\ pc[p] = "delete net" /\ NetDeletable(p)
  /\ subs' = subs \ SubnetsOn(NetOf[p])
  /\ nets' = nets \ Find(nets, NetOf[p])
  /\ Goto(p, "delete group")
  /\ UNCHANGED <<routers, ifs, groups, ruleCount, nth, absent, held, rc>>
  /\ UNCHANGED <<history, begins, callFaults>>

\* Mutant: the security group is left.
DeleteGroupNot(p) ==
  /\ pc[p] = "delete group"
  /\ End(p, 0)
  /\ UNCHANGED <<neutron, history, begins, callFaults>>

DeleteGroup(p) ==
  /\ pc[p] = "delete group"
  /\ ~Ambiguous(groups, GroupOf[p])
  /\ groups' = groups \ Find(groups, GroupOf[p])
  /\ cut' = [q \in Blueprint |-> cut[q] /\ <<GroupOf[q], q>> \in groups']
  /\ End(p, 0)
  /\ UNCHANGED <<nets, subs, routers, ifs, ruleCount, alone, skipped, begins, callFaults>>

-----------------------------------------------------------------------------

\* What a teardown has come to.
Doomed(p) ==
  CASE pc[p] = "delete router"  -> Find(routers, RouterOf[p])
    [] pc[p] = "delete subnets" ->
         IF nth[p] <= Len(SubnetsOf[p]) THEN Find(SubnetIds, SubnetsOf[p][nth[p]]) ELSE {}
    [] pc[p] = "delete net"     -> Find(nets, NetOf[p])
    [] pc[p] = "delete group"   -> Find(groups, GroupOf[p])
    [] OTHER                    -> {}

\* What Neutron, or a name that two objects answer to, makes a run end with a
\* traceback.  Whatever is to be deleted may be in use by ports of others.
Refused(p) ==
  /\ \/ ~absent[p] /\ Ambiguous(Among(p), Wanted(p))
     \/ pc[p] = "net" /\ absent[p] /\ \E o \in nets : Vlan[o[2]] = Vlan[p]
     \/ /\ pc[p] = "subnets" /\ absent[p]
        /\ ~\E net \in theNet[p] \cap nets : Fits(Wanted(p), net)
     \/ pc[p] = "rules" /\ <<GroupOf[p], p>> \notin groups
     \/ Doomed(p) # {}
  /\ Traceback(p)
  /\ UNCHANGED <<neutron, alone, skipped, begins, callFaults>>

\* A call fails, or the script is stopped.
Dies(p) ==
  /\ pc[p] # "idle"
  /\ CallFault
  /\ Traceback(p)
  /\ UNCHANGED <<neutron, alone, skipped, begins>>

OnboardingStep ==
  \E p \in Blueprint :
    \/ Begin(p, "validate") \/ Begin(p, "validate delete") \/ Validate(p)
    \/ LookInVain(p) \/ ApplyNet(p) \/ ApplySubnet(p) \/ SubnetsDone(p) \/ ApplyRouter(p) \/ Attach(p)
    \/ ApplyGroup(p) \/ ApplyRule(p) \/ RulesDone(p)
    \/ Abort(p) \/ DeleteRouter(p) \/ DeleteSubnet(p) \/ SubnetsDeleted(p) \/ DeleteNet(p) \/ DeleteGroup(p)
    \/ Refused(p) \/ Dies(p)

OnboardingSpec == OnboardingInit /\ [][OnboardingStep]_ovars

-----------------------------------------------------------------------------
(* What must hold of it                                                    *)

\* The blueprint whose run takes the step.
Steps(p) == <<pc[p], nth[p], ruleCount[p]>>' # <<pc[p], nth[p], ruleCount[p]>>

\* A run ends by itself with code 0, having applied its spec.
Applies(p) == pc[p] \in {"group", "rules"} /\ pc'[p] = "idle" /\ rc'[p] = 0

\* The rules of a group are all there, or a run died while it made them.
RulesComplete(n) ==
  \E q \in Blueprint : Find(groups, n) = {<<n, q>>} /\ (ruleCount[q] >= RulesOf[q] \/ cut[q])

\* Every subnet has an interface, unless its router has one that overlaps it or
\* the call that was to attach it failed.
Interfaced(p) ==
  p \in skipped \/ \A t \in SubnetIds : t[1] \in NamesOf(p) =>
    \E i \in ifs : i[2] = t \/ (i[1][1] = RouterOf[p] /\ <<t[1], i[2][1]>> \in Overlaps)

Provided(p) ==
  /\ Unique(nets, NetOf[p])
  /\ \A n \in NamesOf(p) :
       Unique(SubnetIds, n) /\ \A s \in subs : s.id[1] = n => s.net \in Find(nets, NetOf[p])
  /\ RouterOf[p] # NoName => Unique(routers, RouterOf[p]) /\ Interfaced(p)
  /\ GroupOf[p] # NoName => RulesComplete(GroupOf[p])

\* Whatever earlier runs were cut short and wherever, a run that ends with code
\* 0, while nobody else works in the region, leaves one of each object of the
\* spec, the subnets on its network, and their interfaces unless they were
\* refused or failed.  Rules are another matter: see RerunCompletes.
AppliedIsThere ==
  [][\A p \in Blueprint : Applies(p) /\ alone[p] => Provided(p)']_ovars

\* "Re-running is safe" (network_onboarding.py:7): a run that ends with code 0,
\* while nobody else works in the region, leaves the group that it or an earlier
\* run of its spec made with all its rules.
RerunCompletes ==
  [][\A p \in Blueprint :
       Applies(p) /\ alone[p] /\ <<GroupOf[p], p>> \in groups' => ruleCount'[p] >= RulesOf[p]]_ovars

\* "CIDR not overlapping an existing subnet in the project": what one run at a
\* time creates overlaps nothing of another spec.  Between the check and the
\* creation nothing else keeps it so.
NoOverlapAlone ==
  [][\A p \in Blueprint : \A s \in subs' \ subs, o \in subs :
       pc[p] = "subnets" /\ Steps(p) /\ alone[p] /\ o.id[1] \notin NamesOf(p)
         => <<s.id[1], o.id[1]>> \notin Overlaps]_ovars

\* Tearing a spec down takes no subnet and no interface of another spec that
\* shares no network and no subnet name with it, also when both use one router.
DeleteSparesOthers ==
  [][\A p, q \in Blueprint :
       /\ p # q /\ NetOf[p] # NetOf[q] /\ NamesOf(p) \cap NamesOf(q) = {}
       /\ pc[p] \in DeleteStages /\ Steps(p)
       =>
         /\ \A s \in subs : s.id[2] = q => s \in subs'
         /\ \A i \in ifs : i[2][2] = q => i \in ifs']_ovars

\* What a teardown is to leave: nothing under the names of the spec.
Gone(p) ==
  /\ Missing(nets, NetOf[p]) /\ Missing(routers, RouterOf[p]) /\ Missing(groups, GroupOf[p])
  /\ \A s \in subs : s.id[1] \notin NamesOf(p)

\* A teardown that ends with code 0, while nobody else works in the region, was
\* not confirmed and has changed nothing, or has left nothing under the names of
\* the spec: what is refused on the way never ends with code 0.
DeletedIsGone ==
  [][\A p \in Blueprint :
       pc[p] \in DeleteStages /\ pc'[p] = "idle" /\ rc'[p] = 0 /\ alone[p] =>
         (pc[p] = "delete router" /\ UNCHANGED neutron) \/ Gone(p)']_ovars
=============================================================================
