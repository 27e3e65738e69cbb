----------------------------- MODULE PolicyCalc -----------------------------
(***************************************************************************)
(* Evaluation of access policies (Authorization/logics/policy_calc.go) for *)
(* one accessor and one resource.  The policies of the resource lie in     *)
(* layers: 1 is the resource itself, the next ones its ancestors from the  *)
(* parent to the root (the resource IDs "parent/*"), and the last one is   *)
(* "*", every instance of the resource type.  A request for "*" itself     *)
(* starts at that layer.                                                   *)
(*                                                                         *)
(* The service answers through five endpoints that load and evaluate the   *)
(* same policies separately: Check, ResourceFilter, GetResourceOperation,  *)
(* GetResourceList and GetResourceTypeOperation.  They do not interact, so *)
(* one step of the model takes all five one layer further.                 *)
(*                                                                         *)
(* A row of t_policy is flattened to the triples the evaluation looks at:  *)
(* one entry for every operation (and obligation) of every allow and deny  *)
(* rule.  A condition (JsonLogic, external) is a Boolean for each data it  *)
(* may be evaluated with.                                                  *)
(***************************************************************************)
EXTENDS Integers, FiniteSets

CONSTANTS Depth,      \* the layers, "*" included
          Op,         \* operations of the resource type
          Cond,       \* conditions of rules
          NoCond,     \* the empty condition
          Obligation, \* records [type, id]: id is NoId for an inline value
          NoObl,      \* an operation without an obligation
          NoId,
          Entry,      \* the entries that may be configured
          TypeScope, InstanceScope   \* the scopes of operations

Layer   == 1..Depth
Above   == 2..(Depth - 1)
Star    == Depth
Data    == {"instance", "blank", "nil"}
Effects == {"allow", "deny"}

Entries == [layer : Layer, op : Op, effect : Effects, cond : Cond \cup {NoCond},
            prio : Nat, obl : Obligation \cup {NoObl}]

ASSUME PolicyCalcAssumption ==
    /\ Depth \in Nat /\ Depth >= 2
    /\ NoCond \notin Cond
    /\ NoObl \notin Obligation
    /\ Entry \subseteq Entries /\ IsFiniteSet(Entry)
    /\ TypeScope \subseteq Op /\ InstanceScope \subseteq Op
    /\ \A en \in Entry : en.effect = "deny" => en.obl = NoObl

Endpoint == {"Check", "ResourceFilter", "GetResourceOperation",
             "GetResourceList", "GetResourceTypeOperation"}

VARIABLES
    entries,    \* the unexpired policies of the accessor's access tokens
    holds,      \* what a condition yields on the data of the instance and on
                \* an empty map
    wildcard,   \* the request is for the resource "*"
    wanted,     \* the operations asked for
    existing,   \* the IDs of t_obligation
    layer,      \* the next layer to visit
    allow,      \* allowMap of an endpoint
    deny,       \* denyMap
    collected,  \* allowMapWithObligation
    answer      \* the answer of one of the endpoints

vars == <<entries, holds, wildcard, wanted, existing, layer, allow, deny,
          collected, answer>>

request == <<entries, holds, wildcard, wanted, existing>>

NoAnswer == [by |-> "none", granted |-> FALSE, ops |-> {}, obls |-> {},
             lookup |-> TRUE]

ObligationIds == {ob.id : ob \in Obligation} \ {NoId}

Init ==
    /\ entries \in SUBSET Entry
    /\ holds \in [Cond -> [{"instance", "blank"} -> BOOLEAN]]
    /\ wildcard \in BOOLEAN
    /\ wanted \in SUBSET Op
    /\ existing \in SUBSET ObligationIds
    /\ layer = IF wildcard THEN Star ELSE 1
    /\ allow = [e \in Endpoint |-> {}]
    /\ deny = [e \in Endpoint |-> {}]
    /\ collected = [e \in Endpoint |-> {}]
    /\ answer = NoAnswer

-----------------------------------------------------------------------------

\* Mutant: what ResourceFilter would do without the ID + "_*" results: the
\* "*" layer evaluated once for the whole batch.
DataOfShared(e, k) ==
    IF wildcard \/ e \in {"GetResourceList", "GetResourceTypeOperation"} THEN "nil"
    ELSE IF e # "Check" /\ k # 1 THEN "blank" ELSE "instance"

\* The data the conditions of a layer are evaluated with.  ResourceFilter and
\* GetResourceOperation build it for the IDs of the request and for "*"; an
\* ancestor gets an empty map.
DataOf(e, k) ==
    IF wildcard \/ e \in {"GetResourceList", "GetResourceTypeOperation"} THEN "nil"
    ELSE IF e # "Check" /\ k \in Above THEN "blank" ELSE "instance"

\* The layers an endpoint finds in resourcePermMap.  The query of
\* GetResourceList does not select f_ancestors, so it never asks for one, and
\* GetResourceTypeOperation loads the "*" rows only.
Visits(e, k) ==
    CASE e = "GetResourceList" -> k \notin Above
      [] e = "GetResourceTypeOperation" -> k = Star
      [] OTHER -> TRUE

\* checkCondition: nothing holds on nil data.
checkCondition(c, data) == data # "nil" /\ holds[c][data]

Matches(e, en) ==
    /\ Visits(e, en.layer)
    /\ en.cond = NoCond \/ checkCondition(en.cond, DataOf(e, en.layer))

Matching(e, k, effect) ==
    {en \in entries : en.layer = k /\ en.effect = effect /\ Matches(e, en)}

OpsOf(S) == {en.op : en \in S}

\* calcOneResourcePerm: within a layer a denied operation is not allowed.
LayerDeny(e, k)  == OpsOf(Matching(e, k, "deny"))
LayerAllow(e, k) == {en \in Matching(e, k, "allow") : en.op \notin LayerDeny(e, k)}

\* Mutant: a deny of an upper layer still counts.
VisitLayerDenyAlways ==
    /\ layer \in Layer
    /\ layer' = layer + 1
    /\ deny' = [e \in Endpoint |-> deny[e] \cup LayerDeny(e, layer)]
    /\ allow' = [e \in Endpoint |->
                    allow[e] \cup (OpsOf(LayerAllow(e, layer)) \ deny'[e])]
    /\ collected' = [e \in Endpoint |->
                        collected[e] \cup {en \in LayerAllow(e, layer) :
                                              en.op \notin deny'[e]}]
    /\ UNCHANGED <<request, answer>>

\* Mutant: obligations are collected from every layer that allows.
VisitLayerCollectAll ==
    /\ layer \in Layer
    /\ layer' = layer + 1
    /\ deny' = [e \in Endpoint |->
                   deny[e] \cup (LayerDeny(e, layer) \ allow[e])]
    /\ allow' = [e \in Endpoint |->
                    allow[e] \cup (OpsOf(LayerAllow(e, layer)) \ deny'[e])]
    /\ collected' = [e \in Endpoint |->
                        collected[e] \cup LayerAllow(e, layer)]
    /\ UNCHANGED <<request, answer>>

\* One round of the loop of calcResourceInheritedOperation(Ex): first the
\* denied operations of the layer, then the allowed ones.
VisitLayer ==
    /\ layer \in Layer
    /\ layer' = layer + 1
    /\ deny' = [e \in Endpoint |->
                   deny[e] \cup (LayerDeny(e, layer) \ allow[e])]
    /\ allow' = [e \in Endpoint |->
                    allow[e] \cup (OpsOf(LayerAllow(e, layer)) \ deny'[e])]
    /\ collected' = [e \in Endpoint |->
                        collected[e] \cup {en \in LayerAllow(e, layer) :
                                              en.op \notin deny'[e]}]
    /\ UNCHANGED <<request, answer>>

-----------------------------------------------------------------------------
(* The answer, once the loop is done.                                      *)

Done == layer = Depth + 1

\* The entries that compete for one operation and one obligation type.
Rivals(S, en) ==
    {x \in S : x.op = en.op /\ x.obl # NoObl /\ x.obl.type = en.obl.type}

\* Mutant: without the sort.
FirstRivals(S) == {en \in S : en.obl # NoObl}

\* The entries that come first after the sort by priority; sort.Slice may
\* put entries of one priority in any order.
Strongest(S) ==
    {en \in S : en.obl # NoObl /\ \A x \in Rivals(S, en) : en.prio <= x.prio}

\* rTmp: one entry for every operation and obligation type.
OnePerType(C, S) ==
    \A en \in S : en.obl # NoObl => Cardinality(Rivals(C, en)) = 1

\* Named obligations that have been deleted are dropped.
Existing(C) == {en \in C : en.obl.id \in existing \cup {NoId}}

\* What calcObligationWithPriority may return.  When the lookup of the IDs
\* fails, the entries come back unfiltered.
calcObligationWithPriority(S, lookup) ==
    {IF lookup THEN Existing(C) ELSE C :
        C \in {D \in SUBSET Strongest(S) : OnePerType(D, S)}}

\* Check, ResourceFilter and GetResourceList grant when every operation asked
\* for is allowed and none denied.  GetResourceList goes over the resources
\* that have a policy of their own.
Granted(e) ==
    /\ e \in {"Check", "ResourceFilter", "GetResourceList"} =>
          wanted \subseteq allow[e] \ deny[e]
    /\ e = "GetResourceList" =>
          \E en \in entries : en.layer = IF wildcard THEN Star ELSE 1

\* checkOperationScope
ScopeOf(e) ==
    CASE e = "GetResourceTypeOperation" -> TypeScope
      [] e = "GetResourceOperation" -> IF wildcard THEN TypeScope ELSE InstanceScope
      [] OTHER -> Op

Answer(e) ==
    /\ Done
    /\ answer = NoAnswer
    /\ \E lookup \in BOOLEAN :
       \E obls \in calcObligationWithPriority(collected[e], lookup) :
          answer' = [by |-> e, lookup |-> lookup, granted |-> Granted(e),
                     ops |-> IF Granted(e) THEN allow[e] \cap ScopeOf(e) ELSE {},
                     obls |-> IF Granted(e) /\ e # "GetResourceTypeOperation"
                              THEN obls ELSE {}]
    /\ UNCHANGED <<request, layer, allow, deny, collected>>

Next == VisitLayer \/ \E e \in Endpoint : Answer(e)

Spec == Init /\ [][Next]_vars

-----------------------------------------------------------------------------
(* The reference: what the configured layers say of an operation, without  *)
(* the loop.  "Nearest first: what a lower layer configures, an upper one  *)
(* does not change"; within a layer a deny counts first.                   *)

Applies(en) ==
    en.cond = NoCond \/ (~wildcard /\ holds[en.cond]["instance"])

Configured(k, o, effect) ==
    \E en \in entries : /\ en.layer = k /\ en.op = o /\ en.effect = effect
                        /\ Applies(en)

First == IF wildcard THEN Star ELSE 1

Permitted(o) ==
    \E k \in First..Depth :
        /\ Configured(k, o, "allow") /\ ~Configured(k, o, "deny")
        /\ \A j \in First..(k - 1) :
              ~Configured(j, o, "allow") /\ ~Configured(j, o, "deny")

-----------------------------------------------------------------------------
(* Properties.                                                             *)

\* The types of the request, of the two maps of every endpoint and of the
\* answer.
TypeOK ==
    /\ entries \subseteq Entry
    /\ holds \in [Cond -> [{"instance", "blank"} -> BOOLEAN]]
    /\ wildcard \in BOOLEAN
    /\ wanted \subseteq Op
    /\ existing \subseteq ObligationIds
    /\ layer \in First..(Depth + 1)
    /\ allow \in [Endpoint -> SUBSET Op]
    /\ deny \in [Endpoint -> SUBSET Op]
    /\ collected \in [Endpoint -> SUBSET entries]
    /\ answer \in [by : Endpoint \cup {"none"}, granted : BOOLEAN,
                   ops : SUBSET Op, obls : SUBSET entries, lookup : BOOLEAN]

\* Check grants exactly the operations that the nearest configured layer
\* permits: the loop over the layers, which mixes the two maps of all layers,
\* computes the documented "nearest first, deny first" rule.
NearestLayerDecides ==
    Done => allow["Check"] \ deny["Check"] = {o \in Op : Permitted(o)}

UnconditionalAbove ==
    \A en \in entries : en.layer \in Above => en.cond = NoCond

\* Endpoints that load and evaluate the policies separately come to the same
\* answer: GetResourceOperation and ResourceFilter always, so that what a user
\* is offered is what a filter grants; these two and Check while no ancestor
\* has a condition; GetResourceList and Check while there are no conditions
\* and nothing is inherited from an ancestor; GetResourceTypeOperation and a
\* Check of "*" always.
EndpointsAgree ==
    Done =>
        /\ allow["GetResourceOperation"] = allow["ResourceFilter"]
        /\ collected["GetResourceOperation"] = collected["ResourceFilter"]
        /\ UnconditionalAbove =>
              /\ allow["ResourceFilter"] = allow["Check"]
              /\ collected["ResourceFilter"] = collected["Check"]
        /\ (\A en \in entries : en.cond = NoCond /\ en.layer \notin Above) =>
              allow["GetResourceList"] = allow["Check"]
        /\ wildcard => allow["GetResourceTypeOperation"] = allow["Check"]

\* Obligations are collected from upper layers too, but never for an
\* operation that is not granted in the end.
ObligationsOfGrantsOnly ==
    \A e \in Endpoint : OpsOf(collected[e]) \subseteq allow[e] \ deny[e]

\* The obligations in force for an operation: those of the layers that allow
\* it, when the nearest one permits it.
InForce ==
    {en \in entries : /\ en.effect = "allow" /\ en.obl # NoObl /\ Applies(en)
                      /\ en.layer \in First..Depth
                      /\ ~Configured(en.layer, en.op, "deny")
                      /\ Permitted(en.op)}

\* Check returns for every operation and type one of the obligations of the
\* accessor of highest priority (user before role before group before
\* department before everyone), and none is missing unless a named obligation
\* was deleted; every endpoint returns only obligations that exist, unless
\* their lookup failed.
StrongestObligation ==
    /\ answer.by = "Check" /\ answer.granted =>
        /\ \A en \in answer.obls :
              /\ en \in InForce
              /\ \A x \in Rivals(InForce, en) : en.prio <= x.prio
              /\ Rivals(answer.obls, en) = {en}
        /\ existing = ObligationIds \/ ~answer.lookup =>
              \A x \in InForce : Rivals(answer.obls, x) # {}
    /\ answer.lookup => \A en \in answer.obls : en.obl.id \in existing \cup {NoId}
=============================================================================
