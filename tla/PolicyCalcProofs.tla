-------------------------- MODULE PolicyCalcProofs --------------------------
(***************************************************************************)
(* Proofs about PolicyCalc, for any number of layers and any policies.     *)
(*                                                                         *)
(* The loop invariant says of every operation what the visited layers say  *)
(* of it: allowMap and denyMap hold the operations that the nearest        *)
(* configured layer permits and denies, and an operation is in neither map *)
(* exactly when no visited layer configures it.  The third part makes the  *)
(* other two inductive: without it nothing links "in neither map" to       *)
(* "no nearer layer", which is what the next round decides by.             *)
(***************************************************************************)
EXTENDS PolicyCalc, FiniteSetTheorems, TLAPS

\* What the layers before n say of an operation.
Silent(n, o) ==
    \A j \in First..(n - 1) :
        ~Configured(j, o, "allow") /\ ~Configured(j, o, "deny")

PermittedBefore(n, o) ==
    \E k \in First..(n - 1) :
        Configured(k, o, "allow") /\ ~Configured(k, o, "deny") /\ Silent(k, o)

DeniedBefore(n, o) ==
    \E k \in First..(n - 1) : Configured(k, o, "deny") /\ Silent(k, o)

LoopInv ==
    \A o \in Op :
        /\ o \in allow["Check"] <=> PermittedBefore(layer, o)
        /\ o \in deny["Check"] <=> DeniedBefore(layer, o)
        /\ o \notin allow["Check"] \cup deny["Check"] <=> Silent(layer, o)

\* Every endpoint: no operation is in both maps, and obligations are those of
\* allowed operations.
MapsInv ==
    \A e \in Endpoint :
        /\ allow[e] \cap deny[e] = {}
        /\ OpsOf(collected[e]) \subseteq allow[e]

\* Two endpoints have come to the same maps.
Same(e, f) ==
    /\ allow[e] = allow[f]
    /\ deny[e] = deny[f]
    /\ collected[e] = collected[f]

Plain == \A en \in entries : en.cond = NoCond /\ en.layer \notin Above

AgreeInv ==
    /\ Same("GetResourceOperation", "ResourceFilter")
    /\ UnconditionalAbove => Same("ResourceFilter", "Check")
    /\ Plain => Same("GetResourceList", "Check")
    /\ wildcard => Same("GetResourceTypeOperation", "Check")

\* The part of the type invariant the proofs need.
MapTypes ==
    /\ entries \subseteq Entry
    /\ wildcard \in BOOLEAN
    /\ layer \in First..(Depth + 1)
    /\ allow \in [Endpoint -> SUBSET Op]
    /\ deny \in [Endpoint -> SUBSET Op]
    /\ collected \in [Endpoint -> SUBSET entries]

-----------------------------------------------------------------------------

\* There are layers, and the first one visited is one of them.
LEMMA DepthType == Depth \in Nat /\ Depth >= 2 /\ First \in 1..Depth
BY PolicyCalcAssumption DEF First, Star

\* Check evaluates a rule exactly as the reference does.
LEMMA CheckMatches ==
    ASSUME NEW en
    PROVE  Matches("Check", en) <=> Applies(en)
<1>1. Visits("Check", en.layer)
  BY DEF Visits
<1>2. DataOf("Check", en.layer) = IF wildcard THEN "nil" ELSE "instance"
  BY DEF DataOf
<1> QED
  BY <1>1, <1>2 DEF Matches, Applies, checkCondition

\* What Check finds in a layer, in the terms of the reference.
LEMMA CheckLayer ==
    ASSUME NEW k, NEW o
    PROVE  /\ o \in LayerDeny("Check", k) <=> Configured(k, o, "deny")
           /\ o \in OpsOf(LayerAllow("Check", k)) <=>
                 Configured(k, o, "allow") /\ ~Configured(k, o, "deny")
<1>1. o \in LayerDeny("Check", k) <=> Configured(k, o, "deny")
  BY CheckMatches DEF LayerDeny, OpsOf, Matching, Configured
<1>2. o \in OpsOf(LayerAllow("Check", k)) <=>
         \E en \in Matching("Check", k, "allow") :
             en.op = o /\ o \notin LayerDeny("Check", k)
  BY DEF OpsOf, LayerAllow
<1>3. (\E en \in Matching("Check", k, "allow") : en.op = o)
         <=> Configured(k, o, "allow")
  BY CheckMatches DEF Matching, Configured
<1> QED
  BY <1>1, <1>2, <1>3

\* What a layer adds to what the layers before it say.
LEMMA OneMoreLayer ==
    ASSUME NEW n \in First..Depth, NEW o
    PROVE  /\ Silent(n + 1, o) <=>
                 /\ Silent(n, o)
                 /\ ~Configured(n, o, "allow") /\ ~Configured(n, o, "deny")
           /\ PermittedBefore(n + 1, o) <=>
                 \/ PermittedBefore(n, o)
                 \/ /\ Configured(n, o, "allow") /\ ~Configured(n, o, "deny")
                    /\ Silent(n, o)
           /\ DeniedBefore(n + 1, o) <=>
                 \/ DeniedBefore(n, o)
                 \/ Configured(n, o, "deny") /\ Silent(n, o)
<1>1. First..((n + 1) - 1) = (First..(n - 1)) \cup {n}
  BY DepthType
<1> QED
  BY <1>1 DEF Silent, PermittedBefore, DeniedBefore

\* A round of the loop keeps the maps well typed.
LEMMA VisitTypes ==
    ASSUME MapTypes, VisitLayer
    PROVE  MapTypes'
<1>1. \A e \in Endpoint, k \in Layer :
         /\ LayerDeny(e, k) \subseteq Op
         /\ LayerAllow(e, k) \subseteq entries
         /\ OpsOf(LayerAllow(e, k)) \subseteq Op
  BY PolicyCalcAssumption DEF MapTypes, LayerDeny, LayerAllow, OpsOf, Matching, Entries
<1>2. deny' \in [Endpoint -> SUBSET Op]
  BY <1>1 DEF MapTypes, VisitLayer
<1>3. allow' \in [Endpoint -> SUBSET Op]
  BY <1>1 DEF MapTypes, VisitLayer
<1>4. collected' \in [Endpoint -> SUBSET entries]
  BY <1>1 DEF MapTypes, VisitLayer
<1>5. layer' \in First..(Depth + 1) /\ First' = First
  BY DepthType DEF MapTypes, VisitLayer, Layer, First, request
<1> QED
  BY <1>2, <1>3, <1>4, <1>5 DEF MapTypes, VisitLayer, request

\* One round of the loop, for one endpoint.
LEMMA VisitMaps ==
    ASSUME MapTypes, VisitLayer, NEW e \in Endpoint
    PROVE  /\ deny'[e] = deny[e] \cup (LayerDeny(e, layer) \ allow[e])
           /\ allow'[e] = allow[e] \cup (OpsOf(LayerAllow(e, layer)) \ deny'[e])
           /\ collected'[e] = collected[e] \cup {en \in LayerAllow(e, layer) :
                                                    en.op \notin deny'[e]}
BY DEF VisitLayer, MapTypes

\* A round of the loop keeps the loop invariant.
LEMMA VisitLoop ==
    ASSUME MapTypes, LoopInv, VisitLayer
    PROVE  LoopInv'
<1>1. layer \in First..Depth /\ layer' = layer + 1
  BY DepthType DEF MapTypes, VisitLayer, Layer
<1>2. entries' = entries /\ holds' = holds /\ wildcard' = wildcard
  BY DEF VisitLayer, request
<1> SUFFICES ASSUME NEW o \in Op
             PROVE  /\ o \in allow'["Check"] <=> PermittedBefore(layer, o)'
                    /\ o \in deny'["Check"] <=> DeniedBefore(layer, o)'
                    /\ o \notin allow'["Check"] \cup deny'["Check"]
                          <=> Silent(layer, o)'
  BY DEF LoopInv
<1>3. /\ Silent(layer, o)' <=> Silent(layer + 1, o)
      /\ PermittedBefore(layer, o)' <=> PermittedBefore(layer + 1, o)
      /\ DeniedBefore(layer, o)' <=> DeniedBefore(layer + 1, o)
  BY <1>1, <1>2
     DEF Silent, PermittedBefore, DeniedBefore, First, Configured, Applies
<1>4. /\ o \in deny'["Check"] <=>
            o \in deny["Check"] \/ (Configured(layer, o, "deny") /\ o \notin allow["Check"])
      /\ o \in allow'["Check"] <=>
            \/ o \in allow["Check"]
            \/ /\ Configured(layer, o, "allow") /\ ~Configured(layer, o, "deny")
               /\ o \notin deny'["Check"]
  BY VisitMaps, CheckLayer DEF Endpoint
<1>5. /\ o \in allow["Check"] <=> PermittedBefore(layer, o)
      /\ o \in deny["Check"] <=> DeniedBefore(layer, o)
      /\ o \notin allow["Check"] \cup deny["Check"] <=> Silent(layer, o)
  BY DEF LoopInv
<1> QED
  BY <1>1, <1>3, <1>4, <1>5, OneMoreLayer

\* A round of the loop keeps the two maps of every endpoint apart.
LEMMA VisitMapsInv ==
    ASSUME MapTypes, MapsInv, VisitLayer
    PROVE  MapsInv'
<1> SUFFICES ASSUME NEW e \in Endpoint
             PROVE  /\ allow'[e] \cap deny'[e] = {}
                    /\ OpsOf(collected[e])' \subseteq allow'[e]
  BY DEF MapsInv
<1>1. allow'[e] \cap deny'[e] = {}
  BY VisitMaps DEF MapsInv
<1>2. OpsOf(collected[e])' \subseteq allow'[e]
  BY VisitMaps DEF MapsInv, OpsOf
<1> QED
  BY <1>1, <1>2

\* Endpoints that agree on a layer agree after it.
LEMMA SameLayer ==
    ASSUME MapTypes, VisitLayer, NEW e \in Endpoint, NEW f \in Endpoint,
           Same(e, f),
           \A en \in entries : en.layer = layer => (Matches(e, en) <=> Matches(f, en))
    PROVE  Same(e, f)'
<1>1. \A effect : Matching(e, layer, effect) = Matching(f, layer, effect)
  BY DEF Matching
<1>2. LayerDeny(e, layer) = LayerDeny(f, layer)
  BY <1>1 DEF LayerDeny
<1>3. LayerAllow(e, layer) = LayerAllow(f, layer)
  BY <1>1, <1>2 DEF LayerAllow
<1>4. deny'[e] = deny'[f]
  BY <1>2, VisitMaps DEF Same
<1>5. allow'[e] = allow'[f]
  BY <1>3, <1>4, VisitMaps DEF Same
<1>6. collected'[e] = collected'[f]
  BY <1>3, <1>4, VisitMaps DEF Same
<1> QED
  BY <1>4, <1>5, <1>6 DEF Same

\* A round of the loop keeps the endpoints in agreement.
LEMMA VisitAgree ==
    ASSUME MapTypes, AgreeInv, VisitLayer
    PROVE  AgreeInv'
<1>1. entries' = entries /\ wildcard' = wildcard
  BY DEF VisitLayer, request
<1>2. ASSUME UnconditionalAbove
      PROVE  Same("ResourceFilter", "Check")'
  <2>1. ASSUME NEW en \in entries
        PROVE  Matches("ResourceFilter", en) <=> Matches("Check", en)
    BY <1>2 DEF UnconditionalAbove, Matches, Visits, DataOf, checkCondition
  <2> QED
    BY <1>2, <2>1, SameLayer DEF AgreeInv, Endpoint
<1>3. ASSUME Plain
      PROVE  Same("GetResourceList", "Check")'
  <2>1. ASSUME NEW en \in entries
        PROVE  Matches("GetResourceList", en) <=> Matches("Check", en)
    BY <1>3 DEF Plain, Matches, Visits
  <2> QED
    BY <1>3, <2>1, SameLayer DEF AgreeInv, Endpoint
<1>4. ASSUME wildcard
      PROVE  Same("GetResourceTypeOperation", "Check")'
  <2>1. layer = Star
    BY <1>4, DepthType DEF MapTypes, First, Star, VisitLayer, Layer
  <2>2. ASSUME NEW en \in entries, en.layer = layer
        PROVE  Matches("GetResourceTypeOperation", en) <=> Matches("Check", en)
    BY <1>4, <2>1, <2>2 DEF Matches, Visits, DataOf, checkCondition
  <2> QED
    BY <1>4, <2>2, SameLayer DEF AgreeInv, Endpoint
<1>5. Same("GetResourceOperation", "ResourceFilter")'
  <2>1. ASSUME NEW en \in entries
        PROVE  Matches("GetResourceOperation", en) <=> Matches("ResourceFilter", en)
    BY DEF Matches, Visits, DataOf, checkCondition
  <2> QED
    BY <2>1, SameLayer DEF AgreeInv, Endpoint
<1> QED
  BY <1>1, <1>2, <1>3, <1>4, <1>5 DEF AgreeInv, UnconditionalAbove, Plain

-----------------------------------------------------------------------------

Inv == MapTypes /\ LoopInv /\ MapsInv /\ AgreeInv

\* The invariant holds before the first layer.
LEMMA InitInv == Init => Inv
<1> SUFFICES ASSUME Init PROVE Inv
  OBVIOUS
<1>1. MapTypes
  BY DepthType DEF Init, MapTypes, First
<1>2. First..(layer - 1) = {}
  BY DepthType DEF Init, First, Star
<1>3. LoopInv
  BY <1>2 DEF Init, LoopInv, Silent, PermittedBefore, DeniedBefore, Endpoint
<1>4. MapsInv
  BY DEF Init, MapsInv, OpsOf
<1>5. AgreeInv
  BY DEF Init, AgreeInv, Same, Endpoint
<1> QED
  BY <1>1, <1>3, <1>4, <1>5 DEF Inv

\* Every step keeps the invariant: a round of the loop by the lemmas above,
\* an answer because it leaves the maps alone.
LEMMA NextInv == Inv /\ [Next]_vars => Inv'
<1> SUFFICES ASSUME Inv, [Next]_vars PROVE Inv'
  OBVIOUS
<1>1. CASE VisitLayer
  BY <1>1, VisitTypes, VisitLoop, VisitMapsInv, VisitAgree DEF Inv
<1>2. CASE UNCHANGED <<request, layer, allow, deny, collected>>
  <2>1. MapTypes'
    BY <1>2 DEF Inv, MapTypes, First, request
  <2>2. LoopInv'
    BY <1>2 DEF Inv, LoopInv, Silent, PermittedBefore, DeniedBefore, First,
                Configured, Applies, request
  <2>3. MapsInv'
    BY <1>2 DEF Inv, MapsInv, OpsOf
  <2>4. AgreeInv'
    BY <1>2 DEF Inv, AgreeInv, Same, UnconditionalAbove, Plain, request
  <2> QED
    BY <2>1, <2>2, <2>3, <2>4 DEF Inv
<1>3. CASE \E e \in Endpoint : Answer(e)
  BY <1>2, <1>3 DEF Answer
<1>4. CASE UNCHANGED vars
  BY <1>2, <1>4 DEF vars, request
<1> QED
  BY <1>1, <1>3, <1>4 DEF Next

\* For any number of layers and any policies, the loop of
\* calcResourceInheritedOperation grants through Check exactly what the
\* nearest configured layer permits.
THEOREM CheckIsNearest == Spec => []NearestLayerDecides
<1>1. Inv => NearestLayerDecides
  <2> SUFFICES ASSUME Inv, Done
               PROVE  allow["Check"] \ deny["Check"] = {o \in Op : Permitted(o)}
    BY DEF NearestLayerDecides
  <2>1. First..(layer - 1) = First..Depth
    BY DepthType DEF Done
  <2>2. \A o \in Op : Permitted(o) <=> PermittedBefore(layer, o)
    BY <2>1 DEF Permitted, PermittedBefore, Silent
  <2>3. allow["Check"] \subseteq Op /\ allow["Check"] \cap deny["Check"] = {}
    BY DEF Inv, MapTypes, MapsInv, Endpoint
  <2> QED
    BY <2>2, <2>3 DEF Inv, LoopInv
<1> QED
  BY <1>1, InitInv, NextInv, PTL DEF Spec

\* Separate endpoints give the same answer wherever their data cannot differ.
THEOREM EndpointsDoAgree == Spec => []EndpointsAgree
<1>1. Inv => EndpointsAgree
  BY DEF Inv, AgreeInv, EndpointsAgree, Same, Plain
<1> QED
  BY <1>1, InitInv, NextInv, PTL DEF Spec

\* No endpoint collects an obligation for an operation it does not grant.
THEOREM ObligationsFollowGrants == Spec => []ObligationsOfGrantsOnly
<1>1. Inv => ObligationsOfGrantsOnly
  BY DEF Inv, MapsInv, ObligationsOfGrantsOnly
<1> QED
  BY <1>1, InitInv, NextInv, PTL DEF Spec
-----------------------------------------------------------------------------
(* The obligations that Check returns.                                     *)

\* The entries collected for Check are those of the visited layers that allow
\* an operation which is allowed in the end.
CollectInv ==
    \A en \in entries :
        en \in collected["Check"] <=>
            /\ en.effect = "allow" /\ Applies(en)
            /\ en.layer \in First..(layer - 1)
            /\ ~Configured(en.layer, en.op, "deny")
            /\ en.op \in allow["Check"]

\* An entry of a layer that Check takes into account.
LEMMA CheckAllows ==
    ASSUME NEW k, NEW en \in entries
    PROVE  en \in LayerAllow("Check", k) <=>
              /\ en.layer = k /\ en.effect = "allow" /\ Applies(en)
              /\ ~Configured(k, en.op, "deny")
BY CheckMatches, CheckLayer DEF LayerAllow, Matching

\* A round of the loop collects the entries of its layer, and an entry of an
\* earlier layer stays in or out.
LEMMA VisitCollects ==
    ASSUME Inv, CollectInv, VisitLayer
    PROVE  CollectInv'
<1>1. layer \in First..Depth /\ layer' = layer + 1 /\ First \in Nat
  BY DepthType DEF Inv, MapTypes, VisitLayer, Layer
<1>2. entries' = entries /\ holds' = holds /\ wildcard' = wildcard
  BY DEF VisitLayer, request
<1>3. MapsInv'
  BY VisitMapsInv DEF Inv
<1> SUFFICES ASSUME NEW en \in entries
             PROVE  en \in collected'["Check"] <=>
                       /\ en.effect = "allow" /\ Applies(en)
                       /\ en.layer \in First..layer
                       /\ ~Configured(en.layer, en.op, "deny")
                       /\ en.op \in allow'["Check"]
  <2>1. layer' - 1 = layer
    BY <1>1
  <2> QED
    BY <1>2, <2>1 DEF CollectInv, Applies, Configured, First
<1>4. en.op \in Op
  BY PolicyCalcAssumption DEF Inv, MapTypes, Entries
<1>5. /\ deny["Check"] \subseteq deny'["Check"]
      /\ allow["Check"] \subseteq allow'["Check"]
      /\ allow'["Check"] = allow["Check"] \cup (OpsOf(LayerAllow("Check", layer)) \ deny'["Check"])
      /\ en \in collected'["Check"] <=>
            \/ en \in collected["Check"]
            \/ en \in LayerAllow("Check", layer) /\ en.op \notin deny'["Check"]
  BY VisitMaps DEF Inv, Endpoint
<1>6. allow'["Check"] \cap deny'["Check"] = {}
  BY <1>3 DEF MapsInv, Endpoint
<1>7. CASE en.layer = layer
  <2>1. en \notin collected["Check"]
    BY <1>1, <1>7 DEF CollectInv
  <2>2. en \in LayerAllow("Check", layer) <=>
           /\ en.effect = "allow" /\ Applies(en) /\ ~Configured(en.layer, en.op, "deny")
    BY <1>7, CheckAllows
  <2>3. en \in LayerAllow("Check", layer) => en.op \in OpsOf(LayerAllow("Check", layer))
    BY DEF OpsOf
  <2> QED
    BY <1>1, <1>5, <1>6, <1>7, <2>1, <2>2, <2>3
<1>8. CASE en.layer # layer
  <2>1. en \notin LayerAllow("Check", layer)
    BY <1>8, CheckAllows
  <2>2. en.layer \in First..layer <=> en.layer \in First..(layer - 1)
    BY <1>1, <1>8
  <2>3. ASSUME en.effect = "allow", Applies(en), en.layer \in First..(layer - 1)
        PROVE  en.op \in allow["Check"] <=> en.op \in allow'["Check"]
    <3>1. Configured(en.layer, en.op, "allow")
      BY <2>3 DEF Configured
    <3>2. en.op \in allow["Check"] \cup deny["Check"]
      BY <1>4, <2>3, <3>1 DEF Inv, LoopInv, Silent
    <3> QED
      BY <1>5, <1>6, <3>2
  <2> QED
    BY <1>5, <2>1, <2>2, <2>3 DEF CollectInv
<1> QED
  BY <1>7, <1>8

\* When the loop is done they are the ones in force.
LEMMA CollectedInForce ==
    ASSUME Inv, CollectInv, Done
    PROVE  InForce = {en \in collected["Check"] : en.obl # NoObl}
<1>1. First..(layer - 1) = First..Depth
  BY DepthType DEF Done
<1>2. \A o \in Op : Permitted(o) <=> o \in allow["Check"]
  <2>1. \A o \in Op : Permitted(o) <=> PermittedBefore(layer, o)
    BY <1>1 DEF Permitted, PermittedBefore, Silent
  <2> QED
    BY <2>1 DEF Inv, LoopInv
<1>3. \A en \in entries : en.op \in Op
  BY PolicyCalcAssumption DEF Inv, MapTypes, Entries
<1>4. collected["Check"] \subseteq entries
  BY DEF Inv, MapTypes, Endpoint
<1> QED
  BY <1>1, <1>2, <1>3, <1>4 DEF InForce, CollectInv

\* What calcObligationWithPriority returns for the entries S: for every
\* operation and type one of the strongest, unless it was deleted.
LEMMA Chosen ==
    ASSUME NEW S \in SUBSET Entry, NEW lookup \in BOOLEAN,
           NEW obls \in calcObligationWithPriority(S, lookup)
    PROVE  /\ \A en \in obls : /\ en \in S /\ en.obl # NoObl
                               /\ \A x \in Rivals(S, en) : en.prio <= x.prio
                               /\ Rivals(obls, en) = {en}
           /\ existing = ObligationIds \/ ~lookup =>
                 \A x \in S : x.obl # NoObl => Rivals(obls, x) # {}
           /\ lookup => \A en \in obls : en.obl.id \in existing \cup {NoId}
<1>1. PICK C \in SUBSET Strongest(S) :
         OnePerType(C, S) /\ obls = IF lookup THEN Existing(C) ELSE C
  BY DEF calcObligationWithPriority
<1>2. obls \subseteq C /\ \A en \in C : en \in S /\ en.obl # NoObl
  BY <1>1 DEF Existing, Strongest
<1>3. ASSUME NEW en \in S, en.obl # NoObl
      PROVE  \E x : Rivals(C, en) = {x}
  <2>1. IsFiniteSet(Rivals(C, en))
    <3>1. Rivals(C, en) \in SUBSET Entry
      BY <1>2 DEF Rivals
    <3> QED
      BY <3>1, PolicyCalcAssumption, FS_Subset
  <2>2. Cardinality(Rivals(C, en)) = 1
    BY <1>1, <1>3 DEF OnePerType
  <2> QED
    BY <2>1, <2>2, FS_Singleton
<1>4. ASSUME NEW en \in obls
      PROVE  /\ en \in S /\ en.obl # NoObl
             /\ \A x \in Rivals(S, en) : en.prio <= x.prio
             /\ Rivals(obls, en) = {en}
  <2>1. en \in C /\ en \in S /\ en.obl # NoObl
    BY <1>2, <1>4
  <2>2. \A x \in Rivals(S, en) : en.prio <= x.prio
    BY <1>1, <2>1 DEF Strongest
  <2>3. en \in Rivals(obls, en) /\ Rivals(obls, en) \subseteq Rivals(C, en)
    BY <1>2, <2>1 DEF Rivals
  <2> QED
    BY <1>3, <2>1, <2>2, <2>3
<1>5. ASSUME existing = ObligationIds \/ ~lookup
      PROVE  \A x \in S : x.obl # NoObl => Rivals(obls, x) # {}
  <2>1. obls = C
    <3>1. \A en \in C : en.obl.id \in ObligationIds \cup {NoId}
      <4>1. \A en \in C : en.obl \in Obligation
        BY <1>2, PolicyCalcAssumption DEF Entries
      <4> QED
        BY <4>1 DEF ObligationIds
    <3> QED
      BY <1>1, <1>5, <3>1 DEF Existing
  <2> QED
    BY <1>3, <2>1
<1>6. lookup => \A en \in obls : en.obl.id \in existing \cup {NoId}
  BY <1>1 DEF Existing
<1> QED
  BY <1>4, <1>5, <1>6

\* The answer says what is promised when it is given.
LEMMA AnswerStrongest ==
    ASSUME Inv, CollectInv, NEW e \in Endpoint, Answer(e)
    PROVE  StrongestObligation'
<1>1. Done /\ UNCHANGED <<request, layer, allow, deny, collected>>
  BY DEF Answer
<1>2. InForce' = InForce
  BY <1>1 DEF InForce, Permitted, Configured, Applies, First, request
<1>3. PICK S : S = collected[e]
  OBVIOUS
<1>4. S \in SUBSET Entry
  BY <1>3 DEF Inv, MapTypes
<1>0. PICK lookup \in BOOLEAN :
         \E obls \in calcObligationWithPriority(S, lookup) : \E ops, g :
            /\ g = Granted(e)
            /\ answer' = [by |-> e, lookup |-> lookup, granted |-> g, ops |-> ops,
                          obls |-> IF Granted(e) /\ e # "GetResourceTypeOperation"
                                   THEN obls ELSE {}]
  BY <1>3 DEF Answer
<1>5. PICK obls, ops, g :
         /\ obls \in calcObligationWithPriority(S, lookup)
         /\ g = Granted(e)
         /\ answer' = [by |-> e, lookup |-> lookup, granted |-> g, ops |-> ops,
                       obls |-> IF Granted(e) /\ e # "GetResourceTypeOperation"
                                THEN obls ELSE {}]
  BY <1>0
<1>6. PICK given : given = IF Granted(e) /\ e # "GetResourceTypeOperation" THEN obls ELSE {}
  OBVIOUS
<1>7. answer' = [by |-> e, lookup |-> lookup, granted |-> g, ops |-> ops, obls |-> given]
  BY <1>5, <1>6
<1>8. /\ answer'.by = e /\ answer'.lookup = lookup /\ answer'.granted = g
      /\ answer'.obls = given
  BY <1>7
<1>9. /\ \A en \in obls : /\ en \in S /\ en.obl # NoObl
                          /\ \A x \in Rivals(S, en) : en.prio <= x.prio
                          /\ Rivals(obls, en) = {en}
      /\ existing = ObligationIds \/ ~lookup =>
            \A x \in S : x.obl # NoObl => Rivals(obls, x) # {}
      /\ lookup => \A en \in obls : en.obl.id \in existing \cup {NoId}
  BY <1>4, <1>5, Chosen
<1>10. ASSUME e = "Check", Granted(e)
       PROVE  /\ \A en \in given :
                    /\ en \in InForce
                    /\ \A x \in Rivals(InForce, en) : en.prio <= x.prio
                    /\ Rivals(given, en) = {en}
              /\ existing = ObligationIds \/ ~lookup =>
                    \A x \in InForce : Rivals(given, x) # {}
  <2>1. given = obls
    BY <1>6, <1>10
  <2>2. InForce = {en \in S : en.obl # NoObl}
    BY <1>1, <1>3, <1>10, CollectedInForce
  <2>3. \A en : Rivals(InForce, en) = Rivals(S, en)
    BY <2>2 DEF Rivals
  <2> QED
    BY <1>9, <2>1, <2>2, <2>3
<1>11. lookup => \A en \in given : en.obl.id \in existing \cup {NoId}
  BY <1>6, <1>9
<1>12. existing' = existing
  BY <1>1 DEF request
<1>13. e = "Check" /\ g => e = "Check" /\ Granted(e)
  BY <1>5
<1> QED
  BY <1>2, <1>8, <1>10, <1>11, <1>12, <1>13 DEF StrongestObligation, Rivals

\* For any policies, priorities and conditions: Check returns for every
\* operation and type one of the accessor's obligations of highest priority
\* that are in force, and misses none that was not deleted.
THEOREM StrongestReturned == Spec => []StrongestObligation
<1> DEFINE All == Inv /\ CollectInv /\ (answer = NoAnswer \/ Done) /\ StrongestObligation
<1>1. Init => All
  <2> SUFFICES ASSUME Init
               PROVE  All
    OBVIOUS
  <2>1. CollectInv
    <3>1. First..(layer - 1) = {}
      BY DepthType DEF Init, First, Star
    <3>2. collected["Check"] = {}
      BY DEF Init, Endpoint
    <3> QED
      BY <3>1, <3>2 DEF CollectInv
  <2>2. answer = NoAnswer
    BY DEF Init
  <2>3. StrongestObligation
    BY <2>2 DEF StrongestObligation, NoAnswer
  <2> QED
    BY <2>1, <2>2, <2>3, InitInv
<1>2. All /\ [Next]_vars => All'
  <2> SUFFICES ASSUME All, [Next]_vars
               PROVE  All'
    OBVIOUS
  <2>1. Inv'
    BY NextInv
  <2>2. CASE VisitLayer
    <3>1. answer' = NoAnswer
      BY <2>2, DepthType DEF VisitLayer, Done, Layer
    <3>2. StrongestObligation'
      BY <3>1 DEF StrongestObligation, NoAnswer
    <3> QED
      BY <2>1, <2>2, <3>1, <3>2, VisitCollects
  <2>4. ASSUME NEW e \in Endpoint, Answer(e)
        PROVE  All'
    <3>1. UNCHANGED <<request, layer, allow, deny, collected>> /\ Done
      BY <2>4 DEF Answer
    <3>2. CollectInv'
      BY <3>1 DEF CollectInv, Applies, Configured, First, request
    <3>3. Done'
      BY <3>1 DEF Done
    <3> QED
      BY <2>1, <2>4, <3>2, <3>3, AnswerStrongest
  <2>5. CASE UNCHANGED vars
    <3>1. CollectInv'
      BY <2>5 DEF vars, CollectInv, Applies, Configured, First
    <3>2. (answer = NoAnswer \/ Done)'
      BY <2>5 DEF vars, Done
    <3>3. StrongestObligation'
      BY <2>5 DEF vars, StrongestObligation, Rivals, InForce, Permitted, Configured, Applies,
                  First
    <3> QED
      BY <2>1, <3>1, <3>2, <3>3
  <2> QED
    BY <2>2, <2>4, <2>5 DEF Next
<1>3. All => StrongestObligation
  OBVIOUS
<1> HIDE DEF All
<1> QED
  BY <1>1, <1>2, <1>3, PTL DEF Spec
=============================================================================
