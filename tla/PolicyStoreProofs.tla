------------------------- MODULE PolicyStoreProofs --------------------------
(***************************************************************************)
(* Proofs about PolicyStore: its type invariant, the two invariants and the*)
(* three action properties of the run PolicyStore_races, for any number of *)
(* requests, accessors, rules and faults.                                  *)
(***************************************************************************)
EXTENDS PolicyStore, FiniteSetTheorems, TLAPS

-----------------------------------------------------------------------------
(* Merging: what becomes of rules.                                         *)

\* A policy, field by field.
LEMMA PolicyFields ==
    /\ \A p \in Policy : /\ p.acc \in Accessor /\ p.end \in Ends
                         /\ p.allow \in Rules /\ p.deny \in Rules
    /\ \A a \in Accessor, e \in Ends, s, t \in Rules :
          [acc |-> a, end |-> e, allow |-> s, deny |-> t] \in Policy
  BY DEF Policy

\* Some of the rules of a policy.
LEMMA SomeRules ==
    ASSUME NEW R \in Rules, NEW S \in SUBSET R PROVE S \in Rules
  BY DEF Rules

\* The rules with a condition and those without are some of the rules.
LEMMA PartRules ==
    ASSUME NEW R \in Rules
    PROVE  /\ Unconditional(R) \in Rules /\ Conditional(R) \in Rules
           /\ \A t \in Unconditional(R) : t \in R /\ t.cond = Always
           /\ \A t \in Conditional(R) : t \in R /\ t.cond # Always
  BY SomeRules DEF Unconditional, Conditional

\* A rule takes the place of the one for its condition and operation.
LEMMA OverrideRules ==
    ASSUME NEW R \in Rules, NEW S \in Rules
    PROVE  /\ Override(R, S) \in Rules
           /\ S \subseteq Override(R, S) /\ Override(R, S) \subseteq R \cup S
           /\ \A t \in R : t \in Override(R, S) \/ \E s \in S : s.cond = t.cond /\ s.op = t.op
  BY DEF Override, Rules

\* Rules without a condition do not meet those with one.
LEMMA UnionRules ==
    ASSUME NEW R \in Rules, NEW S \in Rules,
           \A t \in R : t.cond = Always, \A t \in S : t.cond # Always
    PROVE  /\ R \cup S \in Rules
           /\ Unconditional(R \cup S) = R /\ Conditional(R \cup S) = S
  BY DEF Rules, Unconditional, Conditional

\* The operations of rules.
LEMMA OpsOf ==
    /\ \A R, o : o \in Ops(R) <=> \E t \in R : t.op = o
    /\ \A R, S : Ops(R \cup S) = Ops(R) \cup Ops(S)
  BY DEF Ops

\* A policy of Create or Update has no rule with a condition.
LEMMA ValidRules ==
    ASSUME NEW p \in Policy, Valid(p)
    PROVE  /\ \A t \in p.allow \cup p.deny : t.cond = Always
           /\ Unconditional(p.allow) = p.allow /\ Unconditional(p.deny) = p.deny
           /\ Ops(p.allow) \cap Ops(p.deny) = {}
  BY DEF Valid, Unconditional, Conditional

\* The sooner of two ends.
LEMMA MinEnd ==
    ASSUME NEW e \in Ends, NEW f \in Ends
    PROVE  /\ calcMinEndTime(e, f) \in Ends
           /\ e = Forever \/ calcMinEndTime(e, f) \in 0..e
           /\ calcMinEndTime(e, f) \in {e, f}
  BY PolicyStoreAssumption DEF calcMinEndTime, Ends, Forever

\* What Create makes of a row: denials and permissions are united, denials
\* first; rules with a condition stay.
LEMMA MergeEffect ==
    ASSUME NEW old \in Policy, NEW p \in Policy, Valid(p)
    PROVE  LET m == mergeNewPolicy(old, p)
               denied == Ops(Unconditional(old.deny)) \cup Ops(p.deny)
           IN  /\ m \in Policy /\ m.acc = old.acc
               /\ m.end = calcMinEndTime(old.end, p.end)
               /\ Conditional(m.allow) = Conditional(old.allow)
               /\ Conditional(m.deny) = Conditional(old.deny)
               /\ Ops(Unconditional(m.deny)) = denied
               /\ Ops(Unconditional(m.allow)) =
                     (Ops(Unconditional(old.allow)) \cup Ops(p.allow)) \ denied
               /\ \A t \in p.allow : t.op \notin denied => t \in m.allow
  <1> DEFINE ud == Unconditional(old.deny)
             ua == Unconditional(old.allow)
             cd == Conditional(old.deny)
             ca == Conditional(old.allow)
             deny == Override(ud, p.deny)
             over == Override(ua, p.allow)
             allow == {t \in over : t.op \notin Ops(deny)}
             m == mergeNewPolicy(old, p)
  <1>1. /\ old.acc \in Accessor /\ old.end \in Ends /\ p.end \in Ends
        /\ old.allow \in Rules /\ old.deny \in Rules
        /\ p.allow \in Rules /\ p.deny \in Rules
    BY PolicyFields
  <1>2. /\ ud \in Rules /\ ua \in Rules /\ cd \in Rules /\ ca \in Rules
        /\ \A t \in ud \cup ua : t.cond = Always
        /\ \A t \in cd \cup ca : t.cond # Always
    BY <1>1, PartRules
  <1>3. /\ \A t \in p.allow \cup p.deny : t.cond = Always
        /\ Ops(p.allow) \cap Ops(p.deny) = {}
    BY ValidRules
  <1>4. m = [acc |-> old.acc, end |-> calcMinEndTime(old.end, p.end),
             allow |-> allow \cup ca, deny |-> deny \cup cd]
    BY DEF mergeNewPolicy
  <1> HIDE DEF m, ud, ua, cd, ca
  <1>5. /\ deny \in Rules /\ p.deny \subseteq deny /\ deny \subseteq ud \cup p.deny
        /\ \A t \in ud : t \in deny \/ \E s \in p.deny : s.cond = t.cond /\ s.op = t.op
        /\ over \in Rules /\ p.allow \subseteq over /\ over \subseteq ua \cup p.allow
        /\ \A t \in ua : t \in over \/ \E s \in p.allow : s.cond = t.cond /\ s.op = t.op
    BY <1>1, <1>2, OverrideRules
  <1> HIDE DEF deny, over
  <1>6. allow \in Rules /\ allow \subseteq over
    BY <1>5, SomeRules
  <1>7. /\ \A t \in deny : t.cond = Always
        /\ \A t \in allow : t.cond = Always
    BY <1>2, <1>3, <1>5
  <1>8. Ops(deny) = Ops(ud) \cup Ops(p.deny)
    BY <1>5, OpsOf
  <1>9. Ops(allow) = (Ops(ua) \cup Ops(p.allow)) \ Ops(deny)
    <2>1. \A o : o \in Ops(over) <=> o \in Ops(ua) \/ o \in Ops(p.allow)
      BY <1>5, OpsOf
    <2>2. \A o : o \in Ops(allow) <=> o \in Ops(over) /\ o \notin Ops(deny)
      BY OpsOf
    <2> QED BY <2>1, <2>2
  <1> HIDE DEF allow
  <1>10. /\ allow \cup ca \in Rules
         /\ Unconditional(allow \cup ca) = allow /\ Conditional(allow \cup ca) = ca
    BY <1>2, <1>6, <1>7, UnionRules
  <1>11. /\ deny \cup cd \in Rules
         /\ Unconditional(deny \cup cd) = deny /\ Conditional(deny \cup cd) = cd
    BY <1>2, <1>5, <1>7, UnionRules
  <1>12. m \in Policy
    BY <1>1, <1>4, <1>10, <1>11, MinEnd, PolicyFields
  <1>13. \A t \in p.allow : t.op \notin Ops(deny) => t \in allow
    BY <1>5 DEF allow
  <1>14. /\ m.acc = old.acc /\ m.end = calcMinEndTime(old.end, p.end)
         /\ m.allow = allow \cup ca /\ m.deny = deny \cup cd
    BY <1>4
  <1> QED BY <1>8, <1>9, <1>10, <1>11, <1>12, <1>13, <1>14 DEF m, ud, ua, cd, ca

\* What a starting replica makes of a row is a policy of the accessor.
LEMMA MergeConditionEffect ==
    ASSUME NEW old \in Policy, NEW p \in Policy
    PROVE  /\ mergeNewPolicyWithCondition(old, p) \in Policy
           /\ mergeNewPolicyWithCondition(old, p).acc = old.acc
  <1>1. /\ old.acc \in Accessor /\ old.end \in Ends /\ p.end \in Ends
        /\ old.allow \in Rules /\ old.deny \in Rules
        /\ p.allow \in Rules /\ p.deny \in Rules
    BY PolicyFields
  <1>2. Override(old.allow, p.allow) \in Rules /\ Override(old.deny, p.deny) \in Rules
    BY <1>1, OverrideRules
  <1> QED BY <1>1, <1>2, MinEnd, PolicyFields DEF mergeNewPolicyWithCondition

\* Update and Delete leave the rules with a condition alone.
LEMMA OverwriteEffect ==
    ASSUME NEW old \in Policy, NEW c \in Policy, Valid(c)
    PROVE  /\ Overwrite(old, c) \in Policy /\ Overwrite(old, c).acc = old.acc
           /\ Conditional(Overwrite(old, c).allow) = Conditional(old.allow)
           /\ Conditional(Overwrite(old, c).deny) = Conditional(old.deny)
  <1>1. /\ old.acc \in Accessor /\ c.end \in Ends
        /\ old.allow \in Rules /\ old.deny \in Rules
        /\ c.allow \in Rules /\ c.deny \in Rules
    BY PolicyFields
  <1>2. \A R \in Rules, S \in Rules : (\A t \in R : t.cond = Always) =>
           R \cup Conditional(S) \in Rules /\ Conditional(R \cup Conditional(S)) = Conditional(S)
    BY PartRules, UnionRules
  <1>3. /\ c.allow \cup Conditional(old.allow) \in Rules
        /\ c.deny \cup Conditional(old.deny) \in Rules
        /\ Conditional(c.allow \cup Conditional(old.allow)) = Conditional(old.allow)
        /\ Conditional(c.deny \cup Conditional(old.deny)) = Conditional(old.deny)
    BY <1>1, <1>2, ValidRules
  <1> QED BY <1>1, <1>3, PolicyFields DEF Overwrite

\* The rules of a row that Strip leaves.
LEMMA StripEffect ==
    ASSUME NEW old \in Policy
    PROVE  /\ Strip(old) \in Policy /\ Strip(old).acc = old.acc
           /\ Conditional(Strip(old).allow) = Conditional(old.allow)
           /\ Conditional(Strip(old).deny) = Conditional(old.deny)
  <1>1. old.allow \in Rules /\ old.deny \in Rules
    BY PolicyFields
  <1>2. Conditional(old.allow) \in Rules /\ Conditional(old.deny) \in Rules
    BY <1>1, PartRules
  <1>3. \A R : Conditional(Conditional(R)) = Conditional(R)
    BY DEF Conditional
  <1> QED BY <1>2, <1>3 DEF Strip, Policy
-----------------------------------------------------------------------------
(* Types, and what requests hold.                                          *)

\* The shape of the state; every table and every request is finite.
Shape ==
    /\ pc \in [Worker -> {"idle", "read", "write"}]
    /\ job \in [Worker -> {"none", "create", "update", "delete", "init"}]
    /\ req \in [Worker -> SUBSET Policy] /\ new \in [Worker -> SUBSET Policy]
    /\ DOMAIN upd = Worker /\ del \in [Worker -> SUBSET PolicyID]
    /\ stale \in [Worker -> SUBSET Accessor]
    /\ faults \in Nat
    /\ IsFiniteSet(DOMAIN rows)

\* Where a request is, what it was asked for and what it may write.
AskInv ==
    \A w \in Worker :
       /\ pc[w] = "idle" <=> job[w] = "none"
       /\ pc[w] = "read" => job[w] \in {"create", "init"}
       /\ pc[w] # "write" => new[w] = {} /\ DOMAIN upd[w] = {} /\ del[w] = {}
       /\ job[w] = "create" => req[w] \in Grants
       /\ job[w] = "init" => req[w] = Preset
       /\ job[w] \in {"create", "init"} => del[w] = {}
       /\ job[w] \in {"none", "update", "delete"} => req[w] = {} /\ new[w] = {}

\* A row that is to be overwritten keeps its accessor, and its rules with a
\* condition unless the view is outdated.
UpdFits(w) ==
    \A i \in DOMAIN upd[w] :
       /\ i \in used
       /\ i \in DOMAIN rows =>
             /\ upd[w][i].acc = rows[i].acc
             /\ \/ rows[i].acc \in stale[w] \/ job[w] = "init"
                \/ /\ Conditional(upd[w][i].allow) = Conditional(rows[i].allow)
                   /\ Conditional(upd[w][i].deny) = Conditional(rows[i].deny)

\* A row that is to be inserted is the first of its accessor, unless the view
\* is outdated.
NewFits(w) == \A p \in new[w] : p.acc \in stale[w] \/ RowsOf(rows, p.acc) = {}

\* What Create will do about a policy it was asked for: insert it, merge it
\* into a row of the accessor, or leave a row that says it all.
CreateFits(w) ==
    pc[w] = "write" /\ job[w] = "create" =>
       \A p \in req[w] : p.acc \notin stale[w] =>
          \/ RowsOf(rows, p.acc) = {} /\ p \in new[w]
          \/ /\ p \notin new[w]
             /\ \E i \in RowsOf(rows, p.acc) :
                   IF i \in DOMAIN upd[w] THEN upd[w][i] = mergeNewPolicy(rows[i], p)
                   ELSE Same(rows[i], p)

PlanInv == \A w \in Worker : UpdFits(w) /\ NewFits(w) /\ CreateFits(w)

\* A request that does nothing in this step.
Idle(v) ==
    /\ pc'[v] = pc[v] /\ job'[v] = job[v] /\ req'[v] = req[v]
    /\ new'[v] = new[v] /\ upd'[v] = upd[v] /\ del'[v] = del[v]

Ended(v) ==
    /\ pc'[v] = "idle" /\ job'[v] = "none" /\ req'[v] = {}
    /\ new'[v] = {} /\ DOMAIN upd'[v] = {} /\ del'[v] = {}

Others(w) == \A v \in Worker \ {w} : Idle(v)

\* The fields of a request that is answered or given up.
LEMMA LeaveMoves ==
    ASSUME Shape, NEW w \in Worker, Leave(w)
    PROVE  /\ Ended(w) /\ Others(w)
           /\ pc' \in [Worker -> {"idle", "read", "write"}]
           /\ job' \in [Worker -> {"none", "create", "update", "delete", "init"}]
           /\ req' \in [Worker -> SUBSET Policy] /\ new' \in [Worker -> SUBSET Policy]
           /\ DOMAIN upd' = Worker /\ del' \in [Worker -> SUBSET PolicyID]
  BY DEF Shape, Leave, Ended, Others, Idle, NoRows

\* What the other requests are told about a new table.
LEMMA NoticeMoves ==
    ASSUME Shape, NEW w \in Worker, NEW table, Notice(w, table)
    PROVE  /\ stale' \in [Worker -> SUBSET Accessor]
           /\ \A v \in Worker \ {w} : stale[v] \subseteq stale'[v]
           /\ \A v \in Worker \ {w}, a \in Accessor :
                 pc[v] = "write" /\ a \notin stale'[v] =>
                    /\ RowsOf(table, a) = RowsOf(rows, a)
                    /\ \A i \in RowsOf(rows, a) : table[i] = rows[i]
  <1> DEFINE changed == {a \in Accessor : \/ RowsOf(table, a) # RowsOf(rows, a)
                                          \/ \E i \in RowsOf(rows, a) : table[i] # rows[i]}
  <1>1. stale' = [v \in Worker |-> IF v = w THEN {}
                                   ELSE IF pc[v] = "write" THEN stale[v] \cup changed
                                   ELSE stale[v]]
    BY DEF Notice
  <1>2. changed \subseteq Accessor
    OBVIOUS
  <1>3. \A a \in Accessor : a \notin changed =>
           /\ RowsOf(table, a) = RowsOf(rows, a)
           /\ \A i \in RowsOf(rows, a) : table[i] = rows[i]
    OBVIOUS
  <1> HIDE DEF changed
  <1> QED BY <1>1, <1>2, <1>3 DEF Shape

\* The rows of an accessor, one by one.
LEMMA RowsOfIs ==
    \A table, a, i : i \in RowsOf(table, a) <=> i \in DOMAIN table /\ table[i].acc = a
  BY DEF RowsOf

\* Removal of rows.
LEMMA RemoveMoves ==
    ASSUME TypeOK, Shape, NEW S, Remove(S)
    PROVE  /\ DOMAIN rows' = DOMAIN rows \ S /\ IsFiniteSet(DOMAIN rows')
           /\ \A i \in DOMAIN rows' : rows'[i] = rows[i]
           /\ stale' \in [Worker -> SUBSET Accessor]
           /\ \A v \in Worker : stale[v] \subseteq stale'[v]
           /\ \A v \in Worker, a \in Accessor :
                 pc[v] = "write" /\ a \notin stale'[v] =>
                    /\ RowsOf(rows', a) = RowsOf(rows, a)
                    /\ \A i \in RowsOf(rows, a) : rows'[i] = rows[i]
           /\ twinned' = Twins(rows', {})
  <1> DEFINE lost == {rows[i].acc : i \in S \cap DOMAIN rows}
  <1>1. /\ rows' = [i \in DOMAIN rows \ S |-> rows[i]]
        /\ stale' = [v \in Worker |-> IF pc[v] = "write" THEN stale[v] \cup lost
                                      ELSE stale[v]]
        /\ twinned' = Twins(rows', {})
    BY DEF Remove
  <1>2. lost \subseteq Accessor
    <2>1. \A i \in DOMAIN rows : rows[i].acc \in Accessor
      BY PolicyFields DEF TypeOK
    <2> QED BY <2>1
  <1>3. \A i \in DOMAIN rows : rows[i].acc \notin lost => i \notin S
    OBVIOUS
  <1> HIDE DEF lost
  <1>4. DOMAIN rows' = DOMAIN rows \ S /\ \A i \in DOMAIN rows' : rows'[i] = rows[i]
    BY <1>1
  <1>5. IsFiniteSet(DOMAIN rows')
    BY <1>4, FS_Subset DEF Shape
  <1>6. \A a \in Accessor : a \notin lost =>
           /\ RowsOf(rows', a) = RowsOf(rows, a)
           /\ \A i \in RowsOf(rows, a) : rows'[i] = rows[i]
    BY <1>3, <1>4 DEF RowsOf
  <1>7. stale' \in [Worker -> SUBSET Accessor]
    BY <1>1, <1>2 DEF Shape
  <1>8. \A v \in Worker : /\ stale[v] \subseteq stale'[v]
                          /\ pc[v] = "write" => stale'[v] = stale[v] \cup lost
    BY <1>1
  <1> QED BY <1>1, <1>4, <1>5, <1>6, <1>7, <1>8

\* The transaction: what the table is afterwards.
LEMMA WriteMoves ==
    ASSUME TypeOK, Shape, AskInv, NEW w \in Worker, Write(w)
    PROVE  \E ids \in [new[w] -> PolicyID \ used] :
              /\ \A p, q \in new[w] : ids[p] = ids[q] => p = q
              /\ DOMAIN rows' = (DOMAIN rows \ del[w]) \cup {ids[p] : p \in new[w]}
              /\ \A p \in new[w] : rows'[ids[p]] = p
              /\ \A i \in DOMAIN rows \ del[w] :
                    rows'[i] = IF i \in DOMAIN upd[w] THEN upd[w][i] ELSE rows[i]
              /\ used' = used \cup {ids[p] : p \in new[w]}
              /\ twinned' = Twins(rows', stale[w] \cap {p.acc : p \in new[w]})
              /\ outlived' = outlived \cup
                    {a \in Accessor \ alive : \E p \in new[w] : p.acc = a}
              /\ Notice(w, rows') /\ IsFiniteSet(DOMAIN rows')
  <1>1. PICK ids \in [new[w] -> PolicyID \ used] :
           /\ \A p, q \in new[w] : ids[p] = ids[q] => p = q
           /\ LET fresh == {ids[p] : p \in new[w]}
                  kept  == DOMAIN rows \ del[w]
                  over  == Found(w, kept)
                  table == [i \in kept \cup fresh \cup over |->
                              IF i \in fresh THEN CHOOSE p \in new[w] : ids[p] = i
                              ELSE IF i \in over THEN upd[w][i] ELSE rows[i]]
              IN  /\ rows' = table
                  /\ used' = used \cup fresh
                  /\ twinned' = Twins(table, stale[w] \cap {p.acc : p \in new[w]})
                  /\ outlived' = outlived \cup
                       {a \in Accessor \ alive : \E p \in new[w] : p.acc = a}
                  /\ Notice(w, table)
    BY DEF Write
  <1> DEFINE fresh == {ids[p] : p \in new[w]}
             kept  == DOMAIN rows \ del[w]
             over  == Found(w, kept)
             table == [i \in kept \cup fresh \cup over |->
                         IF i \in fresh THEN CHOOSE p \in new[w] : ids[p] = i
                         ELSE IF i \in over THEN upd[w][i] ELSE rows[i]]
  <1>2. over = DOMAIN upd[w] \cap kept
    BY DEF Found
  <1>3. DOMAIN rows \subseteq used
    BY DEF TypeOK
  <1>4. rows' = table
    BY <1>1
  <1>5. DOMAIN table = kept \cup fresh
    BY <1>2
  <1>6. \A p \in new[w] : rows'[ids[p]] = p
    <2> SUFFICES ASSUME NEW p \in new[w] PROVE table[ids[p]] = p
      BY <1>4
    <2>1. ids[p] \in fresh
      OBVIOUS
    <2>2. table[ids[p]] = CHOOSE q \in new[w] : ids[q] = ids[p]
      BY <2>1
    <2> QED BY <1>1, <2>2
  <1>7. \A i \in kept : i \notin fresh
    BY <1>3
  <1>8. \A i \in kept : rows'[i] = IF i \in DOMAIN upd[w] THEN upd[w][i] ELSE rows[i]
    BY <1>2, <1>4, <1>7
  <1>9. IsFiniteSet(DOMAIN rows')
    <2>1. IsFiniteSet(req[w])
      BY FS_EmptySet, PolicyStoreAssumption DEF AskInv, Shape
    <2>2. IsFiniteSet(new[w])
      BY <2>1, FS_Subset DEF TypeOK
    <2>3. ids \in Surjection(new[w], fresh)
      BY DEF Surjection
    <2>4. IsFiniteSet(fresh)
      BY <2>2, <2>3, FS_Surjection
    <2>5. IsFiniteSet(kept)
      BY FS_Subset DEF Shape
    <2> HIDE DEF fresh, kept
    <2>6. IsFiniteSet(kept \cup fresh)
      BY <2>4, <2>5, FS_Union
    <2> QED BY <1>4, <1>5, <2>6
  <1> QED BY <1>1, <1>4, <1>5, <1>6, <1>8, <1>9

\* Policies that are asked for together are of different accessors.
LEMMA Asked ==
    ASSUME Shape, AskInv, NEW w \in Worker
    PROVE  /\ req[w] \subseteq Policy
           /\ \A p, q \in req[w] : p.acc = q.acc => p = q
           /\ job[w] = "create" => \A p \in req[w] : Valid(p)
           /\ \A p \in req[w] : p.acc \in Accessor
  <1>1. req[w] \in Grants \/ req[w] = Preset \/ req[w] = {}
    BY DEF Shape, AskInv
  <1>2. req[w] \subseteq Policy
    BY DEF Shape
  <1>3. job[w] = "create" => req[w] \in Grants
    BY DEF AskInv
  <1> QED BY <1>1, <1>2, <1>3, PolicyStoreAssumption, PolicyFields

\* What a request makes of the rows it reads: it knows of every accessor that
\* no lost row is of.
LEMMA ReadMoves ==
    ASSUME TypeOK, Shape, AskInv, NEW w \in Worker, NEW lost \in SUBSET DOMAIN rows,
           ReadBut(w, lost)
    PROVE  /\ pc[w] = "read" /\ pc'[w] = "write" /\ Others(w)
           /\ job'[w] = job[w] /\ req'[w] = req[w] /\ del'[w] = del[w]
           /\ UNCHANGED <<now, alive, owed, pending, forsaken, rows, used, job, req, del,
                          requests, twinned, outlived>>
           /\ pc' \in [Worker -> {"idle", "read", "write"}]
           /\ new' \in [Worker -> SUBSET Policy] /\ DOMAIN upd' = Worker
           /\ stale' \in [Worker -> SUBSET Accessor]
           /\ \A v \in Worker \ {w} : stale'[v] = stale[v]
           /\ \A p \in req[w] : p.acc \notin stale'[w] =>
                 (p \in new'[w] <=> RowsOf(rows, p.acc) = {})
           /\ new'[w] \subseteq req[w]
           /\ \A i \in DOMAIN upd'[w] : \E p \in req[w] :
                 i \in RowsOf(rows, p.acc) /\ upd'[w][i] = Merge(job[w], rows[i], p)
           /\ \A p \in req[w] : p.acc \notin stale'[w] /\ RowsOf(rows, p.acc) # {} =>
                 \E i \in RowsOf(rows, p.acc) :
                    IF i \in DOMAIN upd'[w] THEN upd'[w][i] = Merge(job[w], rows[i], p)
                    ELSE Same(rows[i], p)
  <1> DEFINE Seen(a) == RowsOf(rows, a) \ lost
             unseen == {rows[i].acc : i \in lost}
  <1>1. /\ pc[w] = "read"
        /\ stale' = [stale EXCEPT ![w] = @ \cup unseen]
        /\ UNCHANGED <<now, alive, owed, pending, forsaken, rows, used, job, req, del,
                       requests, twinned, outlived>>
    BY DEF ReadBut, accessorVars
  <1>2. PICK pick \in [Accessor -> PolicyID] :
           /\ \A a \in Accessor : Seen(a) # {} => pick[a] \in Seen(a)
           /\ getCreateAndUpdatePolicy(w, pick, lost)
    BY DEF ReadBut, GetByResourceIDs
  <1> DEFINE found == {p \in req[w] : Seen(p.acc) # {}}
             diff  == {p \in found : ~Same(rows[pick[p.acc]], p)}
             plan  == [i \in {pick[p.acc] : p \in diff} |->
                         Merge(job[w], rows[i], CHOOSE p \in diff : pick[p.acc] = i)]
  <1>3. /\ new' = [new EXCEPT ![w] = req[w] \ found]
        /\ upd' = [upd EXCEPT ![w] = plan]
        /\ pc' = [pc EXCEPT ![w] = "write"]
    BY <1>2 DEF getCreateAndUpdatePolicy, GetByResourceIDs
  <1>4. \A p, q \in found : pick[p.acc] = pick[q.acc] => p = q
    <2>1. \A p \in found : rows[pick[p.acc]].acc = p.acc
      BY <1>2, Asked DEF RowsOf
    <2> QED BY <2>1, Asked
  <1>5. \A p \in diff : pick[p.acc] \in DOMAIN plan /\
                        plan[pick[p.acc]] = Merge(job[w], rows[pick[p.acc]], p)
    <2> SUFFICES ASSUME NEW p \in diff
                 PROVE  pick[p.acc] \in DOMAIN plan /\
                        plan[pick[p.acc]] = Merge(job[w], rows[pick[p.acc]], p)
      OBVIOUS
    <2>1. (CHOOSE q \in diff : pick[q.acc] = pick[p.acc]) = p
      BY <1>4
    <2> QED BY <2>1
  <1>6. \A i \in DOMAIN plan : \E p \in diff : i = pick[p.acc]
    OBVIOUS
  <1>7. \A p \in found : p \notin diff => pick[p.acc] \notin DOMAIN plan
    BY <1>4
  <1>8. \A p \in found : pick[p.acc] \in RowsOf(rows, p.acc)
    BY <1>2, Asked
  <1>9. \A p \in found : p \notin diff => Same(rows[pick[p.acc]], p)
    OBVIOUS
  <1>10. diff \subseteq found /\ found \subseteq req[w]
    OBVIOUS
  <1>11. \A p \in req[w] : p.acc \notin unseen => (p \in found <=> RowsOf(rows, p.acc) # {})
    BY DEF RowsOf
  <1>12. unseen \subseteq Accessor
    <2>1. \A i \in DOMAIN rows : rows[i].acc \in Accessor
      BY PolicyFields DEF TypeOK
    <2> QED BY <2>1
  <1> HIDE DEF found, diff, plan, unseen
  <1>13. /\ stale' \in [Worker -> SUBSET Accessor] /\ stale'[w] = stale[w] \cup unseen
         /\ \A v \in Worker \ {w} : stale'[v] = stale[v]
    BY <1>1, <1>12 DEF Shape
  <1>14. /\ pc'[w] = "write" /\ new'[w] = req[w] \ found /\ upd'[w] = plan
         /\ pc' \in [Worker -> {"idle", "read", "write"}]
         /\ new' \in [Worker -> SUBSET Policy] /\ DOMAIN upd' = Worker
         /\ Others(w)
    BY <1>1, <1>3 DEF Shape, Others, Idle
  <1>15. \A i \in DOMAIN plan : \E p \in req[w] :
            i \in RowsOf(rows, p.acc) /\ plan[i] = Merge(job[w], rows[i], p)
    BY <1>5, <1>6, <1>8, <1>10
  <1>16. \A p \in req[w] : p.acc \notin unseen /\ RowsOf(rows, p.acc) # {} =>
            \E i \in RowsOf(rows, p.acc) :
               IF i \in DOMAIN plan THEN plan[i] = Merge(job[w], rows[i], p)
               ELSE Same(rows[i], p)
    BY <1>5, <1>7, <1>8, <1>9, <1>11
  <1>17. \A p \in req[w] : p.acc \notin stale'[w] => p.acc \notin unseen
    BY <1>13
  <1>18. \A p \in req[w] : p.acc \notin stale'[w] =>
            (p \in new'[w] <=> RowsOf(rows, p.acc) = {})
    BY <1>11, <1>14, <1>17
  <1>19. \A p \in req[w] : p.acc \notin stale'[w] /\ RowsOf(rows, p.acc) # {} =>
            \E i \in RowsOf(rows, p.acc) :
               IF i \in DOMAIN upd'[w] THEN upd'[w][i] = Merge(job[w], rows[i], p)
               ELSE Same(rows[i], p)
    BY <1>14, <1>16, <1>17
  <1>20. \A i \in DOMAIN upd'[w] : \E p \in req[w] :
            i \in RowsOf(rows, p.acc) /\ upd'[w][i] = Merge(job[w], rows[i], p)
    BY <1>14, <1>15
  <1>21. /\ job'[w] = job[w] /\ req'[w] = req[w] /\ del'[w] = del[w]
         /\ new'[w] \subseteq req[w]
    BY <1>1, <1>14
  <1> HIDE DEF Seen
  <1> QED BY <1>1, <1>13, <1>14, <1>18, <1>19, <1>20, <1>21

\* What is known of the table to a request that has read it.
Known(v) ==
    \A a \in Accessor : pc[v] = "write" /\ a \notin stale'[v] =>
       /\ RowsOf(rows', a) = RowsOf(rows, a)
       /\ \A i \in RowsOf(rows, a) : rows'[i] = rows[i]

\* Rows that were there before are of the accessor they were of.
Stable == \A i \in DOMAIN rows' : i \in used => i \in DOMAIN rows /\ rows'[i].acc = rows[i].acc

\* The plan of a request in the next state.
LEMMA PlanNext ==
    ASSUME NEW w \in Worker
    PROVE  /\ UpdFits(w)' <=>
                 \A i \in DOMAIN upd'[w] :
                    /\ i \in used'
                    /\ i \in DOMAIN rows' =>
                          /\ upd'[w][i].acc = rows'[i].acc
                          /\ \/ rows'[i].acc \in stale'[w] \/ job'[w] = "init"
                             \/ /\ Conditional(upd'[w][i].allow) = Conditional(rows'[i].allow)
                                /\ Conditional(upd'[w][i].deny) = Conditional(rows'[i].deny)
           /\ NewFits(w)' <=>
                 \A p \in new'[w] : p.acc \in stale'[w] \/ RowsOf(rows', p.acc) = {}
           /\ CreateFits(w)' <=>
                 (pc'[w] = "write" /\ job'[w] = "create" =>
                    \A p \in req'[w] : p.acc \notin stale'[w] =>
                       \/ RowsOf(rows', p.acc) = {} /\ p \in new'[w]
                       \/ /\ p \notin new'[w]
                          /\ \E i \in RowsOf(rows', p.acc) :
                                IF i \in DOMAIN upd'[w]
                                THEN upd'[w][i] = mergeNewPolicy(rows'[i], p)
                                ELSE Same(rows'[i], p))
  BY DEF UpdFits, NewFits, CreateFits, RowsOf, mergeNewPolicy, Same, Override, Ops,
         Unconditional, Conditional, calcMinEndTime

\* The plan of a request holds while others change the table.
LEMMA PlanKept ==
    ASSUME TypeOK, Shape, AskInv, PlanInv, NEW v \in Worker, Idle(v),
           used \subseteq used', stale[v] \subseteq stale'[v], Known(v), Stable
    PROVE  UpdFits(v)' /\ NewFits(v)' /\ CreateFits(v)'
  <1>1. CASE pc[v] # "write"
    <2>1. new'[v] = {} /\ DOMAIN upd'[v] = {} /\ pc'[v] # "write"
      BY <1>1 DEF AskInv, Idle
    <2> QED BY <2>1 DEF UpdFits, NewFits, CreateFits
  <1>2. CASE pc[v] = "write"
    <2>1. UpdFits(v) /\ NewFits(v) /\ CreateFits(v)
      BY DEF PlanInv
    <2>2. \A p \in req[v] : p.acc \in Accessor
      BY Asked
    <2>3. new[v] \subseteq req[v]
      BY DEF TypeOK
    <2>4. \A p \in req[v] : p.acc \notin stale'[v] =>
             /\ RowsOf(rows', p.acc) = RowsOf(rows, p.acc)
             /\ \A i \in RowsOf(rows, p.acc) : rows'[i] = rows[i]
      BY <1>2, <2>2 DEF Known
    <2>5. NewFits(v)'
      <3>1. \A p \in new'[v] : p.acc \in stale'[v] \/ RowsOf(rows', p.acc) = {}
        BY <2>1, <2>3, <2>4 DEF NewFits, Idle
      <3> QED BY <3>1, PlanNext
    <2>6. CreateFits(v)'
      <3> SUFFICES ASSUME job[v] = "create", NEW p \in req[v], p.acc \notin stale'[v]
                   PROVE  \/ RowsOf(rows', p.acc) = {} /\ p \in new[v]
                          \/ /\ p \notin new[v]
                             /\ \E i \in RowsOf(rows', p.acc) :
                                   IF i \in DOMAIN upd[v]
                                   THEN upd[v][i] = mergeNewPolicy(rows'[i], p)
                                   ELSE Same(rows'[i], p)
        BY PlanNext DEF Idle
      <3> QED BY <1>2, <2>1, <2>4 DEF CreateFits
    <2>7. UpdFits(v)'
      <3> SUFFICES ASSUME NEW i \in DOMAIN upd[v]
                   PROVE  /\ i \in used'
                          /\ i \in DOMAIN rows' =>
                             /\ upd[v][i].acc = rows'[i].acc
                             /\ \/ rows'[i].acc \in stale'[v] \/ job[v] = "init"
                                \/ /\ Conditional(upd[v][i].allow) = Conditional(rows'[i].allow)
                                   /\ Conditional(upd[v][i].deny) = Conditional(rows'[i].deny)
        BY PlanNext DEF Idle
      <3>1. i \in used
        BY <2>1 DEF UpdFits
      <3> SUFFICES ASSUME i \in DOMAIN rows'
                   PROVE  /\ upd[v][i].acc = rows'[i].acc
                          /\ \/ rows'[i].acc \in stale'[v] \/ job[v] = "init"
                             \/ /\ Conditional(upd[v][i].allow) = Conditional(rows'[i].allow)
                                /\ Conditional(upd[v][i].deny) = Conditional(rows'[i].deny)
        BY <3>1
      <3>2. i \in DOMAIN rows /\ rows'[i].acc = rows[i].acc
        BY <3>1 DEF Stable
      <3>3. rows[i].acc \in Accessor /\ i \in RowsOf(rows, rows[i].acc)
        BY <3>2, PolicyFields DEF TypeOK, RowsOf
      <3>4. rows[i].acc \notin stale'[v] => rows'[i] = rows[i]
        BY <1>2, <3>3 DEF Known
      <3> QED BY <2>1, <3>2, <3>4 DEF UpdFits
    <2> QED BY <2>5, <2>6, <2>7
  <1> QED BY <1>1, <1>2

\* The table has policies, under identifiers that were given out.
TableInv ==
    /\ DOMAIN rows \subseteq used /\ used \subseteq PolicyID
    /\ \A i \in DOMAIN rows : rows[i] \in Policy

\* What a request holds has its type.
HoldInv(w) ==
    /\ new[w] \subseteq req[w] /\ del[w] \subseteq used
    /\ \A i \in DOMAIN upd[w] : upd[w][i] \in Policy

\* An accessor is there, or at one of the stages of its deletion.
AccInv ==
    /\ alive \subseteq Accessor /\ owed \subseteq Accessor \ alive
    /\ pending \subseteq Accessor \ (alive \cup owed)
    /\ forsaken \subseteq Accessor \ (alive \cup owed \cup pending)

\* The types in parts.
LEMMA TypeParts ==
    Shape => (TypeOK <=>
        /\ now \in 0..MaxNow /\ AccInv
        /\ TableInv /\ \A w \in Worker : HoldInv(w))
  BY DEF Shape, TypeOK, TableInv, HoldInv, AccInv

\* AskInv in the next state, of one request.
AskFits(w) ==
    /\ pc[w] = "idle" <=> job[w] = "none"
    /\ pc[w] = "read" => job[w] \in {"create", "init"}
    /\ pc[w] # "write" => new[w] = {} /\ DOMAIN upd[w] = {} /\ del[w] = {}
    /\ job[w] = "create" => req[w] \in Grants
    /\ job[w] = "init" => req[w] = Preset
    /\ job[w] \in {"create", "init"} => del[w] = {}
    /\ job[w] \in {"none", "update", "delete"} => req[w] = {} /\ new[w] = {}

\* A step of a request, or of nobody when W is empty, that leaves the others
\* with what they know.
LEMMA StepOf ==
    ASSUME TypeOK, Shape, AskInv, PlanInv, NEW W \in SUBSET Worker, Shape',
           \A v \in Worker \ W : Idle(v),
           \A v \in Worker \ W : stale[v] \subseteq stale'[v] /\ Known(v), Stable,
           used \subseteq used', TableInv', now' \in 0..MaxNow,
           AccInv',
           \A w \in W : /\ AskFits(w)' /\ HoldInv(w)'
                        /\ UpdFits(w)' /\ NewFits(w)' /\ CreateFits(w)'
    PROVE  TypeOK' /\ Shape' /\ AskInv' /\ PlanInv'
  <1>1. \A v \in Worker : UpdFits(v)' /\ NewFits(v)' /\ CreateFits(v)'
    BY PlanKept
  <1>2. PlanInv'
    BY <1>1 DEF PlanInv
  <1>3. \A v \in Worker : AskFits(v)'
    <2> SUFFICES ASSUME NEW v \in Worker, v \notin W PROVE AskFits(v)'
      OBVIOUS
    <2> QED BY DEF AskInv, AskFits, Idle
  <1>4. AskInv'
    BY <1>3 DEF AskInv, AskFits
  <1>5. \A v \in Worker : HoldInv(v)'
    <2> SUFFICES ASSUME NEW v \in Worker, v \notin W PROVE HoldInv(v)'
      OBVIOUS
    <2>1. HoldInv(v)
      BY TypeParts
    <2> QED BY <2>1 DEF HoldInv, Idle
  <1>6. TypeOK'
    BY <1>5 DEF Shape, TypeOK, TableInv, HoldInv, AccInv
  <1> QED BY <1>2, <1>4, <1>6

\* Steps that leave the table alone leave requests what they know.
LEMMA Quiet ==
    ASSUME UNCHANGED <<rows, used>>, NEW v \in Worker
    PROVE  Stable /\ Known(v) /\ used \subseteq used' /\ (TypeOK => TableInv')
  BY DEF Stable, Known, RowsOf, TypeOK, TableInv

\* A request begins with nothing in hand but what it is asked for.
LEMMA BeginInv ==
    ASSUME TypeOK, Shape, AskInv, PlanInv, NEW w \in Worker, NEW g \in SUBSET Policy,
           NEW k \in {"create", "init"}, Begin(w, k),
           pc' = [pc EXCEPT ![w] = "read"], req' = [req EXCEPT ![w] = g],
           UNCHANGED planVars,
           k = "create" => g \in Grants, k = "init" => g = Preset
    PROVE  TypeOK' /\ Shape' /\ AskInv' /\ PlanInv'
  <1>1. /\ pc[w] = "idle" /\ job' = [job EXCEPT ![w] = k]
        /\ UNCHANGED <<now, alive, owed, pending, forsaken, rows, used, faults, stale,
                       new, upd, del>>
    BY DEF Begin, planVars, accessorVars
  <1>2. Shape' /\ Others(w)
    BY <1>1 DEF Shape, Others, Idle
  <1>3. /\ pc'[w] = "read" /\ job'[w] = k /\ req'[w] = g
        /\ new'[w] = {} /\ DOMAIN upd'[w] = {} /\ del'[w] = {}
    <2>1. pc'[w] = "read" /\ job'[w] = k /\ req'[w] = g
      BY <1>1 DEF Shape
    <2> QED BY <1>1, <2>1 DEF AskInv
  <1>4. /\ AskFits(w)' /\ HoldInv(w)' /\ UpdFits(w)' /\ NewFits(w)' /\ CreateFits(w)'
    BY <1>3 DEF AskFits, HoldInv, UpdFits, NewFits, CreateFits
  <1>5. {w} \in SUBSET Worker
    OBVIOUS
  <1>6. now' \in 0..MaxNow /\ AccInv'
    BY <1>1 DEF TypeOK, AccInv
  <1> QED BY <1>1, <1>2, <1>4, <1>5, <1>6, Quiet, StepOf DEF Others

\* A request reads.
LEMMA ReadInv ==
    ASSUME TypeOK, Shape, AskInv, PlanInv, NEW w \in Worker, Read(w) \/ Misread(w)
    PROVE  TypeOK' /\ Shape' /\ AskInv' /\ PlanInv'
  <1>0. faults' \in Nat /\ \E lost \in SUBSET DOMAIN rows : ReadBut(w, lost)
    BY DEF Read, Misread, Shape
  <1> PICK lost \in SUBSET DOMAIN rows : ReadBut(w, lost)
    BY <1>0
  <1>1. /\ pc[w] = "read" /\ pc'[w] = "write" /\ Others(w)
        /\ job'[w] = job[w] /\ req'[w] = req[w] /\ del'[w] = del[w]
        /\ UNCHANGED <<now, alive, owed, pending, forsaken, rows, used, job, req, del,
                       requests, twinned, outlived>>
        /\ \A v \in Worker \ {w} : stale'[v] = stale[v]
        /\ \A p \in req[w] : p.acc \notin stale'[w] =>
              (p \in new'[w] <=> RowsOf(rows, p.acc) = {})
        /\ new'[w] \subseteq req[w]
    BY ReadMoves
  <1>2. Shape'
    BY <1>0, ReadMoves DEF Shape
  <1>3. job[w] \in {"create", "init"} /\ del[w] = {}
    BY <1>1 DEF AskInv
  <1>4. AskFits(w)'
    BY <1>1, <1>3 DEF AskInv, AskFits
  <1>5. \A i \in DOMAIN upd'[w] : \E p \in req[w] :
           i \in RowsOf(rows, p.acc) /\ upd'[w][i] = Merge(job[w], rows[i], p)
    BY ReadMoves
  <1>6. ASSUME NEW i \in DOMAIN upd'[w]
        PROVE  /\ i \in DOMAIN rows /\ i \in used /\ upd'[w][i] \in Policy
               /\ upd'[w][i].acc = rows[i].acc
               /\ \/ job[w] = "init"
                  \/ /\ Conditional(upd'[w][i].allow) = Conditional(rows[i].allow)
                     /\ Conditional(upd'[w][i].deny) = Conditional(rows[i].deny)
    <2>1. PICK p \in req[w] : i \in RowsOf(rows, p.acc) /\ upd'[w][i] = Merge(job[w], rows[i], p)
      BY <1>5, <1>6
    <2>2. i \in DOMAIN rows /\ i \in used /\ rows[i] \in Policy
      BY <2>1 DEF RowsOf, TypeOK
    <2>3. p \in Policy /\ (job[w] = "create" => Valid(p))
      BY Asked
    <2>4. CASE job[w] = "create"
      BY <2>1, <2>2, <2>3, <2>4, MergeEffect DEF Merge
    <2>5. CASE job[w] = "init"
      BY <2>1, <2>2, <2>3, <2>5, MergeConditionEffect DEF Merge
    <2> QED BY <1>3, <2>2, <2>4, <2>5
  <1>7. HoldInv(w)'
    BY <1>1, <1>3, <1>6 DEF HoldInv
  <1>8. UpdFits(w)'
    BY <1>1, <1>6, PlanNext
  <1>9. NewFits(w)'
    BY <1>1, PlanNext
  <1>10. CreateFits(w)'
    <2>1. \A p \in req[w] : p.acc \notin stale'[w] /\ RowsOf(rows, p.acc) # {} =>
             \E i \in RowsOf(rows, p.acc) :
                IF i \in DOMAIN upd'[w] THEN upd'[w][i] = Merge(job[w], rows[i], p)
                ELSE Same(rows[i], p)
      BY ReadMoves
    <2>2. job[w] = "create" => \A i, p : Merge(job[w], rows[i], p) = mergeNewPolicy(rows[i], p)
      BY DEF Merge
    <2>3. ASSUME job[w] = "create", NEW p \in req[w], p.acc \notin stale'[w]
          PROVE  \/ RowsOf(rows, p.acc) = {} /\ p \in new'[w]
                 \/ /\ p \notin new'[w]
                    /\ \E i \in RowsOf(rows, p.acc) :
                          IF i \in DOMAIN upd'[w] THEN upd'[w][i] = mergeNewPolicy(rows[i], p)
                          ELSE Same(rows[i], p)
      <3>1. CASE RowsOf(rows, p.acc) = {}
        BY <1>1, <2>3, <3>1
      <3>2. CASE RowsOf(rows, p.acc) # {}
        BY <1>1, <2>1, <2>2, <2>3, <3>2
      <3> QED BY <3>1, <3>2
    <2>4. rows' = rows /\ job'[w] = job[w] /\ req'[w] = req[w]
      BY <1>1
    <2> QED BY <2>3, <2>4, PlanNext
  <1>11. {w} \in SUBSET Worker
    OBVIOUS
  <1>12. now' \in 0..MaxNow /\ AccInv'
    BY <1>1 DEF TypeOK, AccInv
  <1> QED BY <1>1, <1>2, <1>4, <1>7, <1>8, <1>9, <1>10, <1>11, <1>12, Quiet, StepOf
          DEF Others

\* Update and Delete read one row and work out what it becomes.
LEMMA ChangeInv ==
    ASSUME TypeOK, Shape, AskInv, PlanInv, NEW w \in Worker, NEW i \in PolicyID,
           Delete(w, i) \/ \E c \in Changes : Update(w, i, c)
    PROVE  TypeOK' /\ Shape' /\ AskInv' /\ PlanInv'
  <1>0. i \in DOMAIN rows /\ i \in used /\ rows[i] \in Policy /\ used \subseteq PolicyID
    <2>1. i \in DOMAIN rows
      BY DEF Delete, Update
    <2> QED BY <2>1 DEF TypeOK
  <1>1. PICK k \in {"update", "delete"} : Begin(w, k) /\ pc' = [pc EXCEPT ![w] = "write"]
                                          /\ UNCHANGED <<req, new>>
    BY DEF Delete, Update
  <1>2. /\ pc[w] = "idle" /\ job' = [job EXCEPT ![w] = k]
        /\ UNCHANGED <<now, alive, owed, pending, forsaken, rows, used, faults, stale>>
    BY <1>1 DEF Begin, accessorVars
  <1>3. req[w] = {} /\ new[w] = {} /\ DOMAIN upd[w] = {} /\ del[w] = {}
    BY <1>2 DEF AskInv
  <1>4. /\ \/ upd' = upd /\ del' = [del EXCEPT ![w] = {i}]
           \/ \E q \in Policy : /\ upd' = [upd EXCEPT ![w] = [j \in {i} |-> q]] /\ del' = del
                                /\ q.acc = rows[i].acc
                                /\ Conditional(q.allow) = Conditional(rows[i].allow)
                                /\ Conditional(q.deny) = Conditional(rows[i].deny)
    <2>1. CASE Delete(w, i)
      <3>1. \/ upd' = upd /\ del' = [del EXCEPT ![w] = {i}]
            \/ upd' = [upd EXCEPT ![w] = [j \in {i} |-> Strip(rows[i])]] /\ del' = del
        BY <2>1 DEF Delete
      <3>2. Strip(rows[i]) \in Policy /\ Strip(rows[i]).acc = rows[i].acc
            /\ Conditional(Strip(rows[i]).allow) = Conditional(rows[i].allow)
            /\ Conditional(Strip(rows[i]).deny) = Conditional(rows[i].deny)
        BY <1>0, StripEffect
      <3> QED BY <3>1, <3>2
    <2>2. ASSUME NEW c \in Changes, Update(w, i, c)
          PROVE  \E q \in Policy : /\ upd' = [upd EXCEPT ![w] = [j \in {i} |-> q]] /\ del' = del
                                   /\ q.acc = rows[i].acc
                                   /\ Conditional(q.allow) = Conditional(rows[i].allow)
                                   /\ Conditional(q.deny) = Conditional(rows[i].deny)
      <3>1. upd' = [upd EXCEPT ![w] = [j \in {i} |-> Overwrite(rows[i], c)]] /\ del' = del
        BY <2>2 DEF Update
      <3>2. c \in Policy /\ Valid(c)
        BY PolicyStoreAssumption
      <3>3. /\ Overwrite(rows[i], c) \in Policy /\ Overwrite(rows[i], c).acc = rows[i].acc
            /\ Conditional(Overwrite(rows[i], c).allow) = Conditional(rows[i].allow)
            /\ Conditional(Overwrite(rows[i], c).deny) = Conditional(rows[i].deny)
        BY <1>0, <3>2, OverwriteEffect
      <3> QED BY <3>1, <3>3
    <2> QED BY <2>1, <2>2
  <1>5. /\ pc'[w] = "write" /\ job'[w] = k /\ req'[w] = {} /\ new'[w] = {}
        /\ Shape' /\ Others(w)
    BY <1>0, <1>1, <1>2, <1>3, <1>4 DEF Shape, Others, Idle
  <1>6. /\ del'[w] \subseteq {i}
        /\ \A j \in DOMAIN upd'[w] :
              /\ j = i /\ upd'[w][j] \in Policy /\ upd'[w][j].acc = rows[j].acc
              /\ Conditional(upd'[w][j].allow) = Conditional(rows[j].allow)
              /\ Conditional(upd'[w][j].deny) = Conditional(rows[j].deny)
    BY <1>3, <1>4 DEF Shape
  <1>7. AskFits(w)' /\ HoldInv(w)'
    BY <1>0, <1>2, <1>5, <1>6 DEF AskFits, HoldInv
  <1>8. UpdFits(w)' /\ NewFits(w)' /\ CreateFits(w)'
    BY <1>0, <1>2, <1>5, <1>6, PlanNext
  <1>9. {w} \in SUBSET Worker
    OBVIOUS
  <1>10. now' \in 0..MaxNow /\ AccInv'
    BY <1>2 DEF TypeOK, AccInv
  <1> QED BY <1>2, <1>5, <1>7, <1>8, <1>9, <1>10, Quiet, StepOf DEF Others

\* A request ends: it has written, had nothing to write, or failed.
LEMMA EndInv ==
    ASSUME TypeOK, Shape, AskInv, PlanInv, NEW w \in Worker,
           Unchanged(w) \/ Write(w) \/ CallFails(w)
    PROVE  TypeOK' /\ Shape' /\ AskInv' /\ PlanInv'
  <1>1. /\ Leave(w) /\ Notice(w, rows') /\ UNCHANGED <<now, alive, owed, pending, forsaken>>
        /\ faults' \in Nat
    <2>1. CASE Write(w)
      <3>1. Notice(w, rows')
        BY <2>1, WriteMoves
      <3> QED BY <2>1, <3>1 DEF Write, Shape, accessorVars
    <2>2. CASE Unchanged(w) \/ CallFails(w)
      BY <2>2 DEF Unchanged, CallFails, Shape, Notice, RowsOf, accessorVars
    <2> QED BY <2>1, <2>2
  <1>2. /\ IsFiniteSet(DOMAIN rows') /\ TableInv' /\ Stable /\ used \subseteq used'
    <2>1. CASE Unchanged(w) \/ CallFails(w)
      <3>1. UNCHANGED <<rows, used>>
        BY <2>1 DEF Unchanged, CallFails
      <3> QED BY <3>1 DEF TableInv, TypeOK, Shape, Stable
    <2>2. CASE Write(w)
      <3>1. PICK ids \in [new[w] -> PolicyID \ used] :
              /\ DOMAIN rows' = (DOMAIN rows \ del[w]) \cup {ids[p] : p \in new[w]}
              /\ \A p \in new[w] : rows'[ids[p]] = p
              /\ \A i \in DOMAIN rows \ del[w] :
                    rows'[i] = IF i \in DOMAIN upd[w] THEN upd[w][i] ELSE rows[i]
              /\ used' = used \cup {ids[p] : p \in new[w]}
              /\ IsFiniteSet(DOMAIN rows')
        BY <2>2, WriteMoves
      <3>2. /\ DOMAIN rows \subseteq used /\ used \subseteq PolicyID
            /\ \A i \in DOMAIN rows : rows[i] \in Policy
            /\ \A i \in DOMAIN upd[w] : upd[w][i] \in Policy
        BY DEF TypeOK
      <3>3. \A i \in DOMAIN upd[w] : i \in DOMAIN rows => upd[w][i].acc = rows[i].acc
        BY DEF PlanInv, UpdFits
      <3>4. new[w] \subseteq Policy
        BY DEF Shape
      <3>5. \A i \in DOMAIN rows' : rows'[i] \in Policy
        BY <3>1, <3>2, <3>4
      <3>6. Stable
        BY <3>1, <3>2, <3>3 DEF Stable
      <3> QED BY <3>1, <3>2, <3>5, <3>6 DEF TableInv
    <2> QED BY <2>1, <2>2
  <1>3. Ended(w) /\ Others(w) /\ Shape'
    BY <1>1, <1>2, LeaveMoves, NoticeMoves DEF Shape
  <1>4. \A v \in Worker \ {w} : stale[v] \subseteq stale'[v] /\ Known(v)
    BY <1>1, NoticeMoves DEF Known
  <1>5. AskFits(w)' /\ HoldInv(w)' /\ UpdFits(w)' /\ NewFits(w)' /\ CreateFits(w)'
    BY <1>3 DEF Ended, AskFits, HoldInv, UpdFits, NewFits, CreateFits
  <1>6. {w} \in SUBSET Worker
    OBVIOUS
  <1>7. now' \in 0..MaxNow /\ AccInv'
    BY <1>1 DEF TypeOK, AccInv
  <1> QED BY <1>2, <1>3, <1>4, <1>5, <1>6, <1>7, StepOf DEF Others

\* Rows are removed, an accessor is, or time passes.
LEMMA OtherInv ==
    ASSUME TypeOK, Shape, AskInv, PlanInv,
           \/ DeleteByResourceIDs \/ DeleteByEndTime \/ Tick
           \/ \E a \in Accessor :
                 \/ DeleteAccessor(a) \/ RoleDeleted(a) \/ Publish(a)
                 \/ deletePolicyByAccessorID(a) \/ NotAskedAgain(a)
    PROVE  TypeOK' /\ Shape' /\ AskInv' /\ PlanInv'
  <1>1. /\ UNCHANGED <<used, pc, job, req, new, upd, del>> /\ faults' \in Nat
        /\ UNCHANGED <<rows, stale>> \/ \E S : Remove(S)
    BY DEF DeleteByResourceIDs, DeleteByEndTime, Tick, DeleteAccessor, RoleDeleted, Publish,
           NotAskedAgain, deletePolicyByAccessorID, planVars, Shape
  <1>2. \A v \in Worker : Idle(v)
    BY <1>1 DEF Idle
  <1>3. /\ Stable /\ TableInv' /\ IsFiniteSet(DOMAIN rows')
        /\ stale' \in [Worker -> SUBSET Accessor]
        /\ \A v \in Worker : stale[v] \subseteq stale'[v] /\ Known(v)
    <2>1. CASE UNCHANGED <<rows, stale>>
      BY <1>1, <2>1 DEF Stable, Known, RowsOf, TypeOK, TableInv, Shape
    <2>2. ASSUME NEW S, Remove(S)
          PROVE  /\ Stable /\ TableInv' /\ IsFiniteSet(DOMAIN rows')
                 /\ stale' \in [Worker -> SUBSET Accessor]
                 /\ \A v \in Worker : stale[v] \subseteq stale'[v] /\ Known(v)
      <3>1. /\ DOMAIN rows' = DOMAIN rows \ S /\ \A i \in DOMAIN rows' : rows'[i] = rows[i]
        BY <2>2, RemoveMoves
      <3>2. Stable /\ TableInv'
        BY <1>1, <3>1 DEF Stable, TypeOK, TableInv
      <3> QED BY <2>2, <3>2, RemoveMoves DEF Known
    <2> QED BY <1>1, <2>1, <2>2
  <1>4. Shape'
    BY <1>1, <1>3 DEF Shape
  <1>5. now' \in 0..MaxNow
    BY PolicyStoreAssumption
    DEF DeleteByResourceIDs, DeleteByEndTime, Tick, DeleteAccessor, RoleDeleted, Publish,
        NotAskedAgain, deletePolicyByAccessorID, TypeOK
  <1>6. AccInv'
    <2>1. AccInv
      BY TypeParts
    <2> QED BY <2>1
        DEF DeleteByResourceIDs, DeleteByEndTime, Tick, DeleteAccessor, RoleDeleted, Publish,
            NotAskedAgain, deletePolicyByAccessorID, AccInv, accessorVars
  <1>7. {} \in SUBSET Worker
    OBVIOUS
  <1> QED BY <1>1, <1>2, <1>3, <1>4, <1>5, <1>6, <1>7, StepOf

\* Every step keeps the types and the plans.
LEMMA NextType ==
    ASSUME TypeOK, Shape, AskInv, PlanInv, [Next]_vars
    PROVE  TypeOK' /\ Shape' /\ AskInv' /\ PlanInv'
  <1>1. CASE UNCHANGED vars
    <2>1. \A v \in Worker : Idle(v) /\ stale[v] \subseteq stale'[v] /\ Known(v)
      BY <1>1 DEF vars, Idle, Known, RowsOf
    <2>2. Shape' /\ Stable /\ TableInv' /\ used \subseteq used'
      BY <1>1 DEF vars, Shape, Stable, TableInv, TypeOK
    <2>3. now' \in 0..MaxNow /\ AccInv'
      BY <1>1 DEF vars, TypeOK, AccInv
    <2>4. {} \in SUBSET Worker
      OBVIOUS
    <2> QED BY <2>1, <2>2, <2>3, <2>4, StepOf
  <1>2. ASSUME NEW w \in Worker, NEW g \in Grants, Create(w, g)
        PROVE  TypeOK' /\ Shape' /\ AskInv' /\ PlanInv'
    <2>1. g \in SUBSET Policy
      BY PolicyStoreAssumption
    <2> QED BY <1>2, <2>1, BeginInv DEF Create
  <1>3. ASSUME NEW w \in Worker, InitPolicy(w)
        PROVE  TypeOK' /\ Shape' /\ AskInv' /\ PlanInv'
    <2>1. Preset \in SUBSET Policy
      BY PolicyStoreAssumption
    <2> QED BY <1>3, <2>1, BeginInv DEF InitPolicy
  <1> QED BY <1>1, <1>2, <1>3, ReadInv, ChangeInv, EndInv, OtherInv DEF Next

\* The first state.
LEMMA InitType == Init => TypeOK /\ Shape /\ AskInv /\ PlanInv
  <1> SUFFICES ASSUME Init PROVE TypeOK /\ Shape /\ AskInv /\ PlanInv
    OBVIOUS
  <1>1. DOMAIN rows = {} /\ \A w \in Worker : DOMAIN upd[w] = {}
    BY DEF Init, NoRows
  <1>2. Shape
    BY <1>1, FS_EmptySet DEF Init, Shape
  <1>3. AskInv
    BY <1>1 DEF Init, AskInv
  <1>4. PlanInv
    BY <1>1 DEF Init, PlanInv, UpdFits, NewFits, CreateFits
  <1>5. TypeOK
    BY <1>1, PolicyStoreAssumption DEF Init, TypeOK
  <1> QED BY <1>2, <1>3, <1>4, <1>5

\* What requests merge, overwrite and strip are policies, and the table holds
\* nothing else.
THEOREM PolicyStoreTyped == Spec => []TypeOK
  <1>1. TypeOK /\ Shape /\ AskInv /\ PlanInv /\ [Next]_vars
           => (TypeOK /\ Shape /\ AskInv /\ PlanInv)'
    BY NextType
  <1> QED BY <1>1, InitType, PTL DEF Spec
-----------------------------------------------------------------------------
(* One policy for an accessor, and none for one that is gone.              *)

\* More than one element.
LEMMA Several ==
    ASSUME NEW S, IsFiniteSet(S)
    PROVE  Cardinality(S) > 1 <=> \E i, j \in S : i # j
  <1>1. Cardinality(S) \in Nat
    BY FS_CardinalityType
  <1>2. Cardinality(S) = 0 <=> S = {}
    BY FS_EmptySet
  <1>3. Cardinality(S) = 1 <=> \E x : S = {x}
    BY FS_Singleton
  <1> QED BY <1>1, <1>2, <1>3

\* The rows of an accessor are finitely many.
LEMMA RowsFinite ==
    ASSUME NEW table, IsFiniteSet(DOMAIN table), NEW a
    PROVE  /\ IsFiniteSet(RowsOf(table, a))
           /\ Cardinality(RowsOf(table, a)) > 1 <=> \E i, j \in RowsOf(table, a) : i # j
  <1>1. RowsOf(table, a) \in SUBSET DOMAIN table
    BY DEF RowsOf
  <1>2. IsFiniteSet(RowsOf(table, a))
    BY <1>1, FS_Subset
  <1> QED BY <1>2, Several

\* Every second row was inserted over an outdated view.
LEMMA NextOne ==
    ASSUME TypeOK, Shape, AskInv, PlanInv, Shape', OnePolicyUnlessOverlap, [Next]_vars
    PROVE  OnePolicyUnlessOverlap'
  <1>0. IsFiniteSet(DOMAIN rows) /\ IsFiniteSet(DOMAIN rows')
    BY DEF Shape
  <1>1. ASSUME UNCHANGED <<rows, twinned>> PROVE OnePolicyUnlessOverlap'
    BY <1>1 DEF OnePolicyUnlessOverlap, RowsOf
  <1>2. \A a \in Accessor : (\E i, j \in RowsOf(rows, a) : i # j) => a \in twinned
    BY <1>0, RowsFinite DEF OnePolicyUnlessOverlap
  <1>3. ASSUME NEW more, twinned' = Twins(rows', more),
               \A a \in Accessor : (\E i, j \in RowsOf(rows', a) : i # j)
                                      => a \in twinned \cup more
        PROVE  OnePolicyUnlessOverlap'
    <2>1. \A a \in Accessor : Cardinality(RowsOf(rows', a)) > 1 <=>
                                 \E i, j \in RowsOf(rows', a) : i # j
      <3>1. PICK table : table = rows'
        OBVIOUS
      <3>2. \A a : Cardinality(RowsOf(table, a)) > 1 <=> \E i, j \in RowsOf(table, a) : i # j
        BY <1>0, <3>1, RowsFinite
      <3> QED BY <3>1, <3>2
    <2>2. \A a \in Accessor : Cardinality(RowsOf(rows', a)) > 1 => a \in twinned'
      BY <1>3, <2>1 DEF Twins
    <2> QED BY <2>2 DEF OnePolicyUnlessOverlap, RowsOf
  <1>4. ASSUME NEW S, Remove(S) PROVE OnePolicyUnlessOverlap'
    <2>1. /\ DOMAIN rows' = DOMAIN rows \ S /\ \A i \in DOMAIN rows' : rows'[i] = rows[i]
          /\ twinned' = Twins(rows', {})
      BY <1>4, RemoveMoves
    <2>2. \A a \in Accessor : RowsOf(rows', a) \subseteq RowsOf(rows, a)
      BY <2>1 DEF RowsOf
    <2> QED BY <1>2, <1>3, <2>1, <2>2
  <1>5. ASSUME NEW w \in Worker, Write(w) PROVE OnePolicyUnlessOverlap'
    <2>1. PICK ids \in [new[w] -> PolicyID \ used] :
            /\ DOMAIN rows' = (DOMAIN rows \ del[w]) \cup {ids[p] : p \in new[w]}
            /\ \A p \in new[w] : rows'[ids[p]] = p
            /\ \A i \in DOMAIN rows \ del[w] :
                  rows'[i] = IF i \in DOMAIN upd[w] THEN upd[w][i] ELSE rows[i]
            /\ twinned' = Twins(rows', stale[w] \cap {p.acc : p \in new[w]})
      BY <1>5, WriteMoves
    <2>2. \A i \in DOMAIN upd[w] : i \in DOMAIN rows => upd[w][i].acc = rows[i].acc
      BY DEF PlanInv, UpdFits
    <2>3. \A p, q \in new[w] : p.acc = q.acc => p = q
      BY Asked DEF TypeOK
    <2>4. \A p \in new[w] : p.acc \in stale[w] \/ RowsOf(rows, p.acc) = {}
      BY DEF PlanInv, NewFits
    <2>5. \A a \in Accessor : \A i \in RowsOf(rows', a) :
             i \in RowsOf(rows, a) \/ \E p \in new[w] : i = ids[p] /\ p.acc = a
      BY <2>1, <2>2 DEF RowsOf
    <2>6. ASSUME NEW a \in Accessor, NEW i \in RowsOf(rows', a), NEW j \in RowsOf(rows', a),
                 i # j
          PROVE  a \in twinned \cup (stale[w] \cap {p.acc : p \in new[w]})
      <3>1. CASE i \in RowsOf(rows, a) /\ j \in RowsOf(rows, a)
        BY <1>2, <2>6, <3>1
      <3>2. CASE \E p \in new[w] : p.acc = a /\ RowsOf(rows, a) # {}
        BY <2>4, <3>2
      <3>3. CASE \E p, q \in new[w] : i = ids[p] /\ p.acc = a /\ j = ids[q] /\ q.acc = a
        BY <2>3, <2>6, <3>3
      <3> QED BY <2>5, <3>1, <3>2, <3>3
    <2>7. \A a \in Accessor : (\E i, j \in RowsOf(rows', a) : i # j)
                                  => a \in twinned \cup (stale[w] \cap {p.acc : p \in new[w]})
      BY <2>6
    <2>8. PICK more : more = stale[w] \cap {p.acc : p \in new[w]}
      OBVIOUS
    <2> QED BY <1>3, <2>1, <2>7, <2>8
  <1>6. CASE UNCHANGED <<rows, twinned>> \/ (\E S : Remove(S)) \/ \E w \in Worker : Write(w)
    BY <1>1, <1>4, <1>5, <1>6
  <1>7. \/ UNCHANGED <<rows, twinned>> \/ (\E S : Remove(S)) \/ \E w \in Worker : Write(w)
    BY DEF Next, vars, Create, InitPolicy, Begin, Read, Misread, ReadBut, Update, Delete,
           Unchanged, CallFails, DeleteByResourceIDs, DeleteByEndTime, Tick,
           DeleteAccessor, RoleDeleted, Publish, NotAskedAgain, deletePolicyByAccessorID
  <1> QED BY <1>6, <1>7

\* An accessor has one policy on a resource, unless a request inserted a row
\* although the rows of the accessor had changed since it read them, or after a
\* result that left some of them out.
THEOREM OnePolicy == Spec => []OnePolicyUnlessOverlap
  <1> DEFINE IInv == TypeOK /\ Shape /\ AskInv /\ PlanInv /\ OnePolicyUnlessOverlap
  <1>1. Init => IInv
    <2>1. Init => OnePolicyUnlessOverlap
      <3>1. ASSUME Init, NEW a \in Accessor PROVE ~(Cardinality(RowsOf(rows, a)) > 1)
        <4>1. RowsOf(rows, a) = {}
          BY <3>1 DEF Init, NoRows, RowsOf
        <4> QED BY <4>1, FS_EmptySet
      <3> QED BY <3>1 DEF OnePolicyUnlessOverlap
    <2> QED BY <2>1, InitType
  <1>2. IInv /\ [Next]_vars => IInv'
    BY NextType, NextOne
  <1> QED BY <1>1, <1>2, PTL DEF Spec

\* The policies of a deleted accessor are removed once and come back only
\* through a request that knew the accessor, or a start.
LEMMA NextGone ==
    ASSUME TypeOK, Shape, AskInv, PlanInv, DeletedAccessorHasNoPolicy, [Next]_vars
    PROVE  DeletedAccessorHasNoPolicy'
  <1> DEFINE busy == alive \cup owed \cup pending
             left == forsaken \cap (Role \cup Untied)
  <1>1. ASSUME \A a \in Accessor \ busy' :
                  \/ RowsOf(rows', a) = {}
                  \/ a \notin busy /\ RowsOf(rows, a) # {}
                     /\ (a \in outlived => a \in outlived') /\ (a \in left => a \in left')
                  \/ a \in outlived' \/ a \in left'
        PROVE  DeletedAccessorHasNoPolicy'
    <2>1. \A a \in Accessor \ busy' :
             RowsOf(rows', a) = {} \/ a \in outlived' \/ a \in left'
      BY <1>1 DEF DeletedAccessorHasNoPolicy
    <2> QED BY <2>1 DEF DeletedAccessorHasNoPolicy, RowsOf
  <1>2. ASSUME UNCHANGED <<rows, outlived>>, forsaken \subseteq forsaken',
               busy \subseteq busy' \cup left'
        PROVE  DeletedAccessorHasNoPolicy'
    BY <1>1, <1>2
  <1>3. ASSUME NEW S, Remove(S), UNCHANGED <<alive, owed, pending, forsaken, outlived>>
        PROVE  DeletedAccessorHasNoPolicy'
    <2>1. DOMAIN rows' = DOMAIN rows \ S /\ \A i \in DOMAIN rows' : rows'[i] = rows[i]
      BY <1>3, RemoveMoves
    <2>2. \A a \in Accessor : RowsOf(rows', a) \subseteq RowsOf(rows, a)
      BY <2>1 DEF RowsOf
    <2> QED BY <1>1, <1>3, <2>2
  <1>4. ASSUME NEW b \in Accessor, deletePolicyByAccessorID(b) \/ RoleDeleted(b)
        PROVE  DeletedAccessorHasNoPolicy'
    <2>0. PICK S : S = RowsOf(rows, b) /\ Remove(S)
      BY <1>4 DEF deletePolicyByAccessorID, RoleDeleted
    <2>1. DOMAIN rows' = DOMAIN rows \ S /\ \A i \in DOMAIN rows' : rows'[i] = rows[i]
      BY <2>0, RemoveMoves
    <2>2. /\ \A a \in Accessor : RowsOf(rows', a) \subseteq RowsOf(rows, a)
          /\ RowsOf(rows', b) = {}
      BY <2>0, <2>1 DEF RowsOf
    <2>3. /\ outlived' = outlived \ {b} /\ alive' = alive /\ forsaken' = forsaken
          /\ owed \cup pending \subseteq owed' \cup pending' \cup {b}
      BY <1>4 DEF deletePolicyByAccessorID, RoleDeleted
    <2> QED BY <1>1, <2>2, <2>3
  <1>5. ASSUME NEW w \in Worker, Write(w) PROVE DeletedAccessorHasNoPolicy'
    <2>1. PICK ids \in [new[w] -> PolicyID \ used] :
            /\ DOMAIN rows' = (DOMAIN rows \ del[w]) \cup {ids[p] : p \in new[w]}
            /\ \A p \in new[w] : rows'[ids[p]] = p
            /\ \A i \in DOMAIN rows \ del[w] :
                  rows'[i] = IF i \in DOMAIN upd[w] THEN upd[w][i] ELSE rows[i]
            /\ outlived' = outlived \cup
                  {a \in Accessor \ alive : \E p \in new[w] : p.acc = a}
      BY <1>5, WriteMoves
    <2>2. \A i \in DOMAIN upd[w] : i \in DOMAIN rows => upd[w][i].acc = rows[i].acc
      BY DEF PlanInv, UpdFits
    <2>3. \A a \in Accessor : \A i \in RowsOf(rows', a) :
             i \in RowsOf(rows, a) \/ \E p \in new[w] : p.acc = a
      BY <2>1, <2>2 DEF RowsOf
    <2>4. UNCHANGED <<alive, owed, pending, forsaken>>
      BY <1>5 DEF Write, accessorVars
    <2> QED BY <1>1, <2>1, <2>3, <2>4
  <1>6. ASSUME NEW a \in Accessor, DeleteAccessor(a) \/ Publish(a) \/ NotAskedAgain(a)
        PROVE  DeletedAccessorHasNoPolicy'
    <2>1. /\ UNCHANGED <<rows, outlived>> /\ forsaken \subseteq forsaken'
          /\ busy \subseteq busy' \cup left'
      BY <1>6 DEF DeleteAccessor, Publish, NotAskedAgain
    <2> QED BY <1>2, <2>1
  <1>7. \/ UNCHANGED <<rows, outlived, alive, owed, pending, forsaken>>
        \/ \E S : Remove(S) /\ UNCHANGED <<alive, owed, pending, forsaken, outlived>>
        \/ \E w \in Worker : Write(w)
        \/ \E a \in Accessor : \/ DeleteAccessor(a) \/ RoleDeleted(a) \/ Publish(a)
                               \/ deletePolicyByAccessorID(a) \/ NotAskedAgain(a)
    BY ZenonT(60) DEF Next, vars, Create, InitPolicy, Begin, Read, Misread, ReadBut, Update,
           Delete, Unchanged, CallFails, DeleteByResourceIDs, DeleteByEndTime, Tick,
           accessorVars
  <1> QED BY <1>2, <1>3, <1>4, <1>5, <1>6, <1>7

\* When the deletion of an accessor is dealt with its policies are gone, but
\* for those of requests that had found it and of starts.  Where the deletion
\* broke off and is not asked for again they stay, and this befalls roles, users
\* and groups only.
THEOREM DeletedAccessorForgotten == Spec => []DeletedAccessorHasNoPolicy
  <1> DEFINE IInv == TypeOK /\ Shape /\ AskInv /\ PlanInv /\ DeletedAccessorHasNoPolicy
  <1>1. Init => IInv
    <2>1. Init => DeletedAccessorHasNoPolicy
      BY DEF Init, DeletedAccessorHasNoPolicy
    <2> QED BY <2>1, InitType
  <1>2. IInv /\ [Next]_vars => IInv'
    BY NextType, NextGone
  <1> QED BY <1>1, <1>2, PTL DEF Spec
-----------------------------------------------------------------------------
(* What an answer of Create means.                                         *)

\* An answer without an error comes from the transaction, or there was
\* nothing to write.
LEMMA AnsweredBy ==
    ASSUME TypeOK, Shape, [Next]_vars, NEW w \in Worker, Answered(w)
    PROVE  Unchanged(w) \/ Write(w)
  <1>1. pc[w] = "write" /\ pc'[w] = "idle" /\ faults' = faults /\ faults \in Nat
        /\ pc \in [Worker -> {"idle", "read", "write"}]
    BY DEF Answered, Shape
  <1>2. ASSUME NEW v \in Worker, v # w, Unchanged(v) \/ Write(v) \/ Read(v) PROVE FALSE
    BY <1>1, <1>2 DEF Unchanged, Write, Read, ReadBut, Leave, getCreateAndUpdatePolicy
  <1>3. ASSUME NEW v \in Worker, CallFails(v) \/ Misread(v) PROVE FALSE
    BY <1>1, <1>3 DEF CallFails, Misread
  <1>4. ~Read(w)
    BY <1>1 DEF Read, ReadBut
  <1>5. ASSUME NEW v \in Worker,
               \/ \E g \in Grants : Create(v, g)
               \/ \E i \in PolicyID, c \in Changes : Update(v, i, c)
               \/ \E i \in PolicyID : Delete(v, i)
               \/ InitPolicy(v)
        PROVE  FALSE
    BY <1>1, <1>5 DEF Create, Update, Delete, InitPolicy, Begin
  <1>6. ~UNCHANGED pc
    BY <1>1
  <1>7. ~UNCHANGED vars
    BY <1>6 DEF vars
  <1>8. ~(\/ DeleteByResourceIDs \/ DeleteByEndTime \/ Tick
          \/ \E a \in Accessor : \/ DeleteAccessor(a) \/ RoleDeleted(a) \/ Publish(a)
                                 \/ deletePolicyByAccessorID(a) \/ NotAskedAgain(a))
    BY <1>6 DEF DeleteByResourceIDs, DeleteByEndTime, Tick, DeleteAccessor, RoleDeleted,
                Publish, NotAskedAgain, deletePolicyByAccessorID
  <1> QED BY <1>2, <1>3, <1>4, <1>5, <1>7, <1>8 DEF Next

\* A policy that Create answers for is the only row of its accessor, or is
\* merged into the only row, or the only row says it all.
LEMMA AnswerEffect ==
    ASSUME TypeOK, Shape, AskInv, PlanInv, [Next]_vars, NEW w \in Worker, Answered(w),
           job[w] = "create", NEW p \in req[w], Undisturbed(w, p.acc)
    PROVE  \E i \in DOMAIN rows' :
              /\ RowsOf(rows', p.acc) = {i}
              /\ \/ RowsOf(rows, p.acc) = {} /\ rows'[i] = p
                 \/ /\ RowsOf(rows, p.acc) = {i}
                    /\ \/ rows'[i] = mergeNewPolicy(rows[i], p)
                       \/ rows'[i] = rows[i] /\ Same(rows[i], p)
  <1>0. p \in Policy /\ p.acc \in Accessor /\ \A q \in req[w] : q.acc = p.acc => q = p
    BY Asked
  <1>1. /\ p.acc \notin stale[w] /\ pc[w] = "write"
        /\ \A i, j \in RowsOf(rows, p.acc) : i = j
    <2>1. IsFiniteSet(DOMAIN rows)
      BY DEF Shape
    <2>2. Cardinality(RowsOf(rows, p.acc)) > 1 <=> \E i, j \in RowsOf(rows, p.acc) : i # j
      BY <2>1, RowsFinite
    <2>3. Cardinality(RowsOf(rows, p.acc)) \in Nat
      BY <2>1, RowsFinite, FS_CardinalityType
    <2> QED BY <2>2, <2>3 DEF Undisturbed, Answered
  <1>2. \/ RowsOf(rows, p.acc) = {} /\ p \in new[w]
        \/ /\ p \notin new[w]
           /\ \E i \in RowsOf(rows, p.acc) :
                 IF i \in DOMAIN upd[w] THEN upd[w][i] = mergeNewPolicy(rows[i], p)
                 ELSE Same(rows[i], p)
    BY <1>1 DEF PlanInv, CreateFits
  <1>3. CASE Unchanged(w)
    <2>1. rows' = rows /\ new[w] = {} /\ DOMAIN upd[w] = {}
      BY <1>3 DEF Unchanged
    <2>2. PICK i \in RowsOf(rows, p.acc) : Same(rows[i], p)
      BY <1>2, <2>1
    <2>3. RowsOf(rows, p.acc) = {i} /\ i \in DOMAIN rows
      BY <1>1, <2>2 DEF RowsOf
    <2> QED BY <2>1, <2>2, <2>3
  <1>4. CASE Write(w)
    <2>1. PICK ids \in [new[w] -> PolicyID \ used] :
            /\ DOMAIN rows' = (DOMAIN rows \ del[w]) \cup {ids[q] : q \in new[w]}
            /\ \A q \in new[w] : rows'[ids[q]] = q
            /\ \A i \in DOMAIN rows \ del[w] :
                  rows'[i] = IF i \in DOMAIN upd[w] THEN upd[w][i] ELSE rows[i]
      BY <1>4, WriteMoves
    <2>2. del[w] = {} /\ new[w] \subseteq req[w]
      BY DEF AskInv, TypeOK
    <2>3. \A i \in DOMAIN upd[w] : i \in DOMAIN rows => upd[w][i].acc = rows[i].acc
      BY DEF PlanInv, UpdFits
    <2>4. \A i : i \in RowsOf(rows', p.acc) <=>
             i \in RowsOf(rows, p.acc) \/ (p \in new[w] /\ i = ids[p])
      <3>1. \A i : i \in DOMAIN rows => (i \in DOMAIN rows' /\ rows'[i].acc = rows[i].acc)
        BY <2>1, <2>2, <2>3
      <3>2. \A q \in new[w] : ids[q] \in DOMAIN rows' /\ rows'[ids[q]].acc = q.acc
        BY <2>1
      <3>3. \A i \in DOMAIN rows' : i \in DOMAIN rows \/ \E q \in new[w] : i = ids[q]
        BY <2>1
      <3> QED BY <1>0, <2>2, <3>1, <3>2, <3>3 DEF RowsOf
    <2>5. CASE RowsOf(rows, p.acc) = {} /\ p \in new[w]
      <3>1. RowsOf(rows', p.acc) = {ids[p]} /\ ids[p] \in DOMAIN rows' /\ rows'[ids[p]] = p
        BY <2>1, <2>4, <2>5
      <3> QED BY <2>5, <3>1
    <2>6. CASE p \notin new[w] /\ RowsOf(rows, p.acc) # {}
      <3>1. PICK i \in RowsOf(rows, p.acc) :
               IF i \in DOMAIN upd[w] THEN upd[w][i] = mergeNewPolicy(rows[i], p)
               ELSE Same(rows[i], p)
        BY <1>2, <2>6
      <3>2. RowsOf(rows, p.acc) = {i} /\ i \in DOMAIN rows
        BY <1>1, <3>1 DEF RowsOf
      <3>3. RowsOf(rows', p.acc) = {i} /\ i \in DOMAIN rows'
        BY <2>1, <2>2, <2>4, <2>6, <3>2
      <3>4. rows'[i] = IF i \in DOMAIN upd[w] THEN upd[w][i] ELSE rows[i]
        BY <2>1, <2>2, <3>2
      <3> QED BY <3>1, <3>2, <3>3, <3>4
    <2> QED BY <1>2, <2>5, <2>6
  <1> QED BY <1>3, <1>4, AnsweredBy

\* What a table with one row, or none, of an accessor denies and allows.
LEMMA Grants1 ==
    ASSUME NEW table, NEW a
    PROVE  /\ \A i : RowsOf(table, a) = {i} =>
                 /\ Denied(table, a) = Ops(Unconditional(table[i].deny))
                 /\ Allowed(table, a) = Ops(Unconditional(table[i].allow)) \ Denied(table, a)
           /\ RowsOf(table, a) = {} => Denied(table, a) = {} /\ Allowed(table, a) = {}
  <1>1. ASSUME NEW i, RowsOf(table, a) = {i}
        PROVE  /\ Denied(table, a) = Ops(Unconditional(table[i].deny))
               /\ Allowed(table, a) = Ops(Unconditional(table[i].allow)) \ Denied(table, a)
    <2>2. Denied(table, a) = Ops(Unconditional(table[i].deny))
      BY <1>1 DEF Denied
    <2>3. UNION {Ops(Unconditional(table[j].allow)) : j \in RowsOf(table, a)}
             = Ops(Unconditional(table[i].allow))
      BY <1>1
    <2> QED BY <2>2, <2>3 DEF Allowed
  <1>2. RowsOf(table, a) = {} => Denied(table, a) = {} /\ Allowed(table, a) = {}
    BY DEF Denied, Allowed
  <1> QED BY <1>1, <1>2

\* The rules of a row that says all a policy says.
LEMMA SameRules ==
    ASSUME NEW old \in Policy, NEW p \in Policy, Valid(p), Same(old, p)
    PROVE  /\ Ops(p.deny) \subseteq Ops(Unconditional(old.deny))
           /\ Ops(p.allow) \subseteq Ops(Unconditional(old.allow))
           /\ p.allow \subseteq old.allow /\ old.end = p.end
  <1>1. p.allow \subseteq old.allow /\ p.deny \subseteq old.deny /\ old.end = p.end
    BY DEF Same
  <1>2. \A t \in p.allow \cup p.deny : t.cond = Always
    BY ValidRules
  <1>3. p.allow \subseteq Unconditional(old.allow) /\ p.deny \subseteq Unconditional(old.deny)
    BY <1>1, <1>2 DEF Unconditional
  <1> QED BY <1>1, <1>3, OpsOf

\* What CreateMerges and GrantInForce say of one policy.
LEMMA AnswerMerges ==
    ASSUME TypeOK, Shape, AskInv, PlanInv, [Next]_vars, NEW w \in Worker, Answered(w),
           job[w] = "create", NEW p \in req[w], Undisturbed(w, p.acc)
    PROVE  /\ Denied(rows', p.acc) = Denied(rows, p.acc) \cup Ops(p.deny)
           /\ Allowed(rows', p.acc) =
                 (Allowed(rows, p.acc) \cup Ops(p.allow)) \ Denied(rows', p.acc)
           /\ \A t \in p.allow : t.op \in Allowed(rows', p.acc) =>
                 \E i \in RowsOf(rows', p.acc) : t \in rows'[i].allow
           /\ \A i \in RowsOf(rows, p.acc) :
                 rows[i].end = Forever \/ rows'[i].end \in 0..rows[i].end
           /\ \A o \in Ops(p.allow) \ Denied(rows', p.acc) :
                 \/ \E i \in RowsOf(rows', p.acc) : o \in Ops(rows'[i].allow) /\ Live(rows'[i])
                 \/ ~Live(p)
                 \/ \E i \in RowsOf(rows, p.acc) : ~Live(rows[i])
  <1> DEFINE a == p.acc
  <1>0. p \in Policy /\ Valid(p) /\ p.end \in Ends
    BY Asked, PolicyFields
  <1>1. PICK i \in DOMAIN rows' :
           /\ RowsOf(rows', a) = {i}
           /\ \/ RowsOf(rows, a) = {} /\ rows'[i] = p
              \/ /\ RowsOf(rows, a) = {i}
                 /\ \/ rows'[i] = mergeNewPolicy(rows[i], p)
                    \/ rows'[i] = rows[i] /\ Same(rows[i], p)
    BY AnswerEffect
  <1>2. PICK q : q = rows'[i]
    OBVIOUS
  <1>3. /\ Denied(rows', a) = Ops(Unconditional(q.deny))
        /\ Allowed(rows', a) = Ops(Unconditional(q.allow)) \ Denied(rows', a)
    <2>1. PICK table : table = rows'
      OBVIOUS
    <2>2. /\ Denied(table, a) = Ops(Unconditional(table[i].deny))
          /\ Allowed(table, a) = Ops(Unconditional(table[i].allow)) \ Denied(table, a)
      BY <1>1, <2>1, Grants1
    <2> QED BY <1>2, <2>1, <2>2
  <1>4. Ops(Unconditional(q.allow)) \subseteq Ops(q.allow)
    BY OpsOf DEF Unconditional
  <1>5. CASE RowsOf(rows, a) = {} /\ q = p
    <2>1. Denied(rows, a) = {} /\ Allowed(rows, a) = {}
      BY <1>5, Grants1
    <2>2. Unconditional(p.allow) = p.allow /\ Unconditional(p.deny) = p.deny
      BY <1>0, ValidRules
    <2> QED BY <1>1, <1>2, <1>3, <1>5, <2>1, <2>2
  <1>6. ASSUME RowsOf(rows, a) = {i}, q = mergeNewPolicy(rows[i], p) \/
                                      (q = rows[i] /\ Same(rows[i], p))
        PROVE  /\ Denied(rows', a) = Denied(rows, a) \cup Ops(p.deny)
               /\ Allowed(rows', a) = (Allowed(rows, a) \cup Ops(p.allow)) \ Denied(rows', a)
               /\ \A t \in p.allow : t.op \in Allowed(rows', a) => t \in q.allow
               /\ rows[i].end = Forever \/ q.end \in 0..rows[i].end
               /\ \A o \in Ops(p.allow) \ Denied(rows', a) : o \in Ops(q.allow)
               /\ Live(rows[i]) /\ Live(p) => Live(q)
    <2> DEFINE old == rows[i]
    <2>1. old \in Policy /\ old.end \in Ends
      <3>1. i \in DOMAIN rows
        BY <1>6 DEF RowsOf
      <3> QED BY <3>1, PolicyFields DEF TypeOK
    <2>2. /\ Denied(rows, a) = Ops(Unconditional(old.deny))
          /\ Allowed(rows, a) = Ops(Unconditional(old.allow)) \ Denied(rows, a)
      BY <1>6, Grants1
    <2> HIDE DEF old
    <2>3. CASE q = mergeNewPolicy(old, p)
      <3>1. /\ q.end = calcMinEndTime(old.end, p.end)
            /\ Ops(Unconditional(q.deny)) = Ops(Unconditional(old.deny)) \cup Ops(p.deny)
            /\ Ops(Unconditional(q.allow)) =
                  (Ops(Unconditional(old.allow)) \cup Ops(p.allow)) \
                     (Ops(Unconditional(old.deny)) \cup Ops(p.deny))
            /\ \A t \in p.allow :
                  t.op \notin Ops(Unconditional(old.deny)) \cup Ops(p.deny) => t \in q.allow
        BY <1>0, <2>1, <2>3, MergeEffect
      <3>2. /\ Denied(rows', a) = Denied(rows, a) \cup Ops(p.deny)
            /\ Allowed(rows', a) = (Allowed(rows, a) \cup Ops(p.allow)) \ Denied(rows', a)
        BY <1>3, <2>2, <3>1
      <3>3. \A t \in p.allow : t.op \in Allowed(rows', a) => t \in q.allow
        BY <1>3, <3>1
      <3>4. old.end = Forever \/ q.end \in 0..old.end
        BY <1>0, <2>1, <3>1, MinEnd
      <3>5. \A o \in Ops(p.allow) \ Denied(rows', a) : o \in Ops(q.allow)
        BY <1>3, <1>4, <3>1
      <3>6. Live(old) /\ Live(p) => Live(q)
        BY <1>0, <2>1, <3>1, MinEnd DEF Live
      <3> QED BY <3>2, <3>3, <3>4, <3>5, <3>6 DEF old
    <2>4. CASE q = old /\ Same(old, p)
      <3>1. /\ Ops(p.deny) \subseteq Ops(Unconditional(old.deny))
            /\ Ops(p.allow) \subseteq Ops(Unconditional(old.allow))
            /\ p.allow \subseteq old.allow /\ old.end = p.end
        BY <1>0, <2>1, <2>4, SameRules
      <3>2. /\ Denied(rows', a) = Denied(rows, a) \cup Ops(p.deny)
            /\ Allowed(rows', a) = (Allowed(rows, a) \cup Ops(p.allow)) \ Denied(rows', a)
        BY <1>3, <2>2, <2>4, <3>1
      <3>3. /\ \A t \in p.allow : t \in q.allow
            /\ \A o \in Ops(p.allow) : o \in Ops(q.allow)
            /\ Live(old) => Live(q)
        BY <1>4, <2>4, <3>1
      <3>4. old.end = Forever \/ q.end \in 0..old.end
        BY <2>1, <2>4, PolicyStoreAssumption DEF Ends, Forever
      <3> QED BY <3>2, <3>3, <3>4 DEF old
    <2> QED BY <1>6, <2>3, <2>4 DEF old
  <1>7. CASE RowsOf(rows, a) = {i} /\ (q = mergeNewPolicy(rows[i], p) \/
                                       (q = rows[i] /\ Same(rows[i], p)))
    <2>1. /\ Denied(rows', a) = Denied(rows, a) \cup Ops(p.deny)
          /\ Allowed(rows', a) = (Allowed(rows, a) \cup Ops(p.allow)) \ Denied(rows', a)
          /\ \A t \in p.allow : t.op \in Allowed(rows', a) => t \in q.allow
          /\ rows[i].end = Forever \/ q.end \in 0..rows[i].end
          /\ \A o \in Ops(p.allow) \ Denied(rows', a) : o \in Ops(q.allow)
          /\ Live(rows[i]) /\ Live(p) => Live(q)
      BY <1>6, <1>7
    <2>2. i \in RowsOf(rows', a) /\ rows'[i] = q
      BY <1>1, <1>2
    <2>3. \A t \in p.allow : t.op \in Allowed(rows', a) =>
             \E j \in RowsOf(rows', a) : t \in rows'[j].allow
      BY <2>1, <2>2
    <2>4. \A j \in RowsOf(rows, a) : rows[j].end = Forever \/ rows'[j].end \in 0..rows[j].end
      BY <1>7, <2>1, <2>2
    <2>5. \A o \in Ops(p.allow) \ Denied(rows', a) :
             \/ \E j \in RowsOf(rows', a) : o \in Ops(rows'[j].allow) /\ Live(rows'[j])
             \/ ~Live(p)
             \/ \E j \in RowsOf(rows, a) : ~Live(rows[j])
      <3>1. i \in RowsOf(rows, a)
        BY <1>7
      <3> QED BY <2>1, <2>2, <3>1
    <2> QED BY <2>1, <2>3, <2>4, <2>5
  <1> QED BY <1>1, <1>2, <1>5, <1>7

\* What a request that is not a starting replica writes keeps the rules with a
\* condition.
LEMMA AnswerKeeps ==
    ASSUME TypeOK, Shape, AskInv, PlanInv, [Next]_vars, NEW w \in Worker, Answered(w),
           job[w] # "init", NEW i \in DOMAIN rows \cap DOMAIN rows',
           rows[i].acc \notin stale[w]
    PROVE  /\ Conditional(rows'[i].allow) = Conditional(rows[i].allow)
           /\ Conditional(rows'[i].deny) = Conditional(rows[i].deny)
  <1>1. CASE Unchanged(w)
    BY <1>1 DEF Unchanged
  <1>2. CASE Write(w)
    <2>1. PICK ids \in [new[w] -> PolicyID \ used] :
            /\ DOMAIN rows' = (DOMAIN rows \ del[w]) \cup {ids[q] : q \in new[w]}
            /\ \A j \in DOMAIN rows \ del[w] :
                  rows'[j] = IF j \in DOMAIN upd[w] THEN upd[w][j] ELSE rows[j]
      BY <1>2, WriteMoves
    <2>2. i \in used
      BY DEF TypeOK
    <2>3. rows'[i] = IF i \in DOMAIN upd[w] THEN upd[w][i] ELSE rows[i]
      BY <2>1, <2>2
    <2> QED BY <2>3 DEF PlanInv, UpdFits
  <1> QED BY <1>1, <1>2, AnsweredBy

\* The invariant the action properties rest on.
LEMMA Planned == Spec => [](TypeOK /\ Shape /\ AskInv /\ PlanInv)
  <1>1. TypeOK /\ Shape /\ AskInv /\ PlanInv /\ [Next]_vars
           => (TypeOK /\ Shape /\ AskInv /\ PlanInv)'
    BY NextType
  <1> QED BY <1>1, InitType, PTL DEF Spec

\* Create adds to what an accessor has and never takes away, unless its view is
\* outdated.
THEOREM CreateOnlyAdds == Spec => CreateMerges
  <1> DEFINE IInv == TypeOK /\ Shape /\ AskInv /\ PlanInv
             Merges == \A w \in Worker : Answered(w) /\ job[w] = "create" =>
                \A p \in req[w] : Undisturbed(w, p.acc) =>
                   LET a == p.acc IN
                   /\ Denied(rows', a) = Denied(rows, a) \cup Ops(p.deny)
                   /\ Allowed(rows', a) =
                         (Allowed(rows, a) \cup Ops(p.allow)) \ Denied(rows', a)
                   /\ \A t \in p.allow : t.op \in Allowed(rows', a) =>
                         \E i \in RowsOf(rows', a) : t \in rows'[i].allow
                   /\ \A i \in RowsOf(rows, a) :
                         rows[i].end = Forever \/ rows'[i].end \in 0..rows[i].end
  <1>1. IInv /\ [Next]_vars => Merges
    BY AnswerMerges
  <1>2. CreateMerges <=> [][Merges]_vars
    BY DEF CreateMerges
  <1> QED BY <1>1, <1>2, Planned, PTL DEF Spec

\* A permission that Create has answered for is in force, unless the view was
\* outdated, it is denied, or it or the row it was merged into had expired.
THEOREM GrantedInForce == Spec => GrantInForce
  <1> DEFINE IInv == TypeOK /\ Shape /\ AskInv /\ PlanInv
             InForce == \A w \in Worker : Answered(w) /\ job[w] = "create" =>
                \A p \in req[w] : Undisturbed(w, p.acc) =>
                   \A o \in Ops(p.allow) \ Denied(rows', p.acc) :
                      \/ \E i \in RowsOf(rows', p.acc) : /\ o \in Ops(rows'[i].allow)
                                                         /\ Live(rows'[i])
                      \/ ~Live(p)
                      \/ \E i \in RowsOf(rows, p.acc) : ~Live(rows[i])
  <1>1. IInv /\ [Next]_vars => InForce
    BY AnswerMerges
  <1>2. GrantInForce <=> [][InForce]_vars
    BY DEF GrantInForce
  <1> QED BY <1>1, <1>2, Planned, PTL DEF Spec

\* No request but a starting replica changes the rules with a condition of a
\* row that stays, unless its view is outdated.
THEOREM ConditionsStay == Spec => ConditionsKept
  <1> DEFINE IInv == TypeOK /\ Shape /\ AskInv /\ PlanInv
             Keeps == \A w \in Worker : Answered(w) /\ job[w] # "init" =>
                \A i \in DOMAIN rows \cap DOMAIN rows' :
                   rows[i].acc \in stale[w] \/
                   /\ Conditional(rows'[i].allow) = Conditional(rows[i].allow)
                   /\ Conditional(rows'[i].deny) = Conditional(rows[i].deny)
  <1>1. IInv /\ [Next]_vars => Keeps
    BY AnswerKeeps
  <1>2. ConditionsKept <=> [][Keeps]_vars
    BY DEF ConditionsKept
  <1> QED BY <1>1, <1>2, Planned, PTL DEF Spec
=============================================================================
