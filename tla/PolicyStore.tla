---------------------------- MODULE PolicyStore -----------------------------
(***************************************************************************)
(* The policies of a resource in Authorization (logics/policy.go,          *)
(* dbaccess/policy.go): granting, changing and revoking them, the policies *)
(* a starting replica installs, the daily removal of expired ones, and the *)
(* removal of the policies of a deleted accessor or resource.              *)
(*                                                                         *)
(* Every operation reads policies first, works out rows and writes them in *)
(* a transaction of its own later.  t_policy has no unique key on resource *)
(* and accessor, and the update of a row that is gone changes nothing.     *)
(*                                                                         *)
(* The policies of different resources never meet in these operations: the *)
(* module has the rows of one resource.  The rules of a policy are a set of*)
(* records, one for every condition and operation.  A worker is a request  *)
(* or a starting replica.                                                  *)
(*                                                                         *)
(* An accessor is deleted first, and the policies are taken in a later     *)
(* step: of a role by the request itself (logics/role.go), of the others   *)
(* by a message, which for departments and applications an outbox keeps    *)
(* and for users and groups nothing does.                                  *)
(*                                                                         *)
(* External: the database and the broker.  That the visitor may grant is   *)
(* not modelled.                                                           *)
(***************************************************************************)
EXTENDS Integers, FiniteSets

CONSTANTS Worker, Accessor,
          Role,         \* accessors that are roles
          Untied,       \* users and groups: their message is published once
          PolicyID,
          Op, Obligation,
          Condition,    \* conditions other than the empty one
          Always,       \* the empty condition
          Grants,       \* what Create is asked for: sets of policies
          Changes,      \* what Update is asked for
          Preset,       \* the policies a replica installs when it starts
          MaxNow,       \* bound: time
          MaxRequests,  \* bound: requests and starts
          MaxFaults     \* bound: calls that fail, lost messages, truncated reads

Forever == -1

Rule   == [cond : Condition \cup {Always}, op : Op, obl : Obligation]
Rules  == {S \in SUBSET Rule : \A s, t \in S :
             s.cond = t.cond /\ s.op = t.op => s = t}
Ends   == {Forever} \cup 0..MaxNow
Policy == [acc : Accessor, end : Ends, allow : Rules, deny : Rules]

Unconditional(rules) == {t \in rules : t.cond = Always}
Conditional(rules)   == {t \in rules : t.cond # Always}
Ops(rules)           == {t.op : t \in rules}

\* checkPolicyOperationValid: no operation is both allowed and denied.
Valid(p) == /\ Conditional(p.allow \cup p.deny) = {}
            /\ Ops(p.allow) \cap Ops(p.deny) = {}

ASSUME PolicyStoreAssumption ==
    /\ Role \subseteq Accessor /\ Untied \subseteq Accessor \ Role
    /\ Always \notin Condition
    /\ MaxNow \in Nat /\ MaxRequests \in Nat /\ MaxFaults \in Nat
    /\ \A g \in Grants : /\ g \subseteq Policy /\ IsFiniteSet(g)
                         /\ \A p \in g : Valid(p)
                         /\ \A p, q \in g : p.acc = q.acc => p = q
    /\ Changes \subseteq Policy /\ \A p \in Changes : Valid(p)
    /\ Preset \subseteq Policy /\ IsFiniteSet(Preset)
    /\ \A p, q \in Preset : p.acc = q.acc => p = q

VARIABLES
    now,
    alive,     \* the accessors that exist
    owed,      \* deleted accessors whose policies nobody was asked to take yet
    pending,   \* the ones whose deletion is announced and not acknowledged
    rows,      \* t_policy: the policies by f_id
    used,      \* identifiers that were given out
    pc,
    job,       \* what the worker does
    req,       \* the policies it was asked for
    new, upd, del,  \* the rows it will insert, overwrite and delete
    requests, faults,
    \* history
    stale,     \* accessors whose rows are not, or no longer, what the worker read
    twinned,   \* accessors for whom a second row was inserted unseen
    outlived,  \* deleted accessors for whom a request or a start inserted a row
    forsaken   \* deleted accessors whose policies nobody will be asked to take

planVars == <<new, upd, del>>
vars == <<now, alive, owed, pending, rows, used, pc, job, req, new, upd, del,
          requests, faults, stale, twinned, outlived, forsaken>>
accessorVars == <<alive, owed, pending, forsaken>>

NoRows == [i \in {} |-> {}]

RowsOf(table, a) == {i \in DOMAIN table : table[i].acc = a}

\* The policy calculation leaves out rows whose end is in the past.
Live(p) == p.end = Forever \/ p.end >= now

Init ==
    /\ now = 0
    /\ alive = Accessor
    /\ owed = {} /\ pending = {} /\ forsaken = {}
    /\ rows = NoRows
    /\ used = {}
    /\ pc = [w \in Worker |-> "idle"]
    /\ job = [w \in Worker |-> "none"]
    /\ req = [w \in Worker |-> {}]
    /\ new = [w \in Worker |-> {}]
    /\ upd = [w \in Worker |-> NoRows]
    /\ del = [w \in Worker |-> {}]
    /\ requests = 0 /\ faults = 0
    /\ stale = [w \in Worker |-> {}]
    /\ twinned = {} /\ outlived = {}

-----------------------------------------------------------------------------
(* Merging a policy into a row.                                            *)

\* Rules of the second set, and those of the first that it does not speak of.
Override(old, by) ==
    by \cup {t \in old : \A s \in by : s.cond # t.cond \/ s.op # t.op}

\* Mutant: an end that is not set counts as zero.
UnsetIsZero(e, f) ==
    IF e = Forever \/ f = Forever THEN 0 ELSE IF e < f THEN e ELSE f

calcMinEndTime(e, f) ==
    IF e = Forever THEN f ELSE IF f = Forever THEN e ELSE IF e < f THEN e ELSE f

\* cmpPolicy and cmpPolicyWithCondition: nothing changes when the end is the
\* same and every rule is there with its obligation.
Same(old, p) ==
    old.end = p.end /\ p.allow \subseteq old.allow /\ p.deny \subseteq old.deny

\* Mutant: a new permission takes the place of an old denial.
AllowWins(old, p) ==
    LET allow == Override(Unconditional(old.allow), p.allow)
        deny  == {t \in Override(Unconditional(old.deny), p.deny) : t.op \notin Ops(allow)}
    IN  [acc   |-> old.acc,
         end   |-> calcMinEndTime(old.end, p.end),
         allow |-> allow \cup Conditional(old.allow),
         deny  |-> deny \cup Conditional(old.deny)]

\* Denials first; a permission stays when it is not denied; rules with a
\* condition are kept.
mergeNewPolicy(old, p) ==
    LET deny  == Override(Unconditional(old.deny), p.deny)
        allow == {t \in Override(Unconditional(old.allow), p.allow) : t.op \notin Ops(deny)}
    IN  [acc   |-> old.acc,
         end   |-> calcMinEndTime(old.end, p.end),
         allow |-> allow \cup Conditional(old.allow),
         deny  |-> deny \cup Conditional(old.deny)]

\* Permissions and denials are merged condition by condition, each by itself.
mergeNewPolicyWithCondition(old, p) ==
    [acc   |-> old.acc,
     end   |-> calcMinEndTime(old.end, p.end),
     allow |-> Override(old.allow, p.allow),
     deny  |-> Override(old.deny, p.deny)]

Merge(kind, old, p) == IF kind = "init" THEN mergeNewPolicyWithCondition(old, p)
                       ELSE mergeNewPolicy(old, p)

\* Mutant: the old rules without a condition stay.
OverwriteNothing(old, p) ==
    [acc   |-> old.acc, end |-> p.end,
     allow |-> p.allow \cup old.allow,
     deny  |-> p.deny \cup old.deny]

\* Update replaces the rules without a condition, and the end.
Overwrite(old, p) ==
    [acc   |-> old.acc, end |-> p.end,
     allow |-> p.allow \cup Conditional(old.allow),
     deny  |-> p.deny \cup Conditional(old.deny)]

\* Mutant: a policy with conditions is deleted, too.
StripAll(old) == [old EXCEPT !.allow = {}, !.deny = {}]

\* Delete takes the rules without a condition from a policy that has others.
Strip(old) == [old EXCEPT !.allow = Conditional(@), !.deny = Conditional(@)]

-----------------------------------------------------------------------------
(* Steps of a request.                                                     *)

Leave(w) ==
    /\ pc' = [pc EXCEPT ![w] = "idle"]
    /\ job' = [job EXCEPT ![w] = "none"]
    /\ req' = [req EXCEPT ![w] = {}]
    /\ new' = [new EXCEPT ![w] = {}]
    /\ upd' = [upd EXCEPT ![w] = NoRows]
    /\ del' = [del EXCEPT ![w] = {}]

\* The workers that have read the rows no longer know those that change.
Notice(w, table) ==
    LET changed == {a \in Accessor : \/ RowsOf(table, a) # RowsOf(rows, a)
                                     \/ \E i \in RowsOf(rows, a) : table[i] # rows[i]}
    IN  stale' = [v \in Worker |-> IF v = w THEN {}
                                   ELSE IF pc[v] = "write" THEN stale[v] \cup changed
                                   ELSE stale[v]]

\* Accessors that have one row at most are no longer twins.
Twins(table, more) == {a \in twinned \cup more : Cardinality(RowsOf(table, a)) > 1}

Begin(w, kind) ==
    /\ pc[w] = "idle"
    /\ requests < MaxRequests /\ requests' = requests + 1
    /\ job' = [job EXCEPT ![w] = kind]
    /\ UNCHANGED <<now, accessorVars, rows, used, faults, stale, twinned, outlived>>

checkEndTime(p) == p.end = Forever \/ p.end > now

\* Create and CreatePrivate check the ends, then that the accessors exist.
Create(w, g) ==
    /\ \A p \in g : checkEndTime(p) /\ p.acc \in alive
    /\ Begin(w, "create")
    /\ pc' = [pc EXCEPT ![w] = "read"]
    /\ req' = [req EXCEPT ![w] = g]
    /\ UNCHANGED planVars

InitPolicy(w) ==
    /\ Begin(w, "init")
    /\ pc' = [pc EXCEPT ![w] = "read"]
    /\ req' = [req EXCEPT ![w] = Preset]
    /\ UNCHANGED planVars

\* Mutant: expired rows are not read.
GetLiveByResourceIDs(a, lost) == {i \in RowsOf(rows, a) \ lost : Live(rows[i])}

\* The rows of an accessor on the resource, expired ones included, that are in
\* the result.
GetByResourceIDs(a, lost) == RowsOf(rows, a) \ lost

\* getCreateAndUpdatePolicy and the one with conditions: every policy goes to
\* a row of its accessor, any one when there are several, or becomes a row.
getCreateAndUpdatePolicy(w, pick, lost) ==
    LET found == {p \in req[w] : GetByResourceIDs(p.acc, lost) # {}}
        diff  == {p \in found : ~Same(rows[pick[p.acc]], p)}
    IN  /\ new' = [new EXCEPT ![w] = req[w] \ found]
        /\ upd' = [upd EXCEPT ![w] =
              [i \in {pick[p.acc] : p \in diff} |->
                 Merge(job[w], rows[i], CHOOSE p \in diff : pick[p.acc] = i)]]
        /\ pc' = [pc EXCEPT ![w] = "write"]

\* The rows are read, but for those of lost.
ReadBut(w, lost) ==
    /\ pc[w] = "read"
    /\ \E pick \in [Accessor -> PolicyID] :
          /\ \A a \in Accessor :
                GetByResourceIDs(a, lost) # {} => pick[a] \in GetByResourceIDs(a, lost)
          /\ getCreateAndUpdatePolicy(w, pick, lost)
    /\ stale' = [stale EXCEPT ![w] = @ \cup {rows[i].acc : i \in lost}]
    /\ UNCHANGED <<now, accessorVars, rows, used, job, req, del, requests, twinned,
                   outlived>>

Read(w) == ReadBut(w, {}) /\ UNCHANGED faults

\* The result ends early, and the error is only logged.
Misread(w) ==
    /\ faults < MaxFaults /\ faults' = faults + 1
    /\ \E lost \in SUBSET DOMAIN rows : lost # {} /\ ReadBut(w, lost)

\* GetByPolicyIDs and what Update makes of it.
Update(w, i, c) ==
    /\ checkEndTime(c)
    /\ i \in DOMAIN rows
    /\ Begin(w, "update")
    /\ pc' = [pc EXCEPT ![w] = "write"]
    /\ upd' = [upd EXCEPT ![w] = [j \in {i} |-> Overwrite(rows[i], c)]]
    /\ UNCHANGED <<req, new, del>>

Delete(w, i) ==
    /\ i \in DOMAIN rows
    /\ Begin(w, "delete")
    /\ pc' = [pc EXCEPT ![w] = "write"]
    /\ IF Conditional(rows[i].allow \cup rows[i].deny) # {}
       THEN /\ upd' = [upd EXCEPT ![w] = [j \in {i} |-> Strip(rows[i])]]
            /\ UNCHANGED del
       ELSE /\ del' = [del EXCEPT ![w] = {i}]
            /\ UNCHANGED upd
    /\ UNCHANGED <<req, new>>

\* Nothing to write: the request is answered without a transaction.
Unchanged(w) ==
    /\ pc[w] = "write"
    /\ new[w] = {} /\ DOMAIN upd[w] = {} /\ del[w] = {}
    /\ Leave(w)
    /\ Notice(w, rows)
    /\ UNCHANGED <<now, accessorVars, rows, used, requests, faults, twinned, outlived>>

\* Mutant: the update inserts the row when it is not there.
Upsert(w, kept) == DOMAIN upd[w]

\* Rows that the update statements find.
Found(w, kept) == DOMAIN upd[w] \cap kept

\* The transaction: new rows, updates by f_id, deletions.
Write(w) ==
    /\ pc[w] = "write"
    /\ new[w] # {} \/ DOMAIN upd[w] # {} \/ del[w] # {}
    /\ \E ids \in [new[w] -> PolicyID \ used] :
          /\ \A p, q \in new[w] : ids[p] = ids[q] => p = q
          /\ LET fresh == {ids[p] : p \in new[w]}
                 kept  == DOMAIN rows \ del[w]
                 over  == Found(w, kept)
                 table == [i \in kept \cup fresh \cup over |->
                             IF i \in fresh THEN CHOOSE p \in new[w] : ids[p] = i
                             ELSE IF i \in over THEN upd[w][i] ELSE rows[i]]
             IN  /\ rows' = table
                 /\ used' = used \cup fresh
                 /\ twinned' = Twins(table, stale[w] \cap {p.acc : p \in new[w]})
                 /\ outlived' = outlived \cup
                       {a \in Accessor \ alive : \E p \in new[w] : p.acc = a}
                 /\ Notice(w, table)
    /\ Leave(w)
    /\ UNCHANGED <<now, accessorVars, requests, faults>>

\* A call fails or the transaction is rolled back.
CallFails(w) ==
    /\ pc[w] # "idle"
    /\ faults < MaxFaults /\ faults' = faults + 1
    /\ Leave(w)
    /\ Notice(w, rows)
    /\ UNCHANGED <<now, accessorVars, rows, used, requests, twinned, outlived>>

-----------------------------------------------------------------------------
(* Statements that need no earlier read.                                   *)

Remove(S) ==
    LET table == [i \in DOMAIN rows \ S |-> rows[i]]
    IN  /\ rows' = table
        /\ twinned' = Twins(table, {})
        /\ stale' = [v \in Worker |->
              IF pc[v] = "write" THEN stale[v] \cup {rows[i].acc : i \in S \cap DOMAIN rows}
              ELSE stale[v]]

DeleteByResourceIDs ==
    /\ requests < MaxRequests /\ requests' = requests + 1
    /\ Remove(DOMAIN rows)
    /\ UNCHANGED <<now, accessorVars, used, pc, job, req, planVars, faults, outlived>>

\* The timer's daily removal.
DeleteByEndTime ==
    /\ \E i \in DOMAIN rows : ~Live(rows[i])
    /\ Remove({i \in DOMAIN rows : ~Live(rows[i])})
    /\ UNCHANGED <<now, accessorVars, used, pc, job, req, planVars, requests, faults,
                   outlived>>

-----------------------------------------------------------------------------
(* The end of an accessor.                                                 *)

\* The accessor is deleted; what follows comes in steps of their own.
DeleteAccessor(a) ==
    /\ a \in alive
    /\ alive' = alive \ {a}
    /\ owed' = owed \cup {a}
    /\ UNCHANGED <<now, pending, forsaken, rows, used, pc, job, req, planVars, requests,
                   faults, stale, twinned, outlived>>

\* DeleteRole goes on, after the members of the role: no message, and nothing
\* that repeats it.
RoleDeleted(a) ==
    /\ a \in owed \cap Role
    /\ owed' = owed \ {a}
    /\ Remove(RowsOf(rows, a))
    /\ outlived' = outlived \ {a}
    /\ UNCHANGED <<now, alive, pending, forsaken, used, pc, job, req, planVars, requests,
                   faults>>

Publish(a) ==
    /\ a \in owed \ Role
    /\ owed' = owed \ {a}
    /\ pending' = pending \cup {a}
    /\ UNCHANGED <<now, alive, forsaken, rows, used, pc, job, req, planVars, requests,
                   faults, stale, twinned, outlived>>

\* A later step of the deletion, or the publication, fails or the process ends.
\* Who asks again finds no role, user or group, and nothing is done.
NotAskedAgain(a) ==
    /\ a \in owed \cap (Role \cup Untied)
    /\ faults < MaxFaults /\ faults' = faults + 1
    /\ owed' = owed \ {a}
    /\ forsaken' = forsaken \cup {a}
    /\ UNCHANGED <<now, alive, pending, rows, used, pc, job, req, planVars, requests,
                   stale, twinned, outlived>>

\* The message of a deleted accessor; an error makes the broker repeat it,
\* also when the rows are gone.
deletePolicyByAccessorID(a) ==
    /\ a \in pending
    /\ Remove(RowsOf(rows, a))
    /\ \/ pending' = pending \ {a} /\ UNCHANGED faults
       \/ faults < MaxFaults /\ faults' = faults + 1 /\ UNCHANGED pending
    /\ outlived' = outlived \ {a}
    /\ UNCHANGED <<now, alive, owed, forsaken, used, pc, job, req, planVars, requests>>

Tick ==
    /\ now < MaxNow
    /\ now' = now + 1
    /\ UNCHANGED <<accessorVars, rows, used, pc, job, req, planVars, requests, faults,
                   stale, twinned, outlived>>

Next ==
    \/ \E w \in Worker :
          \/ \E g \in Grants : Create(w, g)
          \/ \E i \in PolicyID, c \in Changes : Update(w, i, c)
          \/ \E i \in PolicyID : Delete(w, i)
          \/ InitPolicy(w) \/ Read(w) \/ Unchanged(w) \/ Write(w)
          \/ Misread(w) \/ CallFails(w)
    \/ DeleteByResourceIDs \/ DeleteByEndTime \/ Tick
    \/ \E a \in Accessor :
          \/ DeleteAccessor(a) \/ RoleDeleted(a) \/ Publish(a)
          \/ deletePolicyByAccessorID(a) \/ NotAskedAgain(a)

Spec == Init /\ [][Next]_vars

-----------------------------------------------------------------------------
(* Properties.                                                             *)

\* The types of the variables; what a merge, an update or a revocation writes
\* is a policy, with one rule for a condition and operation.
TypeOK ==
    /\ now \in 0..MaxNow
    /\ alive \subseteq Accessor /\ owed \subseteq Accessor \ alive
    /\ pending \subseteq Accessor \ (alive \cup owed)
    /\ forsaken \subseteq Accessor \ (alive \cup owed \cup pending)
    /\ DOMAIN rows \subseteq used /\ used \subseteq PolicyID
    /\ \A i \in DOMAIN rows : rows[i] \in Policy
    /\ \A w \in Worker : /\ pc[w] \in {"idle", "read", "write"}
                         /\ job[w] \in {"none", "create", "update", "delete", "init"}
                         /\ req[w] \subseteq Policy
                         /\ new[w] \subseteq req[w]
                         /\ \A i \in DOMAIN upd[w] : upd[w][i] \in Policy
                         /\ del[w] \subseteq used

\* An accessor has one policy on a resource.  The code takes this for granted
\* (Update and Delete name a row); it fails only when a request inserted a row
\* although the accessor's rows had changed since it read them, or after it
\* had not seen all of them.
OnePolicyUnlessOverlap ==
    \A a \in Accessor : Cardinality(RowsOf(rows, a)) > 1 => a \in twinned

\* The policies of a deleted accessor are gone for good once its deletion is
\* over and its message acknowledged, unless a request that had found the
\* accessor, or a starting replica, inserted one later.  Only a deletion that
\* broke off leaves policies behind, of a role, user or group: never that of a
\* department or an application.
DeletedAccessorHasNoPolicy ==
    \A a \in Accessor \ (alive \cup owed \cup pending) :
        \/ RowsOf(rows, a) = {}
        \/ a \in outlived
        \/ a \in forsaken \cap (Role \cup Untied)

\* The operations a table denies and allows an accessor without a condition.
Denied(table, a)  == UNION {Ops(Unconditional(table[i].deny)) : i \in RowsOf(table, a)}
Allowed(table, a) ==
    (UNION {Ops(Unconditional(table[i].allow)) : i \in RowsOf(table, a)}) \ Denied(table, a)

\* The request of w is answered without an error.
Answered(w) == pc[w] = "write" /\ pc'[w] = "idle" /\ faults' = faults

\* What w knows of the accessor is right.
Undisturbed(w, a) == a \notin stale[w] /\ Cardinality(RowsOf(rows, a)) <= 1

\* Create adds to what an accessor has and never takes away: every denial
\* stays, every permission that is not denied stays, the ones asked for are
\* there with the obligation asked for, and no row comes to last longer.  Only
\* a request whose view is outdated may break this.
CreateMerges ==
    [][\A w \in Worker : Answered(w) /\ job[w] = "create" =>
         \A p \in req[w] : Undisturbed(w, p.acc) =>
            LET a == p.acc IN
            /\ Denied(rows', a) = Denied(rows, a) \cup Ops(p.deny)
            /\ Allowed(rows', a) =
                  (Allowed(rows, a) \cup Ops(p.allow)) \ Denied(rows', a)
            /\ \A t \in p.allow : t.op \in Allowed(rows', a) =>
                  \E i \in RowsOf(rows', a) : t \in rows'[i].allow
            /\ \A i \in RowsOf(rows, a) :
                  rows[i].end = Forever \/ rows'[i].end \in 0..rows[i].end]_vars

\* A permission that Create has answered for is in force, unless it is denied,
\* its own end has passed, or it was merged into a row that had expired and
\* was not yet removed.
GrantInForce ==
    [][\A w \in Worker : Answered(w) /\ job[w] = "create" =>
         \A p \in req[w] : Undisturbed(w, p.acc) =>
            \A o \in Ops(p.allow) \ Denied(rows', p.acc) :
               \/ \E i \in RowsOf(rows', p.acc) : /\ o \in Ops(rows'[i].allow)
                                                  /\ Live(rows'[i])
               \/ ~Live(p)
               \/ \E i \in RowsOf(rows, p.acc) : ~Live(rows[i])]_vars

\* Rules with a condition are the business of the installed policies: no
\* request changes those of a row that stays, unless its view is outdated.
ConditionsKept ==
    [][\A w \in Worker : Answered(w) /\ job[w] # "init" =>
         \A i \in DOMAIN rows \cap DOMAIN rows' :
            rows[i].acc \in stale[w] \/
            /\ Conditional(rows'[i].allow) = Conditional(rows[i].allow)
            /\ Conditional(rows'[i].deny) = Conditional(rows[i].deny)]_vars

====
