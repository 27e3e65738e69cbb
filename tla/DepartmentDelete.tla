-------------------------- MODULE DepartmentDelete --------------------------
(***************************************************************************)
(* Deleting departments (UserManagement/logics/department.go) and what the *)
(* deletion event takes with it.                                           *)
(*                                                                         *)
(* DeleteDepart reads what it needs in a row of separate queries, decides  *)
(* who has to move, and only then opens the transaction that writes; the   *)
(* transaction checks nothing again.  Several requests run at once.  The   *)
(* transaction also writes the messages to the outbox, whose push thread   *)
(* (module Outbox) hands them to the broker; a consumer of the event runs  *)
(* its handlers in order and stops at the first error, and the broker      *)
(* delivers again.                                                         *)
(*                                                                         *)
(* The queries only log the error with which a result ends early: a list   *)
(* may lack rows and the request goes on with it (Misread).                *)
(*                                                                         *)
(* Departments are the nodes of a forest, the roots are organisations.     *)
(* f_path is the list of a department's ancestors, so a LIKE on the path   *)
(* selects a subtree.  External: the database and the broker.              *)
(***************************************************************************)
EXTENDS Integers, FiniteSets

CONSTANTS Dept,
          Above,     \* the ancestors of a department, itself included
          User,
          Admin,     \* users with the role of a super or system admin
          Manager,   \* users with the role of an organisation manager
          Manages,   \* rows (manager, department) of t_department_responsible_person
          Request,
          Private,   \* the visitor of the private interface
          NoDept,    \* in a target: none; among a user's rows: the group "-1"
          MaxMisreads  \* bound: requests that go on with a truncated list

ASSUME DepartmentAssumption ==
    /\ Above \in [Dept -> SUBSET Dept]
    /\ \A d \in Dept : d \in Above[d]
    /\ \A d, e \in Dept : e \in Above[d] => Above[e] \subseteq Above[d]
    /\ \A d, e \in Dept : e \in Above[d] /\ d \in Above[e] => d = e
    /\ \A d \in Dept : \A e, f \in Above[d] : e \in Above[f] \/ f \in Above[e]
    /\ \A d \in Dept : \E r \in Above[d] : Above[r] = {r}
    /\ Admin \subseteq User /\ Manager \subseteq User
    /\ Manages \in [User -> SUBSET Dept]
    /\ Private \notin User /\ NoDept \notin Dept
    /\ MaxMisreads \in Nat

VARIABLES
    \* the database
    depts,       \* t_department
    related,     \* departments of t_department_relation and t_ou_department
    members,     \* t_user_department_relation, the departments of a user
    unassigned,  \* the number of a user's rows for the group "-1"
    ou,          \* t_ou_user, the organisations of a user
    refs,        \* rows about a department, by the handler that removes them
    \* a request
    pc, target, visitor,
    users,       \* allUserIDs
    move,        \* needAddToUnDistributeIDs
    leave,       \* needDeleteOUIDs
    doomed,      \* allSubDepIDs
    managers,    \* allOrgManagerIDs
    \* messages
    sent,        \* departments whose deletion was written to the outbox
    outbox,      \* requests whose messages the push thread has not taken
    stopped,     \* the push thread dies of the oldest message, every time
    pending,     \* departments whose event the consumer has not acknowledged
    informed,    \* managers named in a change event
    \* history
    misread,     \* requests that went on with a truncated list
    raced        \* a deletion took rows that another had already counted on,
                 \* or decided on a truncated list

dbVars  == <<depts, related, members, unassigned, ou>>
reqVars == <<target, visitor, users, move, leave, doomed, managers>>
msgVars == <<sent, outbox, stopped, pending, informed>>
vars == <<depts, related, members, unassigned, ou, refs, pc, target, visitor,
          users, move, leave, doomed, managers, sent, outbox, stopped, pending,
          informed, misread, raced>>

\* The handlers of the event, in the order of their registration: the tables
\* of managers, of auditors, of cleaning strategies and of group members.
Handler == 1..4

Below(d)  == {e \in Dept : d \in Above[e]}
RootOf(d) == CHOOSE r \in Above[d] : Above[r] = {r}
Roots(S)  == {RootOf(d) : d \in S}

\* A department is managed as long as its row has not been removed.
Managed(u) == Manages[u] \cap refs[1]

Init ==
    /\ depts = Dept
    /\ related = Dept
    /\ members \in [User -> SUBSET Dept]
    /\ unassigned = [u \in User |-> IF members[u] = {} THEN 1 ELSE 0]
    /\ ou = [u \in User |-> Roots(members[u])]
    /\ refs = [h \in Handler |-> Dept]
    /\ pc = [q \in Request |-> "idle"]
    /\ target = [q \in Request |-> NoDept]
    /\ visitor = [q \in Request |-> Private]
    /\ users = [q \in Request |-> {}]
    /\ move = [q \in Request |-> {}]
    /\ leave = [q \in Request |-> {}]
    /\ doomed = [q \in Request |-> {}]
    /\ managers = [q \in Request |-> {}]
    /\ sent = {} /\ pending = {} /\ informed = {}
    /\ outbox = {} /\ stopped = FALSE
    /\ misread = {} /\ raced = FALSE

-----------------------------------------------------------------------------
(* The checks.                                                             *)

\* The lists of a request that is answered.
Forget(q) ==
    /\ users' = [users EXCEPT ![q] = {}]
    /\ move' = [move EXCEPT ![q] = {}]
    /\ leave' = [leave EXCEPT ![q] = {}]
    /\ managers' = [managers EXCEPT ![q] = {}]
    /\ visitor' = [visitor EXCEPT ![q] = Private]

\* A request of v for d arrives; a department that does not exist is refused,
\* and the private interface is not checked.
DeleteDepart(q, d, v) ==
    /\ pc[q] = "idle"
    /\ target' = [target EXCEPT ![q] = d]
    /\ visitor' = [visitor EXCEPT ![q] = v]
    /\ pc' = [pc EXCEPT ![q] = IF d \notin depts THEN "refused"
                               ELSE IF v = Private THEN "users" ELSE "role"]
    /\ UNCHANGED <<dbVars, refs, users, move, leave, doomed, managers, msgVars,
                   misread, raced>>

\* checkDepartInScope: the roles, and whether a manager is a member himself.
CheckRole(q) ==
    /\ pc[q] = "role"
    /\ LET v == visitor[q] IN
       pc' = [pc EXCEPT ![q] =
                 IF v \in Admin THEN "users"
                 ELSE IF v \in Manager /\ target[q] \notin members[v] THEN "range"
                 ELSE "refused"]
    /\ UNCHANGED <<dbVars, refs, reqVars, msgVars, misread, raced>>

\* checkDepartInScope: the department is below one that the manager manages.
CheckRange(q) ==
    /\ pc[q] = "range"
    /\ pc' = [pc EXCEPT ![q] =
                 IF Managed(visitor[q]) \cap depts \cap Above[target[q]] # {}
                 THEN "users" ELSE "refused"]
    /\ UNCHANGED <<dbVars, refs, reqVars, msgVars, misread, raced>>

-----------------------------------------------------------------------------
(* handleDeletedDepartInfo: four queries.                                  *)

GetAllSubUserIDsByDepartPath(q) ==
    /\ pc[q] = "users"
    /\ users' = [users EXCEPT ![q] =
                    {u \in User : members[u] \cap Below(target[q]) # {}}]
    /\ pc' = [pc EXCEPT ![q] = "paths"]
    /\ UNCHANGED <<dbVars, refs, target, visitor, move, leave, doomed, managers,
                   msgVars, misread, raced>>

\* A user without a row is not in the map that GetUsersPath returns.
HasPath(u) == members[u] # {} \/ unassigned[u] > 0

\* Mutant: everybody in the subtree is moved.
OnlyBelowAll(u, d) == TRUE

\* mapNotNeedMove: no row lies outside the subtree.
OnlyBelow(u, d) == unassigned[u] = 0 /\ members[u] \subseteq Below(d)

\* Mutant: a department of another organisation keeps the relation.
LeavesOrgIfAlone(u, d) == members[u] \subseteq Below(d)

\* mapNotNeedDeteleOU: no other department of the same organisation.
LeavesOrg(u, d) == RootOf(d) \notin Roots(members[u] \ Below(d))

GetUsersPath(q) ==
    /\ pc[q] = "paths"
    /\ LET known == {u \in users[q] : HasPath(u)} IN
          /\ move' = [move EXCEPT ![q] = {u \in known : OnlyBelow(u, target[q])}]
          /\ leave' = [leave EXCEPT ![q] = {u \in known : LeavesOrg(u, target[q])}]
    /\ pc' = [pc EXCEPT ![q] = "departs"]
    /\ UNCHANGED <<dbVars, refs, target, visitor, users, doomed, managers,
                   msgVars, misread, raced>>

\* Mutant: only the department itself.
GetDepartInfoOnly(q) ==
    /\ pc[q] = "departs"
    /\ doomed' = [doomed EXCEPT ![q] = depts \cap {target[q]}]
    /\ pc' = [pc EXCEPT ![q] = "managers"]
    /\ UNCHANGED <<dbVars, refs, target, visitor, users, move, leave, managers,
                   msgVars, misread, raced>>

GetAllSubDepartInfosByPath(q) ==
    /\ pc[q] = "departs"
    /\ doomed' = [doomed EXCEPT ![q] = depts \cap Below(target[q])]
    /\ pc' = [pc EXCEPT ![q] = "managers"]
    /\ UNCHANGED <<dbVars, refs, target, visitor, users, move, leave, managers,
                   msgVars, misread, raced>>

\* Mutant: the managers of the deleted department only.
AffectedTarget(q) == {target[q]}

\* The deleted departments and all departments above them.
Affected(q) == UNION {Above[d] : d \in doomed[q]}

GetAllOrgManagerIDsByDepartIDs(q) ==
    /\ pc[q] = "managers"
    /\ managers' = [managers EXCEPT ![q] =
                       {u \in User : Managed(u) \cap Affected(q) # {}}]
    /\ pc' = [pc EXCEPT ![q] = "write"]
    /\ UNCHANGED <<dbVars, refs, target, visitor, users, move, leave, doomed,
                   msgVars, misread, raced>>

-----------------------------------------------------------------------------
(* A result that ends early.  A check then refuses the request, as Fail    *)
(* does; one of the four lists lacks rows, and the request goes on.        *)

\* The rows of a user in t_user_department_relation.
Rows(u) == members[u] \cup IF unassigned[u] > 0 THEN {NoDept} ELSE {}

\* GetUsersPath without some of the rows.
MisreadPaths(q) ==
    LET all == {r \in users[q] \X (Dept \cup {NoDept}) : r[2] \in Rows(r[1])}
    IN  \E got \in SUBSET all \ {all} :
           LET seen(u) == {r[2] : r \in {r \in got : r[1] = u}}
               listed == {u \in users[q] : seen(u) # {}}
           IN  /\ move' = [move EXCEPT ![q] =
                     {u \in listed : seen(u) \subseteq Below(target[q])}]
               /\ leave' = [leave EXCEPT ![q] =
                     {u \in listed : RootOf(target[q]) \notin
                         Roots((seen(u) \ {NoDept}) \ Below(target[q]))}]

Misread(q) ==
    /\ Cardinality(misread \cup {q}) <= MaxMisreads
    /\ misread' = misread \cup {q}
    /\ \/ /\ pc[q] = "users"
          /\ LET all == {u \in User : members[u] \cap Below(target[q]) # {}} IN
             \E got \in SUBSET all \ {all} : users' = [users EXCEPT ![q] = got]
          /\ pc' = [pc EXCEPT ![q] = "paths"]
          /\ UNCHANGED <<move, leave, doomed, managers>>
       \/ /\ pc[q] = "paths"
          /\ MisreadPaths(q)
          /\ pc' = [pc EXCEPT ![q] = "departs"]
          /\ UNCHANGED <<users, doomed, managers>>
       \/ /\ pc[q] = "departs"
          /\ LET all == depts \cap Below(target[q]) IN
             \E got \in SUBSET all \ {all} : doomed' = [doomed EXCEPT ![q] = got]
          /\ pc' = [pc EXCEPT ![q] = "managers"]
          /\ UNCHANGED <<users, move, leave, managers>>
       \/ /\ pc[q] = "managers"
          /\ LET all == {u \in User : Managed(u) \cap Affected(q) # {}} IN
             \E got \in SUBSET all \ {all} :
                managers' = [managers EXCEPT ![q] = got]
          /\ pc' = [pc EXCEPT ![q] = "write"]
          /\ UNCHANGED <<users, move, leave, doomed>>
    /\ UNCHANGED <<dbVars, refs, target, visitor, msgVars, raced>>

-----------------------------------------------------------------------------
(* The transaction.                                                        *)

\* Another request has read the paths of a user whose rows go now.
Overtaken(q) ==
    \E p \in Request \ {q} :
        /\ pc[p] \in {"departs", "managers", "write"}
        /\ \E u \in users[p] : members[u] \cap Below(target[q]) # {}

\* deleteDepartInfo, the messages and the commit.
deleteDepartInfo(q) ==
    /\ pc[q] = "write"
    /\ members' = [u \in User |-> members[u] \ Below(target[q])]
    /\ unassigned' = [u \in User |-> IF u \in move[q] THEN unassigned[u] + 1
                                     ELSE unassigned[u]]
    /\ ou' = [u \in User |-> IF u \in leave[q] THEN ou[u] \ {RootOf(target[q])}
                             ELSE ou[u]]
    /\ depts' = depts \ Below(target[q])
    /\ related' = related \ doomed[q]
    /\ sent' = sent \cup doomed[q]
    /\ outbox' = outbox \cup {q}
    /\ informed' = informed \cup managers[q]
    /\ raced' = (raced \/ Overtaken(q) \/ q \in misread)
    /\ pc' = [pc EXCEPT ![q] = "done"]
    /\ Forget(q)
    /\ UNCHANGED <<refs, target, doomed, stopped, pending, misread>>

\* A query or a statement fails, or the replica dies: nothing has been written.
Fail(q) ==
    /\ pc[q] \in {"role", "range", "users", "paths", "departs", "managers", "write"}
    /\ pc' = [pc EXCEPT ![q] = "failed"]
    /\ doomed' = [doomed EXCEPT ![q] = {}]
    /\ Forget(q)
    /\ UNCHANGED <<dbVars, refs, target, msgVars, misread, raced>>

-----------------------------------------------------------------------------
(* The push thread and the consumer of the deletion event.                 *)

\* GetAllOrgManagerIDsByDepartIDs returns nil when it is given no departments,
\* which is written to the outbox as null.
NullList(q) == doomed[q] = {}

\* sendDepartDeleted and sendOrgManagerChanged: the messages of a request, which
\* the clocks of the replicas put in any order with those of others.  The list
\* of managers is asserted to be an array: null is a panic in the push thread,
\* the process dies, and the message is still there for the next one.
push(q) ==
    /\ q \in outbox /\ ~stopped
    /\ IF NullList(q) THEN stopped' = TRUE /\ UNCHANGED <<outbox, pending>>
       ELSE /\ outbox' = outbox \ {q}
            /\ pending' = pending \cup doomed[q]
            /\ UNCHANGED stopped
    /\ UNCHANGED <<dbVars, refs, pc, reqVars, sent, informed, misread, raced>>

\* Mutant: an error of a handler is swallowed and the message acknowledged.
DeptDeletedSwallowed(d, n) ==
    /\ d \in pending
    /\ refs' = [h \in Handler |-> IF h <= n THEN refs[h] \ {d} ELSE refs[h]]
    /\ pending' = pending \ {d}
    /\ UNCHANGED <<dbVars, pc, reqVars, sent, outbox, stopped, informed, misread,
                   raced>>

\* n handlers succeed.  The message stays when one of them did not, or when
\* the acknowledgement is lost.
DeptDeleted(d, n) ==
    /\ d \in pending
    /\ refs' = [h \in Handler |-> IF h <= n THEN refs[h] \ {d} ELSE refs[h]]
    /\ \/ UNCHANGED pending
       \/ n = 4 /\ pending' = pending \ {d}
    /\ UNCHANGED <<dbVars, pc, reqVars, sent, outbox, stopped, informed, misread,
                   raced>>

-----------------------------------------------------------------------------

Step(q) ==
    \/ CheckRole(q) \/ CheckRange(q)
    \/ GetAllSubUserIDsByDepartPath(q) \/ GetUsersPath(q)
    \/ GetAllSubDepartInfosByPath(q) \/ GetAllOrgManagerIDsByDepartIDs(q)
    \/ deleteDepartInfo(q)

Next ==
    \/ \E q \in Request :
          \/ \E d \in Dept, v \in User \cup {Private} : DeleteDepart(q, d, v)
          \/ Step(q) \/ Misread(q) \/ Fail(q) \/ push(q)
    \/ \E d \in Dept, n \in 0..4 : DeptDeleted(d, n)

Spec == Init /\ [][Next]_vars

\* The push thread is notified, or started again with its process (module
\* Outbox); the broker delivers again until the handlers succeed, which they do.
FairSpec ==
    /\ Spec
    /\ \A q \in Request : WF_vars(push(q))
    /\ \A d \in Dept : WF_vars(DeptDeleted(d, 4) /\ pending' = pending \ {d})

-----------------------------------------------------------------------------
(* Properties.                                                             *)

\* The types of the tables and of what a request has read.
TypeOK ==
    /\ depts \subseteq Dept /\ related \subseteq Dept
    /\ members \in [User -> SUBSET Dept]
    /\ unassigned \in [User -> Nat]
    /\ ou \in [User -> SUBSET Dept]
    /\ refs \in [Handler -> SUBSET Dept]
    /\ pc \in [Request -> {"idle", "role", "range", "users", "paths", "departs",
                           "managers", "write", "done", "refused", "failed"}]
    /\ target \in [Request -> Dept \cup {NoDept}]
    /\ visitor \in [Request -> User \cup {Private}]
    /\ users \in [Request -> SUBSET User]
    /\ move \in [Request -> SUBSET User]
    /\ leave \in [Request -> SUBSET User]
    /\ doomed \in [Request -> SUBSET Dept]
    /\ managers \in [Request -> SUBSET User]
    /\ sent \subseteq Dept /\ pending \subseteq Dept
    /\ informed \subseteq User
    /\ outbox \subseteq Request /\ stopped \in BOOLEAN
    /\ misread \subseteq Request
    /\ raced \in BOOLEAN

\* Whoever loses his last department is moved to the group of unassigned
\* users, as the comments of deleteDepartInfo and handleDeletedDepartInfo
\* say.
EveryoneSomewhere == \A u \in User : members[u] # {} \/ unassigned[u] > 0

\* Unless a deletion takes a row that another request has already counted on
\* (between its reading the paths and its transaction) or went by a truncated
\* list, deletions in any order and nesting leave every user either in
\* departments or once among the unassigned, and in exactly the organisations
\* of his departments.
PlacedUnlessRaced ==
    ~raced => \A u \in User :
        /\ unassigned[u] = IF members[u] = {} THEN 1 ELSE 0
        /\ ou[u] = Roots(members[u])

\* A deletion that went by a truncated list took the department.
Unlisted(d) == \E q \in misread : pc[q] = "done" /\ d \in Below(target[q])

\* A deletion of the department, or of one above it, came first.
Preceded(q) ==
    \E p \in Request \ {q} : pc[p] = "done" /\ target[p] \in Above[target[q]]

\* However deletions overlap, a department that is gone has been announced and
\* nothing of it is left in the relation tables: the IDs were read before the
\* transaction deletes by path.  Only a truncated list breaks this.  A request
\* that finds nothing to delete, whose null list will stop the push thread,
\* was preceded by a deletion of the whole subtree after its check.
DeletionComplete ==
    /\ depts \subseteq related /\ sent \subseteq Dept \ depts
    /\ \A d \in Dept \ depts : d \in sent \ related \/ Unlisted(d)
    /\ \A q \in Request \ misread :
          pc[q] = "done" /\ NullList(q) => Preceded(q)

\* A manager who manages a deleted department or one above it is told, though
\* the consumer of an earlier event may have removed rows of the table in
\* which the managers are looked up.  Only a truncated list breaks this.
ManagersInformed ==
    \A d \in sent : \A u \in User :
        Manages[u] \cap Above[d] # {} => u \in informed \/ Unlisted(d)

\* The rows about an announced department disappear, though handlers fail,
\* unless the null list of an overlapping deletion stops the push thread.
RefsRemoved ==
    \A d \in Dept :
        d \in sent ~> (\A h \in Handler : d \notin refs[h]) \/ stopped
=============================================================================
