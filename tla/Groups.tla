------------------------------- MODULE Groups -------------------------------
(***************************************************************************)
(* The user groups of UserManagement (logics/group.go, dbaccess/group.go,  *)
(* dbaccess/group_member.go): creating, renaming and deleting a group,     *)
(* adding and removing members, and the removal of the member rows of a    *)
(* user or department that is deleted.                                     *)
(*                                                                         *)
(* Every operation is a sequence of statements, each committed by itself:  *)
(* also the member rows of a new group, which AddGroupMembers inserts      *)
(* through the connection pool and not through the transaction it is given.*)
(* Neither table has a unique key but its own serial number.  Messages and *)
(* audit records of a finished operation are the work of goroutines that   *)
(* nobody waits for, whose errors are dropped.                             *)
(*                                                                         *)
(* A worker is a request.  Group identifiers are fresh UUIDs, here numbers.*)
(* Notes, and the permission of the visitor, are not modelled.  External:  *)
(* the database and the broker.                                            *)
(***************************************************************************)
EXTENDS Integers

CONSTANTS Worker, Name, User, Department,
          None,         \* no name, no member
          MaxGroups,    \* bound: groups created
          MaxRequests,  \* bound: requests
          MaxFaults     \* bound: calls that fail, results cut short, crashes

Member == User \cup Department
Group  == 1..MaxGroups
Kind   == {"add", "delete", "modify", "addMembers", "deleteMembers"}

ASSUME GroupsAssumption ==
    /\ User \cap Department = {} /\ None \notin Name \cup Member \cup Kind
    /\ MaxGroups \in Nat \ {0} /\ MaxRequests \in Nat /\ MaxFaults \in Nat

VARIABLES
    name,       \* t_group: the name of a group, None when there is no row
    rows,       \* t_group_member: how many rows a group has for a member
    alive,      \* the users and departments that exist
    going,      \* users whose rows are deleted and who are not, yet
    pending,    \* departments whose deletion is announced, not acknowledged
    ids,        \* group identifiers given out
    pc, job,    \* the requests
    tail,       \* goroutines that publish or write an audit record
    announced,  \* groups whose deletion was published
    told,       \* the name others know: that of the creation, until a
                \* message says another
    audit,      \* audit records in the outbox
    requests, faults,
    \* history
    created,    \* groups that were committed
    shared,     \* names given to a group after another took them unseen
    doubled,    \* group and member: a second row was inserted unseen
    late,       \* ... inserted while the group was being deleted, or after
    leaked,     \* groups whose creation failed when their members were there
    outlived,   \* group and member: inserted by a request that knew the
                \* member from before its rows were removed
    unheard     \* messages and records that are lost, or that may overtake

tables == <<name, rows>>
org    == <<alive, going, pending>>
sent   == <<tail, announced, told, audit>>
marks  == <<created, shared, doubled, late, leaked, outlived, unheard>>
vars   == <<name, rows, alive, going, pending, ids, pc, job, tail, announced,
            told, audit, requests, faults, created, shared, doubled, late,
            leaked, outlived, unheard>>

\* op, the group, its name, the members still to be dealt with, the groups
\* they are copied from, the member that is about to be inserted; stale and
\* old are history: what was checked no longer holds, for a name or row and
\* for members.
Job == [op : Kind \cup {None}, g : Group, n : Name \cup {None},
        todo : SUBSET Member, from : SUBSET Group, cur : Member \cup {None},
        stale : BOOLEAN, old : SUBSET Member]

NoJob == [op |-> None, g |-> 1, n |-> None, todo |-> {}, from |-> {},
          cur |-> None, stale |-> FALSE, old |-> {}]

Exists(g) == name[g] # None

Init ==
    /\ name = [g \in Group |-> None]
    /\ rows = [r \in Group \X Member |-> 0]
    /\ alive = Member /\ going = {} /\ pending = {}
    /\ ids = 0
    /\ pc = [w \in Worker |-> "idle"]
    /\ job = [w \in Worker |-> NoJob]
    /\ tail = {} /\ announced = {} /\ audit = {}
    /\ told = [g \in Group |-> None]
    /\ requests = 0 /\ faults = 0
    /\ created = {} /\ shared = {} /\ doubled = {} /\ late = {}
    /\ leaked = {} /\ outlived = {} /\ unheard = {}

-----------------------------------------------------------------------------
(* What steps have in common.                                              *)

Leave(w) == pc' = [pc EXCEPT ![w] = "idle"] /\ job' = [job EXCEPT ![w] = NoJob]

Goto(w, label) == pc' = [pc EXCEPT ![w] = label]

Begin(w, label, j) ==
    /\ pc[w] = "idle"
    /\ requests < MaxRequests /\ requests' = requests + 1
    /\ Goto(w, label)
    /\ job' = [job EXCEPT ![w] = j]
    /\ UNCHANGED <<tables, org, sent, marks>>

\* GetGroupIDByName: of several groups of that name, any.
GetGroupIDByName(n) == {g \in Group : n # None /\ name[g] = n}

\* A result is short of rows when it ends early: the error is only logged.
Truncated(short) == IF short THEN faults < MaxFaults /\ faults' = faults + 1
                    ELSE UNCHANGED faults

\* Names that several groups have.
Common(names, ns) ==
    {n \in ns : \E g, h \in Group : g # h /\ names[g] = n /\ names[h] = n}

\* Pairs that still have rows.
Present(table, pairs) == {r \in pairs : table[r] > 0}

\* A name is taken: requests that found it free are mistaken.
TakeName(w, n) ==
    [v \in Worker |->
       IF v # w /\ job[v].n = n /\ job[v].op \in {"add", "modify"}
       THEN [job[v] EXCEPT !.stale = TRUE] ELSE job[v]]

\* Mutant: the statement of one member lowers a count.
RowsLowered(pairs) == [r \in DOMAIN rows |-> rows[r] - (IF r \in pairs THEN 1 ELSE 0)]

\* Deletion of all rows of the pairs.
RowsWithout(pairs) == [r \in DOMAIN rows |-> IF r \in pairs THEN 0 ELSE rows[r]]

DeleteRows(pairs) ==
    /\ rows' = RowsWithout(pairs)
    /\ doubled' = doubled \ pairs
    /\ late' = late \ pairs
    /\ outlived' = outlived \ pairs

\* Insertion of rows of group g for the members S by worker w.
InsertRows(w, g, S) ==
    LET pairs == {g} \X S
    IN  /\ rows' = [r \in DOMAIN rows |-> rows[r] + (IF r \in pairs THEN 1 ELSE 0)]
        /\ doubled' = IF pc[w] = "put" /\ job[w].stale
                      THEN doubled \cup {r \in pairs : rows'[r] > 1} ELSE doubled
        /\ late' = IF job[w].op # "add"
                      /\ (~Exists(g) \/ \E v \in Worker : pc[v] = "group" /\ job[v].g = g)
                   THEN late \cup pairs ELSE late
        /\ outlived' = outlived \cup {r \in pairs : r[2] \in job[w].old}

-----------------------------------------------------------------------------
(* AddGroup.                                                               *)

AddGroup(w, n, from) ==
    /\ ids < MaxGroups
    /\ Truncated(GetGroupIDByName(n) # {})
    /\ Begin(w, "exist", [NoJob EXCEPT !.op = "add", !.g = ids + 1, !.n = n, !.from = from,
                                       !.stale = GetGroupIDByName(n) # {}])
    /\ ids' = ids + 1

\* GetGroupName2: the groups whose members are copied have to exist.
CheckInitial(w) ==
    /\ pc[w] = "exist"
    /\ IF \A g \in job[w].from : Exists(g)
       THEN Goto(w, "copy") /\ UNCHANGED job
       ELSE Leave(w)
    /\ UNCHANGED <<tables, org, ids, sent, requests, faults, marks>>

\* getGroupMembers: the members of those groups, each once.
getGroupMembers(w) ==
    /\ pc[w] = "copy"
    /\ LET all == {m \in Member : \E g \in job[w].from : rows[<<g, m>>] > 0}
       IN  \E S \in SUBSET all :
              /\ Truncated(S # all)
              /\ job' = [job EXCEPT
                    ![w].todo = S,
                    ![w].old  = {m \in Member : \E g \in job[w].from : <<g, m>> \in outlived}]
    /\ Goto(w, "insert")
    /\ UNCHANGED <<tables, org, ids, sent, requests, marks>>

\* In the transaction the row of the group, which others cannot see; outside
\* of it the rows of the members, which are there from now on.
AddGroupMembersOfNew(w) ==
    /\ pc[w] = "insert"
    /\ InsertRows(w, job[w].g, job[w].todo)
    /\ Goto(w, "commit")
    /\ UNCHANGED <<name, org, ids, job, sent, requests, faults, created, shared,
                   leaked, unheard>>

\* The audit record and the commit.
CommitGroup(w) ==
    /\ pc[w] = "commit"
    /\ LET j == job[w]
           names == [name EXCEPT ![j.g] = j.n]
       IN  /\ name' = names
           /\ shared' = Common(names, IF j.stale THEN shared \cup {j.n} ELSE shared)
           /\ audit' = audit \cup {<<"add", j.g>>}
           /\ told' = [told EXCEPT ![j.g] = j.n]
           /\ created' = created \cup {j.g}
           /\ job' = [TakeName(w, j.n) EXCEPT ![w] = NoJob]
    /\ Goto(w, "idle")
    /\ UNCHANGED <<rows, org, ids, tail, announced, requests, faults,
                   doubled, late, leaked, outlived, unheard>>

-----------------------------------------------------------------------------
(* DeleteGroup.  A group that is not there is not an error, and nothing is *)
(* done about it.                                                          *)

\* Mutant: the members are left to themselves.
DeleteGroupOnly(w, g) ==
    /\ Exists(g)
    /\ Begin(w, "group", [NoJob EXCEPT !.op = "delete", !.g = g])
    /\ UNCHANGED <<ids, faults>>

DeleteGroup(w, g) ==
    /\ Exists(g)
    /\ Begin(w, "rows", [NoJob EXCEPT !.op = "delete", !.g = g])
    /\ UNCHANGED <<ids, faults>>

\* Mutant: a new name is written to the audit log only.
RenameUntold(w) ==
    LET j == job[w]
    IN  {<<"log", j.op, j.g, None>>} \cup
        (IF j.op = "delete" THEN {<<"publish", "delete", j.g, None>>} ELSE {})

\* The goroutines a request starts when it is done: what they publish or log,
\* of which operation, group and name.
Goroutines(w) ==
    LET j == job[w]
    IN  {<<"log", j.op, j.g, None>>} \cup
        CASE j.op = "delete" -> {<<"publish", "delete", j.g, None>>}
          [] j.op = "modify" /\ j.n # None -> {<<"publish", "modify", j.g, j.n>>}
          [] OTHER -> {}

Topic(t) == <<t[1], t[2], t[3]>>

\* Messages and records that will come, from goroutines that run or that a
\* finished request is about to start.
Underway == {Topic(t) : t \in tail \cup
                UNION {Goroutines(w) : w \in {v \in Worker : pc[v] = "after"}}}

\* Mutant: the message is sent before the rows are deleted.
AnnounceFirst(w) ==
    /\ pc[w] = "rows"
    /\ DeleteRows({job[w].g} \X Member)
    /\ tail' = tail \cup Goroutines(w)
    /\ Goto(w, "group")
    /\ UNCHANGED <<name, org, ids, job, announced, told, audit, requests, faults,
                   created, shared, leaked, unheard>>

DeleteGroupMemberByID(w) ==
    /\ pc[w] = "rows"
    /\ DeleteRows({job[w].g} \X Member)
    /\ Goto(w, "group")
    /\ UNCHANGED <<name, org, ids, job, sent, requests, faults, created, shared,
                   leaked, unheard>>

DeleteGroupRow(w) ==
    /\ pc[w] = "group"
    /\ name' = [name EXCEPT ![job[w].g] = None]
    /\ shared' = Common(name', shared)
    /\ Goto(w, "after")
    /\ UNCHANGED <<rows, org, ids, job, sent, requests, faults, created, doubled,
                   late, leaked, outlived, unheard>>

-----------------------------------------------------------------------------
(* ModifyGroup.                                                            *)

\* The name is None when only the notes change.
ModifyGroup(w, g, n) ==
    /\ Exists(g)
    /\ Begin(w, "name", [NoJob EXCEPT !.op = "modify", !.g = g, !.n = n])
    /\ UNCHANGED <<ids, faults>>

\* Mutant: the group itself is overlooked, and so is the rest.
NeverTaken(w, id) == FALSE

\* The name belongs to another group.
Taken(w, id) == id # job[w].g

CheckName(w) ==
    /\ pc[w] = "name"
    /\ LET found == GetGroupIDByName(job[w].n)
       IN  \/ /\ \E id \in found : Taken(w, id)
              /\ Leave(w) /\ UNCHANGED faults
           \/ /\ \/ Truncated(found # {})
                 \/ (\E id \in found : ~Taken(w, id)) /\ UNCHANGED faults
              /\ Goto(w, "update")
              \* of two groups that share the name it saw the one it changes, or
              \* none
              /\ job' = [job EXCEPT ![w].stale = \E id \in found : Taken(w, id)]
    /\ UNCHANGED <<tables, org, ids, sent, requests, marks>>

\* The update of a group that is gone changes nothing.
UpdateGroup(w) ==
    /\ pc[w] = "update"
    /\ LET j == job[w]
           renames == j.n # None /\ Exists(j.g)
           names == IF renames THEN [name EXCEPT ![j.g] = j.n] ELSE name
       IN  /\ name' = names
           /\ shared' = Common(names, IF renames /\ j.stale THEN shared \cup {j.n}
                                      ELSE shared)
           /\ job' = IF renames THEN TakeName(w, j.n) ELSE job
           \* another rename is on its way, or its message is
           /\ unheard' = IF renames /\ <<"publish", "modify", j.g>> \in Underway
                         THEN unheard \cup {<<"publish", "modify", j.g>>} ELSE unheard
    /\ Goto(w, "after")
    /\ UNCHANGED <<rows, org, ids, sent, requests, faults, created, doubled, late,
                   leaked, outlived>>

-----------------------------------------------------------------------------
(* AddGroupMembers and DeleteGroupMembers.                                 *)

ChangeMembers(w, kind, g, S) ==
    /\ Exists(g)
    /\ Begin(w, IF kind = "addMembers" THEN "check" ELSE "loop",
             [NoJob EXCEPT !.op = kind, !.g = g, !.todo = S])
    /\ UNCHANGED <<ids, faults>>

\* Mutant: members that are gone are accepted.
AnyMember(S) == TRUE

AllExist(S) == S \subseteq alive

checkUserAndDepartmentExist(w) ==
    /\ pc[w] = "check"
    /\ IF AllExist(job[w].todo)
       THEN Goto(w, "loop") /\ job' = [job EXCEPT ![w].old = {}]
       ELSE Leave(w)
    /\ UNCHANGED <<tables, org, ids, sent, requests, faults, marks>>

\* Mutant: the row of a member is not looked for.
NotLookedFor(g, m) == FALSE

HasRow(g, m) == rows[<<g, m>>] > 0

CheckGroupMembersExist(w) ==
    /\ pc[w] = "loop" /\ job[w].op = "addMembers"
    /\ \E m \in job[w].todo :
          \/ /\ HasRow(job[w].g, m)
             /\ job' = [job EXCEPT ![w].todo = @ \ {m}]
             /\ UNCHANGED <<pc, faults>>
          \/ /\ Truncated(HasRow(job[w].g, m))
             /\ job' = [job EXCEPT ![w].todo = @ \ {m}, ![w].cur = m,
                                   ![w].stale = HasRow(job[w].g, m)]
             /\ Goto(w, "put")
    /\ UNCHANGED <<tables, org, ids, sent, requests, marks>>

AddGroupMember(w) ==
    /\ pc[w] = "put"
    /\ InsertRows(w, job[w].g, {job[w].cur})
    /\ job' = [v \in Worker |->
          IF v = w THEN [job[w] EXCEPT !.cur = None, !.stale = FALSE]
          ELSE IF pc[v] = "put" /\ job[v].g = job[w].g /\ job[v].cur = job[w].cur
          THEN [job[v] EXCEPT !.stale = TRUE] ELSE job[v]]
    /\ Goto(w, "loop")
    /\ UNCHANGED <<name, org, ids, sent, requests, faults, created, shared, leaked,
                   unheard>>

DeleteGroupMember(w) ==
    /\ pc[w] = "loop" /\ job[w].op = "deleteMembers"
    /\ \E m \in job[w].todo :
          /\ DeleteRows({<<job[w].g, m>>})
          /\ job' = [job EXCEPT ![w].todo = @ \ {m}]
    /\ UNCHANGED <<name, org, ids, pc, sent, requests, faults, created, shared,
                   leaked, unheard>>

-----------------------------------------------------------------------------
(* The end of a request, and what goes on after it.                        *)

\* The goroutines of the request are started and it is answered.
Answer(w) ==
    /\ \/ pc[w] = "after"
       \/ pc[w] = "loop" /\ job[w].todo = {}
    /\ tail' = tail \cup Goroutines(w)
    /\ Leave(w)
    /\ UNCHANGED <<tables, org, ids, announced, told, audit, requests, faults,
                   marks>>

Publish(t) ==
    /\ t \in tail /\ t[1] = "publish"
    /\ tail' = tail \ {t}
    /\ IF t[2] = "delete"
       THEN announced' = announced \cup {t[3]} /\ UNCHANGED told
       ELSE told' = [told EXCEPT ![t[3]] = t[4]] /\ UNCHANGED announced
    /\ UNCHANGED <<tables, org, ids, pc, job, audit, requests, faults, marks>>

\* A transaction of its own, with the record only.
WriteLog(t) ==
    /\ t \in tail /\ t[1] = "log"
    /\ tail' = tail \ {t}
    /\ audit' = audit \cup {<<t[2], t[3]>>}
    /\ UNCHANGED <<tables, org, ids, pc, job, announced, told, requests, faults,
                   marks>>

\* The errors of both are dropped.
TailFails(t) ==
    /\ t \in tail
    /\ faults < MaxFaults /\ faults' = faults + 1
    /\ tail' = tail \ {t}
    /\ unheard' = unheard \cup {Topic(t)}
    /\ UNCHANGED <<tables, org, ids, pc, job, announced, told, audit, requests,
                   created, shared, doubled, late, leaked, outlived>>

\* Requests of W end here; what they have written stays.
Abandon(W) ==
    /\ pc' = [w \in Worker |-> IF w \in W THEN "idle" ELSE pc[w]]
    /\ job' = [w \in Worker |-> IF w \in W THEN NoJob ELSE job[w]]
    /\ leaked' = leaked \cup {job[w].g : w \in {v \in W : pc[v] = "commit"}}

\* A statement fails, the commit of AddGroup included, which then rolls back.
CallFails(w) ==
    /\ pc[w] \notin {"idle", "after"}
    /\ faults < MaxFaults /\ faults' = faults + 1
    /\ Abandon({w})
    /\ UNCHANGED <<tables, org, ids, sent, requests, created, shared, doubled,
                   late, outlived, unheard>>

\* The process ends with all its requests and goroutines.  One cause is in
\* the code: AddGroupMembers uses the transaction for its audit record when
\* there is none, because it looks at the error of another call.
Crash ==
    /\ faults < MaxFaults /\ faults' = faults + 1
    /\ Abandon(Worker)
    /\ tail' = {}
    /\ unheard' = unheard \cup Underway
    /\ UNCHANGED <<tables, org, ids, announced, told, audit, requests, created,
                   shared, doubled, late, outlived>>

-----------------------------------------------------------------------------
(* Deletion of users and departments.                                      *)

\* The rows of m are removed: requests that have m in hand are mistaken.
RemoveMember(m) ==
    /\ DeleteRows(Group \X {m})
    /\ job' = [w \in Worker |->
          IF m \in job[w].todo \cup {job[w].cur}
          THEN [job[w] EXCEPT !.old = @ \cup {m}] ELSE job[w]]

\* ShareMgnt's delete_user removes the rows and then, by another statement,
\* the user; nobody looks at the rows again.
RemoveUserRows(u) ==
    /\ u \in alive \ going
    /\ going' = going \cup {u}
    /\ RemoveMember(u)
    /\ UNCHANGED <<name, alive, pending, ids, pc, sent, requests, faults, created,
                   shared, leaked, unheard>>

RemoveUser(u) ==
    /\ u \in going
    /\ going' = going \ {u} /\ alive' = alive \ {u}
    /\ outlived' = outlived \cup Present(rows, Group \X {u})
    /\ job' = [w \in Worker |->
          IF u \in job[w].todo \cup {job[w].cur}
          THEN [job[w] EXCEPT !.old = @ \cup {u}] ELSE job[w]]
    /\ UNCHANGED <<tables, pending, ids, pc, sent, requests, faults, created,
                   shared, doubled, late, leaked, unheard>>

\* DeleteDepart commits the deletion with its event, which the outbox keeps.
DepartmentDeleted(d) ==
    /\ d \in alive
    /\ alive' = alive \ {d} /\ pending' = pending \cup {d}
    /\ UNCHANGED <<tables, going, ids, pc, job, sent, requests, faults, marks>>

\* The message of a deleted department; when a handler fails, this one or
\* another of the event, the broker repeats it.
DeleteGroupMemberByMemberID(d) ==
    /\ d \in pending
    /\ RemoveMember(d)
    /\ \/ pending' = pending \ {d} /\ UNCHANGED faults
       \/ faults < MaxFaults /\ faults' = faults + 1 /\ UNCHANGED pending
    /\ UNCHANGED <<name, alive, going, ids, pc, sent, requests, created, shared,
                   leaked, unheard>>

Next ==
    \/ \E w \in Worker :
          \/ \E n \in Name, from \in SUBSET (1..ids) : AddGroup(w, n, from)
          \/ \E g \in Group : DeleteGroup(w, g)
          \/ \E g \in Group, n \in Name \cup {None} : ModifyGroup(w, g, n)
          \/ \E kind \in {"addMembers", "deleteMembers"}, g \in Group,
                S \in (SUBSET Member) \ {{}} : ChangeMembers(w, kind, g, S)
          \/ CheckInitial(w) \/ getGroupMembers(w) \/ AddGroupMembersOfNew(w)
          \/ CommitGroup(w) \/ DeleteGroupMemberByID(w) \/ DeleteGroupRow(w)
          \/ CheckName(w) \/ UpdateGroup(w) \/ checkUserAndDepartmentExist(w)
          \/ CheckGroupMembersExist(w) \/ AddGroupMember(w) \/ DeleteGroupMember(w)
          \/ Answer(w) \/ CallFails(w)
    \/ Crash
    \/ \E t \in tail : Publish(t) \/ WriteLog(t) \/ TailFails(t)
    \/ \E u \in User : RemoveUserRows(u) \/ RemoveUser(u)
    \/ \E d \in Department : DepartmentDeleted(d) \/ DeleteGroupMemberByMemberID(d)

Spec == Init /\ [][Next]_vars

-----------------------------------------------------------------------------
(* Properties.                                                             *)

\* The types of the variables; the tables never hold fewer than no rows, and
\* identifiers are not used before they are given out.
TypeOK ==
    /\ name \in [Group -> Name \cup {None}]
    /\ rows \in [Group \X Member -> Nat]
    /\ alive \subseteq Member /\ going \subseteq User \cap alive
    /\ pending \subseteq Department \ alive
    /\ ids \in 0..MaxGroups
    /\ pc \in [Worker -> {"idle", "exist", "copy", "insert", "commit", "rows",
                          "group", "name", "update", "check", "loop", "put",
                          "after"}]
    /\ job \in [Worker -> Job]
    /\ announced \subseteq created /\ created \subseteq 1..ids
    /\ told \in [Group -> Name \cup {None}]
    /\ audit \subseteq Kind \X created
    /\ \A t \in tail : /\ t[1] \in {"publish", "log"} /\ t[2] \in Kind
                      /\ t[3] \in created /\ t[4] \in Name \cup {None}
    /\ \A g \in Group : Exists(g) => g \in created
    /\ requests \in 0..MaxRequests /\ faults \in 0..MaxFaults

\* Two groups have one name only when one request took it between the check
\* and the write of another (AddGroup, ModifyGroup: "检测用户组名是否重复"), or the
\* result of the check was cut short.
NamesDifferUnlessOverlap ==
    \A g, h \in Group : g # h /\ Exists(g) /\ name[g] = name[h] => name[g] \in shared

\* A member is in a group twice only when two requests added it at once
\* (AddGroupMembers looks for the row, then inserts it) or the row was cut off;
\* the copy of members into a new group never doubles one.
MemberOnceUnlessOverlap ==
    \A r \in DOMAIN rows : rows[r] > 1 => r \in doubled

\* A group that is not there has member rows only while it is being created,
\* when its creation failed after they were inserted, or when a request that
\* had found the group added them during or after its deletion.
OrphanRowsExplained ==
    \A g \in Group, m \in Member :
       ~Exists(g) /\ rows[<<g, m>>] > 0 =>
          \/ \E w \in Worker : pc[w] = "commit" /\ job[w].g = g
          \/ g \in leaked \ created
          \/ <<g, m>> \in late

\* A user or department that is gone, and whose deletion is dealt with, is in
\* no group, but through a request that knew it from before.
DeletedMemberLeaves ==
    \A g \in Group, m \in Member \ (alive \cup pending) :
       rows[<<g, m>>] > 0 => <<g, m>> \in outlived

\* The deletion of a group is published when the group is gone and never
\* before; and when it is gone, message and audit record are there or will
\* come, but for those that a fault has taken.
DeletionAnnounced ==
    \A g \in created :
       /\ g \in announced => ~Exists(g)
       /\ ~Exists(g) =>
             /\ g \in announced \/ <<"publish", "delete", g>> \in Underway \cup unheard
             /\ \/ <<"delete", g>> \in audit
                \/ <<"log", "delete", g>> \in Underway \cup unheard

\* When no message about its name is on its way, others know the name a group
\* has, unless a message was lost or two renamings were under way at once.
NameTold ==
    \A g \in Group :
       Exists(g) /\ <<"publish", "modify", g>> \notin Underway \cup unheard
          => told[g] = name[g]
=============================================================================
