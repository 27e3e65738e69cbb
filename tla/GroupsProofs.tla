---------------------------- MODULE GroupsProofs ----------------------------
(***************************************************************************)
(* Proofs about Groups: its type invariant and the six invariants of the   *)
(* run Groups_races, for any number of requests, groups, members and       *)
(* faults.                                                                 *)
(***************************************************************************)
EXTENDS Groups, TLAPS

USE GroupsAssumption DEF Group, Member, Kind

Label == {"idle", "exist", "copy", "insert", "commit", "rows", "group", "name",
          "update", "check", "loop", "put", "after"}

\* Where a request is tells which operation it is.
JobFits(p, j) ==
    /\ p = "idle" <=> j.op = None
    /\ p \in {"exist", "copy", "insert", "commit"} <=> j.op = "add"
    /\ p \in {"rows", "group"} => j.op = "delete"
    /\ p \in {"name", "update"} => j.op = "modify"
    /\ p \in {"check", "put"} => j.op = "addMembers"
    /\ p = "loop" => j.op \in {"addMembers", "deleteMembers"}
    /\ p = "after" => j.op \in {"delete", "modify"}
    /\ p = "put" <=> j.cur # None
    /\ j.op = "add" => j.n # None

\* A request about a group holds one that was committed, but for AddGroup: it
\* holds an identifier of its own.
JobInv ==
    /\ \A w \in Worker :
          /\ JobFits(pc[w], job[w])
          /\ job[w].op = "add" => job[w].g \in (1..ids) \ created
          /\ job[w].op \notin {None, "add"} => job[w].g \in created
    /\ \A v, w \in Worker :
          job[v].op = "add" /\ job[w].op = "add" /\ job[v].g = job[w].g => v = w

-----------------------------------------------------------------------------
(* What is checked before a write and holds until it, or the request is    *)
(* marked as mistaken.                                                     *)

\* The name is free, but for the group that is renamed.
NameInv ==
    \A w \in Worker : ~job[w].stale /\ job[w].n # None =>
        /\ job[w].op = "add" => \A g \in Group : name[g] # job[w].n
        /\ pc[w] = "update" => \A g \in Group : name[g] = job[w].n => g = job[w].g

\* A group whose members are not inserted yet has none; a member that is about
\* to be inserted has no row.
RowInv ==
    /\ \A g \in Group, m \in Member : g > ids => rows[<<g, m>>] = 0
    /\ \A w \in Worker, m \in Member :
          pc[w] \in {"exist", "copy", "insert"} => rows[<<job[w].g, m>>] = 0
    /\ \A w \in Worker : pc[w] = "put" /\ ~job[w].stale =>
          rows[<<job[w].g, job[w].cur>>] = 0

\* The rows of a group whose own row is about to go came late.
LateInv ==
    \A w \in Worker, m \in Member :
        pc[w] = "group" /\ rows[<<job[w].g, m>>] > 0 => <<job[w].g, m>> \in late

\* A request that holds a member that is gone is known to.
OldInv ==
    \A w \in Worker, m \in Member \ (alive \cup pending) :
        pc[w] # "check" /\ job[w].op # "deleteMembers"
          /\ m \in job[w].todo \cup {job[w].cur} => m \in job[w].old

\* What goroutines that run, or are about to be started, will do.
Coming == tail \cup UNION {Goroutines(w) : w \in {v \in Worker : pc[v] = "after"}}

\* A message about a deletion is of a group that is gone; one about a name has
\* the name the group has, unless it may be overtaken.
MessageInv ==
    /\ \A w \in Worker : pc[w] = "after" /\ job[w].op = "delete" => ~Exists(job[w].g)
    /\ \A t \in Coming : t[1] = "publish" =>
          /\ t[2] \in {"delete", "modify"}
          /\ t[2] = "delete" => ~Exists(t[3])
          /\ t[2] = "modify" /\ Exists(t[3]) /\ Topic(t) \notin unheard
                => t[4] = name[t[3]]

-----------------------------------------------------------------------------
(* Types, and where the requests are.                                      *)

\* A request that does nothing.
LEMMA NoJobType == NoJob \in Job /\ JobFits("idle", NoJob)
  BY DEF NoJob, Job, JobFits

\* What other requests may do to a request in this step: mark it.
Marked(v) ==
    /\ job'[v].op = job[v].op /\ job'[v].g = job[v].g /\ job'[v].n = job[v].n
    /\ job'[v].todo = job[v].todo /\ job'[v].cur = job[v].cur

\* A request moves on to label p with job j, and may mark others.
LEMMA JobStep ==
    ASSUME TypeOK, JobInv, NEW w \in Worker, NEW p \in Label, NEW j \in Job,
           pc' = [pc EXCEPT ![w] = p],
           job' \in [Worker -> Job], job'[w] = j,
           \A v \in Worker \ {w} : Marked(v),
           ids' \in Nat, ids' >= ids, created \subseteq created',
           \A v \in Worker \ {w} : job[v].op = "add" => job[v].g \notin created',
           JobFits(p, j),
           j.op = "add" =>
              /\ j.g \in (1..ids') \ created'
              /\ \A v \in Worker \ {w} : job[v].op = "add" => job[v].g # j.g,
           j.op \notin {None, "add"} => j.g \in created'
    PROVE  JobInv' /\ pc' \in [Worker -> Label]
  <1>1. pc' \in [Worker -> Label]
    BY DEF TypeOK, Label
  <1>2. pc'[w] = p /\ \A v \in Worker \ {w} : pc'[v] = pc[v]
    BY DEF TypeOK
  <1>3. \A v \in Worker \ {w} :
           /\ JobFits(pc'[v], job'[v])
           /\ job'[v].op = "add" => job'[v].g \in (1..ids') \ created'
           /\ job'[v].op \notin {None, "add"} => job'[v].g \in created'
    <2> SUFFICES ASSUME NEW v \in Worker \ {w}
                 PROVE  /\ JobFits(pc'[v], job'[v])
                        /\ job'[v].op = "add" => job'[v].g \in (1..ids') \ created'
                        /\ job'[v].op \notin {None, "add"} => job'[v].g \in created'
      OBVIOUS
    <2>1. JobFits(pc'[v], job'[v])
      BY <1>2 DEF JobInv, JobFits, Marked
    <2>2. ids \in Nat
      BY DEF TypeOK
    <2> QED BY <2>1, <2>2 DEF JobInv, Marked
  <1>4. \A u, v \in Worker :
           job'[u].op = "add" /\ job'[v].op = "add" /\ job'[u].g = job'[v].g => u = v
    BY DEF JobInv, Marked
  <1> QED BY <1>1, <1>2, <1>3, <1>4 DEF JobInv

\* A request arrives.
LEMMA BeginStep ==
    ASSUME TypeOK, JobInv, NEW w \in Worker, NEW p \in Label, NEW j \in Job,
           Begin(w, p, j), ids' \in 0..MaxGroups, ids' >= ids, faults' \in 0..MaxFaults,
           JobFits(p, j),
           j.op = "add" => j.g \in (1..ids') \ (1..ids),
           j.op \notin {None, "add"} => j.g \in created
    PROVE  TypeOK' /\ JobInv'
  <1>1. /\ pc' = [pc EXCEPT ![w] = p] /\ job' = [job EXCEPT ![w] = j]
        /\ UNCHANGED <<name, rows, alive, going, pending, tail, announced, told,
                       audit, created>>
        /\ requests' \in 0..MaxRequests
    BY DEF Begin, Goto, tables, org, sent, marks, TypeOK
  <1>2. job \in [Worker -> Job] /\ created \subseteq 1..ids
    BY DEF TypeOK
  <1>3. /\ job' \in [Worker -> Job] /\ job'[w] = j
        /\ \A v \in Worker \ {w} : Marked(v)
    BY <1>1, <1>2 DEF Marked
  <1>4. ids' \in Nat /\ created \subseteq created' /\ ids \in Nat
    BY <1>1 DEF TypeOK
  <1>5. JobInv' /\ pc' \in [Worker -> Label]
    <2>1. \A v \in Worker : job[v].op = "add" => job[v].g \in (1..ids) \ created'
      BY <1>1 DEF JobInv
    <2>2. j.op = "add" =>
              /\ j.g \in (1..ids') \ created'
              /\ \A v \in Worker \ {w} : job[v].op = "add" => job[v].g # j.g
      BY <1>1, <1>2, <2>1
    <2>3. j.op \notin {None, "add"} => j.g \in created'
      BY <1>1
    <2> QED BY <1>1, <1>3, <1>4, <2>1, <2>2, <2>3, JobStep
  <1> QED BY <1>1, <1>3, <1>5 DEF TypeOK, Label, Exists

\* A request moves on to label p with job j, and touches nothing else that the
\* types speak of but the tables.
LEMMA MoveStep ==
    ASSUME TypeOK, JobInv, NEW w \in Worker, NEW p \in Label, NEW j \in Job,
           pc' = [pc EXCEPT ![w] = p], job' = [job EXCEPT ![w] = j],
           JobFits(p, j),
           j.op # None => j.op = job[w].op /\ j.g = job[w].g,
           UNCHANGED <<name, alive, going, pending, ids, announced, told, audit,
                       requests, created>>,
           faults' \in 0..MaxFaults,
           rows' \in [Group \X Member -> Nat],
           \A t \in tail' : t \in tail \/
              /\ t[1] \in {"publish", "log"} /\ t[2] \in Kind
              /\ t[3] \in created /\ t[4] \in Name \cup {None}
    PROVE  TypeOK' /\ JobInv'
  <1>1. job \in [Worker -> Job] /\ ids \in Nat
    BY DEF TypeOK
  <1>2. /\ job' \in [Worker -> Job] /\ job'[w] = j
        /\ \A v \in Worker \ {w} : Marked(v)
    BY <1>1 DEF Marked
  <1>3. JobInv' /\ pc' \in [Worker -> Label]
    <2>1. \A v \in Worker : job[v].op = "add" => job[v].g \notin created'
      BY DEF JobInv
    <2>2. j.op = "add" =>
              /\ j.g \in (1..ids') \ created'
              /\ \A v \in Worker \ {w} : job[v].op = "add" => job[v].g # j.g
      BY DEF JobInv
    <2>3. j.op \notin {None, "add"} => j.g \in created'
      BY DEF JobInv
    <2>4. ids' \in Nat /\ ids' >= ids /\ created \subseteq created'
      BY <1>1
    <2> QED BY <1>2, <2>1, <2>2, <2>3, <2>4, JobStep
  <1> QED BY <1>2, <1>3 DEF TypeOK, Label, Exists

\* The first state.
LEMMA InitType == Init => TypeOK /\ JobInv
  <1> SUFFICES ASSUME Init PROVE TypeOK /\ JobInv
    OBVIOUS
  <1>1. \A w \in Worker : job[w] = NoJob /\ pc[w] = "idle" /\ job[w].op = None
    BY DEF Init, NoJob
  <1> QED BY <1>1, NoJobType DEF Init, TypeOK, JobInv, Exists

\* The tables after a deletion and an insertion of rows.
LEMMA RowTypes ==
    ASSUME TypeOK, NEW w \in Worker, NEW g \in Group, NEW S, NEW pairs,
           DeleteRows(pairs) \/ InsertRows(w, g, S)
    PROVE  rows' \in [Group \X Member -> Nat]
  <1> DEFINE D == Group \X Member
  <1>1. rows \in [D -> Nat]
    BY DEF TypeOK
  <1> HIDE DEF D
  <1>2. CASE DeleteRows(pairs)
    <2>1. rows' = [r \in D |-> IF r \in pairs THEN 0 ELSE rows[r]]
      BY <1>1, <1>2 DEF DeleteRows, RowsWithout
    <2> QED BY <1>1, <2>1 DEF D
  <1>3. CASE InsertRows(w, g, S)
    <2>1. rows' = [r \in D |-> rows[r] + (IF r \in {g} \X S THEN 1 ELSE 0)]
      BY <1>1, <1>3 DEF InsertRows
    <2> QED BY <1>1, <2>1 DEF D
  <1> QED BY <1>2, <1>3

\* The goroutines a request starts.
LEMMA GoroutineTypes ==
    ASSUME TypeOK, JobInv, NEW w \in Worker, pc[w] \in {"after", "loop"},
           NEW t \in Goroutines(w)
    PROVE  /\ t[1] \in {"publish", "log"} /\ t[2] = job[w].op /\ t[2] \in Kind
           /\ t[3] = job[w].g /\ t[3] \in created /\ t[4] \in Name \cup {None}
           /\ t[2] = "modify" /\ t[1] = "publish" => t[4] = job[w].n /\ t[4] # None
  <1>1. job[w] \in Job /\ job[w].op \in Kind /\ job[w].g \in created
    BY DEF TypeOK, JobInv, JobFits
  <1> QED BY <1>1 DEF Goroutines, Job

\* A result that is cut short is one of the faults.
LEMMA TruncatedType ==
    ASSUME TypeOK, NEW short, Truncated(short) \/ UNCHANGED faults
    PROVE  faults' \in 0..MaxFaults
  BY GroupsAssumption DEF Truncated, TypeOK

\* Steps by which requests begin.
LEMMA BeginTypes ==
    ASSUME TypeOK, JobInv, NEW w \in Worker,
           \/ \E n \in Name, from \in SUBSET (1..ids) : AddGroup(w, n, from)
           \/ \E g \in Group : DeleteGroup(w, g)
           \/ \E g \in Group, n \in Name \cup {None} : ModifyGroup(w, g, n)
           \/ \E kind \in {"addMembers", "deleteMembers"}, g \in Group,
                 S \in (SUBSET Member) \ {{}} : ChangeMembers(w, kind, g, S)
    PROVE  TypeOK' /\ JobInv'
  <1>0. ids \in Nat /\ ids <= MaxGroups /\ \A g \in Group : Exists(g) => g \in created
    BY DEF TypeOK
  <1>1. ASSUME NEW n \in Name, NEW from \in SUBSET (1..ids), AddGroup(w, n, from)
        PROVE  TypeOK' /\ JobInv'
    <2> DEFINE j == [NoJob EXCEPT !.op = "add", !.g = ids + 1, !.n = n, !.from = from,
                                  !.stale = GetGroupIDByName(n) # {}]
    <2>0. faults' \in 0..MaxFaults
      BY <1>1, TruncatedType DEF AddGroup
    <2>1. ids + 1 \in Group /\ from \in SUBSET Group /\ ids' = ids + 1
      <3>1. ids' = ids + 1 /\ ids < MaxGroups
        BY <1>1 DEF AddGroup
      <3> QED BY <1>0, <3>1
    <2>2. j \in Job /\ JobFits("exist", j) /\ j.op = "add" /\ j.g = ids + 1
      BY <2>1 DEF NoJob, Job, JobFits
    <2>3. Begin(w, "exist", j) /\ "exist" \in Label
      BY <1>1 DEF AddGroup, Label
    <2>4. ids' \in 0..MaxGroups /\ ids' >= ids /\ j.g \in (1..ids') \ (1..ids)
      BY <1>0, <2>1, <2>2
    <2> QED BY <2>0, <2>2, <2>3, <2>4, BeginStep
  <1>2. ASSUME NEW g \in Group, DeleteGroup(w, g) PROVE TypeOK' /\ JobInv'
    <2> DEFINE j == [NoJob EXCEPT !.op = "delete", !.g = g]
    <2>1. j \in Job /\ JobFits("rows", j) /\ j.op = "delete" /\ j.g = g
      BY DEF NoJob, Job, JobFits
    <2>2. Begin(w, "rows", j) /\ "rows" \in Label /\ g \in created
      BY <1>0, <1>2 DEF DeleteGroup, Label
    <2>3. ids' = ids /\ faults' = faults
      BY <1>2 DEF DeleteGroup
    <2>4. ids' \in 0..MaxGroups /\ ids' >= ids /\ faults' \in 0..MaxFaults
      BY <1>0, <2>3 DEF TypeOK
    <2> QED BY <2>1, <2>2, <2>4, BeginStep
  <1>3. ASSUME NEW g \in Group, NEW n \in Name \cup {None}, ModifyGroup(w, g, n)
        PROVE  TypeOK' /\ JobInv'
    <2> DEFINE j == [NoJob EXCEPT !.op = "modify", !.g = g, !.n = n]
    <2>1. j \in Job /\ JobFits("name", j) /\ j.op = "modify" /\ j.g = g
      BY DEF NoJob, Job, JobFits
    <2>2. Begin(w, "name", j) /\ "name" \in Label /\ g \in created
      BY <1>0, <1>3 DEF ModifyGroup, Label
    <2>3. ids' = ids /\ faults' = faults
      BY <1>3 DEF ModifyGroup
    <2>4. ids' \in 0..MaxGroups /\ ids' >= ids /\ faults' \in 0..MaxFaults
      BY <1>0, <2>3 DEF TypeOK
    <2> QED BY <2>1, <2>2, <2>4, BeginStep
  <1>4. ASSUME NEW kind \in {"addMembers", "deleteMembers"}, NEW g \in Group,
               NEW S \in (SUBSET Member) \ {{}}, ChangeMembers(w, kind, g, S)
        PROVE  TypeOK' /\ JobInv'
    <2> DEFINE j == [NoJob EXCEPT !.op = kind, !.g = g, !.todo = S]
               p == IF kind = "addMembers" THEN "check" ELSE "loop"
    <2>1. j \in Job /\ JobFits(p, j) /\ j.op = kind /\ j.g = g
      BY DEF NoJob, Job, JobFits
    <2>2. Begin(w, p, j) /\ p \in Label /\ g \in created
      BY <1>0, <1>4 DEF ChangeMembers, Label
    <2>3. ids' = ids /\ faults' = faults
      BY <1>4 DEF ChangeMembers
    <2>4. ids' \in 0..MaxGroups /\ ids' >= ids /\ faults' \in 0..MaxFaults
      BY <1>0, <2>3 DEF TypeOK
    <2> QED BY <2>1, <2>2, <2>4, BeginStep
  <1> QED BY <1>1, <1>2, <1>3, <1>4

\* A request is answered or given up: it holds nothing any more.
LEMMA LeaveStep ==
    ASSUME TypeOK, JobInv, NEW w \in Worker, Leave(w),
           UNCHANGED <<name, rows, alive, going, pending, ids, announced, told,
                       audit, requests, faults, created>>,
           \A t \in tail' : t \in tail \/
              /\ t[1] \in {"publish", "log"} /\ t[2] \in Kind
              /\ t[3] \in created /\ t[4] \in Name \cup {None}
    PROVE  TypeOK' /\ JobInv'
  <1>1. faults' \in 0..MaxFaults /\ rows' \in [Group \X Member -> Nat]
    BY DEF TypeOK
  <1>2. NoJob.op = None /\ "idle" \in Label
    BY DEF NoJob, Label
  <1> QED BY <1>1, <1>2, NoJobType, MoveStep DEF Leave

\* Steps of one request that leave the tables of the groups alone.
LEMMA ReadTypes ==
    ASSUME TypeOK, JobInv, NEW w \in Worker,
           \/ CheckInitial(w) \/ getGroupMembers(w) \/ CheckName(w)
           \/ checkUserAndDepartmentExist(w) \/ CheckGroupMembersExist(w)
    PROVE  TypeOK' /\ JobInv'
  <1>0. /\ job[w] \in Job /\ JobFits(pc[w], job[w]) /\ faults \in 0..MaxFaults
        /\ rows \in [Group \X Member -> Nat] /\ job \in [Worker -> Job]
    BY DEF TypeOK, JobInv
  <1>1. /\ UNCHANGED <<name, rows, alive, going, pending, ids, tail, announced,
                       told, audit, requests, created>>
        /\ faults' \in 0..MaxFaults
    <2>1. UNCHANGED faults \/ \E short : Truncated(short)
      BY DEF CheckInitial, getGroupMembers, CheckName, checkUserAndDepartmentExist,
             CheckGroupMembersExist
    <2> QED BY <2>1, TruncatedType
        DEF CheckInitial, getGroupMembers, CheckName, checkUserAndDepartmentExist,
            CheckGroupMembersExist, tables, org, sent, marks
  <1>2. ASSUME NEW p \in Label, NEW j \in Job, JobFits(p, j),
               pc' = [pc EXCEPT ![w] = p], job' = [job EXCEPT ![w] = j],
               j.op = job[w].op, j.g = job[w].g
        PROVE  TypeOK' /\ JobInv'
    BY <1>0, <1>1, <1>2, MoveStep
  <1>3. ASSUME Leave(w), UNCHANGED faults PROVE TypeOK' /\ JobInv'
    BY <1>1, <1>3, LeaveStep
  <1>4. CASE CheckInitial(w)
    <2>1. CASE Goto(w, "copy") /\ UNCHANGED job
      <3>1. JobFits("copy", job[w]) /\ "copy" \in Label
        BY <1>0, <1>4 DEF CheckInitial, JobFits, Label
      <3>2. job' = [job EXCEPT ![w] = job[w]]
        BY <1>0, <2>1
      <3> QED BY <1>0, <1>2, <2>1, <3>1, <3>2 DEF Goto
    <2> QED BY <1>3, <1>4, <2>1 DEF CheckInitial
  <1>5. CASE getGroupMembers(w)
    <2> DEFINE O == {m \in Member : \E g \in job[w].from : <<g, m>> \in outlived}
    <2>0. /\ \E T \in SUBSET Member : job' = [job EXCEPT ![w].todo = T, ![w].old = O]
          /\ pc' = [pc EXCEPT ![w] = "insert"] /\ pc[w] = "copy"
          /\ O \in SUBSET Member
      BY <1>5 DEF getGroupMembers, Goto
    <2> HIDE DEF O
    <2> PICK T \in SUBSET Member : job' = [job EXCEPT ![w].todo = T, ![w].old = O]
      BY <2>0
    <2>1. job' = [job EXCEPT ![w] = [job[w] EXCEPT !.todo = T, !.old = O]]
      BY <1>0, <2>0
    <2> DEFINE j == [job[w] EXCEPT !.todo = T, !.old = O]
    <2>2. /\ j \in Job /\ JobFits("insert", j) /\ "insert" \in Label
          /\ j.op = job[w].op /\ j.g = job[w].g
      BY <1>0, <2>0 DEF Job, JobFits, Label
    <2> QED BY <1>2, <2>0, <2>1, <2>2
  <1>6. CASE CheckName(w)
    <2>1. ASSUME NEW b \in BOOLEAN, job' = [job EXCEPT ![w].stale = b],
                 pc' = [pc EXCEPT ![w] = "update"]
          PROVE  TypeOK' /\ JobInv'
      <3> DEFINE j == [job[w] EXCEPT !.stale = b]
      <3>1. /\ j \in Job /\ JobFits("update", j) /\ "update" \in Label
            /\ j.op = job[w].op /\ j.g = job[w].g
        BY <1>0, <1>6 DEF CheckName, Job, JobFits, Label
      <3> QED BY <1>2, <2>1, <3>1
    <2> QED BY <1>3, <1>6, <2>1 DEF CheckName, Goto
  <1>7. CASE checkUserAndDepartmentExist(w)
    <2>1. ASSUME Goto(w, "loop"), job' = [job EXCEPT ![w].old = {}]
          PROVE  TypeOK' /\ JobInv'
      <3> DEFINE j == [job[w] EXCEPT !.old = {}]
      <3>1. /\ j \in Job /\ JobFits("loop", j) /\ "loop" \in Label
            /\ j.op = job[w].op /\ j.g = job[w].g
        BY <1>0, <1>7 DEF checkUserAndDepartmentExist, Job, JobFits, Label
      <3> QED BY <1>2, <2>1, <3>1 DEF Goto
    <2> QED BY <1>3, <1>7, <2>1 DEF checkUserAndDepartmentExist
  <1>8. CASE CheckGroupMembersExist(w)
    <2>1. PICK m \in job[w].todo, b \in BOOLEAN :
            \/ job' = [job EXCEPT ![w].todo = @ \ {m}] /\ UNCHANGED pc
            \/ /\ job' = [job EXCEPT ![w].todo = @ \ {m}, ![w].cur = m,
                                     ![w].stale = b]
               /\ Goto(w, "put")
      <3>1. \A m : HasRow(job[w].g, m) \in BOOLEAN
        BY DEF HasRow
      <3> QED BY <1>8, <3>1 DEF CheckGroupMembersExist
    <2>2. pc[w] = "loop" /\ job[w].op = "addMembers" /\ m \in Member
      BY <1>0, <1>8, <2>1 DEF CheckGroupMembersExist, Job
    <2>3. CASE job' = [job EXCEPT ![w].todo = @ \ {m}] /\ UNCHANGED pc
      <3> DEFINE j == [job[w] EXCEPT !.todo = @ \ {m}]
      <3>1. /\ j \in Job /\ JobFits("loop", j) /\ "loop" \in Label
            /\ j.op = job[w].op /\ j.g = job[w].g
        BY <1>0, <2>2 DEF Job, JobFits, Label
      <3>2. pc' = [pc EXCEPT ![w] = "loop"] /\ job' = [job EXCEPT ![w] = j]
        BY <2>2, <2>3 DEF TypeOK
      <3> QED BY <1>2, <3>1, <3>2
    <2>4. CASE job' = [job EXCEPT ![w].todo = @ \ {m}, ![w].cur = m,
                                  ![w].stale = b] /\ Goto(w, "put")
      <3> DEFINE j == [job[w] EXCEPT !.todo = @ \ {m}, !.cur = m, !.stale = b]
      <3>1. /\ j \in Job /\ JobFits("put", j) /\ "put" \in Label
            /\ j.op = job[w].op /\ j.g = job[w].g
        BY <1>0, <2>2 DEF Job, JobFits, Label
      <3>2. pc' = [pc EXCEPT ![w] = "put"] /\ job' = [job EXCEPT ![w] = j]
        BY <1>0, <2>4 DEF Goto
      <3> QED BY <1>2, <3>1, <3>2
    <2> QED BY <2>1, <2>3, <2>4
  <1> QED BY <1>4, <1>5, <1>6, <1>7, <1>8

\* What is left of a request that another one marks.
LEMMA MarkStale ==
    ASSUME NEW j \in Job
    PROVE  /\ [j EXCEPT !.stale = TRUE] \in Job
           /\ LET k == [j EXCEPT !.stale = TRUE]
              IN  /\ k.op = j.op /\ k.g = j.g /\ k.n = j.n /\ k.todo = j.todo
                  /\ k.cur = j.cur /\ k.stale /\ k.old = j.old
  BY DEF Job

\* ... and of one that holds a member whose rows are removed.
LEMMA MarkOld ==
    ASSUME NEW j \in Job, NEW m \in Member
    PROVE  /\ [j EXCEPT !.old = @ \cup {m}] \in Job
           /\ LET k == [j EXCEPT !.old = @ \cup {m}]
              IN  /\ k.op = j.op /\ k.g = j.g /\ k.n = j.n /\ k.todo = j.todo
                  /\ k.cur = j.cur /\ k.stale = j.stale /\ k.old = j.old \cup {m}
  BY DEF Job

\* AddGroup is committed.
LEMMA CommitTypes ==
    ASSUME TypeOK, JobInv, NEW w \in Worker, CommitGroup(w)
    PROVE  TypeOK' /\ JobInv'
  <1> DEFINE g == job[w].g
             n == job[w].n
  <1>0. /\ job \in [Worker -> Job] /\ created \subseteq 1..ids /\ ids \in Nat
        /\ name \in [Group -> Name \cup {None}] /\ told \in [Group -> Name \cup {None}]
        /\ audit \subseteq Kind \X created /\ \A h \in Group : Exists(h) => h \in created
        /\ tail' = tail /\ ids' = ids
    BY DEF TypeOK, CommitGroup
  <1>1. job[w] \in Job /\ job[w].op = "add" /\ g \in (1..ids) \ created /\ n # None
        /\ g \in Group /\ n \in Name
    BY <1>0 DEF CommitGroup, JobInv, JobFits, Job
  <1>2. /\ name' = [name EXCEPT ![g] = n] /\ told' = [told EXCEPT ![g] = n]
        /\ created' = created \cup {g} /\ audit' = audit \cup {<<"add", g>>}
        /\ pc' = [pc EXCEPT ![w] = "idle"] /\ job' = [TakeName(w, n) EXCEPT ![w] = NoJob]
    BY DEF CommitGroup, Goto
  <1>3. /\ job' \in [Worker -> Job] /\ job'[w] = NoJob
        /\ \A v \in Worker \ {w} : Marked(v)
    <2>1. \A v \in Worker \ {w} :
             job'[v] = job[v] \/ job'[v] = [job[v] EXCEPT !.stale = TRUE]
      BY <1>2 DEF TakeName
    <2>2. job'[w] = NoJob /\ DOMAIN job' = Worker /\ job' = [v \in Worker |-> job'[v]]
      BY <1>2 DEF TakeName
    <2>3. ASSUME NEW v \in Worker \ {w} PROVE job'[v] \in Job /\ Marked(v)
      <3>1. CASE job'[v] = job[v]
        BY <1>0, <3>1 DEF Marked
      <3>2. CASE job'[v] = [job[v] EXCEPT !.stale = TRUE]
        BY <1>0, <3>2, MarkStale DEF Marked
      <3> QED BY <2>1, <3>1, <3>2
    <2>4. \A v \in Worker : job'[v] \in Job
      BY <2>2, <2>3, NoJobType
    <2> QED BY <2>2, <2>3, <2>4
  <1>4. \A v \in Worker \ {w} : job[v].op = "add" => job[v].g \notin created'
    BY <1>1, <1>2 DEF JobInv
  <1>5. "idle" \in Label /\ NoJob.op = None /\ ids' \in Nat /\ ids' >= ids
        /\ created \subseteq created'
    BY <1>0, <1>2 DEF Label, NoJob
  <1>6. JobInv' /\ pc' \in [Worker -> Label]
    BY <1>2, <1>3, <1>4, <1>5, NoJobType, JobStep
  <1>7. /\ name' \in [Group -> Name \cup {None}] /\ told' \in [Group -> Name \cup {None}]
        /\ created' \subseteq 1..ids /\ audit' \subseteq Kind \X created'
        /\ \A h \in Group : name'[h] # None => h \in created'
    <2>1. created' \subseteq 1..ids /\ audit' \subseteq Kind \X created'
      <3>1. <<"add", job[w].g>> \in Kind \X created'
        BY <1>2
      <3>2. Kind \X created \subseteq Kind \X created'
        BY <1>2
      <3> QED BY <1>0, <1>1, <1>2, <3>1, <3>2
    <2>2. name' \in [Group -> Name \cup {None}] /\ told' \in [Group -> Name \cup {None}]
      BY <1>0, <1>1, <1>2
    <2>3. \A h \in Group : name'[h] # None => h \in created'
      BY <1>0, <1>1, <1>2 DEF Exists
    <2> QED BY <2>1, <2>2, <2>3
  <1>8. /\ UNCHANGED <<rows, alive, going, pending, ids, tail, announced, requests, faults>>
    BY DEF CommitGroup, org
  <1> QED BY <1>2, <1>3, <1>6, <1>7, <1>8 DEF TypeOK, Label, Exists

\* Steps of one request that write member rows or the row of a group.
LEMMA WriteTypes ==
    ASSUME TypeOK, JobInv, NEW w \in Worker,
           \/ AddGroupMembersOfNew(w) \/ DeleteGroupMemberByID(w) \/ DeleteGroupMember(w)
    PROVE  TypeOK' /\ JobInv'
  <1>0. /\ job[w] \in Job /\ JobFits(pc[w], job[w]) /\ faults \in 0..MaxFaults
        /\ job \in [Worker -> Job] /\ job[w].g \in Group
    BY DEF TypeOK, JobInv, Job
  <1>1. /\ UNCHANGED <<name, alive, going, pending, ids, tail, announced,
                       told, audit, requests, faults, created>>
    BY DEF AddGroupMembersOfNew, DeleteGroupMemberByID, DeleteGroupMember, org, sent
  <1>2. rows' \in [Group \X Member -> Nat]
    <2>1. CASE AddGroupMembersOfNew(w)
      BY <1>0, <2>1, RowTypes DEF AddGroupMembersOfNew
    <2>2. CASE DeleteGroupMemberByID(w)
      BY <1>0, <2>2, RowTypes DEF DeleteGroupMemberByID
    <2>3. CASE DeleteGroupMember(w)
      BY <1>0, <2>3, RowTypes DEF DeleteGroupMember
    <2> QED BY <2>1, <2>2, <2>3
  <1>3. ASSUME NEW p \in Label, NEW j \in Job, JobFits(p, j),
               pc' = [pc EXCEPT ![w] = p], job' = [job EXCEPT ![w] = j],
               j.op = job[w].op, j.g = job[w].g
        PROVE  TypeOK' /\ JobInv'
    BY <1>0, <1>1, <1>2, <1>3, MoveStep
  <1>4. CASE AddGroupMembersOfNew(w)
    <2>1. JobFits("commit", job[w]) /\ "commit" \in Label
      BY <1>0, <1>4 DEF AddGroupMembersOfNew, JobFits, Label
    <2>2. pc' = [pc EXCEPT ![w] = "commit"] /\ job' = [job EXCEPT ![w] = job[w]]
      BY <1>0, <1>4 DEF AddGroupMembersOfNew, Goto
    <2> QED BY <1>0, <1>3, <2>1, <2>2
  <1>5. CASE DeleteGroupMemberByID(w)
    <2>1. JobFits("group", job[w]) /\ "group" \in Label
      BY <1>0, <1>5 DEF DeleteGroupMemberByID, JobFits, Label
    <2>2. pc' = [pc EXCEPT ![w] = "group"] /\ job' = [job EXCEPT ![w] = job[w]]
      BY <1>0, <1>5 DEF DeleteGroupMemberByID, Goto
    <2> QED BY <1>0, <1>3, <2>1, <2>2
  <1>6. CASE DeleteGroupMember(w)
    <2>1. PICK m \in job[w].todo : job' = [job EXCEPT ![w].todo = @ \ {m}]
      BY <1>6 DEF DeleteGroupMember
    <2> DEFINE j == [job[w] EXCEPT !.todo = @ \ {m}]
    <2>2. pc[w] = "loop" /\ pc' = pc
      BY <1>6 DEF DeleteGroupMember
    <2>3. /\ j \in Job /\ JobFits("loop", j) /\ "loop" \in Label
          /\ j.op = job[w].op /\ j.g = job[w].g
      BY <1>0, <2>2 DEF Job, JobFits, Label
    <2>4. pc' = [pc EXCEPT ![w] = "loop"] /\ job' = [job EXCEPT ![w] = j]
      BY <2>1, <2>2 DEF TypeOK
    <2> QED BY <1>3, <2>3, <2>4
  <1> QED BY <1>4, <1>5, <1>6

\* The row of a group is deleted.
LEMMA DeleteRowTypes ==
    ASSUME TypeOK, JobInv, NEW w \in Worker, DeleteGroupRow(w)
    PROVE  TypeOK' /\ JobInv'
  <1>0. /\ job[w] \in Job /\ JobFits(pc[w], job[w]) /\ ids \in Nat
        /\ job \in [Worker -> Job] /\ job[w].g \in Group
    BY DEF TypeOK, JobInv, Job
  <1>1. /\ UNCHANGED <<rows, alive, going, pending, ids, job, tail, announced,
                       told, audit, requests, faults, created>>
        /\ name' = [name EXCEPT ![job[w].g] = None] /\ pc' = [pc EXCEPT ![w] = "after"]
        /\ pc[w] = "group"
    BY DEF DeleteGroupRow, org, sent, Goto
  <1>2. JobFits("after", job[w]) /\ "after" \in Label /\ job[w].op = "delete"
    BY <1>0, <1>1 DEF JobFits, Label
  <1>3. JobInv' /\ pc' \in [Worker -> Label]
    <2>1. job' \in [Worker -> Job] /\ job'[w] = job[w]
      BY <1>0, <1>1
    <2>2. \A v \in Worker \ {w} : Marked(v)
      BY <1>1 DEF Marked
    <2>3. /\ \A v \in Worker \ {w} : job[v].op = "add" => job[v].g \notin created'
          /\ job[w].g \in created'
      BY <1>1, <1>2 DEF JobInv
    <2>4. ids' \in Nat /\ ids' >= ids /\ created \subseteq created'
      BY <1>0, <1>1
    <2> QED BY <1>0, <1>1, <1>2, <2>1, <2>2, <2>3, <2>4, JobStep
  <1>4. /\ name' \in [Group -> Name \cup {None}]
        /\ \A g \in Group : name'[g] # None => g \in created
    BY <1>0, <1>1 DEF TypeOK, Exists
  <1> QED BY <1>1, <1>3, <1>4 DEF TypeOK, Label, Exists

\* A group is renamed, or its notes are changed, or it is gone.
LEMMA UpdateTypes ==
    ASSUME TypeOK, JobInv, NEW w \in Worker, UpdateGroup(w)
    PROVE  TypeOK' /\ JobInv'
  <1> DEFINE g == job[w].g
             n == job[w].n
  <1>0. /\ job[w] \in Job /\ JobFits(pc[w], job[w]) /\ ids \in Nat
        /\ job \in [Worker -> Job] /\ g \in Group /\ n \in Name \cup {None}
    BY DEF TypeOK, JobInv, Job
  <1>1. /\ UNCHANGED <<rows, alive, going, pending, ids, tail, announced,
                       told, audit, requests, faults, created>>
        /\ pc' = [pc EXCEPT ![w] = "after"] /\ pc[w] = "update"
    BY DEF UpdateGroup, org, sent, Goto
  <1>2. \/ name' = name /\ job' = job
        \/ /\ name' = [name EXCEPT ![g] = n] /\ job' = TakeName(w, n)
           /\ Exists(g)
    BY DEF UpdateGroup
  <1>3. /\ job' \in [Worker -> Job] /\ job'[w] = job[w]
        /\ \A v \in Worker \ {w} : Marked(v)
    <2>1. CASE job' = job
      BY <1>0, <2>1 DEF Marked
    <2>2. CASE job' = TakeName(w, n)
      <3>1. \A v \in Worker :
               job'[v] = job[v] \/ job'[v] = [job[v] EXCEPT !.stale = TRUE]
        BY <2>2 DEF TakeName
      <3>2. \A v \in Worker : job'[v] \in Job /\ Marked(v)
        <4> SUFFICES ASSUME NEW v \in Worker PROVE job'[v] \in Job /\ Marked(v)
          OBVIOUS
        <4>1. CASE job'[v] = job[v]
          BY <1>0, <4>1 DEF Marked
        <4>2. CASE job'[v] = [job[v] EXCEPT !.stale = TRUE]
          BY <1>0, <4>2, MarkStale DEF Marked
        <4> QED BY <3>1, <4>1, <4>2
      <3>3. job'[w] = job[w] /\ job' = [v \in Worker |-> job'[v]]
        BY <2>2 DEF TakeName
      <3> QED BY <3>2, <3>3
    <2> QED BY <1>2, <2>1, <2>2
  <1>4. JobInv' /\ pc' \in [Worker -> Label]
    <2>1. JobFits("after", job[w]) /\ "after" \in Label /\ job[w].op = "modify"
      BY <1>0, <1>1 DEF JobFits, Label
    <2>2. /\ \A v \in Worker \ {w} : job[v].op = "add" => job[v].g \notin created'
          /\ job[w].g \in created'
      BY <1>1, <2>1 DEF JobInv
    <2>3. ids' \in Nat /\ ids' >= ids /\ created \subseteq created'
      BY <1>0, <1>1
    <2> QED BY <1>0, <1>1, <1>3, <2>1, <2>2, <2>3, JobStep
  <1>5. /\ name' \in [Group -> Name \cup {None}]
        /\ \A h \in Group : name'[h] # None => h \in created
    BY <1>0, <1>2 DEF TypeOK, Exists
  <1> QED BY <1>1, <1>3, <1>4, <1>5 DEF TypeOK, Label, Exists

\* A member row is inserted.
LEMMA InsertTypes ==
    ASSUME TypeOK, JobInv, NEW w \in Worker, AddGroupMember(w)
    PROVE  TypeOK' /\ JobInv'
  <1> DEFINE j == [job[w] EXCEPT !.cur = None, !.stale = FALSE]
  <1>0. /\ job[w] \in Job /\ JobFits(pc[w], job[w]) /\ ids \in Nat
        /\ job \in [Worker -> Job] /\ job[w].g \in Group
    BY DEF TypeOK, JobInv, Job
  <1>1. /\ UNCHANGED <<name, alive, going, pending, ids, tail, announced,
                       told, audit, requests, faults, created>>
        /\ pc' = [pc EXCEPT ![w] = "loop"] /\ pc[w] = "put"
    BY DEF AddGroupMember, org, sent, Goto
  <1>2. /\ j \in Job /\ JobFits("loop", j) /\ "loop" \in Label
        /\ j.op = "addMembers" /\ job[w].op = "addMembers" /\ j.g = job[w].g
    BY <1>0, <1>1 DEF Job, JobFits, Label
  <1>3. /\ job' \in [Worker -> Job] /\ job'[w] = j
        /\ \A v \in Worker \ {w} : Marked(v)
    <2>1. /\ \A v \in Worker \ {w} :
                job'[v] = job[v] \/ job'[v] = [job[v] EXCEPT !.stale = TRUE]
          /\ job'[w] = j /\ job' = [v \in Worker |-> job'[v]]
      BY DEF AddGroupMember
    <2>2. \A v \in Worker \ {w} : job'[v] \in Job /\ Marked(v)
      <3> SUFFICES ASSUME NEW v \in Worker \ {w} PROVE job'[v] \in Job /\ Marked(v)
        OBVIOUS
      <3>1. CASE job'[v] = job[v]
        BY <1>0, <3>1 DEF Marked
      <3>2. CASE job'[v] = [job[v] EXCEPT !.stale = TRUE]
        BY <1>0, <3>2, MarkStale DEF Marked
      <3> QED BY <2>1, <3>1, <3>2
    <2> QED BY <1>2, <2>1, <2>2
  <1>4. JobInv' /\ pc' \in [Worker -> Label]
    <2>1. /\ \A v \in Worker \ {w} : job[v].op = "add" => job[v].g \notin created'
          /\ j.g \in created'
      BY <1>1, <1>2 DEF JobInv
    <2>2. ids' \in Nat /\ ids' >= ids /\ created \subseteq created'
      BY <1>0, <1>1
    <2>3. j.op # "add"
      BY <1>2
    <2> QED BY <1>1, <1>2, <1>3, <2>1, <2>2, <2>3, JobStep
  <1>5. rows' \in [Group \X Member -> Nat]
    BY <1>0, RowTypes DEF AddGroupMember
  <1> QED BY <1>1, <1>3, <1>4, <1>5 DEF TypeOK, Label, Exists

\* Requests end, by an answer, a failure or a crash.
LEMMA EndTypes ==
    ASSUME TypeOK, JobInv, (\E w \in Worker : Answer(w) \/ CallFails(w)) \/ Crash
    PROVE  TypeOK' /\ JobInv'
  <1>1. ASSUME NEW w \in Worker, Answer(w) PROVE TypeOK' /\ JobInv'
    <2>1. /\ UNCHANGED <<name, rows, alive, going, pending, ids, announced, told,
                         audit, requests, faults, created>>
          /\ Leave(w) /\ tail' = tail \cup Goroutines(w) /\ pc[w] \in {"after", "loop"}
      BY <1>1 DEF Answer, tables, org, marks
    <2>2. \A t \in Goroutines(w) :
              /\ t[1] \in {"publish", "log"} /\ t[2] \in Kind
              /\ t[3] \in created /\ t[4] \in Name \cup {None}
      BY <2>1, GoroutineTypes
    <2> QED BY <2>1, <2>2, LeaveStep
  <1>2. ASSUME NEW W \in SUBSET Worker, Abandon(W), tail' \subseteq tail,
               UNCHANGED <<name, rows, alive, going, pending, ids, announced, told,
                           audit, requests, created>>,
               faults' \in 0..MaxFaults
        PROVE  TypeOK' /\ JobInv'
    <2>1. /\ \A w \in Worker : /\ w \in W => pc'[w] = "idle" /\ job'[w] = NoJob
                               /\ w \notin W => pc'[w] = pc[w] /\ job'[w] = job[w]
          /\ pc' = [w \in Worker |-> pc'[w]] /\ job' = [w \in Worker |-> job'[w]]
      BY <1>2 DEF Abandon
    <2>2. NoJob.op = None
      BY DEF NoJob
    <2>3. pc' \in [Worker -> Label] /\ job' \in [Worker -> Job]
      BY <2>1, NoJobType DEF TypeOK, Label
    <2>4. JobInv'
      BY <1>2, <2>1, <2>2, NoJobType DEF JobInv
    <2> QED BY <1>2, <2>3, <2>4 DEF TypeOK, Label, Exists
  <1>3. ASSUME NEW w \in Worker, CallFails(w) PROVE TypeOK' /\ JobInv'
    <2>1. faults' \in 0..MaxFaults
      BY <1>3 DEF CallFails, TypeOK
    <2> QED BY <1>2, <1>3, <2>1 DEF CallFails, tables, org, sent
  <1>4. CASE Crash
    <2>1. faults' \in 0..MaxFaults
      BY <1>4 DEF Crash, TypeOK
    <2> QED BY <1>2, <1>4, <2>1 DEF Crash, tables, org
  <1> QED BY <1>1, <1>3, <1>4

\* Goroutines, and the deletion of users and departments.
LEMMA OtherTypes ==
    ASSUME TypeOK, JobInv,
           \/ \E t \in tail : Publish(t) \/ WriteLog(t) \/ TailFails(t)
           \/ \E u \in User : RemoveUserRows(u) \/ RemoveUser(u)
           \/ \E d \in Department : DepartmentDeleted(d) \/ DeleteGroupMemberByMemberID(d)
           \/ UNCHANGED vars
    PROVE  TypeOK' /\ JobInv'
  <1>1. ASSUME UNCHANGED <<pc, job, ids, created>> PROVE JobInv'
    BY <1>1 DEF JobInv
  <1>2. ASSUME NEW t \in tail, Publish(t) PROVE TypeOK' /\ JobInv'
    <2>1. /\ UNCHANGED <<name, rows, alive, going, pending, ids, pc, job, audit,
                         requests, faults, created>>
          /\ tail' \subseteq tail /\ announced' \subseteq announced \cup {t[3]}
          /\ told' = told \/ told' = [told EXCEPT ![t[3]] = t[4]]
      BY <1>2 DEF Publish, tables, org, marks
    <2>2. t[3] \in created /\ t[4] \in Name \cup {None}
      BY DEF TypeOK
    <2>3. announced' \subseteq created /\ told' \in [Group -> Name \cup {None}]
      BY <2>1, <2>2 DEF TypeOK
    <2> QED BY <1>1, <2>1, <2>3 DEF TypeOK, Exists
  <1>3. ASSUME NEW t \in tail, WriteLog(t) PROVE TypeOK' /\ JobInv'
    <2>1. /\ UNCHANGED <<name, rows, alive, going, pending, ids, pc, job, announced,
                         told, requests, faults, created>>
          /\ tail' \subseteq tail /\ audit' = audit \cup {<<t[2], t[3]>>}
      BY <1>3 DEF WriteLog, tables, org, marks
    <2>2. t[3] \in created /\ t[2] \in Kind
      BY DEF TypeOK
    <2>3. audit' \subseteq Kind \X created
      BY <2>1, <2>2 DEF TypeOK
    <2> QED BY <1>1, <2>1, <2>3 DEF TypeOK, Exists
  <1>4. ASSUME NEW t \in tail, TailFails(t) PROVE TypeOK' /\ JobInv'
    <2>1. /\ UNCHANGED <<name, rows, alive, going, pending, ids, pc, job, announced,
                         told, audit, requests, created>>
          /\ tail' \subseteq tail /\ faults' = faults + 1 /\ faults < MaxFaults
      BY <1>4 DEF TailFails, tables, org
    <2> QED BY <1>1, <2>1 DEF TypeOK, Exists
  <1>5. ASSUME NEW m \in Member,
               job' = [w \in Worker |->
                  IF m \in job[w].todo \cup {job[w].cur}
                  THEN [job[w] EXCEPT !.old = @ \cup {m}] ELSE job[w]],
               UNCHANGED <<pc, ids, created>>
        PROVE  job' \in [Worker -> Job] /\ JobInv'
    <2>1. job \in [Worker -> Job]
      BY DEF TypeOK
    <2>2. \A w \in Worker : job'[w] \in Job /\ Marked(w)
      BY <1>5, <2>1, MarkOld DEF Marked
    <2>3. job' \in [Worker -> Job]
      BY <1>5, <2>2
    <2>4. \A w \in Worker : JobFits(pc[w], job'[w])
      BY <2>2 DEF JobInv, JobFits, Marked
    <2> QED BY <1>5, <2>2, <2>3, <2>4 DEF JobInv, Marked
  <1>6. ASSUME NEW m \in Member, RemoveMember(m), UNCHANGED <<pc, ids, created>>
        PROVE  /\ job' \in [Worker -> Job] /\ JobInv'
               /\ rows' \in [Group \X Member -> Nat]
    <2>1. rows' \in [Group \X Member -> Nat]
      <3>1. rows \in [Group \X Member -> Nat]
        BY DEF TypeOK
      <3>2. rows' = RowsWithout(Group \X {m})
        BY <1>6 DEF RemoveMember, DeleteRows
      <3> HIDE DEF Group, Member
      <3> QED BY <3>1, <3>2 DEF RowsWithout
    <2> QED BY <1>5, <1>6, <2>1 DEF RemoveMember
  <1>7. ASSUME NEW u \in User, RemoveUserRows(u) PROVE TypeOK' /\ JobInv'
    <2>1. UNCHANGED <<name, alive, pending, ids, pc, tail, announced, told, audit,
                      requests, faults, created>>
          /\ RemoveMember(u) /\ going' = going \cup {u} /\ u \in alive
      BY <1>7 DEF RemoveUserRows, sent
    <2>2. job' \in [Worker -> Job] /\ JobInv' /\ rows' \in [Group \X Member -> Nat]
      BY <1>6, <2>1
    <2> QED BY <2>1, <2>2 DEF TypeOK, Exists
  <1>8. ASSUME NEW u \in User, RemoveUser(u) PROVE TypeOK' /\ JobInv'
    <2>1. /\ UNCHANGED <<name, rows, pending, ids, pc, tail, announced, told, audit,
                         requests, faults, created>>
          /\ going' = going \ {u} /\ alive' = alive \ {u}
      BY <1>8 DEF RemoveUser, tables, sent
    <2>2. job' \in [Worker -> Job] /\ JobInv'
      BY <1>5, <1>8, <2>1 DEF RemoveUser
    <2> QED BY <2>1, <2>2 DEF TypeOK, Exists
  <1>9. ASSUME NEW d \in Department, DepartmentDeleted(d) PROVE TypeOK' /\ JobInv'
    <2>1. /\ UNCHANGED <<name, rows, going, ids, pc, job, tail, announced, told,
                         audit, requests, faults, created>>
          /\ alive' = alive \ {d} /\ pending' = pending \cup {d}
      BY <1>9 DEF DepartmentDeleted, tables, sent, marks
    <2> QED BY <1>1, <2>1 DEF TypeOK, Exists
  <1>10. ASSUME NEW d \in Department, DeleteGroupMemberByMemberID(d)
         PROVE  TypeOK' /\ JobInv'
    <2>1. /\ UNCHANGED <<name, alive, going, ids, pc, tail, announced, told, audit,
                         requests, created>>
          /\ RemoveMember(d) /\ pending' \subseteq pending
      BY <1>10 DEF DeleteGroupMemberByMemberID, sent
    <2>2. job' \in [Worker -> Job] /\ JobInv' /\ rows' \in [Group \X Member -> Nat]
      BY <1>6, <2>1
    <2>3. faults' \in 0..MaxFaults
      BY <1>10 DEF DeleteGroupMemberByMemberID, TypeOK
    <2> QED BY <2>1, <2>2, <2>3 DEF TypeOK, Exists
  <1>11. CASE UNCHANGED vars
    BY <1>1, <1>11 DEF TypeOK, Exists, vars
  <1> QED BY <1>2, <1>3, <1>4, <1>7, <1>8, <1>9, <1>10, <1>11

\* Every step keeps the types and the places of the requests.
LEMMA NextType == TypeOK /\ JobInv /\ [Next]_vars => TypeOK' /\ JobInv'
  BY BeginTypes, ReadTypes, CommitTypes, WriteTypes, DeleteRowTypes, UpdateTypes,
     InsertTypes, EndTypes, OtherTypes
  DEF Next

\* The tables keep their types, and identifiers are used only after they are
\* given out, for every number of requests and groups.
THEOREM GroupsTyped == Spec => []TypeOK
  <1>1. TypeOK /\ JobInv /\ [Next]_vars => (TypeOK /\ JobInv)'
    BY NextType
  <1> QED BY <1>1, InitType, PTL DEF Spec
-----------------------------------------------------------------------------
(* What the steps do to the requests, field by field.                      *)

Same(v)  == pc'[v] = pc[v] /\ job'[v] = job[v]
Ended(v) == pc'[v] = "idle" /\ job'[v] = NoJob
Kept(v)  == /\ job'[v].op = job[v].op /\ job'[v].g = job[v].g
            /\ job'[v].n = job[v].n
Mistaken(v) == /\ pc'[v] = pc[v] /\ Marked(v) /\ job'[v].stale
               /\ job'[v].old = job[v].old
Aged(v, m)  == /\ pc'[v] = pc[v] /\ Marked(v) /\ job'[v].stale = job[v].stale
               /\ job'[v].old = job[v].old \cup {m}
Begun(w, p, op, g, n, S) ==
    /\ pc[w] = "idle" /\ pc'[w] = p
    /\ job'[w].op = op /\ job'[w].g = g /\ job'[w].n = n /\ job'[w].todo = S
    /\ job'[w].cur = None /\ job'[w].old = {}

Others(w) == \A v \in Worker \ {w} : Same(v)

\* The fields of the job of a request that does nothing.
LEMMA NoJobFields ==
    /\ NoJob.op = None /\ NoJob.n = None /\ NoJob.todo = {} /\ NoJob.cur = None
    /\ NoJob.stale = FALSE /\ NoJob.old = {}
  BY DEF NoJob

\* A request begins.
LEMMA BeginMoves ==
    ASSUME TypeOK, NEW w \in Worker
    PROVE  /\ \A n \in Name, from \in SUBSET (1..ids) : AddGroup(w, n, from) =>
                 Begun(w, "exist", "add", ids + 1, n, {}) /\ Others(w)
           /\ \A n \in Name, from \in SUBSET (1..ids) : AddGroup(w, n, from) =>
                 job'[w].stale = (GetGroupIDByName(n) # {})
           /\ \A g \in Group : DeleteGroup(w, g) =>
                 Begun(w, "rows", "delete", g, None, {}) /\ Others(w)
           /\ \A g \in Group, n \in Name \cup {None} : ModifyGroup(w, g, n) =>
                 Begun(w, "name", "modify", g, n, {}) /\ Others(w)
           /\ \A kind \in {"addMembers", "deleteMembers"}, g \in Group,
                 S \in (SUBSET Member) \ {{}} : ChangeMembers(w, kind, g, S) =>
                 /\ Begun(w, IF kind = "addMembers" THEN "check" ELSE "loop",
                          kind, g, None, S)
                 /\ Others(w)
  <1>0. job \in [Worker -> Job] /\ pc \in [Worker -> Label]
    BY DEF TypeOK, Label
  <1>1. ASSUME NEW p, NEW j, Begin(w, p, j)
        PROVE  pc[w] = "idle" /\ pc'[w] = p /\ job'[w] = j /\ Others(w)
    BY <1>0, <1>1 DEF Begin, Goto, Others, Same
  <1>2. ASSUME NEW n \in Name, NEW from \in SUBSET (1..ids), AddGroup(w, n, from)
        PROVE  /\ Begun(w, "exist", "add", ids + 1, n, {}) /\ Others(w)
               /\ job'[w].stale = (GetGroupIDByName(n) # {})
    <2> DEFINE j == [NoJob EXCEPT !.op = "add", !.g = ids + 1, !.n = n, !.from = from,
                                  !.stale = GetGroupIDByName(n) # {}]
    <2>1. pc[w] = "idle" /\ pc'[w] = "exist" /\ job'[w] = j /\ Others(w)
      BY <1>1, <1>2 DEF AddGroup
    <2> QED BY <2>1 DEF NoJob, Begun
  <1>3. ASSUME NEW g \in Group, DeleteGroup(w, g)
        PROVE  Begun(w, "rows", "delete", g, None, {}) /\ Others(w)
    <2> DEFINE j == [NoJob EXCEPT !.op = "delete", !.g = g]
    <2>1. pc[w] = "idle" /\ pc'[w] = "rows" /\ job'[w] = j /\ Others(w)
      BY <1>1, <1>3 DEF DeleteGroup
    <2> QED BY <2>1 DEF NoJob, Begun
  <1>4. ASSUME NEW g \in Group, NEW n \in Name \cup {None}, ModifyGroup(w, g, n)
        PROVE  Begun(w, "name", "modify", g, n, {}) /\ Others(w)
    <2> DEFINE j == [NoJob EXCEPT !.op = "modify", !.g = g, !.n = n]
    <2>1. pc[w] = "idle" /\ pc'[w] = "name" /\ job'[w] = j /\ Others(w)
      BY <1>1, <1>4 DEF ModifyGroup
    <2> QED BY <2>1 DEF NoJob, Begun
  <1>5. ASSUME NEW kind \in {"addMembers", "deleteMembers"}, NEW g \in Group,
               NEW S \in (SUBSET Member) \ {{}}, ChangeMembers(w, kind, g, S)
        PROVE  /\ Begun(w, IF kind = "addMembers" THEN "check" ELSE "loop",
                        kind, g, None, S)
               /\ Others(w)
    <2> DEFINE j == [NoJob EXCEPT !.op = kind, !.g = g, !.todo = S]
               p == IF kind = "addMembers" THEN "check" ELSE "loop"
    <2>1. pc[w] = "idle" /\ pc'[w] = p /\ job'[w] = j /\ Others(w)
      BY <1>1, <1>5 DEF ChangeMembers
    <2> QED BY <2>1 DEF NoJob, Begun
  <1> QED BY <1>2, <1>3, <1>4, <1>5

\* getGroupMembers.
LEMMA CopyMoves ==
    ASSUME TypeOK, NEW w \in Worker, getGroupMembers(w)
    PROVE  /\ pc[w] = "copy" /\ pc'[w] = "insert" /\ Others(w) /\ Kept(w)
           /\ job'[w].cur = job[w].cur /\ job'[w].stale = job[w].stale
           /\ job'[w].todo \subseteq {m \in Member : \E g \in job[w].from : rows[<<g, m>>] > 0}
           /\ job'[w].old = {m \in Member : \E g \in job[w].from :
                                               <<g, m>> \in outlived}
  <1>0. job \in [Worker -> Job] /\ pc \in [Worker -> Label] /\ job[w] \in Job
    BY DEF TypeOK, Label
  <1> DEFINE A == {m \in Member : \E g \in job[w].from : rows[<<g, m>>] > 0}
             O == {m \in Member : \E g \in job[w].from : <<g, m>> \in outlived}
  <1>1. /\ \E T \in SUBSET A : job' = [job EXCEPT ![w].todo = T, ![w].old = O]
        /\ pc' = [pc EXCEPT ![w] = "insert"] /\ pc[w] = "copy"
    BY DEF getGroupMembers, Goto
  <1> HIDE DEF A, O
  <1> PICK T \in SUBSET A : job' = [job EXCEPT ![w].todo = T, ![w].old = O]
    BY <1>1
  <1>2. job' = [job EXCEPT ![w] = [job[w] EXCEPT !.todo = T, !.old = O]]
    BY <1>0, <1>1
  <1>3. job'[w] = [job[w] EXCEPT !.todo = T, !.old = O] /\ Others(w) /\ pc'[w] = "insert"
    BY <1>0, <1>1, <1>2 DEF Others, Same
  <1>4. /\ Kept(w) /\ job'[w].cur = job[w].cur /\ job'[w].stale = job[w].stale
        /\ job'[w].todo = T /\ job'[w].old = O
    BY <1>0, <1>3 DEF Job, Kept
  <1> QED BY <1>1, <1>3, <1>4 DEF A, O

\* CheckName.
LEMMA CheckNameMoves ==
    ASSUME TypeOK, NEW w \in Worker, CheckName(w)
    PROVE  /\ pc[w] = "name" /\ Others(w)
           /\ \/ Ended(w)
              \/ /\ pc'[w] = "update" /\ Kept(w) /\ job'[w].todo = job[w].todo
                 /\ job'[w].cur = job[w].cur /\ job'[w].old = job[w].old
                 /\ job'[w].stale = \E id \in GetGroupIDByName(job[w].n) :
                                        id # job[w].g
  <1>0. job \in [Worker -> Job] /\ pc \in [Worker -> Label] /\ job[w] \in Job
    BY DEF TypeOK, Label
  <1> DEFINE b == \E id \in GetGroupIDByName(job[w].n) : id # job[w].g
  <1>1. /\ pc[w] = "name"
        /\ Leave(w) \/ (Goto(w, "update") /\ job' = [job EXCEPT ![w].stale = b])
    BY DEF CheckName, Taken
  <1> HIDE DEF b
  <1>2. CASE Leave(w)
    BY <1>0, <1>1, <1>2 DEF Leave, Others, Same, Ended
  <1>3. CASE Goto(w, "update") /\ job' = [job EXCEPT ![w].stale = b]
    <2>1. job'[w] = [job[w] EXCEPT !.stale = b] /\ Others(w) /\ pc'[w] = "update"
      BY <1>0, <1>3 DEF Goto, Others, Same
    <2>2. /\ Kept(w) /\ job'[w].cur = job[w].cur /\ job'[w].stale = b
          /\ job'[w].todo = job[w].todo /\ job'[w].old = job[w].old
      BY <1>0, <2>1 DEF Job, Kept
    <2> QED BY <1>1, <2>1, <2>2 DEF b
  <1> QED BY <1>1, <1>2, <1>3

\* checkUserAndDepartmentExist.
LEMMA CheckMembersMoves ==
    ASSUME TypeOK, NEW w \in Worker, checkUserAndDepartmentExist(w)
    PROVE  /\ pc[w] = "check" /\ Others(w)
           /\ \/ Ended(w)
              \/ /\ pc'[w] = "loop" /\ Kept(w) /\ job[w].todo \subseteq alive
                 /\ job'[w].todo = job[w].todo /\ job'[w].cur = job[w].cur
  <1>0. job \in [Worker -> Job] /\ pc \in [Worker -> Label] /\ job[w] \in Job
    BY DEF TypeOK, Label
  <1> QED
    BY <1>0
    DEF checkUserAndDepartmentExist, AllExist, Job, Leave, Goto, Others, Same,
        Ended, Kept

\* CheckGroupMembersExist: the member has a row, or is about to get one.
LEMMA FindRowMoves ==
    ASSUME TypeOK, NEW w \in Worker, CheckGroupMembersExist(w)
    PROVE  /\ pc[w] = "loop" /\ job[w].op = "addMembers" /\ Others(w) /\ Kept(w)
           /\ job'[w].old = job[w].old
           /\ \E m \in job[w].todo :
                 /\ job'[w].todo = job[w].todo \ {m}
                 /\ \/ /\ pc'[w] = "loop" /\ job'[w].cur = job[w].cur
                       /\ job'[w].stale = job[w].stale
                    \/ /\ pc'[w] = "put" /\ job'[w].cur = m
                       /\ job'[w].stale = (rows[<<job[w].g, m>>] > 0)
  <1>0. job \in [Worker -> Job] /\ pc \in [Worker -> Label] /\ job[w] \in Job
    BY DEF TypeOK, Label
  <1>1. pc[w] = "loop" /\ job[w].op = "addMembers"
    BY DEF CheckGroupMembersExist
  <1>2. PICK m \in job[w].todo :
          \/ job' = [job EXCEPT ![w].todo = @ \ {m}] /\ UNCHANGED pc
          \/ /\ job' = [job EXCEPT ![w].todo = @ \ {m}, ![w].cur = m,
                                   ![w].stale = rows[<<job[w].g, m>>] > 0]
             /\ Goto(w, "put")
    BY DEF CheckGroupMembersExist, HasRow
  <1>3. CASE job' = [job EXCEPT ![w].todo = @ \ {m}] /\ UNCHANGED pc
    <2>1. job'[w] = [job[w] EXCEPT !.todo = @ \ {m}] /\ Others(w) /\ pc'[w] = "loop"
      BY <1>0, <1>1, <1>3 DEF Others, Same
    <2>2. /\ Kept(w) /\ job'[w].old = job[w].old /\ job'[w].todo = job[w].todo \ {m}
          /\ job'[w].cur = job[w].cur /\ job'[w].stale = job[w].stale
      BY <1>0, <2>1 DEF Job, Kept
    <2> QED BY <1>1, <2>1, <2>2
  <1> DEFINE b == rows[<<job[w].g, m>>] > 0
  <1>4. CASE /\ job' = [job EXCEPT ![w].todo = @ \ {m}, ![w].cur = m, ![w].stale = b]
             /\ Goto(w, "put")
    <2> HIDE DEF b
    <2>1. /\ job'[w] = [job[w] EXCEPT !.todo = @ \ {m}, !.cur = m, !.stale = b]
          /\ Others(w) /\ pc'[w] = "put"
      BY <1>0, <1>4 DEF Others, Same, Goto
    <2>2. /\ Kept(w) /\ job'[w].old = job[w].old /\ job'[w].todo = job[w].todo \ {m}
          /\ job'[w].cur = m /\ job'[w].stale = b
      BY <1>0, <2>1 DEF Job, Kept
    <2> QED BY <1>1, <1>4, <2>1, <2>2 DEF b
  <1> QED BY <1>2, <1>3, <1>4

\* AddGroupMember: a request that is about to insert the same row is mistaken.
LEMMA InsertMoves ==
    ASSUME TypeOK, NEW w \in Worker, AddGroupMember(w)
    PROVE  /\ pc[w] = "put" /\ pc'[w] = "loop" /\ Kept(w) /\ job'[w].cur = None
           /\ job'[w].todo = job[w].todo /\ job'[w].old = job[w].old
           /\ \A v \in Worker \ {w} :
                 IF pc[v] = "put" /\ job[v].g = job[w].g /\ job[v].cur = job[w].cur
                 THEN Mistaken(v) ELSE Same(v)
  <1>0. job \in [Worker -> Job] /\ pc \in [Worker -> Label] /\ job[w] \in Job
    BY DEF TypeOK, Label
  <1>1. /\ pc[w] = "put" /\ pc' = [pc EXCEPT ![w] = "loop"]
        /\ job'[w] = [job[w] EXCEPT !.cur = None, !.stale = FALSE]
        /\ \A v \in Worker \ {w} : job'[v] =
              IF pc[v] = "put" /\ job[v].g = job[w].g /\ job[v].cur = job[w].cur
              THEN [job[v] EXCEPT !.stale = TRUE] ELSE job[v]
    BY DEF AddGroupMember, Goto
  <1>2. /\ Kept(w) /\ job'[w].cur = None
        /\ job'[w].todo = job[w].todo /\ job'[w].old = job[w].old
    BY <1>0, <1>1 DEF Job, Kept
  <1>3. ASSUME NEW v \in Worker \ {w}
        PROVE  IF pc[v] = "put" /\ job[v].g = job[w].g /\ job[v].cur = job[w].cur
               THEN Mistaken(v) ELSE Same(v)
    <2>1. pc'[v] = pc[v]
      BY <1>0, <1>1
    <2>2. CASE job'[v] = [job[v] EXCEPT !.stale = TRUE]
      BY <1>0, <1>1, <2>1, <2>2, MarkStale DEF Mistaken, Same, Marked
    <2> QED BY <1>1, <2>1, <2>2 DEF Same
  <1> QED BY <1>0, <1>1, <1>2, <1>3

\* A name is taken: requests about to use it are mistaken.
LEMMA NameMoves ==
    ASSUME TypeOK, NEW w \in Worker, NEW v \in Worker \ {w}, NEW n,
           job' = TakeName(w, n) \/ job' = [TakeName(w, n) EXCEPT ![w] = NoJob],
           pc'[v] = pc[v]
    PROVE  IF job[v].n = n /\ job[v].op \in {"add", "modify"}
           THEN Mistaken(v) ELSE Same(v)
  <1>1. job[v] \in Job
    BY DEF TypeOK
  <1>2. job'[v] = IF job[v].n = n /\ job[v].op \in {"add", "modify"}
                  THEN [job[v] EXCEPT !.stale = TRUE] ELSE job[v]
    BY DEF TakeName
  <1>3. CASE job'[v] = [job[v] EXCEPT !.stale = TRUE]
    BY <1>1, <1>2, <1>3, MarkStale DEF Mistaken, Same, Marked
  <1> QED BY <1>2, <1>3 DEF Same

\* CommitGroup.
LEMMA CommitMoves ==
    ASSUME TypeOK, NEW w \in Worker, CommitGroup(w)
    PROVE  /\ pc[w] = "commit" /\ Ended(w)
           /\ \A v \in Worker \ {w} :
                 IF job[v].n = job[w].n /\ job[v].op \in {"add", "modify"}
                 THEN Mistaken(v) ELSE Same(v)
  <1>1. /\ pc[w] = "commit" /\ pc' = [pc EXCEPT ![w] = "idle"]
        /\ job' = [TakeName(w, job[w].n) EXCEPT ![w] = NoJob]
    BY DEF CommitGroup, Goto
  <1>2. job'[w] = NoJob
    BY <1>1 DEF TakeName
  <1>3. pc'[w] = "idle" /\ \A v \in Worker \ {w} : pc'[v] = pc[v]
    BY <1>1 DEF TypeOK
  <1> QED BY <1>1, <1>2, <1>3, NameMoves DEF Ended

\* UpdateGroup: a renaming, or nothing.
LEMMA UpdateMoves ==
    ASSUME TypeOK, NEW w \in Worker, UpdateGroup(w)
    PROVE  /\ pc[w] = "update" /\ pc'[w] = "after" /\ job'[w] = job[w]
           /\ \/ Others(w) /\ name' = name /\ (job[w].n = None \/ ~Exists(job[w].g))
              \/ /\ job[w].n # None /\ Exists(job[w].g)
                 /\ name' = [name EXCEPT ![job[w].g] = job[w].n]
                 /\ \A v \in Worker \ {w} :
                       IF job[v].n = job[w].n /\ job[v].op \in {"add", "modify"}
                       THEN Mistaken(v) ELSE Same(v)
  <1>1. /\ pc[w] = "update" /\ pc' = [pc EXCEPT ![w] = "after"]
        /\ \/ /\ job' = job /\ name' = name /\ (job[w].n = None \/ ~Exists(job[w].g))
           \/ /\ job[w].n # None /\ Exists(job[w].g)
              /\ name' = [name EXCEPT ![job[w].g] = job[w].n]
              /\ job' = TakeName(w, job[w].n)
    BY DEF UpdateGroup, Goto
  <1>2. pc'[w] = "after" /\ \A v \in Worker \ {w} : pc'[v] = pc[v]
    BY <1>1 DEF TypeOK
  <1>3. job'[w] = job[w]
    BY <1>1 DEF TakeName
  <1> QED BY <1>1, <1>2, <1>3, NameMoves DEF Others, Same

\* The steps that only move on, or end.
LEMMA PlainMoves ==
    ASSUME TypeOK, NEW w \in Worker
    PROVE  /\ CheckInitial(w) =>
                 /\ pc[w] = "exist" /\ Others(w)
                 /\ Ended(w) \/ (pc'[w] = "copy" /\ job'[w] = job[w])
           /\ DeleteGroupMember(w) =>
                 /\ pc[w] = "loop" /\ job[w].op = "deleteMembers" /\ Others(w)
                 /\ pc'[w] = "loop" /\ Kept(w) /\ job'[w].cur = job[w].cur
           /\ AddGroupMembersOfNew(w) =>
                 /\ pc[w] = "insert" /\ pc'[w] = "commit" /\ job'[w] = job[w] /\ Others(w)
           /\ DeleteGroupMemberByID(w) =>
                 /\ pc[w] = "rows" /\ pc'[w] = "group" /\ job'[w] = job[w] /\ Others(w)
           /\ DeleteGroupRow(w) =>
                 /\ pc[w] = "group" /\ pc'[w] = "after" /\ job'[w] = job[w] /\ Others(w)
           /\ Answer(w) => Ended(w) /\ Others(w)
           /\ CallFails(w) => Ended(w) /\ Others(w) /\ pc[w] \notin {"idle", "after"}
           /\ Crash => \A v \in Worker : Ended(v)
  <1>0. job \in [Worker -> Job] /\ pc \in [Worker -> Label] /\ job[w] \in Job
    BY DEF TypeOK, Label
  <1>1. DeleteGroupMember(w) =>
                 /\ pc[w] = "loop" /\ job[w].op = "deleteMembers" /\ Others(w)
                 /\ pc'[w] = "loop" /\ Kept(w) /\ job'[w].cur = job[w].cur
    BY <1>0 DEF DeleteGroupMember, Job, Others, Same, Kept
  <1> QED
    BY <1>0, <1>1
    DEF Others, Same, Ended, Goto, Leave, CheckInitial, AddGroupMembersOfNew,
        DeleteGroupMemberByID, DeleteGroupRow, Answer, CallFails, Crash, Abandon

\* A member's rows are removed, or the member: requests that hold it are marked.
LEMMA RemoveMoves ==
    ASSUME TypeOK, NEW m \in Member, UNCHANGED pc,
           job' = [w \in Worker |->
              IF m \in job[w].todo \cup {job[w].cur}
              THEN [job[w] EXCEPT !.old = @ \cup {m}] ELSE job[w]]
    PROVE  \A v \in Worker : IF m \in job[v].todo \cup {job[v].cur}
                             THEN Aged(v, m) ELSE Same(v)
  <1> SUFFICES ASSUME NEW v \in Worker
               PROVE  IF m \in job[v].todo \cup {job[v].cur}
                      THEN Aged(v, m) ELSE Same(v)
    OBVIOUS
  <1>1. job[v] \in Job
    BY DEF TypeOK
  <1>2. CASE m \in job[v].todo \cup {job[v].cur}
    <2>1. job'[v] = [job[v] EXCEPT !.old = @ \cup {m}]
      BY <1>2
    <2> QED BY <1>1, <1>2, <2>1, MarkOld DEF Aged, Marked
  <1> QED BY <1>2 DEF Same

-----------------------------------------------------------------------------
(* Names.                                                                  *)

\* A request that has not learnt that a name is free.
NameCalm(v) ==
    \/ job'[v].op # "add" /\ pc'[v] # "update"
    \/ /\ Kept(v) /\ (job[v].stale => job'[v].stale)
       /\ pc'[v] = "update" => pc[v] = "update"

\* Requests that are unchanged or marked, or end.
LEMMA CalmMoves ==
    ASSUME NEW v \in Worker,
           Same(v) \/ Ended(v) \/ Mistaken(v) \/ \E m \in Member : Aged(v, m)
    PROVE  NameCalm(v)
  BY NoJobFields DEF NameCalm, Same, Ended, Mistaken, Aged, Kept, Marked

\* A step that leaves t_group alone.
LEMMA NameQuiet ==
    ASSUME NameInv, NamesDifferUnlessOverlap, UNCHANGED <<name, shared>>,
           \A v \in Worker : NameCalm(v)
    PROVE  NameInv' /\ NamesDifferUnlessOverlap'
  <1>1. NamesDifferUnlessOverlap'
    BY DEF NamesDifferUnlessOverlap, Exists
  <1> QED BY <1>1 DEF NameInv, NameCalm, Kept

\* A group takes a name: others that were about to are mistaken.
LEMMA NameTaken ==
    ASSUME TypeOK, JobInv, NameInv, NamesDifferUnlessOverlap, NEW w \in Worker,
           NEW n \in Name, NEW g \in Group, n = job[w].n, g = job[w].g,
           name' = [name EXCEPT ![g] = n],
           ~job[w].stale => \A h \in Group : name[h] = n => h = g,
           shared' = Common(name', IF job[w].stale THEN shared \cup {n} ELSE shared),
           job'[w].op # "add", pc'[w] # "update",
           \A v \in Worker \ {w} : IF job[v].n = n /\ job[v].op \in {"add", "modify"}
                                   THEN Mistaken(v) ELSE Same(v)
    PROVE  NameInv' /\ NamesDifferUnlessOverlap'
  <1>1. \A h \in Group : name'[h] = IF h = g THEN n ELSE name[h]
    BY DEF TypeOK
  <1>2. NamesDifferUnlessOverlap'
    <2> SUFFICES ASSUME NEW h \in Group, NEW k \in Group, h # k, name'[h] # None,
                        name'[h] = name'[k]
                 PROVE  name'[h] \in shared'
      BY DEF NamesDifferUnlessOverlap, Exists
    <2>1. name'[h] \in IF job[w].stale THEN shared \cup {n} ELSE shared
      BY <1>1 DEF NamesDifferUnlessOverlap, Exists
    <2> QED BY <2>1 DEF Common
  <1>3. ASSUME NEW v \in Worker, ~job'[v].stale, job'[v].n # None
        PROVE  /\ job'[v].op = "add" => \A h \in Group : name'[h] # job'[v].n
               /\ pc'[v] = "update" =>
                     \A h \in Group : name'[h] = job'[v].n => h = job'[v].g
    <2>1. CASE v = w
      BY <2>1
    <2>2. CASE v # w /\ ~(job[v].op = "add" \/ pc[v] = "update")
      BY <1>3, <2>2 DEF Mistaken, Same
    <2>3. CASE v # w /\ (job[v].op = "add" \/ pc[v] = "update")
      <3>1. job[v].op \in {"add", "modify"}
        BY <2>3 DEF JobInv, JobFits
      <3>2. Same(v) /\ job[v].n # n
        BY <1>3, <2>3, <3>1 DEF Mistaken
      <3> QED BY <1>1, <1>3, <3>2 DEF Same, NameInv
    <2> QED BY <2>1, <2>2, <2>3
  <1> QED BY <1>2, <1>3 DEF NameInv

\* Every step keeps the names apart.
LEMMA NextNames ==
    ASSUME TypeOK, JobInv, NameInv, NamesDifferUnlessOverlap, [Next]_vars
    PROVE  NameInv' /\ NamesDifferUnlessOverlap'
  <1>1. ASSUME NEW w \in Worker, Others(w), NameCalm(w), UNCHANGED <<name, shared>>
        PROVE  NameInv' /\ NamesDifferUnlessOverlap'
    BY <1>1, CalmMoves, NameQuiet DEF Others
  <1>2. ASSUME NEW w \in Worker, NEW n \in Name, NEW from \in SUBSET (1..ids),
               AddGroup(w, n, from)
        PROVE  NameInv' /\ NamesDifferUnlessOverlap'
    <2>1. UNCHANGED <<name, shared>> /\ job'[w].stale = (GetGroupIDByName(n) # {})
      BY <1>2, BeginMoves DEF AddGroup, Begin, tables, marks
    <2>2. NamesDifferUnlessOverlap'
      BY <2>1 DEF NamesDifferUnlessOverlap, Exists
    <2>3. job'[w].stale \/ \A g \in Group : name[g] # n
      BY <2>1 DEF GetGroupIDByName
    <2>4. Begun(w, "exist", "add", ids + 1, n, {}) /\ Others(w)
      BY <1>2, BeginMoves
    <2>5. \A v \in Worker : v = w \/ Same(v)
      BY <2>4 DEF Others
    <2> QED BY <2>1, <2>2, <2>3, <2>4, <2>5 DEF Begun, NameInv, Same
  <1>3. ASSUME NEW w \in Worker,
               \/ \E g \in Group : DeleteGroup(w, g)
               \/ \E g \in Group, n \in Name \cup {None} : ModifyGroup(w, g, n)
               \/ \E kind \in {"addMembers", "deleteMembers"}, g \in Group,
                     S \in (SUBSET Member) \ {{}} : ChangeMembers(w, kind, g, S)
        PROVE  NameInv' /\ NamesDifferUnlessOverlap'
    <2>1. UNCHANGED <<name, shared>>
      BY <1>3 DEF DeleteGroup, ModifyGroup, ChangeMembers, Begin, tables, marks
    <2>2. Others(w) /\ job'[w].op # "add" /\ pc'[w] # "update"
      BY <1>3, BeginMoves DEF Begun
    <2> QED BY <1>1, <2>1, <2>2 DEF NameCalm
  <1>4. ASSUME NEW w \in Worker,
               \/ CheckInitial(w) \/ AddGroupMembersOfNew(w) \/ DeleteGroupMemberByID(w)
               \/ DeleteGroupMember(w) \/ Answer(w) \/ CallFails(w)
        PROVE  NameInv' /\ NamesDifferUnlessOverlap'
    <2>1. UNCHANGED <<name, shared>>
      BY <1>4 DEF CheckInitial, AddGroupMembersOfNew, DeleteGroupMemberByID,
                  DeleteGroupMember, Answer, CallFails, tables, marks
    <2>2. Others(w) /\ NameCalm(w)
      <3>1. job[w].op = "deleteMembers" /\ Kept(w) /\ pc'[w] = "loop" => NameCalm(w)
        BY DEF NameCalm, Kept
      <3>2. pc'[w] # "update" /\ job'[w] = job[w] => NameCalm(w)
        BY DEF NameCalm, Kept
      <3> QED BY <1>4, <3>1, <3>2, PlainMoves, CalmMoves
    <2> QED BY <1>1, <2>1, <2>2
  <1>5. ASSUME NEW w \in Worker,
               \/ getGroupMembers(w) \/ checkUserAndDepartmentExist(w)
               \/ CheckGroupMembersExist(w)
        PROVE  NameInv' /\ NamesDifferUnlessOverlap'
    <2>1. UNCHANGED <<name, shared>>
      BY <1>5 DEF getGroupMembers, checkUserAndDepartmentExist,
                  CheckGroupMembersExist, tables, marks
    <2>2. JobFits(pc[w], job[w])
      BY DEF JobInv
    <2>3. CASE getGroupMembers(w)
      BY <1>1, <2>1, <2>3, CopyMoves DEF NameCalm
    <2>4. CASE checkUserAndDepartmentExist(w)
      BY <1>1, <2>1, <2>2, <2>4, CheckMembersMoves, CalmMoves DEF NameCalm, Kept, JobFits
    <2>5. CASE CheckGroupMembersExist(w)
      BY <1>1, <2>1, <2>5, FindRowMoves DEF NameCalm, Kept
    <2> QED BY <1>5, <2>3, <2>4, <2>5
  <1>6. ASSUME NEW w \in Worker, CommitGroup(w)
        PROVE  NameInv' /\ NamesDifferUnlessOverlap'
    <2>1. /\ job[w].op = "add" /\ job[w].n # None
          /\ job[w].n \in Name /\ job[w].g \in Group
      BY <1>6, CommitMoves DEF JobInv, JobFits, TypeOK, Job
    <2>2. /\ name' = [name EXCEPT ![job[w].g] = job[w].n]
          /\ shared' = Common(name', IF job[w].stale THEN shared \cup {job[w].n}
                                     ELSE shared)
      BY <1>6 DEF CommitGroup
    <2>3. job'[w].op # "add" /\ pc'[w] # "update"
      BY <1>6, CommitMoves, NoJobFields DEF Ended
    <2>4. ~job[w].stale => \A h \in Group : name[h] = job[w].n => h = job[w].g
      BY <2>1 DEF NameInv
    <2> QED BY <1>6, <2>1, <2>2, <2>3, <2>4, CommitMoves, NameTaken
  <1>7. ASSUME NEW w \in Worker, UpdateGroup(w)
        PROVE  NameInv' /\ NamesDifferUnlessOverlap'
    <2>1. job[w].n \in Name \cup {None} /\ job[w].g \in Group /\ job[w].op = "modify"
      BY <1>7, UpdateMoves DEF JobInv, JobFits, TypeOK, Job
    <2>2. job'[w].op # "add" /\ pc'[w] # "update" /\ pc[w] = "update"
      BY <1>7, <2>1, UpdateMoves
    <2>3. CASE Others(w) /\ name' = name /\ (job[w].n = None \/ ~Exists(job[w].g))
      <3>1. shared' = Common(name, shared)
        BY <1>7, <2>3 DEF UpdateGroup
      <3>2. NamesDifferUnlessOverlap'
        BY <2>3, <3>1 DEF NamesDifferUnlessOverlap, Exists, Common
      <3>3. \A v \in Worker : NameCalm(v)
        BY <2>2, <2>3, CalmMoves DEF NameCalm, Others
      <3> QED BY <2>3, <3>2, <3>3 DEF NameInv, NameCalm, Kept
    <2>4. CASE /\ job[w].n # None /\ Exists(job[w].g)
               /\ name' = [name EXCEPT ![job[w].g] = job[w].n]
               /\ \A v \in Worker \ {w} :
                       IF job[v].n = job[w].n /\ job[v].op \in {"add", "modify"}
                       THEN Mistaken(v) ELSE Same(v)
      <3>1. shared' = Common(name', IF job[w].stale THEN shared \cup {job[w].n}
                                    ELSE shared)
        BY <1>7, <2>4 DEF UpdateGroup
      <3>2. ~job[w].stale => \A h \in Group : name[h] = job[w].n => h = job[w].g
        BY <2>2, <2>4 DEF NameInv
      <3> QED BY <2>1, <2>2, <2>4, <3>1, <3>2, NameTaken
    <2> QED BY <1>7, <2>3, <2>4, UpdateMoves
  <1>8. ASSUME NEW w \in Worker, DeleteGroupRow(w)
        PROVE  NameInv' /\ NamesDifferUnlessOverlap'
    <2>1. /\ \A h \in Group : name'[h] = IF h = job[w].g THEN None ELSE name[h]
          /\ shared' = Common(name', shared)
      BY <1>8 DEF DeleteGroupRow, TypeOK
    <2>2. NamesDifferUnlessOverlap'
      BY <2>1 DEF NamesDifferUnlessOverlap, Exists, Common
    <2>3. \A v \in Worker : NameCalm(v)
      BY <1>8, PlainMoves, CalmMoves DEF NameCalm, Others, Kept
    <2> QED BY <2>1, <2>2, <2>3 DEF NameInv, NameCalm, Kept
  <1>9. ASSUME NEW w \in Worker, CheckName(w)
        PROVE  NameInv' /\ NamesDifferUnlessOverlap'
    <2>1. UNCHANGED <<name, shared>> /\ Others(w)
      BY <1>9, CheckNameMoves DEF CheckName, tables, marks
    <2>2. CASE Ended(w)
      BY <1>1, <2>1, <2>2, CalmMoves
    <2>3. CASE ~Ended(w)
      <3>1. /\ pc'[w] = "update" /\ Kept(w) /\ job[w].op = "modify"
            /\ ~job'[w].stale => \A id \in GetGroupIDByName(job[w].n) : id = job[w].g
        BY <1>9, <2>3, CheckNameMoves, ZenonT(60) DEF JobInv, JobFits
      <3>2. ~job'[w].stale /\ job[w].n # None =>
               \A g \in Group : name[g] = job[w].n => g = job[w].g
        BY <3>1 DEF GetGroupIDByName
      <3>3. NamesDifferUnlessOverlap'
        BY <2>1 DEF NamesDifferUnlessOverlap, Exists
      <3>4. \A v \in Worker : v = w \/ Same(v)
        BY <2>1 DEF Others
      <3> QED BY <2>1, <3>1, <3>2, <3>3, <3>4 DEF NameInv, Kept, Same
    <2> QED BY <2>2, <2>3
  <1>10. ASSUME NEW w \in Worker, AddGroupMember(w)
         PROVE  NameInv' /\ NamesDifferUnlessOverlap'
    <2>1. UNCHANGED <<name, shared>>
      BY <1>10 DEF AddGroupMember
    <2>2. NameCalm(w)
      BY <1>10, InsertMoves DEF NameCalm, Kept, JobInv, JobFits
    <2>3. \A v \in Worker \ {w} : NameCalm(v)
      BY <1>10, InsertMoves, CalmMoves
    <2> QED BY <2>1, <2>2, <2>3, NameQuiet
  <1>11. ASSUME NEW m \in Member, UNCHANGED <<pc, name, shared>>,
                job' = [w \in Worker |->
                   IF m \in job[w].todo \cup {job[w].cur}
                   THEN [job[w] EXCEPT !.old = @ \cup {m}] ELSE job[w]]
         PROVE  NameInv' /\ NamesDifferUnlessOverlap'
    <2>1. \A v \in Worker : Aged(v, m) \/ Same(v)
      BY <1>11, RemoveMoves
    <2> QED BY <1>11, <2>1, CalmMoves, NameQuiet
  <1>12. CASE Crash
    <2>1. UNCHANGED <<name, shared>> /\ \A v \in Worker : Ended(v)
      BY <1>12 DEF Crash, tables, Abandon, Ended
    <2> QED BY <2>1, CalmMoves, NameQuiet
  <1>13. ASSUME UNCHANGED <<pc, job, name, shared>>
         PROVE  NameInv' /\ NamesDifferUnlessOverlap'
    BY <1>13 DEF NameInv, NamesDifferUnlessOverlap, Exists
  <1>14. ASSUME NEW t \in tail, Publish(t) \/ WriteLog(t) \/ TailFails(t)
         PROVE  NameInv' /\ NamesDifferUnlessOverlap'
    BY <1>13, <1>14 DEF Publish, WriteLog, TailFails, tables, marks
  <1>15. ASSUME NEW u \in User, RemoveUserRows(u) \/ RemoveUser(u)
         PROVE  NameInv' /\ NamesDifferUnlessOverlap'
    BY <1>11, <1>15 DEF RemoveUserRows, RemoveUser, RemoveMember, tables
  <1>16. ASSUME NEW d \in Department,
                DepartmentDeleted(d) \/ DeleteGroupMemberByMemberID(d)
         PROVE  NameInv' /\ NamesDifferUnlessOverlap'
    BY <1>11, <1>13, <1>16
    DEF DepartmentDeleted, DeleteGroupMemberByMemberID, RemoveMember, tables, marks
  <1>17. CASE UNCHANGED vars
    BY <1>13, <1>17 DEF vars
  <1> QED
    BY <1>2, <1>3, <1>4, <1>5, <1>6, <1>7, <1>8, <1>9, <1>10, <1>12, <1>14,
       <1>15, <1>16, <1>17
    DEF Next

\* Two groups have one name only when a request took it between the check and
\* the write of another, however many requests overlap.
THEOREM NamesDiffer == Spec => []NamesDifferUnlessOverlap
  <1> DEFINE IInv == TypeOK /\ JobInv /\ NameInv /\ NamesDifferUnlessOverlap
  <1>1. Init => IInv
    <2>1. Init => NameInv /\ NamesDifferUnlessOverlap
      BY NoJobFields DEF Init, NameInv, NamesDifferUnlessOverlap, Exists
    <2> QED BY <2>1, InitType
  <1>2. IInv /\ [Next]_vars => IInv'
    BY NextType, NextNames
  <1> QED BY <1>1, <1>2, PTL DEF Spec
-----------------------------------------------------------------------------
(* Member rows: a member once in a group.                                  *)

\* What a deletion leaves of the table.
LEMMA DeleteEffect ==
    ASSUME TypeOK, NEW pairs, DeleteRows(pairs), NEW h \in Group, NEW m \in Member
    PROVE  rows'[<<h, m>>] = IF <<h, m>> \in pairs THEN 0 ELSE rows[<<h, m>>]
  <1>1. <<h, m>> \in DOMAIN rows
    BY DEF TypeOK
  <1> QED BY <1>1 DEF DeleteRows, RowsWithout

\* What an insertion adds to it.
LEMMA InsertEffect ==
    ASSUME TypeOK, NEW g \in Group, NEW S \in SUBSET Member,
           rows' = [r \in DOMAIN rows |-> rows[r] + (IF r \in {g} \X S THEN 1 ELSE 0)],
           NEW h \in Group, NEW m \in Member
    PROVE  rows'[<<h, m>>] = IF h = g /\ m \in S THEN rows[<<h, m>>] + 1
                             ELSE rows[<<h, m>>]
  <1>1. <<h, m>> \in DOMAIN rows /\ rows[<<h, m>>] \in Nat
    BY DEF TypeOK
  <1>2. <<h, m>> \in {g} \X S <=> h = g /\ m \in S
    OBVIOUS
  <1> QED BY <1>1, <1>2

\* The property, by group and member.
LEMMA OncePairs ==
    TypeOK => (MemberOnceUnlessOverlap <=>
        \A h \in Group, m \in Member : rows[<<h, m>>] > 1 => <<h, m>> \in doubled)
  <1> SUFFICES ASSUME TypeOK
               PROVE  MemberOnceUnlessOverlap <=>
                        \A h \in Group, m \in Member : rows[<<h, m>>] > 1 => <<h, m>> \in doubled
    OBVIOUS
  <1>1. DOMAIN rows = Group \X Member
    BY DEF TypeOK
  <1> QED BY <1>1 DEF MemberOnceUnlessOverlap

\* A request that has not learnt that a row is missing.
RowCalm(v) ==
    /\ pc'[v] \in {"exist", "copy", "insert"} =>
          pc[v] \in {"exist", "copy", "insert"} /\ job'[v].g = job[v].g
    /\ pc'[v] = "put" /\ ~job'[v].stale =>
          /\ pc[v] = "put" /\ ~job[v].stale
          /\ job'[v].g = job[v].g /\ job'[v].cur = job[v].cur

\* Requests that are unchanged or marked, or end.
LEMMA RowCalmMoves ==
    ASSUME NEW v \in Worker,
           Same(v) \/ Ended(v) \/ Mistaken(v) \/ \E m \in Member : Aged(v, m)
    PROVE  RowCalm(v)
  BY DEF RowCalm, Same, Ended, Mistaken, Aged, Marked

\* The groups and members that requests hold.
LEMMA Held ==
    ASSUME TypeOK, JobInv, NEW v \in Worker
    PROVE  /\ job[v].g \in Group /\ job[v].todo \in SUBSET Member
           /\ job[v].from \in SUBSET Group
           /\ pc[v] = "put" => job[v].cur \in Member
           /\ pc[v] # "put" => job[v].cur = None
           /\ pc[v] \in {"put", "rows", "group", "after", "loop"} => job[v].g \in created
           /\ pc[v] \in {"exist", "copy", "insert", "commit"} =>
                 /\ job[v].g \in (1..ids) \ created
                 /\ \A u \in Worker \ {v} : pc[u] \in {"exist", "copy", "insert", "commit"}
                       => job[u].g # job[v].g
  <1>1. job[v] \in Job
    BY DEF TypeOK
  <1>2. \A u \in Worker : JobFits(pc[u], job[u])
    BY DEF JobInv
  <1>3. job[v].g \in Group /\ job[v].todo \in SUBSET Member /\ job[v].from \in SUBSET Group
        /\ job[v].cur \in Member \cup {None}
    BY <1>1 DEF Job
  <1>4. /\ pc[v] = "put" => job[v].cur \in Member
        /\ pc[v] # "put" => job[v].cur = None
    BY <1>2, <1>3 DEF JobFits
  <1>5. /\ pc[v] \in {"put", "rows", "group", "after", "loop"} =>
              job[v].op \notin {None, "add"}
        /\ \A u \in Worker : pc[u] \in {"exist", "copy", "insert", "commit"} =>
              job[u].op = "add"
    BY <1>2 DEF JobFits
  <1> QED BY <1>3, <1>4, <1>5 DEF JobInv

\* A step that inserts no row.
LEMMA RowQuiet ==
    ASSUME TypeOK, TypeOK', JobInv, RowInv, MemberOnceUnlessOverlap, ids' >= ids,
           \A h \in Group, m \in Member :
              \/ rows'[<<h, m>>] = 0
              \/ /\ rows'[<<h, m>>] = rows[<<h, m>>]
                 /\ <<h, m>> \in doubled => <<h, m>> \in doubled',
           \A v \in Worker : RowCalm(v)
    PROVE  RowInv' /\ MemberOnceUnlessOverlap'
  <1>1. MemberOnceUnlessOverlap'
    <2>1. (MemberOnceUnlessOverlap <=>
             \A h \in Group, m \in Member : rows[<<h, m>>] > 1 => <<h, m>> \in doubled)'
      BY OncePairs, PTL
    <2>2. \A h \in Group, m \in Member : rows'[<<h, m>>] > 1 => <<h, m>> \in doubled'
      BY OncePairs
    <2> QED BY <2>1, <2>2
  <1>2. ids \in Nat /\ ids' \in Nat
    BY DEF TypeOK
  <1>3. \A h \in Group, m \in Member : rows[<<h, m>>] = 0 => rows'[<<h, m>>] = 0
    OBVIOUS
  <1>4. \A h \in Group, m \in Member : h > ids' => rows'[<<h, m>>] = 0
    BY <1>2, <1>3 DEF RowInv
  <1>5. \A w \in Worker, m \in Member :
           pc'[w] \in {"exist", "copy", "insert"} => rows'[<<job'[w].g, m>>] = 0
    BY <1>3, Held DEF RowInv, RowCalm
  <1>6. \A w \in Worker : pc'[w] = "put" /\ ~job'[w].stale =>
           rows'[<<job'[w].g, job'[w].cur>>] = 0
    BY <1>3, Held DEF RowInv, RowCalm
  <1> QED BY <1>1, <1>4, <1>5, <1>6 DEF RowInv

\* The rows of a new group are inserted, of which it had none.
LEMMA NewGroupRows ==
    ASSUME TypeOK, TypeOK', JobInv, RowInv, MemberOnceUnlessOverlap,
           NEW w \in Worker, AddGroupMembersOfNew(w)
    PROVE  RowInv' /\ MemberOnceUnlessOverlap'
  <1> DEFINE g == job[w].g
             S == job[w].todo
  <1>1. /\ pc[w] = "insert" /\ pc'[w] = "commit" /\ job'[w] = job[w] /\ Others(w)
    BY PlainMoves
  <1>2. /\ g \in Group /\ S \in SUBSET Member /\ g \in (1..ids) \ created
        /\ \A v \in Worker \ {w} :
              pc[v] \in {"exist", "copy", "insert", "commit"} => job[v].g # g
    BY <1>1, Held
  <1>3. /\ InsertRows(w, g, S) /\ UNCHANGED <<ids, created>>
    BY DEF AddGroupMembersOfNew
  <1>4. doubled' = doubled
    BY <1>1, <1>3 DEF InsertRows
  <1>5. \A h \in Group, m \in Member : rows'[<<h, m>>] =
           IF h = g /\ m \in S THEN rows[<<h, m>>] + 1 ELSE rows[<<h, m>>]
    <2>1. PICK k \in Group, T \in SUBSET Member : k = g /\ T = S
      BY <1>2
    <2>2. rows' = [r \in DOMAIN rows |-> rows[r] + (IF r \in {k} \X T THEN 1 ELSE 0)]
      BY <1>3, <2>1 DEF InsertRows
    <2> HIDE DEF g, S
    <2>3. \A h \in Group, m \in Member : rows'[<<h, m>>] =
             IF h = k /\ m \in T THEN rows[<<h, m>>] + 1 ELSE rows[<<h, m>>]
      BY <2>2, InsertEffect, ZenonT(60)
    <2> QED BY <2>1, <2>3
  <1>6. \A m \in Member : rows[<<g, m>>] = 0
    BY <1>1 DEF RowInv
  <1>7. MemberOnceUnlessOverlap'
    <2>1. (MemberOnceUnlessOverlap <=>
             \A h \in Group, m \in Member : rows[<<h, m>>] > 1 => <<h, m>> \in doubled)'
      BY OncePairs, PTL
    <2>2. \A h \in Group, m \in Member : rows'[<<h, m>>] > 1 => <<h, m>> \in doubled'
      BY <1>4, <1>5, <1>6, OncePairs
    <2> QED BY <2>1, <2>2
  <1>8. \A h \in Group, m \in Member : h # g => rows'[<<h, m>>] = rows[<<h, m>>]
    BY <1>5
  <1>9. ASSUME NEW v \in Worker \ {w}
        PROVE  /\ \A m \in Member : pc'[v] \in {"exist", "copy", "insert"} =>
                     rows'[<<job'[v].g, m>>] = 0
               /\ pc'[v] = "put" /\ ~job'[v].stale => rows'[<<job'[v].g, job'[v].cur>>] = 0
    <2>1. Same(v) /\ job[v].g \in Group
      BY <1>1, Held DEF Others
    <2>2. pc[v] = "put" => job[v].g # g /\ job[v].cur \in Member
      BY <1>2, Held
    <2> QED BY <1>2, <1>8, <2>1, <2>2 DEF Same, RowInv
  <1>10. \A h \in Group, m \in Member : h > ids' => rows'[<<h, m>>] = 0
    <2>1. ids \in Nat
      BY DEF TypeOK
    <2> QED BY <1>2, <1>3, <1>8, <2>1 DEF RowInv
  <1> QED BY <1>1, <1>7, <1>9, <1>10 DEF RowInv

\* The row of one member is inserted: a second one only when that is known.
LEMMA MemberRow ==
    ASSUME TypeOK, TypeOK', JobInv, RowInv, MemberOnceUnlessOverlap,
           NEW w \in Worker, AddGroupMember(w)
    PROVE  RowInv' /\ MemberOnceUnlessOverlap'
  <1> DEFINE g == job[w].g
             c == job[w].cur
  <1>1. /\ pc[w] = "put" /\ pc'[w] = "loop"
        /\ \A v \in Worker \ {w} :
              IF pc[v] = "put" /\ job[v].g = g /\ job[v].cur = c
              THEN Mistaken(v) ELSE Same(v)
    BY InsertMoves
  <1>2. /\ g \in Group /\ c \in Member /\ g \in created
        /\ created \subseteq 1..ids /\ ids \in Nat
    <2>1. created \subseteq 1..ids /\ ids \in Nat
      BY DEF TypeOK
    <2> QED BY <1>1, <2>1, Held
  <1>3. InsertRows(w, g, {c}) /\ UNCHANGED ids
    BY DEF AddGroupMember
  <1>4. doubled' = IF job[w].stale THEN doubled \cup {r \in {g} \X {c} : rows'[r] > 1}
                   ELSE doubled
    BY <1>1, <1>3 DEF InsertRows
  <1>5. \A h \in Group, m \in Member : rows'[<<h, m>>] =
           IF h = g /\ m = c THEN rows[<<h, m>>] + 1 ELSE rows[<<h, m>>]
    <2>1. PICK k \in Group, T \in SUBSET Member : k = g /\ T = {c}
      BY <1>2
    <2>2. rows' = [r \in DOMAIN rows |-> rows[r] + (IF r \in {k} \X T THEN 1 ELSE 0)]
      BY <1>3, <2>1 DEF InsertRows
    <2> HIDE DEF g, c
    <2>3. \A h \in Group, m \in Member : rows'[<<h, m>>] =
             IF h = k /\ m \in T THEN rows[<<h, m>>] + 1 ELSE rows[<<h, m>>]
      BY <2>2, InsertEffect, ZenonT(60)
    <2> QED BY <2>1, <2>3
  <1>6. ~job[w].stale => rows[<<g, c>>] = 0
    BY <1>1 DEF RowInv
  <1>7. MemberOnceUnlessOverlap'
    <2>1. (MemberOnceUnlessOverlap <=>
             \A h \in Group, m \in Member : rows[<<h, m>>] > 1 => <<h, m>> \in doubled)'
      BY OncePairs, PTL
    <2>2. ASSUME NEW h \in Group, NEW m \in Member, rows'[<<h, m>>] > 1
          PROVE  <<h, m>> \in doubled'
      <3>1. CASE h = g /\ m = c
        <4>1. job[w].stale
          BY <1>5, <1>6, <2>2, <3>1
        <4> QED BY <1>4, <2>2, <3>1, <4>1
      <3>2. CASE ~(h = g /\ m = c)
        BY <1>4, <1>5, <2>2, <3>2, OncePairs
      <3> QED BY <3>1, <3>2
    <2> QED BY <2>1, <2>2
  <1>8. ASSUME NEW v \in Worker \ {w}
        PROVE  /\ \A m \in Member : pc'[v] \in {"exist", "copy", "insert"} =>
                     rows'[<<job'[v].g, m>>] = 0
               /\ pc'[v] = "put" /\ ~job'[v].stale => rows'[<<job'[v].g, job'[v].cur>>] = 0
    <2>1. job[v].g \in Group /\ (pc[v] = "put" => job[v].cur \in Member)
      BY Held
    <2>2. CASE pc[v] = "put"
      <3>1. CASE job[v].g = g /\ job[v].cur = c
        BY <1>1, <2>2, <3>1 DEF Mistaken
      <3>2. CASE ~(job[v].g = g /\ job[v].cur = c)
        BY <1>1, <1>5, <2>1, <2>2, <3>2 DEF Same, RowInv
      <3> QED BY <3>1, <3>2
    <2>3. CASE pc[v] # "put"
      <3>1. Same(v)
        BY <1>1, <2>3
      <3>2. pc[v] \in {"exist", "copy", "insert"} => job[v].g # g
        BY <1>2, Held
      <3> QED BY <1>5, <2>1, <2>3, <3>1, <3>2 DEF Same, RowInv
    <2> QED BY <2>2, <2>3
  <1>9. \A h \in Group, m \in Member : h > ids' => rows'[<<h, m>>] = 0
    BY <1>2, <1>3, <1>5 DEF RowInv
  <1> QED BY <1>1, <1>7, <1>8, <1>9 DEF RowInv

\* Every step keeps members apart.
LEMMA NextRows ==
    ASSUME TypeOK, TypeOK', JobInv, RowInv, MemberOnceUnlessOverlap, [Next]_vars
    PROVE  RowInv' /\ MemberOnceUnlessOverlap'
  <1> DEFINE Goal == RowInv' /\ MemberOnceUnlessOverlap'
  <1>0. ids \in Nat
    BY DEF TypeOK
  <1>1. ASSUME UNCHANGED <<rows, doubled>>, ids' >= ids, \A v \in Worker : RowCalm(v)
        PROVE  Goal
    BY <1>1, RowQuiet
  <1>2. ASSUME NEW w \in Worker, Others(w), RowCalm(w), UNCHANGED <<rows, doubled, ids>>
        PROVE  Goal
    BY <1>0, <1>1, <1>2, RowCalmMoves DEF Others
  <1>3. ASSUME NEW pairs, DeleteRows(pairs), UNCHANGED ids, \A v \in Worker : RowCalm(v)
        PROVE  Goal
    <2>1. doubled' = doubled \ pairs
      BY <1>3 DEF DeleteRows
    <2>2. \A h \in Group, m \in Member : rows'[<<h, m>>] =
             IF <<h, m>> \in pairs THEN 0 ELSE rows[<<h, m>>]
      BY <1>3, DeleteEffect
    <2>3. \A h \in Group, m \in Member :
              \/ rows'[<<h, m>>] = 0
              \/ /\ rows'[<<h, m>>] = rows[<<h, m>>]
                 /\ <<h, m>> \in doubled => <<h, m>> \in doubled'
      BY <2>1, <2>2
    <2>4. ids' >= ids
      BY <1>0, <1>3
    <2> QED BY <1>3, <2>3, <2>4, RowQuiet
  <1>4. ASSUME NEW w \in Worker, NEW n \in Name, NEW from \in SUBSET (1..ids),
               AddGroup(w, n, from)
        PROVE  Goal
    <2>1. /\ UNCHANGED <<rows, doubled>> /\ ids' = ids + 1 /\ ids < MaxGroups
      BY <1>4 DEF AddGroup, Begin, tables, marks
    <2>2. Begun(w, "exist", "add", ids + 1, n, {}) /\ \A v \in Worker : v = w \/ Same(v)
      BY <1>4, BeginMoves DEF Others
    <2>3. MemberOnceUnlessOverlap'
      BY <2>1 DEF MemberOnceUnlessOverlap
    <2>4. ids + 1 \in Group /\ \A m \in Member : rows[<<ids + 1, m>>] = 0
      BY <1>0, <2>1 DEF RowInv
    <2>5. \A h \in Group, m \in Member : h > ids' => rows'[<<h, m>>] = 0
      BY <1>0, <2>1 DEF RowInv
    <2> QED BY <2>1, <2>2, <2>3, <2>4, <2>5 DEF Begun, Same, RowInv
  <1>5. ASSUME NEW w \in Worker,
               \/ \E g \in Group : DeleteGroup(w, g)
               \/ \E g \in Group, n \in Name \cup {None} : ModifyGroup(w, g, n)
               \/ \E kind \in {"addMembers", "deleteMembers"}, g \in Group,
                     S \in (SUBSET Member) \ {{}} : ChangeMembers(w, kind, g, S)
        PROVE  Goal
    <2>1. UNCHANGED <<rows, doubled, ids>>
      BY <1>5 DEF DeleteGroup, ModifyGroup, ChangeMembers, Begin, tables, marks
    <2>2. Others(w) /\ pc'[w] \in {"rows", "name", "check", "loop"}
      BY <1>5, BeginMoves DEF Begun
    <2> QED BY <1>2, <2>1, <2>2 DEF RowCalm
  <1>6. ASSUME NEW w \in Worker,
               CheckInitial(w) \/ DeleteGroupRow(w) \/ Answer(w) \/ CallFails(w)
        PROVE  Goal
    <2>1. UNCHANGED <<rows, doubled, ids>>
      BY <1>6 DEF CheckInitial, DeleteGroupRow, Answer, CallFails, tables, marks
    <2>2. Others(w) /\ RowCalm(w)
      BY <1>6, PlainMoves, RowCalmMoves DEF RowCalm
    <2> QED BY <1>2, <2>1, <2>2
  <1>7. ASSUME NEW w \in Worker,
               getGroupMembers(w) \/ CheckName(w) \/ checkUserAndDepartmentExist(w)
        PROVE  Goal
    <2>1. UNCHANGED <<rows, doubled, ids>>
      BY <1>7 DEF getGroupMembers, CheckName, checkUserAndDepartmentExist, tables, marks
    <2>2. Others(w) /\ RowCalm(w)
      BY <1>7, CopyMoves, CheckNameMoves, CheckMembersMoves, RowCalmMoves
      DEF RowCalm, Kept
    <2> QED BY <1>2, <2>1, <2>2
  <1>8. ASSUME NEW w \in Worker, DeleteGroupMemberByID(w) \/ DeleteGroupMember(w)
        PROVE  Goal
    <2>1. PICK pairs : DeleteRows(pairs) /\ UNCHANGED ids
      BY <1>8 DEF DeleteGroupMemberByID, DeleteGroupMember
    <2>2. RowCalm(w) /\ Others(w)
      BY <1>8, PlainMoves DEF RowCalm
    <2> QED BY <1>3, <2>1, <2>2, RowCalmMoves DEF Others
  <1>9. ASSUME NEW w \in Worker, CommitGroup(w) PROVE Goal
    <2>1. UNCHANGED <<rows, doubled, ids>>
      BY <1>9 DEF CommitGroup
    <2>2. \A v \in Worker : RowCalm(v)
      BY <1>9, CommitMoves, RowCalmMoves
    <2> QED BY <1>0, <1>1, <2>1, <2>2
  <1>10. ASSUME NEW w \in Worker, UpdateGroup(w) PROVE Goal
    <2>1. UNCHANGED <<rows, doubled, ids>>
      BY <1>10 DEF UpdateGroup
    <2>2. \A v \in Worker : v = w \/ Same(v) \/ Mistaken(v)
      BY <1>10, UpdateMoves DEF Others
    <2>3. RowCalm(w)
      BY <1>10, UpdateMoves DEF RowCalm
    <2> QED BY <1>0, <1>1, <2>1, <2>2, <2>3, RowCalmMoves
  <1>11. ASSUME NEW w \in Worker, CheckGroupMembersExist(w) PROVE Goal
    <2>1. UNCHANGED <<rows, doubled, ids>>
      BY <1>11 DEF CheckGroupMembersExist, tables, marks
    <2>2. PICK m \in job[w].todo :
             /\ Others(w) /\ Kept(w)
             /\ \/ pc'[w] = "loop"
                \/ /\ pc'[w] = "put" /\ job'[w].cur = m
                   /\ job'[w].stale \/ ~(rows[<<job[w].g, m>>] > 0)
      BY <1>11, FindRowMoves
    <2>3. CASE pc'[w] = "loop"
      BY <1>2, <2>1, <2>2, <2>3 DEF RowCalm
    <2>4. CASE /\ pc'[w] = "put" /\ job'[w].cur = m
               /\ job'[w].stale \/ ~(rows[<<job[w].g, m>>] > 0)
      <3>1. job[w].g \in Group /\ m \in Member
        BY <2>2, Held
      <3>2. job'[w].stale \/ rows'[<<job'[w].g, job'[w].cur>>] = 0
        BY <2>1, <2>2, <2>4, <3>1 DEF TypeOK, Kept
      <3>3. \A v \in Worker : v = w \/ Same(v)
        BY <2>2 DEF Others
      <3>4. MemberOnceUnlessOverlap'
        BY <2>1 DEF MemberOnceUnlessOverlap
      <3>5. /\ \A h \in Group, m_1 \in Member : h > ids' => rows'[<<h, m_1>>] = 0
            /\ \A v \in Worker, m_1 \in Member :
                 pc'[v] \in {"exist", "copy", "insert"} => rows'[<<job'[v].g, m_1>>] = 0
            /\ \A v \in Worker : pc'[v] = "put" /\ ~job'[v].stale =>
                 rows'[<<job'[v].g, job'[v].cur>>] = 0
        BY <2>1, <2>4, <3>2, <3>3 DEF RowInv, Same
      <3> QED BY <3>4, <3>5 DEF RowInv
    <2> QED BY <2>2, <2>3, <2>4
  <1>12. ASSUME NEW m \in Member, UNCHANGED <<pc, ids>>,
                job' = [w \in Worker |->
                   IF m \in job[w].todo \cup {job[w].cur}
                   THEN [job[w] EXCEPT !.old = @ \cup {m}] ELSE job[w]],
                UNCHANGED <<rows, doubled>> \/ DeleteRows(Group \X {m})
         PROVE  Goal
    <2>1. \A v \in Worker : Aged(v, m) \/ Same(v)
      BY <1>12, RemoveMoves
    <2>2. \A v \in Worker : RowCalm(v)
      BY <2>1, RowCalmMoves
    <2> QED BY <1>0, <1>1, <1>3, <1>12, <2>2
  <1>13. CASE Crash
    <2>1. UNCHANGED <<rows, doubled, ids>> /\ \A v \in Worker : Ended(v)
      BY <1>13 DEF Crash, tables, Abandon, Ended
    <2> QED BY <1>0, <1>1, <2>1, RowCalmMoves
  <1>14. ASSUME UNCHANGED <<pc, job, rows, doubled, ids>> PROVE Goal
    BY <1>14 DEF RowInv, MemberOnceUnlessOverlap
  <1>15. ASSUME NEW t \in tail, Publish(t) \/ WriteLog(t) \/ TailFails(t) PROVE Goal
    BY <1>14, <1>15 DEF Publish, WriteLog, TailFails, tables, marks
  <1>16. ASSUME NEW u \in User, RemoveUserRows(u) \/ RemoveUser(u) PROVE Goal
    BY <1>12, <1>16 DEF RemoveUserRows, RemoveUser, RemoveMember, tables
  <1>17. ASSUME NEW d \in Department,
                DepartmentDeleted(d) \/ DeleteGroupMemberByMemberID(d)
         PROVE  Goal
    BY <1>12, <1>14, <1>17
    DEF DepartmentDeleted, DeleteGroupMemberByMemberID, RemoveMember, tables, marks
  <1>18. CASE UNCHANGED vars
    BY <1>14, <1>18 DEF vars
  <1> HIDE DEF Goal
  <1>19. Goal
    BY <1>4, <1>5, <1>6, <1>7, <1>8, <1>9, <1>10, <1>11, <1>13, <1>15, <1>16,
       <1>17, <1>18, NewGroupRows, MemberRow
    DEF Next, Goal
  <1> QED BY <1>19 DEF Goal

\* A member is in a group twice only when two requests added it at once.
THEOREM MemberOnce == Spec => []MemberOnceUnlessOverlap
  <1> DEFINE IInv == TypeOK /\ JobInv /\ RowInv /\ MemberOnceUnlessOverlap
  <1>1. Init => IInv
    <2>1. Init => RowInv /\ MemberOnceUnlessOverlap
      BY DEF Init, RowInv, MemberOnceUnlessOverlap
    <2> QED BY <2>1, InitType
  <1>2. IInv /\ [Next]_vars => IInv'
    BY NextType, NextRows
  <1> QED BY <1>1, <1>2, PTL DEF Spec
-----------------------------------------------------------------------------
(* Member rows of groups that are gone.                                    *)

\* A request that does not come to delete a group, and whose new group is
\* there, or is known not to be, when it is done.
LateCalm(v) ==
    /\ pc'[v] = "group" =>
          \/ pc[v] = "group" /\ job'[v].g = job[v].g
          \/ \A m \in Member : rows'[<<job'[v].g, m>>] = 0
    /\ pc[v] = "commit" =>
          \/ pc'[v] = "commit" /\ job'[v].g = job[v].g
          \/ job[v].g \in leaked' \ created'
          \/ name'[job[v].g] # None

\* Requests that are unchanged or marked, or end other than at a commit.
LEMMA LateCalmMoves ==
    ASSUME NEW v \in Worker,
           \/ Same(v) \/ Mistaken(v) \/ \E m \in Member : Aged(v, m)
           \/ Ended(v) /\ pc[v] # "commit"
    PROVE  LateCalm(v)
  BY DEF LateCalm, Same, Ended, Mistaken, Aged, Marked

\* A step that inserts no member row and deletes no group.
LEMMA LateQuiet ==
    ASSUME TypeOK, TypeOK', JobInv, LateInv, OrphanRowsExplained,
           \A h \in Group, m \in Member :
              \/ rows'[<<h, m>>] = 0
              \/ /\ rows'[<<h, m>>] = rows[<<h, m>>]
                 /\ <<h, m>> \in late => <<h, m>> \in late',
           \A h \in Group : Exists(h) => name'[h] # None,
           leaked \subseteq leaked',
           \A h \in Group : h \in created' => h \in created \/ name'[h] # None,
           \A v \in Worker : LateCalm(v)
    PROVE  LateInv' /\ OrphanRowsExplained'
  <1>1. \A h \in Group, m \in Member : rows'[<<h, m>>] > 0 =>
           rows[<<h, m>>] > 0 /\ (<<h, m>> \in late => <<h, m>> \in late')
    OBVIOUS
  <1>2. LateInv'
    <2> SUFFICES ASSUME NEW v \in Worker, NEW m \in Member, pc'[v] = "group",
                        rows'[<<job'[v].g, m>>] > 0
                 PROVE  <<job'[v].g, m>> \in late'
      BY DEF LateInv
    <2>1. pc[v] = "group" /\ job'[v].g = job[v].g
      BY DEF LateCalm
    <2>2. job[v].g \in Group
      BY Held
    <2> QED BY <1>1, <2>1, <2>2 DEF LateInv
  <1>3. OrphanRowsExplained'
    <2> SUFFICES ASSUME NEW h \in Group, NEW m \in Member, name'[h] = None,
                        rows'[<<h, m>>] > 0
                 PROVE  \/ \E v \in Worker : pc'[v] = "commit" /\ job'[v].g = h
                        \/ h \in leaked' \ created'
                        \/ <<h, m>> \in late'
      BY DEF OrphanRowsExplained, Exists
    <2>1. \/ \E v \in Worker : pc[v] = "commit" /\ job[v].g = h
          \/ h \in leaked \ created
          \/ <<h, m>> \in late
      BY <1>1 DEF OrphanRowsExplained
    <2>2. CASE \E v \in Worker : pc[v] = "commit" /\ job[v].g = h
      BY <2>2 DEF LateCalm
    <2> QED BY <1>1, <2>1, <2>2
  <1> QED BY <1>2, <1>3

\* The row of a group goes: member rows it has by now came late.
LEMMA LateDelete ==
    ASSUME TypeOK, JobInv, LateInv, OrphanRowsExplained,
           NEW w \in Worker, DeleteGroupRow(w)
    PROVE  LateInv' /\ OrphanRowsExplained'
  <1>1. /\ pc[w] = "group" /\ pc'[w] = "after" /\ job'[w] = job[w] /\ Others(w)
    BY PlainMoves
  <1>2. /\ name' = [name EXCEPT ![job[w].g] = None]
        /\ UNCHANGED <<rows, late, leaked, created>>
    BY DEF DeleteGroupRow
  <1>3. LateInv'
    BY <1>1, <1>2 DEF LateInv, Others, Same
  <1>4. \A h \in Group : name'[h] = None => ~Exists(h) \/ h = job[w].g
    BY <1>2 DEF TypeOK, Exists
  <1>5. ASSUME NEW h \in Group, NEW m \in Member, name'[h] = None, rows'[<<h, m>>] > 0
        PROVE  \/ \E v \in Worker : pc'[v] = "commit" /\ job'[v].g = h
               \/ h \in leaked' \ created'
               \/ <<h, m>> \in late'
    <2>1. CASE h = job[w].g
      BY <1>1, <1>2, <1>5, <2>1 DEF LateInv
    <2>2. CASE ~Exists(h)
      BY <1>1, <1>2, <1>5, <2>2 DEF OrphanRowsExplained, Others, Same
    <2> QED BY <1>4, <1>5, <2>1, <2>2
  <1> QED BY <1>3, <1>5 DEF OrphanRowsExplained, Exists

\* Rows are inserted: of a new group, or by a request that had found the group.
LEMMA LateInsert ==
    ASSUME TypeOK, JobInv, LateInv, OrphanRowsExplained,
           NEW w \in Worker, AddGroupMembersOfNew(w) \/ AddGroupMember(w)
    PROVE  LateInv' /\ OrphanRowsExplained'
  <1>0. PICK g \in Group, S \in SUBSET Member :
           g = job[w].g /\ S = IF pc[w] = "put" THEN {job[w].cur} ELSE job[w].todo
    BY Held
  <1>1. /\ \/ /\ pc[w] = "insert" /\ pc'[w] = "commit" /\ job'[w].g = g
              /\ job[w].op = "add"
           \/ pc[w] = "put" /\ pc'[w] = "loop" /\ job[w].op = "addMembers"
        /\ \A v \in Worker \ {w} : Same(v) \/ Mistaken(v)
    <2>1. /\ pc[w] = "put" => job[w].op = "addMembers"
          /\ pc[w] = "insert" => job[w].op = "add"
      BY DEF JobInv, JobFits
    <2> QED BY <1>0, <2>1, PlainMoves, InsertMoves DEF Others
  <1>2. /\ rows' = [r \in DOMAIN rows |-> rows[r] + (IF r \in {g} \X S THEN 1 ELSE 0)]
        /\ late' = IF job[w].op # "add"
                      /\ (~Exists(g) \/ \E v \in Worker : pc[v] = "group" /\ job[v].g = g)
                   THEN late \cup {g} \X S ELSE late
        /\ UNCHANGED <<name, leaked, created>>
    BY <1>0, <1>1 DEF AddGroupMembersOfNew, AddGroupMember, InsertRows
  <1>3. \A h \in Group, m \in Member : rows'[<<h, m>>] =
           IF h = g /\ m \in S THEN rows[<<h, m>>] + 1 ELSE rows[<<h, m>>]
    BY <1>2, InsertEffect, ZenonT(60)
  <1>4. /\ \A h \in Group, m \in Member : rows'[<<h, m>>] > 0 =>
              rows[<<h, m>>] > 0 \/ (h = g /\ <<h, m>> \in {g} \X S)
        /\ late \subseteq late'
    BY <1>2, <1>3
  <1>5. LateInv'
    <2> SUFFICES ASSUME NEW v \in Worker, NEW m \in Member, pc'[v] = "group",
                        rows'[<<job'[v].g, m>>] > 0
                 PROVE  <<job'[v].g, m>> \in late'
      BY DEF LateInv
    <2>1. pc[v] = "group" /\ job'[v].g = job[v].g /\ v # w
      BY <1>1 DEF Same, Mistaken, Marked
    <2>2. job[v].g \in Group /\ job[v].g \in created
      BY <2>1, Held
    <2>3. CASE rows[<<job[v].g, m>>] > 0
      BY <1>4, <2>1, <2>3 DEF LateInv
    <2>4. CASE job[v].g = g /\ <<job[v].g, m>> \in {g} \X S
      <3>1. job[w].op # "add"
        BY <1>0, <2>2, <2>4 DEF JobInv
      <3> QED BY <1>2, <2>1, <2>4, <3>1
    <2> QED BY <1>4, <2>1, <2>2, <2>3, <2>4
  <1>6. ASSUME NEW h \in Group, NEW m \in Member, name'[h] = None, rows'[<<h, m>>] > 0
        PROVE  \/ \E v \in Worker : pc'[v] = "commit" /\ job'[v].g = h
               \/ h \in leaked' \ created'
               \/ <<h, m>> \in late'
    <2>1. ~Exists(h)
      BY <1>2, <1>6 DEF Exists
    <2>2. CASE rows[<<h, m>>] > 0
      BY <1>1, <1>2, <1>4, <2>1, <2>2 DEF OrphanRowsExplained, Same, Mistaken, Marked
    <2>3. CASE h = g /\ <<h, m>> \in {g} \X S
      BY <1>1, <1>2, <2>1, <2>3
    <2> QED BY <1>4, <1>6, <2>2, <2>3
  <1> QED BY <1>5, <1>6 DEF OrphanRowsExplained, Exists

\* Every step keeps the rows of missing groups explained.
LEMMA NextOrphans ==
    ASSUME TypeOK, TypeOK', JobInv, LateInv, OrphanRowsExplained, [Next]_vars
    PROVE  LateInv' /\ OrphanRowsExplained'
  <1> DEFINE Goal == LateInv' /\ OrphanRowsExplained'
             Still == UNCHANGED <<name, rows, created, late, leaked>>
  <1>1. ASSUME Still, \A v \in Worker : LateCalm(v) PROVE Goal
    BY <1>1, LateQuiet DEF Exists
  <1>2. ASSUME NEW w \in Worker, Others(w), LateCalm(w), Still PROVE Goal
    BY <1>1, <1>2, LateCalmMoves DEF Others
  <1>3. ASSUME NEW pairs, DeleteRows(pairs), UNCHANGED <<name, created, leaked>>,
               \A v \in Worker : LateCalm(v)
        PROVE  Goal
    <2>1. late' = late \ pairs
      BY <1>3 DEF DeleteRows
    <2>2. \A h \in Group, m \in Member : rows'[<<h, m>>] =
             IF <<h, m>> \in pairs THEN 0 ELSE rows[<<h, m>>]
      BY <1>3, DeleteEffect
    <2>3. \A h \in Group, m \in Member :
              \/ rows'[<<h, m>>] = 0
              \/ /\ rows'[<<h, m>>] = rows[<<h, m>>]
                 /\ <<h, m>> \in late => <<h, m>> \in late'
      BY <2>1, <2>2
    <2> QED BY <1>3, <2>3, LateQuiet DEF Exists
  <1>4. ASSUME NEW w \in Worker,
               \/ \E n \in Name, from \in SUBSET (1..ids) : AddGroup(w, n, from)
               \/ \E g \in Group : DeleteGroup(w, g)
               \/ \E g \in Group, n \in Name \cup {None} : ModifyGroup(w, g, n)
               \/ \E kind \in {"addMembers", "deleteMembers"}, g \in Group,
                     S \in (SUBSET Member) \ {{}} : ChangeMembers(w, kind, g, S)
        PROVE  Goal
    <2>1. Still
      BY <1>4 DEF AddGroup, DeleteGroup, ModifyGroup, ChangeMembers, Begin, tables, marks
    <2>2. /\ Others(w) /\ pc[w] = "idle"
          /\ pc'[w] \in {"exist", "rows", "name", "check", "loop"}
      BY <1>4, BeginMoves DEF Begun
    <2> QED BY <1>2, <2>1, <2>2 DEF LateCalm
  <1>5. ASSUME NEW w \in Worker, CheckInitial(w) \/ Answer(w) PROVE Goal
    <2>1. Still
      BY <1>5 DEF CheckInitial, Answer, tables, marks
    <2>2. Others(w) /\ pc[w] # "commit"
      BY <1>5, PlainMoves DEF Answer
    <2>3. LateCalm(w)
      BY <1>5, <2>2, PlainMoves, LateCalmMoves DEF LateCalm
    <2> QED BY <1>2, <2>1, <2>2, <2>3
  <1>6. ASSUME NEW w \in Worker,
               \/ getGroupMembers(w) \/ CheckName(w) \/ checkUserAndDepartmentExist(w)
               \/ CheckGroupMembersExist(w)
        PROVE  Goal
    <2>1. Still
      BY <1>6 DEF getGroupMembers, CheckName, checkUserAndDepartmentExist,
                  CheckGroupMembersExist, tables, marks
    <2>2. Others(w) /\ LateCalm(w)
      BY <1>6, CopyMoves, CheckNameMoves, CheckMembersMoves, FindRowMoves,
         LateCalmMoves
      DEF LateCalm
    <2> QED BY <1>2, <2>1, <2>2
  <1>7. ASSUME NEW w \in Worker, DeleteGroupMemberByID(w) PROVE Goal
    <2>1. /\ pc[w] = "rows" /\ pc'[w] = "group" /\ job'[w] = job[w] /\ Others(w)
      BY <1>7, PlainMoves
    <2>2. PICK g \in Group : g = job[w].g
      BY Held
    <2>3. DeleteRows({g} \X Member) /\ UNCHANGED <<name, created, leaked>>
      BY <1>7, <2>2 DEF DeleteGroupMemberByID
    <2>4. \A m \in Member : rows'[<<g, m>>] = 0
      BY <2>3, DeleteEffect
    <2>5. LateCalm(w)
      BY <2>1, <2>2, <2>4 DEF LateCalm
    <2> QED BY <1>3, <2>1, <2>3, <2>5, LateCalmMoves DEF Others
  <1>8. ASSUME NEW w \in Worker, DeleteGroupMember(w) PROVE Goal
    <2>1. PICK pairs : DeleteRows(pairs) /\ UNCHANGED <<name, created, leaked>>
      BY <1>8 DEF DeleteGroupMember
    <2>2. LateCalm(w) /\ Others(w)
      BY <1>8, PlainMoves DEF LateCalm
    <2> QED BY <1>3, <2>1, <2>2, LateCalmMoves DEF Others
  <1>9. ASSUME NEW w \in Worker, CommitGroup(w) PROVE Goal
    <2>1. /\ name' = [name EXCEPT ![job[w].g] = job[w].n]
          /\ created' = created \cup {job[w].g} /\ UNCHANGED <<rows, late, leaked>>
      BY <1>9 DEF CommitGroup
    <2>2. job[w].g \in Group /\ job[w].n # None
      <3>1. pc[w] = "commit"
        BY <1>9 DEF CommitGroup
      <3> QED BY <3>1, Held DEF JobInv, JobFits
    <2>3. /\ name'[job[w].g] # None
          /\ \A h \in Group : Exists(h) => name'[h] # None
      BY <2>1, <2>2 DEF TypeOK, Exists
    <2>4. \A v \in Worker : LateCalm(v)
      <3>1. \A v \in Worker \ {w} : Same(v) \/ Mistaken(v)
        BY <1>9, CommitMoves
      <3>2. LateCalm(w)
        BY <1>9, <2>3, CommitMoves DEF LateCalm, Ended
      <3> QED BY <3>1, <3>2, LateCalmMoves
    <2> QED BY <2>1, <2>3, <2>4, LateQuiet
  <1>10. ASSUME NEW w \in Worker, UpdateGroup(w) PROVE Goal
    <2>1. UNCHANGED <<rows, created, late, leaked>>
      BY <1>10 DEF UpdateGroup
    <2>2. \A h \in Group : Exists(h) => name'[h] # None
      BY <1>10, UpdateMoves DEF TypeOK, Exists
    <2>3. LateCalm(w) /\ \A v \in Worker : v = w \/ Same(v) \/ Mistaken(v)
      BY <1>10, UpdateMoves DEF Others, LateCalm
    <2> QED BY <2>1, <2>2, <2>3, LateQuiet, LateCalmMoves
  <1>11. ASSUME Crash \/ \E w \in Worker : CallFails(w) PROVE Goal
    <2>1. PICK W \in SUBSET Worker : Abandon(W)
      BY <1>11 DEF Crash, CallFails
    <2>2. UNCHANGED <<name, rows, created, late>>
      BY <1>11 DEF Crash, CallFails, tables
    <2>3. leaked' = leaked \cup {job[w].g : w \in {v \in W : pc[v] = "commit"}}
      BY <2>1 DEF Abandon
    <2>4. ASSUME NEW v \in Worker PROVE LateCalm(v)
      <3>1. CASE v \notin W
        BY <2>1, <3>1, LateCalmMoves DEF Abandon, Same
      <3>2. CASE v \in W
        <4>1. pc'[v] = "idle"
          BY <2>1, <3>2 DEF Abandon
        <4>2. pc[v] = "commit" => job[v].g \notin created
          BY Held
        <4> QED BY <2>2, <2>3, <3>2, <4>1, <4>2 DEF LateCalm
      <3> QED BY <3>1, <3>2
    <2> QED BY <2>2, <2>3, <2>4, LateQuiet DEF Exists
  <1>12. ASSUME NEW m \in Member, UNCHANGED <<pc, name, created, leaked>>,
                job' = [w \in Worker |->
                   IF m \in job[w].todo \cup {job[w].cur}
                   THEN [job[w] EXCEPT !.old = @ \cup {m}] ELSE job[w]],
                UNCHANGED <<rows, late>> \/ DeleteRows(Group \X {m})
         PROVE  Goal
    <2>1. \A v \in Worker : Aged(v, m) \/ Same(v)
      BY <1>12, RemoveMoves
    <2>2. \A v \in Worker : LateCalm(v)
      BY <2>1, LateCalmMoves
    <2> QED BY <1>1, <1>3, <1>12, <2>2
  <1>13. ASSUME UNCHANGED <<pc, job>>, Still PROVE Goal
    BY <1>13 DEF LateInv, OrphanRowsExplained, Exists
  <1>14. ASSUME NEW t \in tail, Publish(t) \/ WriteLog(t) \/ TailFails(t) PROVE Goal
    BY <1>13, <1>14 DEF Publish, WriteLog, TailFails, tables, marks
  <1>15. ASSUME NEW u \in User, RemoveUserRows(u) \/ RemoveUser(u) PROVE Goal
    BY <1>12, <1>15 DEF RemoveUserRows, RemoveUser, RemoveMember, tables
  <1>16. ASSUME NEW d \in Department,
                DepartmentDeleted(d) \/ DeleteGroupMemberByMemberID(d)
         PROVE  Goal
    BY <1>12, <1>13, <1>16
    DEF DepartmentDeleted, DeleteGroupMemberByMemberID, RemoveMember, tables, marks
  <1>17. CASE UNCHANGED vars
    BY <1>13, <1>17 DEF vars
  <1> HIDE DEF Goal, Still
  <1>18. Goal
    BY <1>4, <1>5, <1>6, <1>7, <1>8, <1>9, <1>10, <1>11, <1>14, <1>15, <1>16,
       <1>17, LateDelete, LateInsert
    DEF Next, Goal
  <1> QED BY <1>18 DEF Goal

\* A group that is not there has member rows only while it is created, when
\* its creation failed, or through requests that overlapped its deletion.
THEOREM OrphansExplained == Spec => []OrphanRowsExplained
  <1> DEFINE IInv == TypeOK /\ JobInv /\ LateInv /\ OrphanRowsExplained
  <1>1. Init => IInv
    <2>1. Init => LateInv /\ OrphanRowsExplained
      BY DEF Init, LateInv, OrphanRowsExplained
    <2> QED BY <2>1, InitType
  <1>2. IInv /\ [Next]_vars => IInv'
    BY NextType, NextOrphans
  <1> QED BY <1>1, <1>2, PTL DEF Spec
-----------------------------------------------------------------------------
(* Member rows of users and departments that are gone.                     *)

Gone == Member \ (alive \cup pending)

\* A request that takes no member in hand without looking whether it is there.
OldCalm(v) ==
    \/ pc'[v] = "check" \/ job'[v].op = "deleteMembers"
    \/ job'[v].todo = {} /\ job'[v].cur = None
    \/ /\ pc[v] # "check" /\ job'[v].op = job[v].op /\ job[v].old \subseteq job'[v].old
       /\ \A m \in Member : m \in job'[v].todo \cup {job'[v].cur} =>
                               m \in job[v].todo \cup {job[v].cur}

\* Requests that are unchanged or marked, or end.
LEMMA OldCalmMoves ==
    ASSUME NEW v \in Worker,
           Same(v) \/ Ended(v) \/ Mistaken(v) \/ \E m \in Member : Aged(v, m)
    PROVE  OldCalm(v)
  <1>1. CASE Same(v) BY <1>1 DEF OldCalm, Same
  <1>2. CASE Ended(v) BY <1>2, NoJobFields DEF OldCalm, Ended
  <1>3. CASE Mistaken(v) BY <1>3 DEF OldCalm, Mistaken, Marked
  <1>4. CASE \E m \in Member : Aged(v, m) BY <1>4 DEF OldCalm, Aged, Marked
  <1> QED BY <1>1, <1>2, <1>3, <1>4

\* Nobody goes and no request takes a member in hand.
LEMMA OldHeld ==
    ASSUME OldInv, Gone' \subseteq Gone, \A v \in Worker : OldCalm(v)
    PROVE  OldInv'
  <1> SUFFICES ASSUME NEW v \in Worker, NEW m \in Gone', pc'[v] # "check",
                      job'[v].op # "deleteMembers",
                      m \in job'[v].todo \cup {job'[v].cur}
               PROVE  m \in job'[v].old
    BY DEF OldInv, Gone
  <1>1. m \in Gone /\ m \in Member /\ m # None
    BY DEF Gone
  <1>2. /\ pc[v] # "check" /\ job[v].op # "deleteMembers"
        /\ m \in job[v].todo \cup {job[v].cur} /\ job[v].old \subseteq job'[v].old
    BY <1>1 DEF OldCalm
  <1> QED BY <1>1, <1>2 DEF OldInv, Gone

\* Nobody goes and no row is inserted.
LEMMA OldQuiet ==
    ASSUME OldInv, DeletedMemberLeaves, Gone' \subseteq Gone,
           \A h \in Group, m \in Member :
              \/ rows'[<<h, m>>] = 0
              \/ /\ rows'[<<h, m>>] = rows[<<h, m>>]
                 /\ <<h, m>> \in outlived => <<h, m>> \in outlived',
           \A v \in Worker : OldCalm(v)
    PROVE  OldInv' /\ DeletedMemberLeaves'
  <1>1. DeletedMemberLeaves'
    <2> SUFFICES ASSUME NEW h \in Group, NEW m \in Gone', rows'[<<h, m>>] > 0
                 PROVE  <<h, m>> \in outlived'
      BY DEF DeletedMemberLeaves, Gone
    <2>1. m \in Gone /\ m \in Member
      BY DEF Gone
    <2> QED BY <2>1 DEF DeletedMemberLeaves, Gone
  <1> QED BY <1>1, OldHeld

\* The rows of a member are removed, or the member is: it may be gone now, and
\* requests that hold it are marked.
LEMMA OldRemove ==
    ASSUME TypeOK, OldInv, DeletedMemberLeaves, NEW k \in Member,
           Gone' \subseteq Gone \cup {k}, UNCHANGED pc,
           job' = [w \in Worker |->
              IF k \in job[w].todo \cup {job[w].cur}
              THEN [job[w] EXCEPT !.old = @ \cup {k}] ELSE job[w]],
           \/ DeleteRows(Group \X {k})
           \/ rows' = rows /\ outlived' = outlived \cup Present(rows, Group \X {k})
    PROVE  OldInv' /\ DeletedMemberLeaves'
  <1>1. \A v \in Worker : IF k \in job[v].todo \cup {job[v].cur}
                          THEN Aged(v, k) ELSE Same(v)
    BY RemoveMoves
  <1>2. OldInv'
    <2> SUFFICES ASSUME NEW v \in Worker, NEW m \in Gone', pc'[v] # "check",
                        job'[v].op # "deleteMembers",
                        m \in job'[v].todo \cup {job'[v].cur}
                 PROVE  m \in job'[v].old
      BY DEF OldInv, Gone
    <2>1. /\ pc[v] # "check" /\ job[v].op # "deleteMembers"
          /\ m \in job[v].todo \cup {job[v].cur}
          /\ job'[v].old = job[v].old \cup {k} \/ (job'[v].old = job[v].old /\ m # k)
      BY <1>1 DEF Aged, Same, Marked
    <2>2. m = k \/ m \in Gone
      OBVIOUS
    <2> QED BY <2>1, <2>2 DEF OldInv, Gone
  <1>3. DeletedMemberLeaves'
    <2> SUFFICES ASSUME NEW h \in Group, NEW m \in Gone', rows'[<<h, m>>] > 0
                 PROVE  <<h, m>> \in outlived'
      BY DEF DeletedMemberLeaves, Gone
    <2>0. m \in Member /\ (m = k \/ m \in Gone)
      BY DEF Gone
    <2>1. CASE DeleteRows(Group \X {k})
      <3>1. rows'[<<h, m>>] = IF <<h, m>> \in Group \X {k} THEN 0 ELSE rows[<<h, m>>]
        BY <2>0, <2>1, DeleteEffect
      <3>2. m # k /\ rows[<<h, m>>] > 0
        BY <3>1
      <3>3. <<h, m>> \in outlived
        BY <2>0, <3>2 DEF DeletedMemberLeaves, Gone
      <3> QED BY <2>1, <3>2, <3>3 DEF DeleteRows
    <2>2. CASE rows' = rows /\ outlived' = outlived \cup Present(rows, Group \X {k})
      BY <2>0, <2>2 DEF DeletedMemberLeaves, Gone, Present
    <2> QED BY <2>1, <2>2
  <1> QED BY <1>2, <1>3

\* Rows are inserted, of members that requests hold.
LEMMA OldInsert ==
    ASSUME TypeOK, JobInv, OldInv, DeletedMemberLeaves,
           NEW w \in Worker, AddGroupMembersOfNew(w) \/ AddGroupMember(w)
    PROVE  OldInv' /\ DeletedMemberLeaves'
  <1>0. PICK g \in Group, S \in SUBSET Member :
           g = job[w].g /\ S = IF pc[w] = "put" THEN {job[w].cur} ELSE job[w].todo
    BY Held
  <1>1. /\ pc[w] \in {"insert", "put"} /\ job[w].op # "deleteMembers" /\ OldCalm(w)
        /\ \A v \in Worker \ {w} : Same(v) \/ Mistaken(v)
    <2>1. pc[w] \in {"insert", "put"} => job[w].op # "deleteMembers"
      BY DEF JobInv, JobFits
    <2>2. /\ pc[w] \in {"insert", "put"} /\ job'[w].op = job[w].op
          /\ job'[w].todo = job[w].todo /\ job'[w].cur \in {job[w].cur, None}
          /\ job'[w].old = job[w].old
      BY PlainMoves, InsertMoves DEF Kept
    <2>3. OldCalm(w)
      BY <2>2 DEF OldCalm
    <2> QED BY <2>1, <2>2, <2>3, PlainMoves, InsertMoves DEF Others
  <1>2. /\ rows' = [r \in DOMAIN rows |-> rows[r] + (IF r \in {g} \X S THEN 1 ELSE 0)]
        /\ outlived' = outlived \cup {r \in {g} \X S : r[2] \in job[w].old}
        /\ UNCHANGED <<alive, pending>>
    BY <1>0, <1>1 DEF AddGroupMembersOfNew, AddGroupMember, InsertRows, org
  <1>3. \A h \in Group, m \in Member : rows'[<<h, m>>] =
           IF h = g /\ m \in S THEN rows[<<h, m>>] + 1 ELSE rows[<<h, m>>]
    BY <1>2, InsertEffect, ZenonT(60)
  <1>4. Gone' = Gone
    BY <1>2 DEF Gone
  <1>5. OldInv'
    BY <1>1, <1>4, OldHeld, OldCalmMoves
  <1>6. \A m \in S : m \in Gone => m \in job[w].old
    BY <1>0, <1>1 DEF OldInv, Gone
  <1>7. ASSUME NEW h \in Group, NEW m \in Gone, rows'[<<h, m>>] > 0
        PROVE  <<h, m>> \in outlived'
    <2>1. m \in Member
      BY DEF Gone
    <2>2. CASE h = g /\ m \in S
      BY <1>2, <1>6, <2>2
    <2>3. CASE ~(h = g /\ m \in S)
      BY <1>2, <1>3, <1>7, <2>1, <2>3 DEF DeletedMemberLeaves, Gone
    <2> QED BY <2>2, <2>3
  <1> QED BY <1>4, <1>5, <1>7 DEF DeletedMemberLeaves, Gone

\* Every step keeps members that are gone out of the groups.
LEMMA NextLeavers ==
    ASSUME TypeOK, JobInv, OldInv, DeletedMemberLeaves, [Next]_vars
    PROVE  OldInv' /\ DeletedMemberLeaves'
  <1> DEFINE Goal == OldInv' /\ DeletedMemberLeaves'
             Still == UNCHANGED <<rows, alive, pending, outlived>>
  <1>1. ASSUME Still, \A v \in Worker : OldCalm(v) PROVE Goal
    BY <1>1, OldQuiet DEF Gone
  <1>2. ASSUME NEW w \in Worker, Others(w), OldCalm(w), Still PROVE Goal
    BY <1>1, <1>2, OldCalmMoves DEF Others
  <1>3. ASSUME NEW w \in Worker, NEW pairs, DeleteRows(pairs),
               UNCHANGED <<alive, pending>>, Others(w), OldCalm(w)
        PROVE  Goal
    <2>1. outlived' = outlived \ pairs
      BY <1>3 DEF DeleteRows
    <2>2. \A h \in Group, m \in Member : rows'[<<h, m>>] =
             IF <<h, m>> \in pairs THEN 0 ELSE rows[<<h, m>>]
      BY <1>3, DeleteEffect
    <2>3. \A h \in Group, m \in Member :
              \/ rows'[<<h, m>>] = 0
              \/ /\ rows'[<<h, m>>] = rows[<<h, m>>]
                 /\ <<h, m>> \in outlived => <<h, m>> \in outlived'
      BY <2>1, <2>2
    <2>4. \A v \in Worker : OldCalm(v)
      BY <1>3, OldCalmMoves DEF Others
    <2> QED BY <1>3, <2>3, <2>4, OldQuiet DEF Gone
  <1>4. ASSUME NEW w \in Worker,
               \/ \E n \in Name, from \in SUBSET (1..ids) : AddGroup(w, n, from)
               \/ \E g \in Group : DeleteGroup(w, g)
               \/ \E g \in Group, n \in Name \cup {None} : ModifyGroup(w, g, n)
        PROVE  Goal
    <2>1. Still
      BY <1>4 DEF AddGroup, DeleteGroup, ModifyGroup, Begin, tables, org, marks
    <2>2. /\ Others(w) /\ job'[w].todo = {} /\ job'[w].cur = None
      BY <1>4, BeginMoves DEF Begun
    <2> QED BY <1>2, <2>1, <2>2 DEF OldCalm
  <1>5. ASSUME NEW w \in Worker, NEW kind \in {"addMembers", "deleteMembers"},
               NEW g \in Group, NEW S \in (SUBSET Member) \ {{}},
               ChangeMembers(w, kind, g, S)
        PROVE  Goal
    <2>1. Still
      BY <1>5 DEF ChangeMembers, Begin, tables, org, marks
    <2>2. Others(w) /\ (pc'[w] = "check" \/ job'[w].op = "deleteMembers")
      BY <1>5, BeginMoves DEF Begun
    <2> QED BY <1>2, <2>1, <2>2 DEF OldCalm
  <1>6. ASSUME NEW w \in Worker,
               CheckInitial(w) \/ DeleteGroupRow(w) \/ Answer(w) \/ CallFails(w)
        PROVE  Goal
    <2>1. Still
      BY <1>6 DEF CheckInitial, DeleteGroupRow, Answer, CallFails, tables, org, marks
    <2>2. Others(w) /\ OldCalm(w)
      BY <1>6, PlainMoves, OldCalmMoves DEF OldCalm
    <2> QED BY <1>2, <2>1, <2>2
  <1>7. ASSUME NEW w \in Worker, CheckName(w) \/ CheckGroupMembersExist(w) PROVE Goal
    <2>1. Still
      BY <1>7 DEF CheckName, CheckGroupMembersExist, tables, org, marks
    <2>2. CASE CheckName(w)
      BY <1>2, <2>1, <2>2, CheckNameMoves, OldCalmMoves DEF OldCalm, Kept
    <2>3. CASE CheckGroupMembersExist(w)
      <3>1. /\ pc[w] = "loop" /\ job'[w].op = job[w].op /\ Others(w)
            /\ job'[w].old = job[w].old
        BY <2>3, FindRowMoves DEF Kept
      <3>2. PICK m \in job[w].todo : /\ job'[w].todo = job[w].todo \ {m}
                                     /\ job'[w].cur \in {job[w].cur, m}
        BY <2>3, FindRowMoves
      <3>3. OldCalm(w)
        BY <3>1, <3>2 DEF OldCalm
      <3> QED BY <1>2, <2>1, <3>1, <3>3
    <2> QED BY <1>7, <2>2, <2>3, ZenonT(40)
  <1>8. ASSUME NEW w \in Worker, getGroupMembers(w) PROVE Goal
    <2>1. Still
      BY <1>8 DEF getGroupMembers, tables, org, marks
    <2>2. /\ pc[w] = "copy" /\ Others(w) /\ job'[w].cur = job[w].cur
          /\ job'[w].todo \subseteq {m \in Member : \E g \in job[w].from : rows[<<g, m>>] > 0}
          /\ job'[w].old = {m \in Member : \E g \in job[w].from :
                                              <<g, m>> \in outlived}
      BY <1>8, CopyMoves
    <2>3. job[w].cur = None /\ job[w].from \subseteq Group
      BY <2>2, Held
    <2>4. \A m \in Gone : m \in job'[w].todo \cup {job'[w].cur} => m \in job'[w].old
      BY <2>2, <2>3 DEF Gone, DeletedMemberLeaves
    <2>5. DeletedMemberLeaves' /\ Gone' = Gone
      BY <2>1 DEF DeletedMemberLeaves, Gone
    <2>6. OldInv'
      <3> SUFFICES ASSUME NEW v \in Worker, NEW m \in Gone, pc'[v] # "check",
                          job'[v].op # "deleteMembers",
                          m \in job'[v].todo \cup {job'[v].cur}
                   PROVE  m \in job'[v].old
        BY <2>5 DEF OldInv, Gone
      <3>1. CASE v = w
        BY <2>4, <3>1
      <3>2. CASE v # w
        BY <2>2, <3>2 DEF Others, Same, OldInv, Gone
      <3> QED BY <3>1, <3>2
    <2> QED BY <2>5, <2>6
  <1>9. ASSUME NEW w \in Worker, checkUserAndDepartmentExist(w) PROVE Goal
    <2>1. Still
      BY <1>9 DEF checkUserAndDepartmentExist, tables, org, marks
    <2>2. CASE Ended(w)
      BY <1>2, <1>9, <2>1, <2>2, CheckMembersMoves, OldCalmMoves
    <2>3. CASE /\ pc'[w] = "loop" /\ job[w].todo \subseteq alive
               /\ job'[w].todo = job[w].todo /\ job'[w].cur = job[w].cur
      <3>1. job[w].cur = None /\ Others(w)
        BY <1>9, Held, CheckMembersMoves
      <3>2. \A m \in Gone : m \notin job'[w].todo \cup {job'[w].cur}
        BY <2>3, <3>1 DEF Gone
      <3>3. DeletedMemberLeaves' /\ Gone' = Gone
        BY <2>1 DEF DeletedMemberLeaves, Gone
      <3>4. OldInv'
        <4> SUFFICES ASSUME NEW v \in Worker, NEW m \in Gone, pc'[v] # "check",
                            job'[v].op # "deleteMembers",
                            m \in job'[v].todo \cup {job'[v].cur}
                     PROVE  m \in job'[v].old
          BY <3>3 DEF OldInv, Gone
        <4> QED BY <3>1, <3>2 DEF Others, Same, OldInv, Gone
      <3> QED BY <3>3, <3>4
    <2> QED BY <1>9, <2>2, <2>3, CheckMembersMoves
  <1>10. ASSUME NEW w \in Worker, DeleteGroupMemberByID(w) \/ DeleteGroupMember(w)
         PROVE  Goal
    <2>1. PICK pairs : DeleteRows(pairs) /\ UNCHANGED <<alive, pending>>
      BY <1>10 DEF DeleteGroupMemberByID, DeleteGroupMember, org
    <2>2. Others(w) /\ OldCalm(w)
      BY <1>10, PlainMoves DEF OldCalm, Kept
    <2> QED BY <1>3, <2>1, <2>2
  <1>11. ASSUME NEW w \in Worker, CommitGroup(w) \/ UpdateGroup(w) PROVE Goal
    <2>1. Still
      BY <1>11 DEF CommitGroup, UpdateGroup, org
    <2>2. CASE CommitGroup(w)
      BY <1>1, <2>1, <2>2, CommitMoves, OldCalmMoves
    <2>3. CASE UpdateGroup(w)
      <3>1. /\ pc[w] = "update" /\ job'[w] = job[w]
            /\ \A v \in Worker : v = w \/ Same(v) \/ Mistaken(v)
        BY <2>3, UpdateMoves DEF Others
      <3>2. OldCalm(w)
        BY <3>1 DEF OldCalm
      <3> QED BY <1>1, <2>1, <3>1, <3>2, OldCalmMoves
    <2> QED BY <1>11, <2>2, <2>3
  <1>12. CASE Crash
    <2>1. Still /\ \A v \in Worker : Ended(v)
      BY <1>12 DEF Crash, tables, org, Abandon, Ended
    <2> QED BY <1>1, <2>1, OldCalmMoves
  <1>13. ASSUME UNCHANGED <<pc, job>>, Gone' = Gone, UNCHANGED <<rows, outlived>>
         PROVE  Goal
    BY <1>13 DEF OldInv, DeletedMemberLeaves, Gone
  <1>14. ASSUME NEW t \in tail, Publish(t) \/ WriteLog(t) \/ TailFails(t) PROVE Goal
    BY <1>13, <1>14 DEF Publish, WriteLog, TailFails, tables, org, marks, Gone
  <1>15. ASSUME NEW u \in User, RemoveUserRows(u) PROVE Goal
    <2>1. Gone' \subseteq Gone \cup {u}
      BY <1>15 DEF RemoveUserRows, Gone
    <2> QED BY <1>15, <2>1, OldRemove DEF RemoveUserRows, RemoveMember
  <1>16. ASSUME NEW u \in User, RemoveUser(u) PROVE Goal
    <2>1. Gone' \subseteq Gone \cup {u}
      BY <1>16 DEF RemoveUser, Gone
    <2> QED BY <1>16, <2>1, OldRemove DEF RemoveUser, tables
  <1>17. ASSUME NEW d \in Department, DepartmentDeleted(d) PROVE Goal
    <2>1. Gone' = Gone
      BY <1>17 DEF DepartmentDeleted, Gone
    <2> QED BY <1>13, <1>17, <2>1 DEF DepartmentDeleted, tables, marks
  <1>18. ASSUME NEW d \in Department, DeleteGroupMemberByMemberID(d) PROVE Goal
    <2>1. Gone' \subseteq Gone \cup {d}
      BY <1>18 DEF DeleteGroupMemberByMemberID, Gone
    <2> QED BY <1>18, <2>1, OldRemove DEF DeleteGroupMemberByMemberID, RemoveMember
  <1>19. CASE UNCHANGED vars
    BY <1>13, <1>19 DEF vars, Gone
  <1> HIDE DEF Goal, Still
  <1>20. Goal
    BY <1>4, <1>5, <1>6, <1>7, <1>8, <1>9, <1>10, <1>11, <1>12, <1>14, <1>15, <1>16,
       <1>17, <1>18, <1>19, OldInsert
    DEF Next, Goal
  <1> QED BY <1>20 DEF Goal

\* A user or department that is gone is in no group, but through a request
\* that knew it from before.
THEOREM DeletedMembersLeave == Spec => []DeletedMemberLeaves
  <1> DEFINE IInv == TypeOK /\ JobInv /\ OldInv /\ DeletedMemberLeaves
  <1>1. Init => IInv
    <2>1. Init => OldInv /\ DeletedMemberLeaves
      BY DEF Init, OldInv, DeletedMemberLeaves
    <2> QED BY <2>1, InitType
  <1>2. IInv /\ [Next]_vars => IInv'
    BY NextType, NextLeavers
  <1> QED BY <1>1, <1>2, PTL DEF Spec
-----------------------------------------------------------------------------
(* Messages and audit records.                                             *)

\* What a request with job j starts when it is done.
Starts(j) ==
    {<<"log", j.op, j.g, None>>} \cup
    CASE j.op = "delete" -> {<<"publish", "delete", j.g, None>>}
      [] j.op = "modify" /\ j.n # None -> {<<"publish", "modify", j.g, j.n>>}
      [] OTHER -> {}

\* Those goroutines, one by one.
LEMMA StartsCases ==
    \A j, t : t \in Starts(j) <=>
        \/ t = <<"log", j.op, j.g, None>>
        \/ j.op = "delete" /\ t = <<"publish", "delete", j.g, None>>
        \/ /\ j.op = "modify" /\ j.n # None
           /\ t = <<"publish", "modify", j.g, j.n>>
  BY DEF Starts

\* What will come, before and after a step.
LEMMA ComingCases ==
    /\ \A t : t \in Coming <=>
          t \in tail \/ \E w \in Worker : pc[w] = "after" /\ t \in Starts(job[w])
    /\ \A t : t \in Coming' <=>
          t \in tail' \/ \E w \in Worker : pc'[w] = "after" /\ t \in Starts(job'[w])
    /\ \A k : k \in Underway <=> \E t \in Coming : Topic(t) = k
    /\ \A k : k \in Underway' <=> \E t \in Coming' : Topic(t) = k
  <1>1. \A w \in Worker : Goroutines(w) = Starts(job[w])
    BY DEF Goroutines, Starts
  <1>2. \A w \in Worker : Goroutines(w)' = Starts(job'[w])
    BY DEF Goroutines, Starts
  <1>3. \A t : t \in Coming <=>
          t \in tail \/ \E w \in Worker : pc[w] = "after" /\ t \in Starts(job[w])
    BY <1>1 DEF Coming
  <1>4. \A t : t \in Coming' <=>
          t \in tail' \/ \E w \in Worker : pc'[w] = "after" /\ t \in Starts(job'[w])
    BY <1>2 DEF Coming
  <1>5. Underway = {Topic(t) : t \in Coming}
    BY DEF Underway, Coming
  <1>6. Underway' = {Topic(t) : t \in Coming'}
    BY DEF Underway, Coming, Topic
  <1> QED BY <1>3, <1>4, <1>5, <1>6

\* What comes is about groups that were created.
LEMMA ComingTypes ==
    ASSUME TypeOK, JobInv, NEW t \in Coming
    PROVE  t[3] \in created /\ t[3] \in Group
  <1>1. created \subseteq Group
    <2>1. created \subseteq 1..ids /\ ids \in 0..MaxGroups
      BY DEF TypeOK
    <2> QED BY <2>1
  <1>2. CASE t \in tail
    BY <1>1, <1>2 DEF TypeOK
  <1>3. CASE \E w \in Worker : pc[w] = "after" /\ t \in Starts(job[w])
    <2>1. PICK w \in Worker : pc[w] = "after" /\ t \in Starts(job[w])
      BY <1>3
    <2>2. t[3] = job[w].g
      BY <2>1, StartsCases
    <2> QED BY <1>1, <2>1, <2>2, Held
  <1> QED BY <1>2, <1>3, ComingCases

\* A request that does not come to the end of a deletion or a renaming.
AfterCalm(v) == pc'[v] = "after" => pc[v] = "after" /\ Kept(v)

\* ... and that does not start its goroutines.
Lasting(v) == AfterCalm(v) /\ (pc[v] = "after" => pc'[v] = "after")

\* Requests that are unchanged or marked, or end without an answer.
LEMMA AfterCalmMoves ==
    ASSUME NEW v \in Worker
    PROVE  /\ Same(v) \/ Mistaken(v) \/ (\E m \in Member : Aged(v, m)) => Lasting(v)
           /\ Ended(v) => AfterCalm(v)
           /\ Ended(v) /\ pc[v] # "after" => Lasting(v)
  BY DEF Lasting, AfterCalm, Same, Ended, Mistaken, Aged, Marked, Kept

\* What a request starts depends on what it keeps.
LEMMA KeptStarts ==
    ASSUME NEW v \in Worker, Kept(v) PROVE Starts(job'[v]) = Starts(job[v])
  BY DEF Starts, Kept

\* When requests stay as they are, so does what they will start.
LEMMA ComingLasts ==
    ASSUME NEW W \in SUBSET Worker, \A v \in W : Lasting(v)
    PROVE  \A t : (\E w \in W : pc[w] = "after" /\ t \in Starts(job[w])) <=>
                  (\E w \in W : pc'[w] = "after" /\ t \in Starts(job'[w]))
  BY KeptStarts DEF Lasting, AfterCalm

\* A step that is not about messages: at most a record is added to what comes.
LEMMA MessageQuiet ==
    ASSUME MessageInv, DeletionAnnounced, NameTold,
           UNCHANGED <<name, created, announced, told, audit, unheard>>,
           \A v \in Worker : AfterCalm(v), Coming \subseteq Coming',
           \A t \in Coming' \ Coming : t[1] = "log"
    PROVE  MessageInv' /\ DeletionAnnounced' /\ NameTold'
  <1>1. MessageInv'
    <2>1. \A w \in Worker : pc'[w] = "after" /\ job'[w].op = "delete" =>
             name'[job'[w].g] = None
      BY DEF MessageInv, AfterCalm, Kept, Exists
    <2>2. \A t \in Coming' : t[1] = "publish" => t \in Coming
      OBVIOUS
    <2> QED BY <2>1, <2>2 DEF MessageInv, Exists
  <1>2. Underway \subseteq Underway'
    BY ComingCases
  <1>3. DeletionAnnounced'
    BY <1>2 DEF DeletionAnnounced, Exists
  <1>4. NameTold'
    BY <1>2 DEF NameTold, Exists
  <1> QED BY <1>1, <1>3, <1>4

\* A new group gets its name: nothing that comes is about it.
LEMMA MessageCommit ==
    ASSUME TypeOK, JobInv, MessageInv, DeletionAnnounced, NameTold,
           NEW w \in Worker, CommitGroup(w)
    PROVE  MessageInv' /\ DeletionAnnounced' /\ NameTold'
  <1>1. PICK g \in Group, n \in Name : g = job[w].g /\ n = job[w].n /\ g \notin created
    <2>1. pc[w] = "commit" /\ job[w] \in Job
      BY DEF CommitGroup, TypeOK
    <2>2. job[w].n # None
      BY <2>1 DEF JobInv, JobFits
    <2>3. job[w].n \in Name
      BY <2>1, <2>2 DEF Job
    <2> QED BY <2>1, <2>3, Held
  <1>2. /\ name' = [name EXCEPT ![g] = n] /\ told' = [told EXCEPT ![g] = n]
        /\ audit' = audit \cup {<<"add", g>>} /\ created' = created \cup {g}
        /\ UNCHANGED <<tail, announced, unheard>>
    BY <1>1 DEF CommitGroup
  <1>3. /\ name'[g] = n /\ told'[g] = n /\ n # None
        /\ \A h \in Group \ {g} : name'[h] = name[h] /\ told'[h] = told[h]
    BY <1>2 DEF TypeOK
  <1>4. \A v \in Worker : Lasting(v)
    BY CommitMoves, AfterCalmMoves
  <1>5. Coming' = Coming
    <2>1. \A t : (\E v \in Worker : pc[v] = "after" /\ t \in Starts(job[v])) <=>
                 (\E v \in Worker : pc'[v] = "after" /\ t \in Starts(job'[v]))
      BY <1>4, ComingLasts
    <2>2. \A t : t \in Coming' <=> t \in Coming
      BY <1>2, <2>1, ComingCases
    <2> QED BY <2>2
  <1>6. Underway' = Underway
    BY <1>5, ComingCases
  <1>7. \A t \in Coming : t[3] \in Group \ {g}
    BY <1>1, ComingTypes
  <1>8. \A v \in Worker : pc'[v] = "after" =>
           /\ pc[v] = "after" /\ job'[v].op = job[v].op /\ job'[v].g = job[v].g
           /\ job[v].g \in Group \ {g}
    BY <1>1, <1>4, Held DEF Lasting, AfterCalm, Kept
  <1>9. MessageInv'
    <2>1. \A v \in Worker : pc'[v] = "after" /\ job'[v].op = "delete" =>
             name'[job'[v].g] = None
      BY <1>3, <1>8 DEF MessageInv, Exists
    <2>2. \A t \in Coming' : t[1] = "publish" =>
          /\ t[2] \in {"delete", "modify"}
          /\ t[2] = "delete" => ~(name'[t[3]] # None)
          /\ t[2] = "modify" /\ name'[t[3]] # None /\ Topic(t) \notin unheard'
                => t[4] = name'[t[3]]
      BY <1>2, <1>3, <1>5, <1>7 DEF MessageInv, Exists
    <2> QED BY <2>1, <2>2 DEF MessageInv, Exists, Topic
  <1>10. DeletionAnnounced'
    <2>1. created \subseteq Group /\ announced \subseteq created
      <3>1. ids \in 0..MaxGroups
        BY DEF TypeOK
      <3> QED BY <3>1 DEF TypeOK
    <2> QED BY <1>1, <1>2, <1>3, <1>6, <2>1 DEF DeletionAnnounced, Exists
  <1>11. NameTold'
    BY <1>2, <1>3, <1>6 DEF NameTold, Exists
  <1> QED BY <1>9, <1>10, <1>11

\* The row of a group is deleted, and message and record are to be sent.
LEMMA MessageDelete ==
    ASSUME TypeOK, JobInv, MessageInv, DeletionAnnounced, NameTold,
           NEW w \in Worker, DeleteGroupRow(w)
    PROVE  MessageInv' /\ DeletionAnnounced' /\ NameTold'
  <1>1. /\ pc[w] = "group" /\ pc'[w] = "after" /\ job'[w] = job[w] /\ Others(w)
    BY PlainMoves
  <1>2. PICK g \in Group : g = job[w].g /\ job[w].op = "delete"
    BY <1>1, Held DEF JobInv, JobFits
  <1>3. /\ name' = [name EXCEPT ![g] = None]
        /\ UNCHANGED <<tail, announced, told, audit, unheard, created>>
    BY <1>2 DEF DeleteGroupRow, sent
  <1>4. name'[g] = None /\ \A h \in Group \ {g} : name'[h] = name[h]
    BY <1>3 DEF TypeOK
  <1>5. \A v \in Worker \ {w} : Lasting(v) /\ Same(v)
    BY <1>1, AfterCalmMoves DEF Others
  <1>6. \A t : t \in Coming' <=> t \in Coming \/ t \in Starts(job[w])
    <2>1. \A t : (\E v \in Worker \ {w} : pc[v] = "after" /\ t \in Starts(job[v])) <=>
                 (\E v \in Worker \ {w} : pc'[v] = "after" /\ t \in Starts(job'[v]))
      <3>1. Worker \ {w} \in SUBSET Worker
        OBVIOUS
      <3> QED BY <3>1, <1>5, ComingLasts
    <2> QED BY <1>1, <1>3, <2>1, ComingCases
  <1>7. \A t : t \in Starts(job[w]) <=>
           t = <<"log", "delete", g, None>> \/ t = <<"publish", "delete", g, None>>
    BY <1>2, StartsCases
  <1>8. Underway' = Underway \cup {<<"log", "delete", g>>, <<"publish", "delete", g>>}
    <2>1. \A k : k \in Underway' <=> k \in Underway \/ \E t \in Starts(job[w]) : Topic(t) = k
      BY <1>6, ComingCases
    <2>2. \A k : (\E t \in Starts(job[w]) : Topic(t) = k) <=>
             k = <<"log", "delete", g>> \/ k = <<"publish", "delete", g>>
      <3>1. /\ Topic(<<"log", "delete", g, None>>) = <<"log", "delete", g>>
            /\ Topic(<<"publish", "delete", g, None>>) = <<"publish", "delete", g>>
        BY DEF Topic
      <3> QED BY <1>7, <3>1
    <2> QED BY <2>1, <2>2
  <1>9. MessageInv'
    <2>1. ASSUME NEW v \in Worker, pc'[v] = "after", job'[v].op = "delete"
          PROVE  name'[job'[v].g] = None
      <3>1. CASE v = w
        BY <1>1, <1>2, <1>4, <3>1
      <3>2. CASE v # w
        BY <1>4, <1>5, <2>1, <3>2, Held DEF MessageInv, Exists, Same
      <3> QED BY <3>1, <3>2
    <2>2. ASSUME NEW t \in Coming', t[1] = "publish"
          PROVE  /\ t[2] \in {"delete", "modify"}
                 /\ t[2] = "delete" => ~(name'[t[3]] # None)
                 /\ t[2] = "modify" /\ name'[t[3]] # None /\ Topic(t) \notin unheard'
                       => t[4] = name'[t[3]]
      <3>1. CASE t \in Coming
        BY <1>3, <1>4, <2>2, <3>1, ComingTypes DEF MessageInv, Exists
      <3>2. CASE t = <<"log", "delete", g, None>> \/ t = <<"publish", "delete", g, None>>
        BY <1>4, <2>2, <3>2
      <3> QED BY <1>6, <1>7, <3>1, <3>2
    <2> QED BY <2>1, <2>2 DEF MessageInv, Exists, Topic
  <1>10. DeletionAnnounced'
    <2>1. created \subseteq Group
      <3>1. ids \in 0..MaxGroups /\ created \subseteq 1..ids
        BY DEF TypeOK
      <3> QED BY <3>1
    <2> QED BY <1>3, <1>4, <1>8, <2>1 DEF DeletionAnnounced, Exists
  <1>11. NameTold'
    BY <1>3, <1>4, <1>8 DEF NameTold, Exists
  <1> QED BY <1>9, <1>10, <1>11

\* A group is renamed, or was gone or only its notes change: a message that is
\* on its way already may be the later one.
LEMMA MessageUpdate ==
    ASSUME TypeOK, JobInv, MessageInv, DeletionAnnounced, NameTold,
           NEW w \in Worker, UpdateGroup(w)
    PROVE  MessageInv' /\ DeletionAnnounced' /\ NameTold'
  <1>1. /\ pc[w] = "update" /\ pc'[w] = "after" /\ job'[w] = job[w]
        /\ \A v \in Worker \ {w} : Lasting(v)
    BY UpdateMoves, AfterCalmMoves DEF Others
  <1>2. PICK g \in Group, n \in Name \cup {None} :
           g = job[w].g /\ n = job[w].n /\ job[w].op = "modify"
    <2>1. job[w] \in Job
      BY DEF TypeOK
    <2>2. job[w].n \in Name \cup {None}
      BY <2>1 DEF Job
    <2> QED BY <1>1, <2>2, Held DEF JobInv, JobFits
  <1>3. /\ UNCHANGED <<tail, announced, told, audit, created>>
        /\ \/ name' = name /\ (n = None \/ ~Exists(g)) /\ unheard' = unheard
           \/ /\ n # None /\ Exists(g) /\ name' = [name EXCEPT ![g] = n]
              /\ unheard' = IF <<"publish", "modify", g>> \in Underway
                            THEN unheard \cup {<<"publish", "modify", g>>} ELSE unheard
    BY <1>2 DEF UpdateGroup, sent
  <1>4. /\ \A h \in Group : Exists(h) <=> name'[h] # None
        /\ \A h \in Group \ {g} : name'[h] = name[h]
        /\ unheard \subseteq unheard'
    BY <1>3 DEF TypeOK, Exists
  <1>5. \A t : t \in Coming' <=> t \in Coming \/ t \in Starts(job[w])
    <2>1. \A t : (\E v \in Worker \ {w} : pc[v] = "after" /\ t \in Starts(job[v])) <=>
                 (\E v \in Worker \ {w} : pc'[v] = "after" /\ t \in Starts(job'[v]))
      <3>1. Worker \ {w} \in SUBSET Worker
        OBVIOUS
      <3> QED BY <3>1, <1>1, ComingLasts
    <2> QED BY <1>1, <1>3, <2>1, ComingCases
  <1>6. \A t : t \in Starts(job[w]) <=>
           \/ t = <<"log", "modify", g, None>>
           \/ n # None /\ t = <<"publish", "modify", g, n>>
    BY <1>2, StartsCases
  <1>7. Underway \subseteq Underway' /\ (n # None => <<"publish", "modify", g>> \in Underway')
    <2>1. Underway \subseteq Underway'
      BY <1>5, ComingCases
    <2>2. n # None => <<"publish", "modify", g, n>> \in Coming'
      BY <1>5, <1>6
    <2>3. Topic(<<"publish", "modify", g, n>>) = <<"publish", "modify", g>>
      BY DEF Topic
    <2> QED BY <2>1, <2>2, <2>3, ComingCases
  <1>8. MessageInv'
    <2>1. ASSUME NEW v \in Worker, pc'[v] = "after", job'[v].op = "delete"
          PROVE  name'[job'[v].g] = None
      <3>1. v # w
        BY <1>1, <1>2, <2>1
      <3>2. pc[v] = "after" /\ job'[v].op = job[v].op /\ job'[v].g = job[v].g
        BY <1>1, <2>1, <3>1 DEF Lasting, AfterCalm, Kept
      <3> QED BY <1>4, <2>1, <3>2, Held DEF MessageInv
    <2>2. ASSUME NEW t \in Coming', t[1] = "publish"
          PROVE  /\ t[2] \in {"delete", "modify"}
                 /\ t[2] = "delete" => ~(name'[t[3]] # None)
                 /\ t[2] = "modify" /\ name'[t[3]] # None /\ Topic(t) \notin unheard'
                       => t[4] = name'[t[3]]
      <3>1. CASE t \in Coming
        <4>1. t[3] \in Group
          BY <3>1, ComingTypes
        <4>2. t[2] \in {"delete", "modify"} /\ (t[2] = "delete" => ~(name'[t[3]] # None))
          BY <1>4, <2>2, <3>1, <4>1 DEF MessageInv
        <4>3. ASSUME t[2] = "modify", name'[t[3]] # None, Topic(t) \notin unheard'
              PROVE  t[4] = name'[t[3]]
          <5>1. t[4] = name[t[3]]
            BY <1>4, <2>2, <3>1, <4>1, <4>3 DEF MessageInv
          <5>2. Topic(t) \in Underway /\ Topic(t) = <<"publish", "modify", t[3]>>
            BY <2>2, <3>1, <4>3, ComingCases DEF Topic
          <5>3. name'[t[3]] = name[t[3]]
            BY <1>3, <1>4, <4>1, <4>3, <5>2
          <5> QED BY <5>1, <5>3
        <4> QED BY <4>2, <4>3
      <3>2. CASE n # None /\ t = <<"publish", "modify", g, n>>
        <4>1. name'[g] # None => name'[g] = n
          BY <1>3, <3>2 DEF TypeOK, Exists
        <4> QED BY <3>2, <4>1
      <3>3. CASE t = <<"log", "modify", g, None>>
        BY <2>2, <3>3
      <3> QED BY <1>5, <1>6, <3>1, <3>2, <3>3
    <2> QED BY <2>1, <2>2 DEF MessageInv, Exists, Topic
  <1>9. DeletionAnnounced'
    <2>1. created \subseteq Group
      <3>1. ids \in 0..MaxGroups /\ created \subseteq 1..ids
        BY DEF TypeOK
      <3> QED BY <3>1
    <2>2. \A h \in created : Exists(h) <=> name'[h] # None
      BY <1>4, <2>1
    <2> QED BY <1>3, <1>4, <1>7, <2>2 DEF DeletionAnnounced, Exists
  <1>10. NameTold'
    <2> SUFFICES ASSUME NEW h \in Group, name'[h] # None,
                        <<"publish", "modify", h>> \notin Underway' \cup unheard'
                 PROVE  told'[h] = name'[h]
      BY DEF NameTold, Exists
    <2>1. name'[h] = name[h]
      BY <1>3, <1>4, <1>7
    <2> QED BY <1>3, <1>4, <1>7, <2>1 DEF NameTold
  <1> QED BY <1>8, <1>9, <1>10

\* A goroutine ends: it has published, written its record or failed.  Others
\* may still come with the same.
LEMMA MessageSent ==
    ASSUME TypeOK, JobInv, MessageInv, DeletionAnnounced, NameTold,
           NEW t \in tail, Publish(t) \/ WriteLog(t) \/ TailFails(t)
    PROVE  MessageInv' /\ DeletionAnnounced' /\ NameTold'
  <1>1. tail' = tail \ {t} /\ UNCHANGED <<name, pc, job, created>> /\ unheard \subseteq unheard'
    BY DEF Publish, WriteLog, TailFails, tables, marks
  <1>2. Coming' \subseteq Coming /\ Coming \ {t} \subseteq Coming' /\ t \in Coming
    BY <1>1, ComingCases
  <1>3. Underway' \subseteq Underway /\ Underway \ {Topic(t)} \subseteq Underway'
    BY <1>2, ComingCases
  <1>4. MessageInv'
    BY <1>1, <1>2 DEF MessageInv, Exists, Topic
  <1>5. t[3] \in Group
    BY <1>2, ComingTypes
  <1>6. CASE Publish(t) /\ t[2] = "delete"
    <2>1. announced' = announced \cup {t[3]} /\ UNCHANGED <<told, audit, unheard>>
      BY <1>6 DEF Publish, marks
    <2>2. Topic(t) = <<"publish", "delete", t[3]>> /\ ~Exists(t[3])
      BY <1>2, <1>6 DEF Publish, Topic, MessageInv
    <2>3. \A h : /\ <<"publish", "modify", h>> # Topic(t) /\ <<"log", "delete", h>> # Topic(t)
                 /\ <<"publish", "delete", h>> = Topic(t) => h = t[3]
      BY <2>2
    <2>4. DeletionAnnounced'
      BY <1>1, <1>3, <2>1, <2>2, <2>3 DEF DeletionAnnounced, Exists
    <2>5. NameTold'
      BY <1>1, <1>3, <2>1, <2>3 DEF NameTold, Exists
    <2> QED BY <1>4, <2>4, <2>5
  <1>7. CASE Publish(t) /\ t[2] # "delete"
    <2>1. told' = [told EXCEPT ![t[3]] = t[4]] /\ UNCHANGED <<announced, audit, unheard>>
      BY <1>7 DEF Publish, marks
    <2>2. /\ Topic(t) = <<"publish", "modify", t[3]>>
          /\ Exists(t[3]) /\ Topic(t) \notin unheard => t[4] = name[t[3]]
      BY <1>2, <1>7 DEF Publish, Topic, MessageInv
    <2>3. \A h : /\ <<"publish", "delete", h>> # Topic(t) /\ <<"log", "delete", h>> # Topic(t)
                 /\ <<"publish", "modify", h>> = Topic(t) => h = t[3]
      BY <2>2
    <2>4. DeletionAnnounced'
      BY <1>1, <1>3, <2>1, <2>3 DEF DeletionAnnounced, Exists
    <2>5. told'[t[3]] = t[4] /\ \A h \in Group \ {t[3]} : told'[h] = told[h]
      BY <1>5, <2>1 DEF TypeOK
    <2>6. ASSUME NEW h \in Group, name[h] # None,
                 <<"publish", "modify", h>> \notin Underway' \cup unheard
          PROVE  told'[h] = name[h]
      <3>1. CASE h = t[3]
        BY <2>2, <2>5, <2>6, <3>1 DEF Exists
      <3>2. CASE h # t[3]
        BY <1>3, <2>3, <2>5, <2>6, <3>2 DEF NameTold, Exists
      <3> QED BY <3>1, <3>2
    <2>7. NameTold'
      BY <1>1, <2>1, <2>6 DEF NameTold, Exists
    <2> QED BY <1>4, <2>4, <2>7
  <1>8. CASE WriteLog(t)
    <2>1. /\ audit' = audit \cup {<<t[2], t[3]>>} /\ t[1] = "log"
          /\ UNCHANGED <<announced, told, unheard>>
      BY <1>8 DEF WriteLog, marks
    <2>2. \A h, k : /\ <<"publish", k, h>> # Topic(t)
                    /\ <<"log", k, h>> = Topic(t) => <<k, h>> = <<t[2], t[3]>>
      BY <2>1 DEF Topic
    <2>3. DeletionAnnounced'
      BY <1>1, <1>3, <2>1, <2>2 DEF DeletionAnnounced, Exists
    <2>4. NameTold'
      BY <1>1, <1>3, <2>1, <2>2 DEF NameTold, Exists
    <2> QED BY <1>4, <2>3, <2>4
  <1>9. CASE TailFails(t)
    <2>1. unheard' = unheard \cup {Topic(t)} /\ UNCHANGED <<announced, told, audit>>
      BY <1>9 DEF TailFails
    <2>2. Underway \cup unheard \subseteq Underway' \cup unheard'
      BY <1>3, <2>1
    <2>3. DeletionAnnounced'
      BY <1>1, <2>1, <2>2 DEF DeletionAnnounced, Exists
    <2>4. NameTold'
      BY <1>1, <2>1, <2>2 DEF NameTold, Exists
    <2> QED BY <1>4, <2>3, <2>4
  <1> QED BY <1>6, <1>7, <1>8, <1>9

\* The process ends, and all that was to come is lost.
LEMMA MessageCrash ==
    ASSUME TypeOK, MessageInv, DeletionAnnounced, NameTold, Crash
    PROVE  MessageInv' /\ DeletionAnnounced' /\ NameTold'
  <1>1. /\ UNCHANGED <<name, created, announced, told, audit>>
        /\ tail' = {} /\ unheard' = unheard \cup Underway
        /\ \A v \in Worker : pc'[v] = "idle"
    BY DEF Crash, Abandon, tables
  <1>2. \A t : t \notin Coming'
    BY <1>1, ComingCases
  <1>3. MessageInv'
    BY <1>1, <1>2 DEF MessageInv
  <1>4. DeletionAnnounced'
    BY <1>1 DEF DeletionAnnounced, Exists
  <1>5. NameTold'
    BY <1>1 DEF NameTold, Exists
  <1> QED BY <1>3, <1>4, <1>5

\* Every step keeps what others are told true.
LEMMA NextMessages ==
    ASSUME TypeOK, JobInv, MessageInv, DeletionAnnounced, NameTold, [Next]_vars
    PROVE  MessageInv' /\ DeletionAnnounced' /\ NameTold'
  <1> DEFINE Goal == MessageInv' /\ DeletionAnnounced' /\ NameTold'
             Still == UNCHANGED <<name, created, announced, told, audit, unheard>>
  <1>1. ASSUME Still, tail' = tail, \A v \in Worker : Lasting(v) PROVE Goal
    <2>1. Worker \in SUBSET Worker
      OBVIOUS
    <2>2. Coming' = Coming
      BY <1>1, <2>1, ComingLasts, ComingCases, ZenonT(60)
    <2> QED BY <1>1, <2>2, MessageQuiet DEF Lasting
  <1>2. ASSUME NEW w \in Worker, Others(w), Lasting(w), Still, tail' = tail PROVE Goal
    BY <1>1, <1>2, AfterCalmMoves DEF Others
  <1>3. ASSUME NEW w \in Worker,
               \/ \E n \in Name, from \in SUBSET (1..ids) : AddGroup(w, n, from)
               \/ \E g \in Group : DeleteGroup(w, g)
               \/ \E g \in Group, n \in Name \cup {None} : ModifyGroup(w, g, n)
               \/ \E kind \in {"addMembers", "deleteMembers"}, g \in Group,
                     S \in (SUBSET Member) \ {{}} : ChangeMembers(w, kind, g, S)
        PROVE  Goal
    <2>1. Still /\ tail' = tail
      BY <1>3
      DEF AddGroup, DeleteGroup, ModifyGroup, ChangeMembers, Begin, tables, sent, marks
    <2>2. /\ Others(w) /\ pc[w] = "idle"
          /\ pc'[w] \in {"exist", "rows", "name", "check", "loop"}
      BY <1>3, BeginMoves DEF Begun
    <2> QED BY <1>2, <2>1, <2>2 DEF Lasting, AfterCalm
  <1>4. ASSUME NEW w \in Worker,
               \/ CheckInitial(w) \/ CallFails(w) \/ DeleteGroupMember(w)
               \/ AddGroupMembersOfNew(w) \/ DeleteGroupMemberByID(w)
        PROVE  Goal
    <2>1. Still /\ tail' = tail
      BY <1>4
      DEF CheckInitial, CallFails, DeleteGroupMember, AddGroupMembersOfNew,
          DeleteGroupMemberByID, tables, sent, marks
    <2>2. Others(w) /\ Lasting(w)
      BY <1>4, PlainMoves, AfterCalmMoves DEF Lasting, AfterCalm
    <2> QED BY <1>2, <2>1, <2>2
  <1>5. ASSUME NEW w \in Worker,
               \/ getGroupMembers(w) \/ CheckName(w) \/ checkUserAndDepartmentExist(w)
               \/ CheckGroupMembersExist(w)
        PROVE  Goal
    <2>1. Still /\ tail' = tail
      BY <1>5 DEF getGroupMembers, CheckName, checkUserAndDepartmentExist,
                  CheckGroupMembersExist, tables, sent, marks
    <2>2. Others(w) /\ Lasting(w)
      BY <1>5, CopyMoves, CheckNameMoves, CheckMembersMoves, FindRowMoves,
         AfterCalmMoves
      DEF Lasting, AfterCalm
    <2> QED BY <1>2, <2>1, <2>2
  <1>6. ASSUME NEW w \in Worker, AddGroupMember(w) PROVE Goal
    <2>1. Still /\ tail' = tail
      BY <1>6 DEF AddGroupMember, tables, sent
    <2>2. Lasting(w) /\ \A v \in Worker : v = w \/ Same(v) \/ Mistaken(v)
      BY <1>6, InsertMoves DEF Lasting, AfterCalm
    <2> QED BY <1>1, <2>1, <2>2, AfterCalmMoves
  <1>7. ASSUME NEW w \in Worker, Answer(w) PROVE Goal
    <2>1. Still /\ tail' = tail \cup Starts(job[w])
      BY <1>7 DEF Answer, Goroutines, Starts, tables, marks
    <2>2. /\ Ended(w) /\ Others(w)
          /\ \/ pc[w] = "after"
             \/ pc[w] = "loop" /\ job[w].op \in {"addMembers", "deleteMembers"}
      BY <1>7, PlainMoves DEF Answer, JobInv, JobFits
    <2>3. \A v \in Worker \ {w} : Lasting(v)
      BY <2>2, AfterCalmMoves DEF Others
    <2>4. \A t : (\E v \in Worker \ {w} : pc[v] = "after" /\ t \in Starts(job[v])) <=>
                 (\E v \in Worker \ {w} : pc'[v] = "after" /\ t \in Starts(job'[v]))
      <3>1. Worker \ {w} \in SUBSET Worker
        OBVIOUS
      <3> QED BY <2>3, <3>1, ComingLasts
    <2>5. pc'[w] # "after"
      BY <2>2 DEF Ended
    <2>6. \A t : t \in Coming' <=> t \in Coming \/ t \in Starts(job[w])
      BY <2>1, <2>4, <2>5, ComingCases
    <2>7. pc[w] = "after" => \A t \in Starts(job[w]) : t \in Coming
      BY ComingCases
    <2>8. pc[w] # "after" => \A t \in Starts(job[w]) : t[1] = "log"
      BY <2>2, StartsCases
    <2>9. \A v \in Worker : AfterCalm(v)
      BY <2>2, AfterCalmMoves DEF Others, Lasting
    <2> QED BY <2>1, <2>6, <2>7, <2>8, <2>9, MessageQuiet
  <1>8. ASSUME NEW m \in Member, Still, UNCHANGED <<pc, tail>>,
               job' = [w \in Worker |->
                  IF m \in job[w].todo \cup {job[w].cur}
                  THEN [job[w] EXCEPT !.old = @ \cup {m}] ELSE job[w]]
        PROVE  Goal
    <2>1. \A v \in Worker : Aged(v, m) \/ Same(v)
      BY <1>8, RemoveMoves
    <2> QED BY <1>1, <1>8, <2>1, AfterCalmMoves
  <1>9. ASSUME NEW u \in User, RemoveUserRows(u) \/ RemoveUser(u) PROVE Goal
    BY <1>8, <1>9 DEF RemoveUserRows, RemoveUser, RemoveMember, tables, sent
  <1>10. ASSUME UNCHANGED <<pc, job, tail>>, Still PROVE Goal
    <2>1. \A v \in Worker : Same(v)
      BY <1>10 DEF Same
    <2> QED BY <1>1, <1>10, <2>1, AfterCalmMoves
  <1>11. ASSUME NEW d \in Department,
                DepartmentDeleted(d) \/ DeleteGroupMemberByMemberID(d)
         PROVE  Goal
    BY <1>8, <1>10, <1>11
    DEF DepartmentDeleted, DeleteGroupMemberByMemberID, RemoveMember, tables, sent, marks
  <1>12. CASE UNCHANGED vars
    BY <1>10, <1>12 DEF vars
  <1> HIDE DEF Goal, Still
  <1>13. Goal
    BY <1>3, <1>4, <1>5, <1>6, <1>7, <1>9, <1>11, <1>12, MessageCommit,
       MessageDelete, MessageUpdate, MessageSent, MessageCrash
    DEF Next, Goal
  <1> QED BY <1>13 DEF Goal

\* The messages' part of the inductive invariant.
LEMMA MessagesRight == Spec => [](DeletionAnnounced /\ NameTold)
  <1> DEFINE IInv == TypeOK /\ JobInv /\ MessageInv /\ DeletionAnnounced /\ NameTold
  <1>1. Init => IInv
    <2>1. ASSUME Init PROVE MessageInv /\ DeletionAnnounced /\ NameTold
      <3>1. \A t : t \notin Coming
        BY <2>1, ComingCases DEF Init
      <3> QED BY <2>1, <3>1 DEF Init, MessageInv, DeletionAnnounced, NameTold, Exists
    <2> QED BY <2>1, InitType
  <1>2. IInv /\ [Next]_vars => IInv'
    BY NextType, NextMessages
  <1> QED BY <1>1, <1>2, PTL DEF Spec

\* The deletion of a group is published and recorded once the group is gone,
\* never before, and only a fault can take message or record.
THEOREM GroupDeletionTold == Spec => []DeletionAnnounced
  BY MessagesRight, PTL

\* Others know the name of a group when no message about it is under way, lost
\* or overtaken.
THEOREM GroupNameTold == Spec => []NameTold
  BY MessagesRight, PTL
=============================================================================
