----------------------- MODULE DepartmentDeleteProofs -----------------------
(***************************************************************************)
(* Proofs about DepartmentDelete.                                          *)
(*                                                                         *)
(* Two arguments.  What a request has read of the departments and of the   *)
(* managers stays usable however others overtake it, because departments   *)
(* only disappear and the consumer removes a manager's row only after an   *)
(* event that has named him (AnnounceInv).  What it has read of the users  *)
(* stays right only until somebody takes one of their rows, which is what  *)
(* raced records (SnapInv).  A request of misread has read less.           *)
(***************************************************************************)
EXTENDS DepartmentDelete, TLAPS

\* The departments and managers a request has read.  Its department is there
\* until a deletion of it, or of one above it, is done.
AnnounceInv ==
    /\ \A h \in Handler : Dept \ refs[h] \subseteq sent
    /\ pending \subseteq sent
    /\ \A q \in outbox : pc[q] = "done"
    /\ \A q \in Request :
          /\ pc[q] \notin {"idle"} => target[q] \in Dept
          /\ pc[q] \notin {"idle", "refused", "failed", "done"} =>
                target[q] \in depts \/ Preceded(q)
          /\ pc[q] \in {"managers", "write"} =>
                /\ q \notin misread => depts \cap Below(target[q]) \subseteq doomed[q]
                /\ doomed[q] \subseteq Below(target[q])
                /\ q \notin misread /\ doomed[q] = {} => Preceded(q)
          /\ pc[q] = "write" /\ q \notin misread =>
                \A d \in doomed[q], u \in User :
                    Manages[u] \cap Above[d] # {} =>
                        u \in managers[q] \cup informed \/ Unlisted(d)
          /\ pc[q] = "done" => doomed[q] \subseteq sent

Counting(q) == pc[q] \in {"departs", "managers", "write"}

\* The users a request has read.
SnapInv ==
    \A q \in Request \ misread :
        /\ Counting(q) \/ pc[q] = "paths" =>
              \A u \in User : members[u] \cap Below(target[q]) # {} => u \in users[q]
        /\ Counting(q) /\ ~raced =>
              \A u \in User :
                 /\ u \in move[q] <=>
                       u \in users[q] /\ HasPath(u) /\ OnlyBelow(u, target[q])
                 /\ u \in leave[q] <=>
                       u \in users[q] /\ HasPath(u) /\ LeavesOrg(u, target[q])

-----------------------------------------------------------------------------

\* The organisation of a department is that of every department above it.
LEMMA SameRoot ==
    ASSUME NEW d \in Dept, NEW e \in Below(d)
    PROVE  RootOf(e) = RootOf(d)
<1> USE DepartmentAssumption
<1>1. e \in Dept /\ d \in Above[e] /\ Above[d] \subseteq Above[e]
  BY DEF Below
<1>2. PICK r \in Above[d] : Above[r] = {r}
  OBVIOUS
<1>3. \A s \in Above[e] : Above[s] = {s} => s = r
  <2> SUFFICES ASSUME NEW s \in Above[e], Above[s] = {s} PROVE s = r
    OBVIOUS
  <2>1. s \in Above[r] \/ r \in Above[s]
    BY <1>1, <1>2
  <2> QED BY <2>1, <1>2
<1>4. RootOf(e) = r
  BY <1>1, <1>2, <1>3 DEF RootOf
<1>5. RootOf(d) = r
  BY <1>1, <1>2, <1>3 DEF RootOf
<1> QED BY <1>4, <1>5

\* Initially everything has its type and nothing has been read.
LEMMA InitInv == Init => TypeOK /\ AnnounceInv /\ SnapInv /\ DeletionComplete
                              /\ ManagersInformed /\ PlacedUnlessRaced
<1> SUFFICES ASSUME Init PROVE TypeOK /\ AnnounceInv /\ SnapInv /\ DeletionComplete
                              /\ ManagersInformed /\ PlacedUnlessRaced
  OBVIOUS
<1>1. \A u \in User : Roots(members[u]) \subseteq Dept
  <2> SUFFICES ASSUME NEW u \in User, NEW d \in members[u] PROVE RootOf(d) \in Dept
    BY DEF Roots
  <2>1. d \in Dept
    BY DEF Init
  <2>2. \E r \in Above[d] : Above[r] = {r}
    BY <2>1, DepartmentAssumption
  <2>3. RootOf(d) \in Above[d]
    BY <2>2 DEF RootOf
  <2> QED BY <2>1, <2>3, DepartmentAssumption
<1>2. TypeOK
  BY <1>1 DEF Init, TypeOK, Handler
<1>3. AnnounceInv
  BY DEF Init, AnnounceInv
<1>4. SnapInv
  BY DEF Init, SnapInv, Counting
<1>5. DeletionComplete /\ ManagersInformed
  BY DEF Init, DeletionComplete, ManagersInformed
<1>6. PlacedUnlessRaced
  BY DEF Init, PlacedUnlessRaced
<1> QED BY <1>2, <1>3, <1>4, <1>5, <1>6

\* Every step keeps the types.
LEMMA NextTypeOK ==
    ASSUME TypeOK, [Next]_vars
    PROVE  TypeOK'
<1>1. ASSUME NEW q \in Request, NEW d \in Dept, NEW v \in User \cup {Private},
             DeleteDepart(q, d, v)
      PROVE  TypeOK'
  BY <1>1 DEF TypeOK, DeleteDepart, dbVars, msgVars
<1>2. ASSUME NEW q \in Request, CheckRole(q) PROVE TypeOK'
  BY <1>2 DEF TypeOK, CheckRole, dbVars, msgVars, reqVars
<1>3. ASSUME NEW q \in Request, CheckRange(q) PROVE TypeOK'
  BY <1>3 DEF TypeOK, CheckRange, dbVars, msgVars, reqVars
<1>4. ASSUME NEW q \in Request, GetAllSubUserIDsByDepartPath(q) PROVE TypeOK'
  BY <1>4 DEF TypeOK, GetAllSubUserIDsByDepartPath, dbVars, msgVars
<1>5. ASSUME NEW q \in Request, GetUsersPath(q) PROVE TypeOK'
  BY <1>5 DEF TypeOK, GetUsersPath, dbVars, msgVars
<1>6. ASSUME NEW q \in Request, GetAllSubDepartInfosByPath(q) PROVE TypeOK'
  BY <1>6 DEF TypeOK, GetAllSubDepartInfosByPath, dbVars, msgVars
<1>7. ASSUME NEW q \in Request, GetAllOrgManagerIDsByDepartIDs(q) PROVE TypeOK'
  BY <1>7 DEF TypeOK, GetAllOrgManagerIDsByDepartIDs, dbVars, msgVars
<1>8. ASSUME NEW q \in Request, deleteDepartInfo(q) PROVE TypeOK'
  BY <1>8 DEF TypeOK, deleteDepartInfo, Forget
<1>9. ASSUME NEW q \in Request, Fail(q) PROVE TypeOK'
  BY <1>9 DEF TypeOK, Fail, Forget, dbVars, msgVars
<1>12. ASSUME NEW q \in Request, Misread(q) PROVE TypeOK'
  <2>1. UNCHANGED <<dbVars, refs, target, visitor, msgVars, raced>>
        /\ misread' \in SUBSET Request
    BY <1>12 DEF Misread, TypeOK
  <2>2. CASE pc[q] = "users"
    BY <2>1, <2>2, <1>12 DEF TypeOK, Misread, dbVars, msgVars
  <2>3. CASE pc[q] = "paths"
    <3>1. /\ \E S \in SUBSET User : move' = [move EXCEPT ![q] = S]
          /\ \E S \in SUBSET User : leave' = [leave EXCEPT ![q] = S]
          /\ pc' = [pc EXCEPT ![q] = "departs"]
          /\ UNCHANGED <<users, doomed, managers>>
      BY <2>3, <1>12 DEF TypeOK, Misread, MisreadPaths
    <3> QED BY <2>1, <3>1 DEF TypeOK, dbVars, msgVars
  <2>4. CASE pc[q] = "departs"
    BY <2>1, <2>4, <1>12 DEF TypeOK, Misread, dbVars, msgVars
  <2>5. CASE pc[q] = "managers"
    BY <2>1, <2>5, <1>12 DEF TypeOK, Misread, dbVars, msgVars
  <2> QED BY <2>2, <2>3, <2>4, <2>5, <1>12 DEF Misread
<1>13. ASSUME NEW q \in Request, push(q) PROVE TypeOK'
  BY <1>13 DEF TypeOK, push, dbVars, reqVars
<1>10. ASSUME NEW d \in Dept, NEW n \in 0..4, DeptDeleted(d, n) PROVE TypeOK'
  BY <1>10 DEF TypeOK, DeptDeleted, dbVars, reqVars
<1>11. CASE UNCHANGED vars
  BY <1>11 DEF TypeOK, vars
<1> QED
  BY <1>1, <1>2, <1>3, <1>4, <1>5, <1>6, <1>7, <1>8, <1>9, <1>10, <1>11, <1>12,
     <1>13
  DEF Next, Step

-----------------------------------------------------------------------------
(* What is announced.                                                      *)

\* A deletion that is done stays so, and with it what it explains.
LEMMA Lasting ==
    ASSUME misread \subseteq misread',
           \A p \in Request : pc[p] = "done" => pc'[p] = "done" /\ target'[p] = target[p],
           misread \subseteq Request
    PROVE  /\ \A d : Unlisted(d) => Unlisted(d)'
           /\ \A q \in Request : target'[q] = target[q] /\ Preceded(q) => Preceded(q)'
<1>1. ASSUME NEW d, Unlisted(d) PROVE Unlisted(d)'
  BY <1>1 DEF Unlisted, Below
<1>2. ASSUME NEW q \in Request, target'[q] = target[q], Preceded(q) PROVE Preceded(q)'
  BY <1>2 DEF Preceded
<1> QED BY <1>1, <1>2

\* What is announced, together.
Announced == AnnounceInv /\ DeletionComplete /\ ManagersInformed

\* A step that leaves the database, the messages and the rows of the consumer
\* alone, and moves one request to a state in which it has read nothing of the
\* departments.
LEMMA AnnounceIdle ==
    ASSUME TypeOK, Announced, NEW q \in Request,
           UNCHANGED <<dbVars, refs, msgVars>>,
           misread \subseteq misread', misread' \subseteq misread \cup {q},
           \A p \in Request \ {q} :
               /\ pc'[p] = pc[p] /\ target'[p] = target[p]
               /\ doomed'[p] = doomed[p] /\ managers'[p] = managers[p],
           pc[q] # "done", pc'[q] # "done",
           pc'[q] # "idle" => target'[q] \in Dept,
           pc'[q] \notin {"managers", "write"},
           \/ pc'[q] \in {"refused", "failed"}
           \/ target'[q] \in depts
           \/ pc[q] \notin {"idle", "refused", "failed"} /\ target'[q] = target[q]
    PROVE  Announced'
<1> USE DEF Announced
<1>1. /\ \A d : Unlisted(d) => Unlisted(d)'
      /\ \A p \in Request : target'[p] = target[p] /\ Preceded(p) => Preceded(p)'
  BY Lasting DEF TypeOK
<1>2. DeletionComplete' /\ ManagersInformed'
  BY <1>1 DEF DeletionComplete, ManagersInformed, dbVars, msgVars, NullList
<1>3. ASSUME NEW p \in Request
      PROVE  /\ pc'[p] \notin {"idle"} => target'[p] \in Dept
             /\ pc'[p] \notin {"idle", "refused", "failed", "done"} =>
                   target'[p] \in depts' \/ Preceded(p)'
  BY <1>1 DEF AnnounceInv, dbVars
<1>4. ASSUME NEW p \in Request
      PROVE  /\ pc'[p] \in {"managers", "write"} =>
                   /\ p \notin misread' =>
                         depts' \cap Below(target'[p]) \subseteq doomed'[p]
                   /\ doomed'[p] \subseteq Below(target'[p])
                   /\ p \notin misread' /\ doomed'[p] = {} => Preceded(p)'
             /\ pc'[p] = "write" /\ p \notin misread' =>
                   \A d \in doomed'[p], u \in User :
                       Manages[u] \cap Above[d] # {} =>
                           u \in managers'[p] \cup informed' \/ Unlisted(d)'
             /\ pc'[p] = "done" => doomed'[p] \subseteq sent'
  BY <1>1 DEF AnnounceInv, dbVars, msgVars
<1>5. /\ \A h \in Handler : Dept \ refs'[h] \subseteq sent'
      /\ pending' \subseteq sent'
      /\ \A p \in outbox' : pc'[p] = "done"
  BY DEF AnnounceInv, msgVars, TypeOK
<1>6. AnnounceInv'
  BY <1>3, <1>4, <1>5 DEF AnnounceInv, Below
<1> QED BY <1>2, <1>6

\* A request reads the departments: all of them, unless it misreads.
LEMMA AnnounceDeparts ==
    ASSUME TypeOK, Announced, NEW q \in Request, pc[q] = "departs",
           UNCHANGED <<dbVars, refs, target, managers, msgVars>>,
           misread \subseteq misread', misread' \subseteq misread \cup {q},
           NEW S \in SUBSET (depts \cap Below(target[q])),
           q \notin misread' => S = depts \cap Below(target[q]),
           doomed' = [doomed EXCEPT ![q] = S],
           pc' = [pc EXCEPT ![q] = "managers"]
    PROVE  Announced'
<1> USE DEF Announced
<1>1. /\ \A d : Unlisted(d) => Unlisted(d)'
      /\ \A p \in Request : Preceded(p) => Preceded(p)'
  BY Lasting DEF TypeOK
<1>2. DeletionComplete' /\ ManagersInformed'
  BY <1>1 DEF DeletionComplete, ManagersInformed, dbVars, msgVars, NullList, TypeOK
<1>3. target[q] \in Dept /\ (target[q] \in depts \/ Preceded(q))
  BY DEF AnnounceInv
<1>4. target[q] \in Below(target[q])
  BY <1>3, DepartmentAssumption DEF Below
<1>5. AnnounceInv'
  <2>1. ASSUME NEW p \in Request, p # q
        PROVE  pc'[p] = pc[p] /\ doomed'[p] = doomed[p]
    BY <2>1 DEF TypeOK
  <2>2. pc'[q] = "managers" /\ doomed'[q] = S
    BY DEF TypeOK
  <2>3. q \notin misread' /\ S = {} => Preceded(q)'
    BY <1>1, <1>3, <1>4
  <2> QED BY <1>1, <1>3, <2>1, <2>2, <2>3 DEF AnnounceInv, dbVars, msgVars, Below
<1> QED BY <1>2, <1>5

\* A request reads the managers: all of them, unless it misreads.
LEMMA AnnounceManagers ==
    ASSUME TypeOK, Announced, NEW q \in Request, pc[q] = "managers",
           UNCHANGED <<dbVars, refs, target, doomed, msgVars>>,
           misread \subseteq misread', misread' \subseteq misread \cup {q},
           NEW S \in SUBSET User,
           q \notin misread' => S = {u \in User : Managed(u) \cap Affected(q) # {}},
           managers' = [managers EXCEPT ![q] = S],
           pc' = [pc EXCEPT ![q] = "write"]
    PROVE  Announced'
<1> USE DEF Announced
<1>1. /\ \A d : Unlisted(d) => Unlisted(d)'
      /\ \A p \in Request : Preceded(p) => Preceded(p)'
  BY Lasting DEF TypeOK
<1>2. DeletionComplete' /\ ManagersInformed'
  BY <1>1 DEF DeletionComplete, ManagersInformed, dbVars, msgVars, NullList, TypeOK
<1>3. ASSUME q \notin misread', NEW d \in doomed[q], NEW u \in User,
             Manages[u] \cap Above[d] # {}
      PROVE  u \in S \cup informed \/ Unlisted(d)
  <2>1. PICK e \in Manages[u] : e \in Above[d]
    BY <1>3
  <2>2. e \in Dept /\ e \in Above[e] /\ d \in Dept /\ Above[e] \subseteq Above[d]
    BY <2>1, DepartmentAssumption DEF TypeOK
  <2>3. CASE e \in refs[1]
    <3>1. e \in Managed(u) \cap Affected(q)
      BY <2>1, <2>3 DEF Managed, Affected
    <3> QED BY <3>1, <1>3
  <2>4. CASE e \notin refs[1]
    <3>1. e \in sent
      BY <2>2, <2>4 DEF AnnounceInv, Handler
    <3>2. u \in informed \/ Unlisted(e)
      BY <3>1, <2>1, <2>2 DEF ManagersInformed
    <3>3. Unlisted(e) => Unlisted(d)
      BY <2>2 DEF Unlisted, Below
    <3> QED BY <3>2, <3>3
  <2> QED BY <2>3, <2>4
<1>4. AnnounceInv'
  <2>1. ASSUME NEW p \in Request, p # q
        PROVE  pc'[p] = pc[p] /\ managers'[p] = managers[p]
    BY <2>1 DEF TypeOK
  <2>2. pc'[q] = "write" /\ managers'[q] = S
    BY DEF TypeOK
  <2>3. \A d \in doomed'[q], u \in User :
           q \notin misread' /\ Manages[u] \cap Above[d] # {} =>
               u \in managers'[q] \cup informed' \/ Unlisted(d)'
    BY <1>1, <1>3, <2>2 DEF msgVars
  <2> QED BY <1>1, <2>1, <2>2, <2>3 DEF AnnounceInv, dbVars, msgVars, Below
<1> QED BY <1>2, <1>4

\* A transaction.
LEMMA AnnounceDelete ==
    ASSUME TypeOK, Announced, NEW q \in Request, deleteDepartInfo(q)
    PROVE  Announced'
<1> USE DEF Announced
<1>1. /\ pc'[q] = "done" /\ pc[q] = "write" /\ misread' = misread
      /\ UNCHANGED <<target, doomed>>
      /\ depts' = depts \ Below(target[q])
      /\ related' = related \ doomed[q] /\ sent' = sent \cup doomed[q]
      /\ informed' = informed \cup managers[q]
      /\ UNCHANGED <<refs, pending>>
      /\ \A p \in Request \ {q} : pc'[p] = pc[p] /\ managers'[p] = managers[p]
  BY DEF deleteDepartInfo, Forget, TypeOK
<1>2. /\ \A d : Unlisted(d) => Unlisted(d)'
      /\ \A p \in Request : Preceded(p) => Preceded(p)'
  BY <1>1, Lasting DEF TypeOK
<1>3. /\ target[q] \in Dept
      /\ q \notin misread => depts \cap Below(target[q]) \subseteq doomed[q]
      /\ doomed[q] \subseteq Below(target[q])
      /\ q \notin misread /\ doomed[q] = {} => Preceded(q)
      /\ q \notin misread => \A d \in doomed[q], u \in User :
            Manages[u] \cap Above[d] # {} => u \in managers[q] \cup informed \/ Unlisted(d)
  BY <1>1 DEF AnnounceInv
<1>4. q \in misread => \A d \in Below(target[q]) : Unlisted(d)'
  BY <1>1 DEF Unlisted, Below
<1>5. ASSUME NEW d \in Dept \ depts'
      PROVE  d \in sent' \ related' \/ Unlisted(d)'
  <2>1. CASE d \in depts
    BY <2>1, <1>1, <1>3, <1>4 DEF DeletionComplete
  <2>2. CASE d \notin depts
    BY <2>2, <1>1, <1>2 DEF DeletionComplete
  <2> QED BY <2>1, <2>2
<1>6. depts' \subseteq related' /\ sent' \subseteq Dept \ depts'
  BY <1>1, <1>3 DEF DeletionComplete, Below
<1>7. \A p \in Request \ misread' : pc'[p] = "done" /\ NullList(p)' => Preceded(p)'
  BY <1>1, <1>2, <1>3 DEF DeletionComplete, NullList
<1>8. DeletionComplete'
  BY <1>5, <1>6, <1>7 DEF DeletionComplete
<1>9. ASSUME NEW d \in sent', NEW u \in User, Manages[u] \cap Above[d] # {}
      PROVE  u \in informed' \/ Unlisted(d)'
  BY <1>1, <1>2, <1>3, <1>4, <1>9 DEF ManagersInformed
<1>10. ASSUME NEW p \in Request \ {q},
              pc[p] \notin {"idle", "refused", "failed", "done"}
       PROVE  target[p] \in depts' \/ Preceded(p)'
  <2>1. target[p] \in Dept /\ (target[p] \in depts \/ Preceded(p))
    BY <1>10 DEF AnnounceInv
  <2>2. CASE target[p] \in Below(target[q])
    BY <2>2, <1>1 DEF Preceded, Below
  <2> QED BY <2>1, <2>2, <1>1, <1>2
<1>11. ASSUME NEW p \in Request
       PROVE  /\ pc'[p] \notin {"idle"} => target'[p] \in Dept
              /\ pc'[p] \notin {"idle", "refused", "failed", "done"} =>
                   target'[p] \in depts' \/ Preceded(p)'
              /\ pc'[p] = "done" => doomed'[p] \subseteq sent'
  BY <1>1, <1>3, <1>10 DEF AnnounceInv
<1>12. ASSUME NEW p \in Request
       PROVE  /\ pc'[p] \in {"managers", "write"} =>
                    /\ p \notin misread' =>
                          depts' \cap Below(target'[p]) \subseteq doomed'[p]
                    /\ doomed'[p] \subseteq Below(target'[p])
                    /\ p \notin misread' /\ doomed'[p] = {} => Preceded(p)'
              /\ pc'[p] = "write" /\ p \notin misread' =>
                    \A d \in doomed'[p], u \in User :
                        Manages[u] \cap Above[d] # {} =>
                            u \in managers'[p] \cup informed' \/ Unlisted(d)'
  BY <1>1, <1>2 DEF AnnounceInv
<1>13. /\ \A h \in Handler : Dept \ refs'[h] \subseteq sent'
       /\ pending' \subseteq sent'
       /\ \A p \in outbox' : pc'[p] = "done"
  BY <1>1 DEF AnnounceInv, deleteDepartInfo, TypeOK
<1>14. AnnounceInv'
  BY <1>11, <1>12, <1>13 DEF AnnounceInv, Below
<1> QED BY <1>8, <1>9, <1>14 DEF ManagersInformed

\* A step of the push thread or of the consumer.
LEMMA AnnounceRest ==
    ASSUME TypeOK, Announced,
           UNCHANGED <<dbVars, pc, reqVars, sent, informed, misread>>,
           pending' \subseteq sent, outbox' \subseteq outbox,
           \A h \in Handler : Dept \ refs'[h] \subseteq sent
    PROVE  Announced'
<1> USE DEF Announced
<1>1. /\ \A d : Unlisted(d)' <=> Unlisted(d)
      /\ \A p \in Request : Preceded(p)' <=> Preceded(p)
  BY DEF Unlisted, Preceded, Below, reqVars
<1>2. DeletionComplete' /\ ManagersInformed'
  BY <1>1 DEF DeletionComplete, ManagersInformed, dbVars, reqVars, NullList
<1>3. AnnounceInv'
  BY <1>1 DEF AnnounceInv, dbVars, reqVars, Below
<1> QED BY <1>2, <1>3

\* Every step keeps what was read of departments and managers usable.
LEMMA NextAnnounce ==
    ASSUME TypeOK, Announced, [Next]_vars
    PROVE  Announced'
<1>1. ASSUME NEW q \in Request, NEW d \in Dept, NEW v \in User \cup {Private},
             DeleteDepart(q, d, v)
      PROVE  Announced'
  BY <1>1, AnnounceIdle DEF DeleteDepart, TypeOK
<1>2. ASSUME NEW q \in Request, CheckRole(q) PROVE Announced'
  BY <1>2, AnnounceIdle DEF CheckRole, TypeOK, reqVars, Announced, AnnounceInv
<1>3. ASSUME NEW q \in Request, CheckRange(q) PROVE Announced'
  BY <1>3, AnnounceIdle DEF CheckRange, TypeOK, reqVars, Announced, AnnounceInv
<1>4. ASSUME NEW q \in Request, GetAllSubUserIDsByDepartPath(q) PROVE Announced'
  BY <1>4, AnnounceIdle DEF GetAllSubUserIDsByDepartPath, TypeOK, Announced, AnnounceInv
<1>5. ASSUME NEW q \in Request, GetUsersPath(q) PROVE Announced'
  BY <1>5, AnnounceIdle DEF GetUsersPath, TypeOK, Announced, AnnounceInv
<1>6. ASSUME NEW q \in Request, Fail(q) PROVE Announced'
  BY <1>6, AnnounceIdle DEF Fail, Forget, TypeOK, Announced, AnnounceInv
<1>7. ASSUME NEW q \in Request, GetAllSubDepartInfosByPath(q) PROVE Announced'
  BY <1>7, AnnounceDeparts DEF GetAllSubDepartInfosByPath
<1>8. ASSUME NEW q \in Request, GetAllOrgManagerIDsByDepartIDs(q) PROVE Announced'
  <2>1. {u \in User : Managed(u) \cap Affected(q) # {}} \in SUBSET User
    OBVIOUS
  <2> QED BY <1>8, <2>1, AnnounceManagers DEF GetAllOrgManagerIDsByDepartIDs
<1>9. ASSUME NEW q \in Request, deleteDepartInfo(q) PROVE Announced'
  BY <1>9, AnnounceDelete
<1>10. ASSUME NEW d \in Dept, NEW n \in 0..4, DeptDeleted(d, n) PROVE Announced'
  <2>1. pending' \subseteq sent
    BY <1>10 DEF DeptDeleted, Announced, AnnounceInv
  <2>2. \A h \in Handler : Dept \ refs'[h] \subseteq sent
    BY <1>10 DEF DeptDeleted, Announced, AnnounceInv, TypeOK
  <2> QED BY <1>10, <2>1, <2>2, AnnounceRest DEF DeptDeleted
<1>11. CASE UNCHANGED vars
  <2>1. UNCHANGED <<dbVars, pc, reqVars, sent, informed, misread, pending, outbox, refs>>
    BY <1>11 DEF vars, dbVars, reqVars
  <2> QED BY <2>1, AnnounceRest DEF Announced, AnnounceInv
<1>12. ASSUME NEW q \in Request, Misread(q) PROVE Announced'
  <2>1. /\ UNCHANGED <<dbVars, refs, target, visitor, msgVars, raced>>
        /\ misread' = misread \cup {q}
    BY <1>12 DEF Misread
  <2>2. CASE pc[q] = "users"
    BY <2>1, <2>2, <1>12, AnnounceIdle DEF Misread, TypeOK, Announced, AnnounceInv
  <2>3. CASE pc[q] = "paths"
    BY <2>1, <2>3, <1>12, AnnounceIdle DEF Misread, TypeOK, Announced, AnnounceInv
  <2>4. CASE pc[q] = "departs"
    <3>1. PICK S \in SUBSET (depts \cap Below(target[q])) :
             doomed' = [doomed EXCEPT ![q] = S]
      BY <2>4, <1>12 DEF Misread
    <3> QED BY <2>1, <2>4, <3>1, <1>12, AnnounceDeparts DEF Misread
  <2>5. CASE pc[q] = "managers"
    <3>1. PICK S \in SUBSET User : managers' = [managers EXCEPT ![q] = S]
      BY <2>5, <1>12 DEF Misread
    <3> QED BY <2>1, <2>5, <3>1, <1>12, AnnounceManagers DEF Misread
  <2> QED BY <2>2, <2>3, <2>4, <2>5, <1>12 DEF Misread
<1>13. ASSUME NEW q \in Request, push(q) PROVE Announced'
  <2>1. pending' \subseteq sent
    BY <1>13 DEF push, Announced, AnnounceInv
  <2> QED BY <1>13, <2>1, AnnounceRest DEF push, Announced, AnnounceInv
<1> QED
  BY <1>1, <1>2, <1>3, <1>4, <1>5, <1>6, <1>7, <1>8, <1>9, <1>10, <1>11, <1>12,
     <1>13
  DEF Next, Step

\* The two together, since the second needs the invariant of the first.
LEMMA AnnounceSafe == Spec => [](DeletionComplete /\ ManagersInformed)
<1>1. Init => TypeOK /\ AnnounceInv /\ DeletionComplete /\ ManagersInformed
  BY InitInv
<1>2. TypeOK /\ AnnounceInv /\ DeletionComplete /\ ManagersInformed /\ [Next]_vars
        => (TypeOK /\ AnnounceInv /\ DeletionComplete /\ ManagersInformed)'
  BY NextTypeOK, NextAnnounce DEF Announced
<1> QED BY <1>1, <1>2, PTL DEF Spec

\* However deletions overlap and however often the consumer fails, a department
\* that is gone was announced and left no row in the relation tables.
THEOREM DeletionAnnounced == Spec => []DeletionComplete
BY AnnounceSafe, PTL

\* Every manager of an announced department, or of one above it, was named in
\* the message of a deletion, although the consumer of an earlier event removes
\* rows of the table in which the managers are looked up.
THEOREM ManagersTold == Spec => []ManagersInformed
BY AnnounceSafe, PTL

-----------------------------------------------------------------------------
(* Where the users are.                                                    *)

\* A step that leaves the users' rows alone, and after which no request has
\* read more of them than before.
LEMMA SnapIdle ==
    ASSUME SnapInv, PlacedUnlessRaced,
           UNCHANGED <<members, unassigned, ou, raced>>, misread \subseteq misread',
           \A p \in Request \ misread' :
              \/ pc'[p] \notin {"paths", "departs", "managers", "write"}
              \/ /\ target'[p] = target[p]
                 /\ users'[p] = users[p] /\ move'[p] = move[p] /\ leave'[p] = leave[p]
                 /\ \/ pc'[p] = pc[p]
                    \/ pc[p] \in {"departs", "managers"} /\ pc'[p] \in {"managers", "write"}
    PROVE  SnapInv' /\ PlacedUnlessRaced'
<1>1. PlacedUnlessRaced'
  BY DEF PlacedUnlessRaced, Roots, RootOf
<1>2. ASSUME NEW p \in Request \ misread', Counting(p)' \/ pc'[p] = "paths"
      PROVE  /\ target'[p] = target[p]
             /\ users'[p] = users[p] /\ move'[p] = move[p] /\ leave'[p] = leave[p]
             /\ Counting(p) \/ pc[p] = "paths"
             /\ Counting(p)' => Counting(p)
             /\ p \in Request \ misread
  BY <1>2 DEF Counting
<1>3. ASSUME NEW p \in Request \ misread', Counting(p)' \/ pc'[p] = "paths", NEW u \in User,
             members'[u] \cap Below(target[p])' # {}
      PROVE  u \in users'[p]
  BY <1>2, <1>3 DEF SnapInv, Below
<1>4. ASSUME NEW p \in Request \ misread', Counting(p)', ~raced', NEW u \in User
      PROVE  /\ u \in move'[p] <=>
                   u \in users'[p] /\ HasPath(u)' /\ OnlyBelow(u, target[p])'
             /\ u \in leave'[p] <=>
                   u \in users'[p] /\ HasPath(u)' /\ LeavesOrg(u, target[p])'
  <2>1. /\ u \in move[p] <=> u \in users[p] /\ HasPath(u) /\ OnlyBelow(u, target[p])
        /\ u \in leave[p] <=> u \in users[p] /\ HasPath(u) /\ LeavesOrg(u, target[p])
    BY <1>2, <1>4 DEF SnapInv
  <2> QED
    BY <2>1, <1>2, <1>4 DEF HasPath, OnlyBelow, LeavesOrg, Below, Roots, RootOf
<1>5. SnapInv'
  BY <1>3, <1>4 DEF SnapInv, OnlyBelow, LeavesOrg, Below, Roots, RootOf
<1> QED BY <1>1, <1>5

\* A step in which one request reads of the users what is there.
LEMMA SnapOthers ==
    ASSUME SnapInv, NEW q \in Request,
           UNCHANGED <<members, unassigned, raced, target, misread>>,
           \A p \in Request \ {q} :
              /\ pc'[p] = pc[p] /\ users'[p] = users[p]
              /\ move'[p] = move[p] /\ leave'[p] = leave[p],
           q \notin misread => \A u \in User :
              members[u] \cap Below(target[q]) # {} => u \in users'[q],
           Counting(q)' =>
              \A u \in User :
                 /\ u \in move'[q] <=>
                       u \in users'[q] /\ HasPath(u) /\ OnlyBelow(u, target[q])
                 /\ u \in leave'[q] <=>
                       u \in users'[q] /\ HasPath(u) /\ LeavesOrg(u, target[q])
    PROVE  SnapInv'
<1>1. ASSUME NEW p \in Request \ misread', Counting(p)' \/ pc'[p] = "paths", NEW u \in User,
             members'[u] \cap Below(target[p])' # {}
      PROVE  u \in users'[p]
  BY <1>1 DEF SnapInv, Counting, Below
<1>2. ASSUME NEW p \in Request \ misread', Counting(p)', ~raced', NEW u \in User
      PROVE  /\ u \in move'[p] <=>
                   u \in users'[p] /\ HasPath(u)' /\ OnlyBelow(u, target[p])'
             /\ u \in leave'[p] <=>
                   u \in users'[p] /\ HasPath(u)' /\ LeavesOrg(u, target[p])'
  <2>1. /\ u \in move'[p] <=> u \in users'[p] /\ HasPath(u) /\ OnlyBelow(u, target[p])
        /\ u \in leave'[p] <=> u \in users'[p] /\ HasPath(u) /\ LeavesOrg(u, target[p])
    <3>1. CASE p = q
      BY <3>1, <1>2
    <3>2. CASE p # q
      BY <3>2, <1>2 DEF SnapInv, Counting
    <3> QED BY <3>1, <3>2
  <2> QED
    BY <2>1, <1>2 DEF HasPath, OnlyBelow, LeavesOrg, Below, Roots, RootOf
<1> QED
  BY <1>1, <1>2 DEF SnapInv, OnlyBelow, LeavesOrg, Below, Roots, RootOf

\* A transaction: whoever was in the subtree moves as the request decided, and
\* the others are where they were.
LEMMA DeletePlaces ==
    ASSUME TypeOK, AnnounceInv, SnapInv, PlacedUnlessRaced,
           NEW q \in Request, deleteDepartInfo(q), ~raced'
    PROVE  \A u \in User :
              /\ unassigned'[u] = IF members'[u] = {} THEN 1 ELSE 0
              /\ ou'[u] = Roots(members'[u])
<1> DEFINE T == target[q]
<1>1. T \in Dept /\ ~raced /\ Counting(q) /\ q \notin misread
  BY DEF deleteDepartInfo, AnnounceInv, Counting
<1> SUFFICES ASSUME NEW u \in User
             PROVE  /\ unassigned'[u] = IF members'[u] = {} THEN 1 ELSE 0
                    /\ ou'[u] = Roots(members'[u])
  OBVIOUS
<1>2. /\ unassigned[u] = IF members[u] = {} THEN 1 ELSE 0
      /\ ou[u] = Roots(members[u])
      /\ HasPath(u)
  BY <1>1 DEF PlacedUnlessRaced, HasPath
<1>3. /\ members'[u] = members[u] \ Below(T)
      /\ unassigned'[u] = IF u \in move[q] THEN unassigned[u] + 1 ELSE unassigned[u]
      /\ ou'[u] = IF u \in leave[q] THEN ou[u] \ {RootOf(T)} ELSE ou[u]
  BY DEF deleteDepartInfo
<1>4. /\ members[u] \cap Below(T) # {} => u \in users[q]
      /\ u \in move[q] <=> u \in users[q] /\ OnlyBelow(u, T)
      /\ u \in leave[q] <=> u \in users[q] /\ LeavesOrg(u, T)
  BY <1>1, <1>2 DEF SnapInv
<1>5. unassigned'[u] = IF members'[u] = {} THEN 1 ELSE 0
  BY <1>2, <1>3, <1>4 DEF OnlyBelow
<1>6. \A d \in members[u] : d \in Below(T) => RootOf(d) = RootOf(T)
  BY <1>1, SameRoot
<1>7. ou'[u] = Roots(members'[u])
  <2>1. CASE u \in leave[q]
    <3>1. RootOf(T) \notin Roots(members[u] \ Below(T))
      BY <2>1, <1>4 DEF LeavesOrg
    <3>2. Roots(members[u]) \ {RootOf(T)} = Roots(members[u] \ Below(T))
      BY <3>1, <1>6 DEF Roots
    <3> QED BY <3>2, <2>1, <1>2, <1>3 DEF Roots, RootOf
  <2>2. CASE u \notin leave[q] /\ u \in users[q]
    <3>1. RootOf(T) \in Roots(members[u] \ Below(T))
      BY <2>2, <1>4 DEF LeavesOrg
    <3>2. Roots(members[u]) = Roots(members[u] \ Below(T))
      BY <3>1, <1>6 DEF Roots
    <3> QED BY <3>2, <2>2, <1>2, <1>3
  <2>3. CASE u \notin users[q]
    <3>1. members'[u] = members[u] /\ u \notin leave[q]
      BY <2>3, <1>3, <1>4
    <3> QED BY <3>1, <1>2, <1>3
  <2> QED BY <2>1, <2>2, <2>3
<1> QED BY <1>5, <1>7

\* A transaction that overtakes nobody leaves what the others have read.
LEMMA DeleteKeeps ==
    ASSUME TypeOK, AnnounceInv, SnapInv, PlacedUnlessRaced,
           NEW q \in Request, deleteDepartInfo(q)
    PROVE  SnapInv'
<1>1. ASSUME NEW p \in Request \ misread', Counting(p)' \/ pc'[p] = "paths"
      PROVE  p # q /\ pc'[p] = pc[p]
  BY <1>1 DEF deleteDepartInfo, Counting, TypeOK
<1>2. /\ UNCHANGED <<target, misread>>
      /\ \A p \in Request \ {q} :
            users'[p] = users[p] /\ move'[p] = move[p] /\ leave'[p] = leave[p]
  BY DEF deleteDepartInfo, Forget, TypeOK
<1>3. ASSUME NEW p \in Request \ misread', Counting(p)' \/ pc'[p] = "paths", NEW u \in User,
             members'[u] \cap Below(target'[p]) # {}
      PROVE  u \in users'[p]
  <2>1. members'[u] \subseteq members[u]
    BY DEF deleteDepartInfo
  <2>2. members[u] \cap Below(target[p]) # {}
    BY <2>1, <1>2, <1>3
  <2> QED BY <2>2, <1>1, <1>2, <1>3 DEF SnapInv, Counting
<1>4. ASSUME NEW p \in Request \ misread', Counting(p)', ~raced', NEW u \in User
      PROVE  /\ u \in move'[p] <=>
                   u \in users'[p] /\ HasPath(u)' /\ OnlyBelow(u, target[p])'
             /\ u \in leave'[p] <=>
                   u \in users'[p] /\ HasPath(u)' /\ LeavesOrg(u, target[p])'
  <2>1. /\ ~raced /\ ~Overtaken(q) /\ q \notin misread /\ p \notin misread
        /\ Counting(p) /\ p \in Request \ {q} /\ Counting(q)
    BY <1>1, <1>4 DEF deleteDepartInfo, Counting
  <2>2. /\ u \in move[p] <=> u \in users[p] /\ HasPath(u) /\ OnlyBelow(u, target[p])
        /\ u \in leave[p] <=> u \in users[p] /\ HasPath(u) /\ LeavesOrg(u, target[p])
    BY <2>1 DEF SnapInv
  <2>3. CASE u \notin users[p]
    BY <2>3, <2>1, <2>2, <1>2
  <2>4. CASE u \in users[p]
    <3>1. members[u] \cap Below(target[q]) = {}
      BY <2>1, <2>4 DEF Overtaken, Counting
    <3>2. members'[u] = members[u]
      BY <3>1 DEF deleteDepartInfo, TypeOK
    <3>3. u \notin move[q]
      <4> SUFFICES ASSUME u \in move[q] PROVE FALSE
        OBVIOUS
      <4>1. unassigned[u] = 0 /\ members[u] \subseteq Below(target[q])
        BY <2>1 DEF SnapInv, OnlyBelow
      <4>2. members[u] = {}
        BY <4>1, <3>1
      <4> QED BY <4>1, <4>2, <2>1 DEF PlacedUnlessRaced
    <3>4. unassigned'[u] = unassigned[u]
      BY <3>3 DEF deleteDepartInfo
    <3> QED
      BY <2>1, <2>2, <3>2, <3>4, <1>2 DEF HasPath, OnlyBelow, LeavesOrg, Below, Roots, RootOf
  <2> QED BY <2>3, <2>4
<1> QED
  BY <1>2, <1>3, <1>4 DEF SnapInv, OnlyBelow, LeavesOrg, Below, Roots, RootOf

\* Every step keeps what was read of the users right, and the users placed.
LEMMA NextSnap ==
    ASSUME TypeOK, AnnounceInv, SnapInv, PlacedUnlessRaced, [Next]_vars
    PROVE  SnapInv' /\ PlacedUnlessRaced'
<1>1. ASSUME NEW q \in Request, NEW d \in Dept, NEW v \in User \cup {Private},
             DeleteDepart(q, d, v)
      PROVE  SnapInv' /\ PlacedUnlessRaced'
  BY <1>1, SnapIdle DEF DeleteDepart, TypeOK, dbVars
<1>2. ASSUME NEW q \in Request, CheckRole(q) PROVE SnapInv' /\ PlacedUnlessRaced'
  BY <1>2, SnapIdle DEF CheckRole, TypeOK, dbVars, reqVars
<1>3. ASSUME NEW q \in Request, CheckRange(q) PROVE SnapInv' /\ PlacedUnlessRaced'
  BY <1>3, SnapIdle DEF CheckRange, TypeOK, dbVars, reqVars
<1>4. ASSUME NEW q \in Request, GetAllSubUserIDsByDepartPath(q)
      PROVE  SnapInv' /\ PlacedUnlessRaced'
  <2>1. PlacedUnlessRaced'
    BY <1>4 DEF GetAllSubUserIDsByDepartPath, PlacedUnlessRaced, dbVars, Roots, RootOf
  <2>2. SnapInv'
    BY <1>4, SnapOthers DEF GetAllSubUserIDsByDepartPath, Counting, TypeOK, dbVars,
                            Below
  <2> QED BY <2>1, <2>2
<1>5. ASSUME NEW q \in Request, GetUsersPath(q) PROVE SnapInv' /\ PlacedUnlessRaced'
  <2>1. PlacedUnlessRaced'
    BY <1>5 DEF GetUsersPath, PlacedUnlessRaced, dbVars, Roots, RootOf
  <2>2. SnapInv'
    <3>1. q \notin misread => \A u \in User :
             members[u] \cap Below(target[q]) # {} => u \in users[q]
      BY <1>5 DEF GetUsersPath, SnapInv
    <3>2. \A u \in User :
             /\ u \in move'[q] <=> u \in users[q] /\ HasPath(u) /\ OnlyBelow(u, target[q])
             /\ u \in leave'[q] <=> u \in users[q] /\ HasPath(u) /\ LeavesOrg(u, target[q])
      BY <1>5 DEF GetUsersPath, TypeOK
    <3> QED BY <3>1, <3>2, <1>5, SnapOthers DEF GetUsersPath, TypeOK, dbVars
  <2> QED BY <2>1, <2>2
<1>6. ASSUME NEW q \in Request, GetAllSubDepartInfosByPath(q)
      PROVE  SnapInv' /\ PlacedUnlessRaced'
  BY <1>6, SnapIdle DEF GetAllSubDepartInfosByPath, TypeOK, dbVars
<1>7. ASSUME NEW q \in Request, GetAllOrgManagerIDsByDepartIDs(q)
      PROVE  SnapInv' /\ PlacedUnlessRaced'
  BY <1>7, SnapIdle DEF GetAllOrgManagerIDsByDepartIDs, TypeOK, dbVars
<1>8. ASSUME NEW q \in Request, deleteDepartInfo(q)
      PROVE  SnapInv' /\ PlacedUnlessRaced'
  <2>1. PlacedUnlessRaced'
    BY <1>8, DeletePlaces DEF PlacedUnlessRaced, Roots, RootOf
  <2> QED BY <2>1, <1>8, DeleteKeeps
<1>9. ASSUME NEW q \in Request, Fail(q) PROVE SnapInv' /\ PlacedUnlessRaced'
  BY <1>9, SnapIdle DEF Fail, Forget, TypeOK, dbVars
<1>10. ASSUME NEW d \in Dept, NEW n \in 0..4, DeptDeleted(d, n)
       PROVE  SnapInv' /\ PlacedUnlessRaced'
  BY <1>10, SnapIdle DEF DeptDeleted, dbVars, reqVars
<1>11. CASE UNCHANGED vars
  BY <1>11, SnapIdle DEF vars
<1>12. ASSUME NEW q \in Request, Misread(q) PROVE SnapInv' /\ PlacedUnlessRaced'
  <2>1. /\ UNCHANGED <<dbVars, target, raced>> /\ misread' = misread \cup {q}
        /\ \A p \in Request \ {q} :
              /\ pc'[p] = pc[p] /\ users'[p] = users[p]
              /\ move'[p] = move[p] /\ leave'[p] = leave[p]
    BY <1>12 DEF Misread, MisreadPaths, TypeOK
  <2> QED BY <2>1, SnapIdle DEF dbVars
<1>13. ASSUME NEW q \in Request, push(q) PROVE SnapInv' /\ PlacedUnlessRaced'
  BY <1>13, SnapIdle DEF push, dbVars, reqVars
<1> QED
  BY <1>1, <1>2, <1>3, <1>4, <1>5, <1>6, <1>7, <1>8, <1>9, <1>10, <1>11, <1>12,
     <1>13
  DEF Next, Step

\* As long as no deletion takes a row that another has counted on, deletions
\* leave every user in departments or once among the unassigned, and in exactly
\* the organisations of his departments.
THEOREM UsersPlaced == Spec => []PlacedUnlessRaced
<1> DEFINE Inv == TypeOK /\ AnnounceInv /\ DeletionComplete /\ ManagersInformed
                    /\ SnapInv /\ PlacedUnlessRaced
<1>1. Init => Inv
  BY InitInv
<1>2. Inv /\ [Next]_vars => Inv'
  BY NextTypeOK, NextAnnounce, NextSnap DEF Announced
<1> QED BY <1>1, <1>2, PTL DEF Spec
=============================================================================
