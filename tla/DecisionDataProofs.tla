------------------------- MODULE DecisionDataProofs -------------------------
(***************************************************************************)
(* Proofs about DecisionData, for every set of replicas, departments and   *)
(* address families and everything administrators may set: the outbox of   *)
(* announcements implements EventDelivery, and a replica that has handled  *)
(* its announcements answers as the database says, unless one of the known *)
(* excuses applies.                                                        *)
(***************************************************************************)
EXTENDS DecisionData, FiniteSetTheorems, TLAPS

UserType == [known : BOOLEAN, depts : SUBSET Dept, own : BOOLEAN]

\* A thread that reads everything, and the handler of changes, whose rules may
\* be cut short.
Task ==
    [step : {"idle"}] \cup
    [step : {"rules", "members", "client", "install", "decisionQuery", "queryQuery"},
     old : StoreType, late : BOOLEAN, new : StoreType]
Rules ==
    [enabled : BOOLEAN, client : BOOLEAN, rel : SUBSET (Dept \X Family), own : SUBSET Family]
Patcher ==
    [step : {"idle"}] \cup
    [step : {"rules"}, paths : SUBSET Dept, late : BOOLEAN, rules : Rules] \cup
    [step : {"open", "orphan"}, paths : SUBSET Dept, late : BOOLEAN,
     rules : Rules, mine : Memberships]

\* A thread is through with its reads and its store.
Done == {"idle", "decisionQuery", "queryQuery"}

Excuses ==
    {"unsent", "deaf", "missed", "dropped", "misread", "raced", "mixed", "inexact"}

\* The types of the database and the outbox; what a dispatcher has sent is in
\* the log.
OutboxShape ==
    /\ settings \in Settings /\ member \in Memberships
    /\ about \in Seq([chan : Channel, paths : SUBSET Dept])
    /\ Len(about) \in 0..MaxWrites
    /\ rows \subseteq 1..Len(about) /\ owed \subseteq 1..Len(about)
    /\ owed \cap rows = {} /\ settled \cap (owed \cup rows) = {}
    /\ settled \subseteq 1..Len(about)
    /\ dispatch = {} \/ \E m \in rows : dispatch = {m}
    /\ sent \in BOOLEAN /\ (sent => dispatch # {})
    /\ log \in Seq(Nat)
    /\ sent => \A m \in dispatch : \E i \in 1..Len(log) : log[i] = m

\* The types of a replica; only one that is up serves messages.
ReplicaShape ==
    /\ phase \in [Replica -> {"down", "load", "up"}]
    /\ store \in [Replica -> StoreType]
    /\ sub \in [Replica -> SUBSET Channel]
    /\ inbox \in [Replica -> [Channel -> Seq(1..Len(about))]]
    /\ thread \in [Replica -> [Reader -> Task]]
    /\ change \in [Replica -> Patcher]
    /\ excuse \in [Replica -> SUBSET Excuses]
    /\ \A r \in Replica :
          /\ sub[r] # {} => phase[r] = "up"
          /\ \A c \in Channel : inbox[r][c] # <<>> => c \in sub[r]
          /\ (thread[r]["load"].step # "idle") <=> phase[r] = "load"
          /\ thread[r]["timer"].step # "idle" => phase[r] = "up"
          /\ thread[r]["init"].step # "idle" => phase[r] = "up"
          /\ change[r].step # "idle" => phase[r] = "up"

-----------------------------------------------------------------------------
(* Types of the operators.                                                 *)

\* What a record of the settings holds.
LEMMA SettingsFields ==
    ASSUME NEW s \in Settings
    PROVE  /\ s.enabled \in BOOLEAN /\ s.client \in BOOLEAN
           /\ s.rel \subseteq Dept \X Family /\ s.own \subseteq Family
  BY DecisionDataAssumption

\* The entries getAllPolicies makes.
LEMMA UserDataType ==
    ASSUME NEW rel \in SUBSET (Dept \X Family), NEW own, NEW m \in SUBSET Dept
    PROVE  UserData(rel, own, m) \in [Family -> UserType]
  BY DEF UserData, UserType

\* An entry that is not there.
LEMMA NobodyType == Nobody \in [Family -> UserType]
  BY DEF Nobody, UserType

\* A store, by its fields.
LEMMA StoreFields ==
    ASSUME NEW d \in StoreType
    PROVE  /\ d.enabled \in BOOLEAN /\ d.client \in BOOLEAN
           /\ d.rel \in SUBSET (Dept \X Family) /\ d.users \in [Family -> UserType]
           /\ d = [enabled |-> d.enabled, client |-> d.client, rel |-> d.rel,
                   users |-> d.users]
  BY DEF StoreType, UserType

\* A store of which one field changes.
LEMMA StoreExcept ==
    ASSUME NEW d \in StoreType, NEW v
    PROVE  /\ [d EXCEPT !.enabled = v] = [enabled |-> v, client |-> d.client,
                                          rel |-> d.rel, users |-> d.users]
           /\ [d EXCEPT !.client = v] = [enabled |-> d.enabled, client |-> v,
                                         rel |-> d.rel, users |-> d.users]
           /\ [d EXCEPT !.rel = v] = [enabled |-> d.enabled, client |-> d.client,
                                      rel |-> v, users |-> d.users]
           /\ [d EXCEPT !.users = v] = [enabled |-> d.enabled, client |-> d.client,
                                        rel |-> d.rel, users |-> v]
  BY DEF StoreType

\* Fields of the right types make a store.
LEMMA StoreMade ==
    ASSUME NEW e \in BOOLEAN, NEW c \in BOOLEAN, NEW rel \in SUBSET (Dept \X Family),
           NEW users \in [Family -> UserType]
    PROVE  [enabled |-> e, client |-> c, rel |-> rel, users |-> users] \in StoreType
  BY DEF StoreType, UserType

\* A field that changes for one of its type leaves a store.
LEMMA StoreUpdate ==
    ASSUME NEW d \in StoreType
    PROVE  /\ \A c \in BOOLEAN : [d EXCEPT !.client = c] \in StoreType
           /\ \A rel \in SUBSET (Dept \X Family) : [d EXCEPT !.rel = rel] \in StoreType
           /\ \A users \in [Family -> UserType] : [d EXCEPT !.users = users] \in StoreType
  <1>1. \A c \in BOOLEAN : [d EXCEPT !.client = c] \in StoreType
    BY DEF StoreType
  <1>2. \A rel \in SUBSET (Dept \X Family) : [d EXCEPT !.rel = rel] \in StoreType
    BY DEF StoreType
  <1>3. \A users \in [Family -> UserType] : [d EXCEPT !.users = users] \in StoreType
    BY DEF StoreType, UserType
  <1> QED BY <1>1, <1>2, <1>3

\* What getOPAData returns is a store.
LEMMA OPADataType ==
    ASSUME NEW s \in Settings, NEW m \in SUBSET Dept
    PROVE  OPAData(s, m) \in StoreType
  <1>1. s.rel \in SUBSET (Dept \X Family) /\ s.enabled \in BOOLEAN /\ s.client \in BOOLEAN
    BY SettingsFields
  <1>2. UserData(s.rel, s.own, m) \in [Family -> UserType]
    BY <1>1, UserDataType
  <1> QED BY <1>1, <1>2, NobodyType, StoreMade DEF OPAData

\* The store of a replica that starts.
LEMMA EmptyStore ==
    /\ Empty = [enabled |-> FALSE, client |-> FALSE, rel |-> {}, users |-> Nobody]
    /\ Empty \in StoreType
  <1>1. Empty = [enabled |-> FALSE, client |-> FALSE, rel |-> {}, users |-> Nobody]
    BY DEF Empty, OPAData
  <1> QED BY <1>1, NobodyType, StoreMade

\* A patch of an entry is an entry.
LEMMA PatchUserType ==
    ASSUME NEW u \in UserType, NEW s, NEW m \in SUBSET Dept, NEW f \in Family
    PROVE  PatchUser(u, s, m, f) \in UserType
  <1>1. Ids(s, m, f) \in SUBSET Dept
    BY DEF Ids
  <1>2. Nobody[f] \in UserType
    BY NobodyType
  <1>3. \A D \in SUBSET Dept : [u EXCEPT !.depts = D] \in UserType
    BY DEF UserType
  <1>4. [known |-> TRUE, depts |-> Ids(s, m, f), own |-> FALSE] \in UserType
    BY <1>1 DEF UserType
  <1> HIDE DEF UserType
  <1> QED BY <1>1, <1>2, <1>3, <1>4 DEF PatchUser

\* Whether incrementalUpdateData changes anything.
Patches(d, s, paths) == d.enabled /\ paths \cap Ruled(s.rel) # {}

\* The store a patch leaves.
LEMMA PatchStore ==
    ASSUME NEW d \in StoreType, NEW s, NEW m \in SUBSET Dept, NEW paths,
           NEW e, e = Patch(d, s, m, paths)
    PROVE  /\ e \in StoreType /\ e.enabled = d.enabled /\ e.client = d.client
           /\ e.rel = d.rel
           /\ Patches(d, s, paths) =>
                 \A f \in Family : e.users[f] = PatchUser(d.users[f], s, m, f)
           /\ ~Patches(d, s, paths) => e = d
  <1> DEFINE users == [f \in Family |-> PatchUser(d.users[f], s, m, f)]
  <1>1. users \in [Family -> UserType]
    BY StoreFields, PatchUserType
  <1>2. Patches(d, s, paths) =>
           Patch(d, s, m, paths) = [enabled |-> d.enabled, client |-> d.client,
                                    rel |-> d.rel, users |-> users]
    <2>1. Patches(d, s, paths) =>
             Patch(d, s, m, paths) = [d EXCEPT !.users = users]
      BY DEF Patch, Patches
    <2> HIDE DEF users
    <2>2. [d EXCEPT !.users = users] = [enabled |-> d.enabled, client |-> d.client,
                                        rel |-> d.rel, users |-> users]
      BY DEF StoreType
    <2> QED BY <2>1, <2>2
  <1>3. ~Patches(d, s, paths) => Patch(d, s, m, paths) = d
    BY DEF Patch, Patches
  <1>4. \A f \in Family : users[f] = PatchUser(d.users[f], s, m, f)
    OBVIOUS
  <1> HIDE DEF users
  <1>5. [enabled |-> d.enabled, client |-> d.client, rel |-> d.rel, users |-> users]
           \in StoreType
    BY <1>1, StoreFields, StoreMade
  <1> QED BY <1>2, <1>3, <1>4, <1>5

-----------------------------------------------------------------------------
(* The threads of a replica.                                               *)

\* A thread, by its fields.
LEMMA TaskFields ==
    ASSUME NEW x \in Task
    PROVE  /\ x.step \in {"idle", "rules", "members", "client", "install",
                        "decisionQuery", "queryQuery"}
           /\ x.step = "idle" => x = [step |-> "idle"]
           /\ x.step # "idle" =>
                 /\ x.late \in BOOLEAN /\ x.new \in StoreType /\ x.old \in StoreType
                 /\ x = [step |-> x.step, old |-> x.old, late |-> x.late, new |-> x.new]
  BY DEF Task

\* The states of a thread that the actions make.
LEMMA TaskMade ==
    /\ [step |-> "idle"] \in Task
    /\ \A step \in {"rules", "members", "client", "install", "decisionQuery", "queryQuery"},
          old, new \in StoreType, late \in BOOLEAN :
          [step |-> step, old |-> old, late |-> late, new |-> new] \in Task
  BY DEF Task

\* The handler of changes, by its fields.
LEMMA PatcherFields ==
    ASSUME NEW c \in Patcher
    PROVE  /\ c.step \in {"idle", "rules", "open", "orphan"}
           /\ c.step = "idle" => c = [step |-> "idle"]
           /\ c.step # "idle" =>
                 c.paths \in SUBSET Dept /\ c.late \in BOOLEAN /\ c.rules \in Rules
           /\ c.step = "rules" =>
                 c = [step |-> "rules", paths |-> c.paths, late |-> c.late, rules |-> c.rules]
           /\ c.step \in {"open", "orphan"} =>
                 /\ c.mine \in Memberships
                 /\ c = [step |-> c.step, paths |-> c.paths, late |-> c.late,
                         rules |-> c.rules, mine |-> c.mine]
  BY DEF Patcher

\* The states of the handler of changes that the actions make.
LEMMA PatcherMade ==
    /\ [step |-> "idle"] \in Patcher
    /\ \A paths \in SUBSET Dept, late \in BOOLEAN, rules \in Rules :
          [step |-> "rules", paths |-> paths, late |-> late, rules |-> rules] \in Patcher
    /\ \A step \in {"open", "orphan"}, paths \in SUBSET Dept, late \in BOOLEAN,
          rules \in Rules, mine \in Memberships :
          [step |-> step, paths |-> paths, late |-> late, rules |-> rules,
           mine |-> mine] \in Patcher
  BY DEF Patcher

\* One thread of one replica changes.
LEMMA OneTask ==
    ASSUME NEW th \in [Replica -> [Reader -> Task]], NEW r \in Replica,
           NEW t \in Reader, NEW x \in Task,
           NEW next, next = [th EXCEPT ![r][t] = x]
    PROVE  /\ next \in [Replica -> [Reader -> Task]]
           /\ next[r][t] = x
           /\ \A s \in Reader \ {t} : next[r][s] = th[r][s]
           /\ \A v \in Replica \ {r} : next[v] = th[v]
  OBVIOUS

\* getOPAData begins: only the switch is known.
LEMMA BeginMoves ==
    ASSUME OutboxShape, ReplicaShape, NEW r \in Replica, NEW t \in Reader, Begin(r, t)
    PROVE  /\ thread[r][t].step = "idle"
           /\ thread' \in [Replica -> [Reader -> Task]]
           /\ thread'[r][t].step = IF settings.enabled THEN "rules" ELSE "client"
           /\ thread'[r][t].late = FALSE
           /\ thread'[r][t].new = [enabled |-> settings.enabled, client |-> FALSE,
                                   rel |-> {}, users |-> Nobody]
           /\ \A s \in Reader \ {t} : thread'[r][s] = thread[r][s]
           /\ \A v \in Replica \ {r} : thread'[v] = thread[v]
  <1>1. settings.enabled \in BOOLEAN
    BY SettingsFields DEF OutboxShape
  <1> DEFINE new == [Empty EXCEPT !.enabled = settings.enabled]
             old == IF t = "timer" THEN store[r] ELSE Empty
             step == IF settings.enabled THEN "rules" ELSE "client"
             x == [step |-> step, old |-> old, late |-> FALSE, new |-> new]
  <1>2. new = [enabled |-> settings.enabled, client |-> FALSE, rel |-> {}, users |-> Nobody]
    BY EmptyStore, StoreExcept
  <1>3. new \in StoreType
    <2> HIDE DEF new
    <2> QED BY <1>1, <1>2, NobodyType, StoreMade
  <1>4. old \in StoreType
    BY EmptyStore DEF ReplicaShape
  <1>5. thread' = [thread EXCEPT ![r][t] = x] /\ thread[r][t].step = "idle"
    BY DEF Begin
  <1> HIDE DEF new, old
  <1>6. x \in Task
    BY <1>3, <1>4, TaskMade
  <1>7. x.step = step /\ x.late = FALSE /\ x.new = new
    OBVIOUS
  <1> HIDE DEF x
  <1>8. PICK k : k = x
    OBVIOUS
  <1>9. thread \in [Replica -> [Reader -> Task]]
    BY DEF ReplicaShape
  <1>10. /\ thread' \in [Replica -> [Reader -> Task]]
         /\ thread'[r][t] = k
         /\ \A s \in Reader \ {t} : thread'[r][s] = thread[r][s]
         /\ \A v \in Replica \ {r} : thread'[v] = thread[v]
    BY <1>5, <1>6, <1>8, <1>9, OneTask
  <1> QED BY <1>2, <1>5, <1>7, <1>8, <1>10

\* getOPAData goes on.
LEMMA ReadMoves ==
    ASSUME OutboxShape, ReplicaShape, NEW r \in Replica, NEW t \in Reader,
           GetOPAData(r, t)
    PROVE  /\ thread[r][t].step \in {"rules", "members", "client"}
           /\ thread' \in [Replica -> [Reader -> Task]]
           /\ thread'[r][t].step = NextStep(thread[r][t].step)
           /\ thread'[r][t].late = thread[r][t].late
           /\ thread'[r][t].new = ReadPart(thread[r][t])
           /\ \A s \in Reader \ {t} : thread'[r][s] = thread[r][s]
           /\ \A v \in Replica \ {r} : thread'[v] = thread[v]
  <1> DEFINE y == thread[r][t]
  <1>1. thread \in [Replica -> [Reader -> Task]]
    BY DEF ReplicaShape
  <1>2. y \in Task /\ y.step \in {"rules", "members", "client"}
    BY <1>1 DEF GetOPAData
  <1>3. PICK x \in Task : x = y
    BY <1>2
  <1>4. /\ x.step \in {"rules", "members", "client"}
        /\ x.new \in StoreType /\ x.old \in StoreType /\ x.late \in BOOLEAN
        /\ x = [step |-> x.step, old |-> x.old, late |-> x.late, new |-> x.new]
    BY <1>2, <1>3, TaskFields
  <1>5. ReadPart(x) \in StoreType
    <2>1. /\ settings.rel \in SUBSET (Dept \X Family) /\ settings.client \in BOOLEAN
          /\ member \in SUBSET Dept
      BY SettingsFields, DecisionDataAssumption DEF OutboxShape
    <2>2. \A own : /\ UserData({}, own, {}) \in [Family -> UserType]
                   /\ UserData(x.new.rel, own, member) \in [Family -> UserType]
      BY <1>4, <2>1, UserDataType, StoreFields
    <2>3. CASE x.step = "rules"
      <3>1. ReadPart(x) = [x.new EXCEPT !.rel = settings.rel,
                                        !.users = UserData({}, settings.own, {})]
        BY <2>3 DEF ReadPart
      <3>2. PICK d : d = [x.new EXCEPT !.rel = settings.rel]
        OBVIOUS
      <3>3. d \in StoreType
        BY <1>4, <2>1, <3>2, StoreUpdate
      <3>4. [d EXCEPT !.users = UserData({}, settings.own, {})] \in StoreType
        BY <2>2, <3>3, StoreUpdate
      <3> QED BY <3>1, <3>2, <3>4
    <2>4. CASE x.step = "members"
      <3>1. PICK own : own = {f \in Family : x.new.users[f].own}
        OBVIOUS
      <3>2. ReadPart(x) = [x.new EXCEPT !.users = UserData(x.new.rel, own, member)]
        BY <2>4, <3>1 DEF ReadPart
      <3> QED BY <1>4, <2>2, <3>2, StoreUpdate
    <2>5. CASE x.step = "client"
      <3>1. ReadPart(x) = [x.new EXCEPT !.client = settings.client]
        BY <2>5 DEF ReadPart
      <3> QED BY <1>4, <2>1, <3>1, StoreUpdate
    <2> QED BY <1>4, <2>3, <2>4, <2>5
  <1>6. NextStep(x.step) \in {"members", "client", "install"}
    BY <1>4 DEF NextStep
  <1>7. PICK z : z = [x EXCEPT !.new = ReadPart(x), !.step = NextStep(x.step)]
    OBVIOUS
  <1>8. z = [step |-> NextStep(x.step), old |-> x.old, late |-> x.late, new |-> ReadPart(x)]
    BY <1>4, <1>7
  <1>9. z \in Task
    BY <1>4, <1>5, <1>6, <1>8, TaskMade
  <1>10. thread' = [thread EXCEPT ![r][t] = z]
    BY <1>3, <1>7 DEF GetOPAData
  <1>11. /\ thread' \in [Replica -> [Reader -> Task]]
         /\ thread'[r][t] = z
         /\ \A s \in Reader \ {t} : thread'[r][s] = thread[r][s]
         /\ \A v \in Replica \ {r} : thread'[v] = thread[v]
    BY <1>1, <1>9, <1>10, OneTask
  <1>12. z.step = NextStep(x.step) /\ z.late = x.late /\ z.new = ReadPart(x)
    BY <1>8
  <1> QED BY <1>3, <1>4, <1>11, <1>12

\* The reads of a thread are outdated.
LEMMA TaskLate ==
    ASSUME NEW x \in Task, x.step # "idle"
    PROVE  LET y == [x EXCEPT !.late = TRUE]
           IN  y \in Task /\ y.step = x.step /\ y.late = TRUE
  <1>1. PICK y : y = [x EXCEPT !.late = TRUE]
    OBVIOUS
  <1>2. y = [step |-> x.step, old |-> x.old, late |-> TRUE, new |-> x.new]
    BY <1>1 DEF Task
  <1>3. y \in Task
    <2>1. x.step \in {"rules", "members", "client", "install", "decisionQuery", "queryQuery"}
          /\ x.old \in StoreType /\ x.new \in StoreType
      BY TaskFields
    <2> QED BY <1>2, <2>1, TaskMade
  <1> QED BY <1>1, <1>2, <1>3

\* What becomes of a thread when the store is patched, or replaced.
LEMMA OvertakeMoves ==
    ASSUME NEW x \in Task
    PROVE  /\ Overtake(x) \in Task /\ Overtake(x).step = x.step
           /\ x.step \notin Done => Overtake(x).late = TRUE
  BY TaskLate DEF Overtake, Done, Query

LEMMA ReplacedMoves ==
    ASSUME NEW x \in Task, NEW old \in StoreType
    PROVE  /\ Replaced(x, old) \in Task /\ Replaced(x, old).step = x.step
           /\ x.step \notin Done => Replaced(x, old).late = TRUE
  <1>1. CASE x.step \in Query /\ ~x.late
    <2>1. PICK y : y = [x EXCEPT !.late = TRUE, !.new = old]
      OBVIOUS
    <2>2. x.step \in {"decisionQuery", "queryQuery"} /\ x.step # "idle"
      BY <1>1 DEF Query
    <2>3. y = [step |-> x.step, old |-> x.old, late |-> TRUE, new |-> old]
          /\ x.old \in StoreType
      BY <2>1, <2>2 DEF Task
    <2>4. y \in Task /\ y.step = x.step
      BY <2>2, <2>3, TaskMade
    <2>5. Replaced(x, old) = y
      BY <1>1, <2>1 DEF Replaced
    <2> QED BY <2>2, <2>4, <2>5 DEF Done
  <1>2. CASE ~(x.step \in Query /\ ~x.late)
    <2>1. Replaced(x, old) = Overtake(x)
      BY <1>2 DEF Replaced
    <2> QED BY <2>1, OvertakeMoves
  <1> QED BY <1>1, <1>2

\* What becomes of the handler of changes.
LEMMA OvertakeChangeMoves ==
    ASSUME NEW c \in Patcher
    PROVE  /\ OvertakeChange(c) \in Patcher
           /\ c.step = "idle" => OvertakeChange(c) = c
           /\ c.step # "idle" =>
                 /\ OvertakeChange(c).step # "idle" /\ OvertakeChange(c).step # "open"
                 /\ OvertakeChange(c).paths = c.paths
                 /\ OvertakeChange(c).step = "rules" => OvertakeChange(c).late
  <1>1. CASE c.step = "open"
    <2>1. OvertakeChange(c) = [c EXCEPT !.step = "orphan"]
      BY <1>1 DEF OvertakeChange
    <2>2. OvertakeChange(c) = [step |-> "orphan", paths |-> c.paths, late |-> c.late,
                               rules |-> c.rules, mine |-> c.mine]
      BY <1>1, <2>1, PatcherFields
    <2>3. OvertakeChange(c) \in Patcher
      BY <1>1, <2>2, PatcherFields, PatcherMade
    <2> QED BY <1>1, <2>2, <2>3
  <1>2. CASE c.step = "rules"
    <2>1. OvertakeChange(c) = [c EXCEPT !.late = TRUE]
      BY <1>2 DEF OvertakeChange
    <2>2. OvertakeChange(c) = [step |-> "rules", paths |-> c.paths, late |-> TRUE,
                               rules |-> c.rules]
      BY <1>2, <2>1, PatcherFields
    <2>3. OvertakeChange(c) \in Patcher
      <3>1. c.paths \in SUBSET Dept /\ c.rules \in Rules
        BY <1>2, PatcherFields
      <3> QED BY <2>2, <3>1, PatcherMade
    <2> QED BY <1>2, <2>2, <2>3
  <1>3. CASE c.step \in {"idle", "orphan"}
    BY <1>3 DEF OvertakeChange
  <1> QED BY <1>1, <1>2, <1>3, PatcherFields

\* Only replica r moves.
Elsewhere(r) ==
    \A v \in Replica \ {r} :
        /\ phase'[v] = phase[v] /\ store'[v] = store[v] /\ sub'[v] = sub[v]
        /\ inbox'[v] = inbox[v] /\ thread'[v] = thread[v] /\ change'[v] = change[v]
        /\ excuse'[v] = excuse[v]

\* The database and the outbox stay as they are.
OutboxStays == UNCHANGED <<db, outbox, owed, about>>

\* A thread is through with its reads and replaces the store.
LEMMA InstallMoves ==
    ASSUME ReplicaShape, NEW r \in Replica, NEW t \in Reader, Install(r, t)
    PROVE  /\ OutboxStays /\ Elsewhere(r)
           /\ thread[r][t].step = "install"
           /\ phase' = phase /\ sub' = sub /\ inbox' = inbox
           /\ store' \in [Replica -> StoreType]
           /\ thread' \in [Replica -> [Reader -> Task]]
           /\ change' \in [Replica -> Patcher]
           /\ excuse' \in [Replica -> SUBSET Excuses]
           /\ store'[r] = thread[r][t].new
           /\ thread'[r][t].step = "decisionQuery"
           /\ \A s \in Reader \ {t} :
                 /\ thread'[r][s].step = thread[r][s].step
                 /\ thread[r][s].step \notin Done => thread'[r][s].late
           /\ change'[r] = OvertakeChange(change[r])
           /\ thread[r][t].late => excuse'[r] # {}
           /\ excuse[r] # {} => excuse'[r] # {}
  <1>1. PICK x \in Task : x = thread[r][t]
    BY DEF ReplicaShape
  <1>2. PICK old \in StoreType : old = store[r]
    BY DEF ReplicaShape
  <1>2a. PICK y : y = [x EXCEPT !.step = "decisionQuery", !.late = FALSE]
    OBVIOUS
  <1> DEFINE th == [s \in Reader |-> IF s = t THEN y ELSE Replaced(thread[r][s], old)]
  <1>3. /\ x.step = "install"
        /\ store' = [store EXCEPT ![r] = x.new]
        /\ thread' = [thread EXCEPT ![r] = th]
        /\ change' = [change EXCEPT ![r] = OvertakeChange(@)]
        /\ excuse' = IF x.late THEN Excuse({r}, "raced") ELSE excuse
        /\ OutboxStays /\ phase' = phase /\ sub' = sub /\ inbox' = inbox
    BY <1>1, <1>2, <1>2a DEF Install, OutboxStays
  <1>4. x.new \in StoreType
    BY <1>3, TaskFields
  <1>5. y \in Task /\ y.step = "decisionQuery"
    <2>1. y = [step |-> "decisionQuery", old |-> x.old, late |-> FALSE, new |-> x.new]
          /\ x.old \in StoreType
      BY <1>3, <1>2a DEF Task
    <2> QED BY <1>4, <2>1, TaskMade
  <1>6. /\ th \in [Reader -> Task] /\ th[t] = y
        /\ \A s \in Reader \ {t} :
              /\ th[s].step = thread[r][s].step
              /\ thread[r][s].step \notin Done => th[s].late
    <2>1. \A s \in Reader : thread[r][s] \in Task
      BY DEF ReplicaShape
    <2>2. \A s \in Reader \ {t} :
             /\ Replaced(thread[r][s], old) \in Task
             /\ Replaced(thread[r][s], old).step = thread[r][s].step
             /\ thread[r][s].step \notin Done => Replaced(thread[r][s], old).late = TRUE
      BY <2>1, ReplacedMoves
    <2> QED BY <1>5, <2>2
  <1> HIDE DEF th
  <1>7. /\ store' \in [Replica -> StoreType] /\ store'[r] = x.new
        /\ \A v \in Replica \ {r} : store'[v] = store[v]
    BY <1>3, <1>4 DEF ReplicaShape
  <1>8. /\ change' \in [Replica -> Patcher] /\ change'[r] = OvertakeChange(change[r])
        /\ \A v \in Replica \ {r} : change'[v] = change[v]
    <2>1. change[r] \in Patcher
      BY DEF ReplicaShape
    <2>2. OvertakeChange(change[r]) \in Patcher
      BY <2>1, OvertakeChangeMoves
    <2> QED BY <1>3, <2>2 DEF ReplicaShape
  <1>9. /\ thread' \in [Replica -> [Reader -> Task]] /\ thread'[r] = th
        /\ \A v \in Replica \ {r} : thread'[v] = thread[v]
    BY <1>3, <1>6 DEF ReplicaShape
  <1>10. /\ excuse' \in [Replica -> SUBSET Excuses]
         /\ \A v \in Replica \ {r} : excuse'[v] = excuse[v]
         /\ x.late => excuse'[r] # {}
         /\ excuse[r] # {} => excuse'[r] # {}
    <2>1. CASE x.late
      <3>1. excuse' = [v \in Replica |-> IF v \in {r} THEN excuse[v] \cup {"raced"}
                                         ELSE excuse[v]]
        BY <1>3, <2>1 DEF Excuse
      <3> QED BY <3>1 DEF ReplicaShape, Excuses
    <2>2. CASE ~x.late
      BY <1>3, <2>2 DEF ReplicaShape
    <2> QED BY <2>1, <2>2
  <1>11. Elsewhere(r)
    BY <1>3, <1>7, <1>8, <1>9, <1>10 DEF Elsewhere
  <1> QED BY <1>1, <1>3, <1>5, <1>6, <1>7, <1>8, <1>9, <1>10, <1>11

\* It assigns a query; after the last one the replica is up.
LEMMA AssignMoves ==
    ASSUME ReplicaShape, NEW r \in Replica, NEW t \in Reader, Assign(r, t)
    PROVE  /\ OutboxStays /\ Elsewhere(r)
           /\ UNCHANGED <<store, sub, inbox, change>>
           /\ phase' \in [Replica -> {"down", "load", "up"}]
           /\ thread' \in [Replica -> [Reader -> Task]]
           /\ excuse' \in [Replica -> SUBSET Excuses]
           /\ \A s \in Reader \ {t} : thread'[r][s] = thread[r][s]
           /\ \/ /\ thread[r][t].step = "decisionQuery"
                 /\ thread'[r][t].step = "queryQuery" /\ phase' = phase
              \/ /\ thread[r][t].step = "queryQuery"
                 /\ thread'[r][t].step = "idle" /\ phase'[r] = "up"
           /\ thread[r][t].late => excuse'[r] # {}
           /\ ~thread[r][t].late => excuse' = excuse
           /\ excuse[r] # {} => excuse'[r] # {}
  <1>1. PICK x \in Task : x = thread[r][t]
    BY DEF ReplicaShape
  <1> DEFINE y == IF x.step = "queryQuery" THEN [step |-> "idle"]
                  ELSE [x EXCEPT !.step = "queryQuery"]
  <1>2. /\ x.step \in {"decisionQuery", "queryQuery"}
        /\ thread' = [thread EXCEPT ![r][t] = y]
        /\ phase' = IF x.step = "queryQuery" THEN [phase EXCEPT ![r] = "up"] ELSE phase
        /\ excuse' = IF x.late THEN Excuse({r}, "mixed") ELSE excuse
        /\ OutboxStays /\ UNCHANGED <<store, sub, inbox, change>>
    BY <1>1 DEF Assign, OutboxStays, Query
  <1>3. /\ y \in Task
        /\ x.step = "queryQuery" => y.step = "idle"
        /\ x.step = "decisionQuery" => y.step = "queryQuery"
    <2>1. CASE x.step = "queryQuery"
      BY <2>1, TaskMade
    <2>2. CASE x.step = "decisionQuery"
      <3>1. /\ x = [step |-> x.step, old |-> x.old, late |-> x.late, new |-> x.new]
            /\ x.old \in StoreType /\ x.new \in StoreType /\ x.late \in BOOLEAN
        BY <2>2, TaskFields
      <3>2. y = [step |-> "queryQuery", old |-> x.old, late |-> x.late, new |-> x.new]
        BY <2>2, <3>1
      <3> HIDE DEF y
      <3> QED BY <2>2, <3>1, <3>2, TaskMade
    <2> QED BY <1>2, <2>1, <2>2
  <1> HIDE DEF y
  <1>4. thread \in [Replica -> [Reader -> Task]]
    BY DEF ReplicaShape
  <1>5. /\ thread' \in [Replica -> [Reader -> Task]]
        /\ thread'[r][t] = y
        /\ \A s \in Reader \ {t} : thread'[r][s] = thread[r][s]
        /\ \A v \in Replica \ {r} : thread'[v] = thread[v]
    <2>1. PICK k : k = y
      OBVIOUS
    <2>2. k \in Task /\ thread' = [thread EXCEPT ![r][t] = k]
      BY <1>2, <1>3, <2>1
    <2> QED BY <1>4, <2>1, <2>2, OneTask
  <1>6. /\ phase' \in [Replica -> {"down", "load", "up"}]
        /\ \A v \in Replica \ {r} : phase'[v] = phase[v]
        /\ x.step = "queryQuery" => phase'[r] = "up"
        /\ x.step = "decisionQuery" => phase' = phase
    BY <1>2 DEF ReplicaShape
  <1>7. /\ excuse' \in [Replica -> SUBSET Excuses]
        /\ \A v \in Replica \ {r} : excuse'[v] = excuse[v]
        /\ x.late => excuse'[r] # {}
        /\ ~x.late => excuse' = excuse
        /\ excuse[r] # {} => excuse'[r] # {}
    <2>1. CASE x.late
      <3>1. excuse' = [v \in Replica |-> IF v \in {r} THEN excuse[v] \cup {"mixed"}
                                         ELSE excuse[v]]
        BY <1>2, <2>1 DEF Excuse
      <3> QED BY <2>1, <3>1 DEF ReplicaShape, Excuses
    <2>2. CASE ~x.late
      BY <1>2, <2>2 DEF ReplicaShape
    <2> QED BY <2>1, <2>2
  <1>8. Elsewhere(r)
    BY <1>2, <1>5, <1>6, <1>7 DEF Elsewhere
  <1> QED BY <1>1, <1>2, <1>3, <1>5, <1>6, <1>7, <1>8

-----------------------------------------------------------------------------
(* The types are invariant.                                                *)

\* A sequence of messages is one of more messages.
LEMMA MoreMessages ==
    ASSUME NEW a \in Nat, NEW b \in Nat, a <= b, NEW s \in Seq(1..a)
    PROVE  s \in Seq(1..b)
  <1>1. \A i \in 1..Len(s) : s[i] \in 1..b
    OBVIOUS
  <1> QED BY <1>1

\* An element of a sequence.
LEMMA ElementOf ==
    ASSUME NEW S, NEW s \in Seq(S), NEW i \in 1..Len(s)
    PROVE  s[i] \in S
  OBVIOUS

\* A sequence with one more element.
LEMMA AppendOf ==
    ASSUME NEW S, NEW s \in Seq(S), NEW x \in S
    PROVE  /\ Append(s, x) \in Seq(S) /\ Len(s) \in Nat
           /\ Len(Append(s, x)) = Len(s) + 1
           /\ \A i \in 1..Len(s) : Append(s, x)[i] = s[i]
           /\ Append(s, x)[Len(s) + 1] = x
           /\ Append(s, x) # <<>>
  OBVIOUS

\* What a message says.
LEMMA AboutFields ==
    ASSUME OutboxShape, NEW m \in 1..Len(about)
    PROVE  about[m].paths \in SUBSET Dept /\ about[m].chan \in Channel
  <1>1. about \in Seq([chan : Channel, paths : SUBSET Dept])
    BY DEF OutboxShape
  <1>2. about[m] \in [chan : Channel, paths : SUBSET Dept]
    BY <1>1, ElementOf
  <1> QED BY <1>2

\* The messages after an announcement.
LEMMA AnnounceMoves ==
    ASSUME OutboxShape, NEW c \in Channel, NEW paths \in SUBSET Dept, Announce(c, paths)
    PROVE  /\ about' \in Seq([chan : Channel, paths : SUBSET Dept])
           /\ Len(about') = Len(about) + 1 /\ Len(about') \in 0..MaxWrites
           /\ owed' = owed \cup {Len(about')}
           /\ \A i \in 1..Len(about) : about'[i] = about[i]
           /\ about'[Len(about')] = [chan |-> c, paths |-> paths]
  <1>1. PICK a : a = [chan |-> c, paths |-> paths]
    OBVIOUS
  <1>2. a \in [chan : Channel, paths : SUBSET Dept]
    BY <1>1
  <1>3. about' = Append(about, a) /\ Len(about) < MaxWrites /\ owed' = owed \cup {Len(about) + 1}
    BY <1>1 DEF Announce
  <1>4. about \in Seq([chan : Channel, paths : SUBSET Dept]) /\ MaxWrites \in Nat
    BY DecisionDataAssumption DEF OutboxShape
  <1>5. /\ about' \in Seq([chan : Channel, paths : SUBSET Dept])
        /\ Len(about') = Len(about) + 1
        /\ \A i \in 1..Len(about) : about'[i] = about[i]
        /\ about'[Len(about) + 1] = a
    BY <1>2, <1>3, <1>4
  <1> QED BY <1>1, <1>3, <1>4, <1>5

\* The steps of administrators, users and the dispatcher keep the types of
\* the outbox.
LEMMA AnnouncedShape ==
    ASSUME OutboxShape,
           \/ \E s \in Settings : SetPolicy(s)
           \/ \E m \in Memberships : MoveUser(m)
    PROVE  OutboxShape'
  <1>1. PICK c \in Channel, paths \in SUBSET Dept :
           /\ Announce(c, paths) /\ settings' \in Settings /\ member' \in Memberships
           /\ UNCHANGED outbox
    <2>1. CASE \E s \in Settings : SetPolicy(s)
      BY <2>1 DEF SetPolicy, OutboxShape, Channel
    <2>2. CASE \E m \in Memberships : MoveUser(m)
      <3>1. PICK m \in Memberships : MoveUser(m)
        BY <2>2
      <3>2. (m \ member) \cup (member \ m) \in SUBSET Dept
        BY DecisionDataAssumption DEF OutboxShape
      <3> QED BY <3>1, <3>2 DEF MoveUser, OutboxShape, Channel
    <2> QED BY <2>1, <2>2
  <1>2. /\ about' \in Seq([chan : Channel, paths : SUBSET Dept])
        /\ Len(about') = Len(about) + 1 /\ Len(about') \in 0..MaxWrites
        /\ owed' = owed \cup {Len(about')}
    BY <1>1, AnnounceMoves
  <1>3. Len(about) \in Nat /\ 1..Len(about) \subseteq 1..Len(about') /\ Len(about') \notin 1..Len(about)
        /\ Len(about') \in 1..Len(about')
    BY <1>2 DEF OutboxShape
  <1>4. /\ rows' = rows /\ dispatch' = dispatch /\ sent' = sent /\ settled' = settled
        /\ log' = log
    BY <1>1 DEF outbox
  <1>5. /\ rows' \subseteq 1..Len(about') /\ owed' \subseteq 1..Len(about')
        /\ settled' \subseteq 1..Len(about')
        /\ owed' \cap rows' = {} /\ settled' \cap (owed' \cup rows') = {}
    BY <1>2, <1>3, <1>4 DEF OutboxShape
  <1> QED BY <1>1, <1>2, <1>4, <1>5 DEF OutboxShape

\* Sending, forgetting and dispatching keep the types of the outbox.
LEMMA DispatchShape ==
    ASSUME OutboxShape,
           \/ \E m \in owed : Send(m) \/ Forget(m)
           \/ \E m \in rows : GetEvent(m) \/ ESSend(m) \/ Commit(m)
           \/ Rollback
    PROVE  OutboxShape'
  <1>1. ASSUME NEW m \in owed, Send(m) \/ Forget(m)
        PROVE  OutboxShape'
    <2>1. /\ about' = about /\ settings' = settings /\ member' = member
          /\ dispatch' = dispatch /\ sent' = sent /\ log' = log /\ settled' = settled
          /\ owed' = owed \ {m} /\ (rows' = rows \/ rows' = rows \cup {m})
      BY <1>1 DEF Send, Forget, db, outbox
    <2>2. /\ rows' \subseteq 1..Len(about') /\ owed' \subseteq 1..Len(about')
          /\ owed' \cap rows' = {} /\ settled' \cap (owed' \cup rows') = {}
      BY <2>1 DEF OutboxShape
    <2>3. dispatch' = {} \/ \E k \in rows' : dispatch' = {k}
      BY <2>1 DEF OutboxShape
    <2> QED BY <2>1, <2>2, <2>3 DEF OutboxShape
  <1>2. ASSUME NEW m \in rows, GetEvent(m)
        PROVE  OutboxShape'
    BY <1>2 DEF GetEvent, OutboxShape, db
  <1>3. ASSUME NEW m \in rows, ESSend(m)
        PROVE  OutboxShape'
    <2>1. m \in Nat /\ log \in Seq(Nat) /\ log' = Append(log, m)
      BY <1>3 DEF ESSend, OutboxShape
    <2>2. log' \in Seq(Nat) /\ \E i \in 1..Len(log') : log'[i] = m
      <3>1. Len(log) + 1 \in 1..Len(log') /\ log'[Len(log) + 1] = m
        BY <2>1
      <3> QED BY <2>1, <3>1
    <2> QED BY <1>3, <2>2 DEF ESSend, OutboxShape, db
  <1>4. ASSUME NEW m \in rows, Commit(m)
        PROVE  OutboxShape'
    <2>1. /\ about' = about /\ settings' = settings /\ member' = member
          /\ dispatch' = {} /\ sent' = FALSE /\ log' = log /\ owed' = owed
          /\ settled' = settled \cup {m} /\ rows' = rows \ {m}
      BY <1>4 DEF Commit, db
    <2>2. /\ rows' \subseteq 1..Len(about') /\ settled' \subseteq 1..Len(about')
          /\ owed' \cap rows' = {} /\ settled' \cap (owed' \cup rows') = {}
      BY <2>1 DEF OutboxShape
    <2> QED BY <2>1, <2>2 DEF OutboxShape
  <1>5. ASSUME Rollback
        PROVE  OutboxShape'
    BY <1>5 DEF Rollback, OutboxShape, db
  <1> QED BY <1>1, <1>2, <1>3, <1>4, <1>5

\* The steps of a replica.
ReplicaNext(r) ==
    \/ Start(r) \/ InitHandler(r) \/ TimerTick(r)
    \/ \E t \in Reader : \/ GetOPAData(r, t) \/ ReadFails(r, t)
                         \/ Install(r, t) \/ Assign(r, t) \/ Agree(r, t)
    \/ ChangeHandler(r) \/ ChangeMisreads(r) \/ OpenPatch(r) \/ CommitPatch(r)
    \/ LosePatch(r) \/ OrphanPanics(r) \/ ChangeFails(r)
    \/ \E c \in Channel : Subscribe(r, c) \/ LoseMessage(r, c)
    \/ Crash(r)

\* They leave the database and the outbox alone.
LEMMA ReplicaStays ==
    ASSUME NEW r \in Replica, ReplicaNext(r)
    PROVE  OutboxStays
  <1>1. ASSUME NEW t \in Reader,
               \/ GetOPAData(r, t) \/ ReadFails(r, t)
               \/ Install(r, t) \/ Assign(r, t) \/ Agree(r, t)
        PROVE  OutboxStays
    BY <1>1 DEF GetOPAData, ReadFails, Install, Assign, Agree, Stop, OutboxStays
  <1>2. CASE \/ Start(r) \/ InitHandler(r) \/ TimerTick(r)
             \/ ChangeHandler(r) \/ OpenPatch(r) \/ CommitPatch(r)
             \/ LosePatch(r) \/ OrphanPanics(r) \/ ChangeFails(r)
             \/ Crash(r)
    BY <1>2 DEF Start, InitHandler, TimerTick, ChangeHandler, OpenPatch, CommitPatch,
                LosePatch, OrphanPanics, ChangeFails, Crash, Stop, OutboxStays
  <1>3. CASE ChangeMisreads(r) \/ \E c \in Channel : Subscribe(r, c) \/ LoseMessage(r, c)
    BY <1>3 DEF ChangeMisreads, Subscribe, LoseMessage, OutboxStays
  <1> QED BY <1>1, <1>2, <1>3 DEF ReplicaNext

\* The outbox keeps its types.
LEMMA NextOutboxShape ==
    ASSUME OutboxShape, [Next]_vars
    PROVE  OutboxShape'
  <1>1. ASSUME NEW r \in Replica, ReplicaNext(r)
        PROVE  OutboxShape'
    BY <1>1, ReplicaStays DEF OutboxStays, OutboxShape, db, outbox
  <1>2. CASE UNCHANGED vars
    BY <1>2 DEF vars, OutboxShape, db, outbox
  <1> QED BY <1>1, <1>2, AnnouncedShape, DispatchShape DEF Next, ReplicaNext

\* The types of a replica after a step.
Typed ==
    /\ phase' \in [Replica -> {"down", "load", "up"}]
    /\ store' \in [Replica -> StoreType]
    /\ sub' \in [Replica -> SUBSET Channel]
    /\ inbox' \in [Replica -> [Channel -> Seq(1..Len(about))]]
    /\ thread' \in [Replica -> [Reader -> Task]]
    /\ change' \in [Replica -> Patcher]
    /\ excuse' \in [Replica -> SUBSET Excuses]

\* It is enough to look at the replica that moves.
LEMMA LocalShape ==
    ASSUME ReplicaShape, NEW r \in Replica, Typed, Elsewhere(r), about' = about,
           /\ sub'[r] # {} => phase'[r] = "up"
           /\ \A c \in Channel : inbox'[r][c] # <<>> => c \in sub'[r]
           /\ (thread'[r]["load"].step # "idle") <=> phase'[r] = "load"
           /\ thread'[r]["timer"].step # "idle" => phase'[r] = "up"
           /\ thread'[r]["init"].step # "idle" => phase'[r] = "up"
           /\ change'[r].step # "idle" => phase'[r] = "up"
    PROVE  ReplicaShape'
  <1>1. ASSUME NEW v \in Replica
        PROVE  /\ sub'[v] # {} => phase'[v] = "up"
               /\ \A c \in Channel : inbox'[v][c] # <<>> => c \in sub'[v]
               /\ (thread'[v]["load"].step # "idle") <=> phase'[v] = "load"
               /\ thread'[v]["timer"].step # "idle" => phase'[v] = "up"
               /\ thread'[v]["init"].step # "idle" => phase'[v] = "up"
               /\ change'[v].step # "idle" => phase'[v] = "up"
    <2>1. CASE v = r
      BY <2>1
    <2>2. CASE v # r
      <3>1. /\ phase'[v] = phase[v] /\ sub'[v] = sub[v] /\ inbox'[v] = inbox[v]
            /\ thread'[v] = thread[v] /\ change'[v] = change[v]
        BY <2>2 DEF Elsewhere
      <3> QED BY <3>1 DEF ReplicaShape
    <2> QED BY <2>1, <2>2
  <1> QED BY <1>1 DEF ReplicaShape, Typed

\* A sequence without its head.
LEMMA TailOf ==
    ASSUME NEW S, NEW s \in Seq(S), s # <<>>
    PROVE  /\ Tail(s) \in Seq(S) /\ Len(s) \in Nat /\ Len(Tail(s)) = Len(s) - 1
           /\ Head(s) = s[1] /\ Len(s) > 0 /\ s[1] \in S
           /\ \A i \in 1..Len(s) - 1 : Tail(s)[i] = s[i + 1]
  OBVIOUS

\* One channel of one replica changes.
LEMMA OneChannel ==
    ASSUME NEW S, NEW box \in [Replica -> [Channel -> S]], NEW r \in Replica,
           NEW c \in Channel, NEW x \in S, NEW next, next = [box EXCEPT ![r][c] = x]
    PROVE  /\ next \in [Replica -> [Channel -> S]]
           /\ next[r][c] = x
           /\ \A d \in Channel \ {c} : next[r][d] = box[r][d]
           /\ \A v \in Replica \ {r} : next[v] = box[v]
  OBVIOUS

\* A message is taken from a channel.
LEMMA Taken ==
    ASSUME ReplicaShape, NEW r \in Replica, NEW c \in Channel, inbox[r][c] # <<>>,
           inbox' = [inbox EXCEPT ![r][c] = Tail(@)]
    PROVE  /\ inbox' \in [Replica -> [Channel -> Seq(1..Len(about))]]
           /\ inbox'[r][c] = Tail(inbox[r][c])
           /\ \A d \in Channel \ {c} : inbox'[r][d] = inbox[r][d]
           /\ \A v \in Replica \ {r} : inbox'[v] = inbox[v]
           /\ phase[r] = "up" /\ c \in sub[r]
           /\ \A d \in Channel : inbox'[r][d] # <<>> => d \in sub[r]
  <1>1. inbox[r][c] \in Seq(1..Len(about)) /\ inbox \in [Replica -> [Channel -> Seq(1..Len(about))]]
    BY DEF ReplicaShape
  <1>2. PICK q : q = Tail(inbox[r][c])
    OBVIOUS
  <1>3. q \in Seq(1..Len(about))
    BY <1>1, <1>2, TailOf
  <1>4. inbox' = [inbox EXCEPT ![r][c] = q]
    BY <1>2
  <1>5. /\ inbox' \in [Replica -> [Channel -> Seq(1..Len(about))]]
        /\ inbox'[r][c] = q
        /\ \A d \in Channel \ {c} : inbox'[r][d] = inbox[r][d]
        /\ \A v \in Replica \ {r} : inbox'[v] = inbox[v]
    <2>1. PICK S : S = Seq(1..Len(about))
      OBVIOUS
    <2>2. q \in S /\ inbox \in [Replica -> [Channel -> S]]
      BY <1>1, <1>3, <2>1
    <2>3. /\ inbox' \in [Replica -> [Channel -> S]]
          /\ inbox'[r][c] = q
          /\ \A d \in Channel \ {c} : inbox'[r][d] = inbox[r][d]
          /\ \A v \in Replica \ {r} : inbox'[v] = inbox[v]
      <3>1. PICK box, next : box = inbox /\ next = inbox'
        OBVIOUS
      <3>2. box \in [Replica -> [Channel -> S]] /\ next = [box EXCEPT ![r][c] = q]
        BY <1>4, <2>2, <3>1
      <3>3. /\ next \in [Replica -> [Channel -> S]]
            /\ next[r][c] = q
            /\ \A d \in Channel \ {c} : next[r][d] = box[r][d]
            /\ \A v \in Replica \ {r} : next[v] = box[v]
        BY <2>2, <3>2, OneChannel
      <3> QED BY <3>1, <3>3
    <2> QED BY <2>1, <2>3
  <1>6. c \in sub[r] /\ phase[r] = "up"
    BY DEF ReplicaShape
  <1>7. \A d \in Channel : inbox[r][d] # <<>> => d \in sub[r]
    BY DEF ReplicaShape
  <1> QED BY <1>2, <1>5, <1>6, <1>7

\* A replica starts to load, an init message is taken, the timer ticks.
LEMMA StartMoves ==
    ASSUME OutboxShape, ReplicaShape, NEW r \in Replica, Start(r)
    PROVE  /\ OutboxStays /\ Elsewhere(r) /\ ReplicaShape'
           /\ phase[r] = "down" /\ phase'[r] = "load" /\ Begin(r, "load")
           /\ UNCHANGED <<store, sub, inbox, change, excuse>>
  <1>1. /\ phase' = [phase EXCEPT ![r] = "load"] /\ phase[r] = "down"
        /\ Begin(r, "load") /\ OutboxStays
        /\ UNCHANGED <<store, sub, inbox, change, excuse>>
    BY DEF Start, OutboxStays
  <1>2. "load" \in Reader
    BY DEF Reader
  <1>3. /\ thread' \in [Replica -> [Reader -> Task]]
        /\ thread'[r]["load"].step # "idle"
        /\ \A s \in Reader \ {"load"} : thread'[r][s] = thread[r][s]
        /\ \A v \in Replica \ {r} : thread'[v] = thread[v]
    <2>1. /\ thread' \in [Replica -> [Reader -> Task]]
          /\ thread'[r]["load"].step = IF settings.enabled THEN "rules" ELSE "client"
          /\ \A s \in Reader \ {"load"} : thread'[r][s] = thread[r][s]
          /\ \A v \in Replica \ {r} : thread'[v] = thread[v]
      BY <1>1, <1>2, BeginMoves
    <2> QED BY <2>1
  <1>4. /\ phase' \in [Replica -> {"down", "load", "up"}] /\ phase'[r] = "load"
        /\ \A v \in Replica \ {r} : phase'[v] = phase[v]
    BY <1>1 DEF ReplicaShape
  <1>5. Typed /\ Elsewhere(r)
    BY <1>1, <1>3, <1>4 DEF Typed, Elsewhere, ReplicaShape
  <1>6. /\ sub'[r] = {} /\ \A c \in Channel : inbox'[r][c] = <<>>
        /\ thread'[r]["timer"].step = "idle" /\ thread'[r]["init"].step = "idle"
        /\ change'[r].step = "idle"
    BY <1>1, <1>3 DEF ReplicaShape, Reader
  <1>7. about' = about
    BY <1>1 DEF OutboxStays
  <1>8. ReplicaShape'
    BY <1>3, <1>4, <1>5, <1>6, <1>7, LocalShape
  <1> QED BY <1>1, <1>4, <1>5, <1>8

\* The handler of the init channel takes a message and begins to read.
LEMMA InitHandlerMoves ==
    ASSUME OutboxShape, ReplicaShape, NEW r \in Replica, InitHandler(r)
    PROVE  /\ OutboxStays /\ Elsewhere(r) /\ ReplicaShape'
           /\ Begin(r, "init") /\ phase[r] = "up"
           /\ inbox'[r]["update"] = inbox[r]["update"]
           /\ UNCHANGED <<phase, store, sub, change, excuse>>
  <1>1. /\ inbox[r]["init"] # <<>> /\ inbox' = [inbox EXCEPT ![r]["init"] = Tail(@)]
        /\ Begin(r, "init") /\ OutboxStays
        /\ UNCHANGED <<phase, store, sub, change, excuse>>
    BY DEF InitHandler, OutboxStays
  <1>2. "init" \in Reader /\ "init" \in Channel /\ "update" \in Channel \ {"init"}
    BY DEF Reader, Channel
  <1>3. /\ thread' \in [Replica -> [Reader -> Task]]
        /\ \A s \in Reader \ {"init"} : thread'[r][s] = thread[r][s]
        /\ \A v \in Replica \ {r} : thread'[v] = thread[v]
    BY <1>1, <1>2, BeginMoves, ZenonT(60)
  <1>4. /\ inbox' \in [Replica -> [Channel -> Seq(1..Len(about))]]
        /\ \A d \in Channel \ {"init"} : inbox'[r][d] = inbox[r][d]
        /\ \A v \in Replica \ {r} : inbox'[v] = inbox[v]
        /\ phase[r] = "up"
        /\ \A d \in Channel : inbox'[r][d] # <<>> => d \in sub[r]
    BY <1>1, <1>2, Taken
  <1>5. Typed /\ Elsewhere(r)
    BY <1>1, <1>3, <1>4 DEF Typed, Elsewhere, ReplicaShape
  <1>6. /\ thread'[r]["load"] = thread[r]["load"]
        /\ (thread[r]["load"].step # "idle") <=> phase[r] = "load"
    BY <1>3 DEF ReplicaShape, Reader
  <1>7. about' = about
    BY <1>1 DEF OutboxStays
  <1>8. ReplicaShape'
    BY <1>1, <1>4, <1>5, <1>6, <1>7, LocalShape
  <1> QED BY <1>1, <1>2, <1>4, <1>5, <1>8

\* The timer begins to read.
LEMMA TimerMoves ==
    ASSUME OutboxShape, ReplicaShape, NEW r \in Replica, TimerTick(r)
    PROVE  /\ OutboxStays /\ Elsewhere(r) /\ ReplicaShape'
           /\ Begin(r, "timer") /\ phase[r] = "up"
           /\ UNCHANGED <<phase, store, sub, inbox, change, excuse>>
  <1>1. /\ phase[r] = "up" /\ Begin(r, "timer") /\ OutboxStays
        /\ UNCHANGED <<phase, store, sub, inbox, change, excuse>>
    BY DEF TimerTick, OutboxStays
  <1>2. "timer" \in Reader
    BY DEF Reader
  <1>3. /\ thread' \in [Replica -> [Reader -> Task]]
        /\ \A s \in Reader \ {"timer"} : thread'[r][s] = thread[r][s]
        /\ \A v \in Replica \ {r} : thread'[v] = thread[v]
    BY <1>1, <1>2, BeginMoves
  <1>4. Typed /\ Elsewhere(r)
    BY <1>1, <1>3 DEF Typed, Elsewhere, ReplicaShape
  <1>5. /\ thread'[r]["load"] = thread[r]["load"]
        /\ (thread[r]["load"].step # "idle") <=> phase[r] = "load"
    BY <1>3 DEF ReplicaShape, Reader
  <1>6. about' = about /\ \A d \in Channel : inbox[r][d] # <<>> => d \in sub[r]
    BY <1>1 DEF OutboxStays, ReplicaShape
  <1>7. ReplicaShape'
    BY <1>1, <1>4, <1>5, <1>6, LocalShape
  <1> QED BY <1>1, <1>4, <1>7

\* A read of getOPAData, and the end of one.
LEMMA ReadShape ==
    ASSUME OutboxShape, ReplicaShape, NEW r \in Replica, NEW t \in Reader,
           GetOPAData(r, t)
    PROVE  /\ OutboxStays /\ Elsewhere(r) /\ ReplicaShape'
           /\ UNCHANGED <<phase, store, sub, inbox, change, excuse>>
  <1>1. OutboxStays /\ UNCHANGED <<phase, store, sub, inbox, change, excuse>>
    BY DEF GetOPAData, OutboxStays
  <1>2. /\ thread[r][t].step # "idle" /\ thread'[r][t].step # "idle"
        /\ thread' \in [Replica -> [Reader -> Task]]
        /\ \A s \in Reader \ {t} : thread'[r][s] = thread[r][s]
        /\ \A v \in Replica \ {r} : thread'[v] = thread[v]
    <2>1. /\ thread[r][t].step \in {"rules", "members", "client"}
          /\ thread' \in [Replica -> [Reader -> Task]]
          /\ thread'[r][t].step = NextStep(thread[r][t].step)
          /\ \A s \in Reader \ {t} : thread'[r][s] = thread[r][s]
          /\ \A v \in Replica \ {r} : thread'[v] = thread[v]
      BY ReadMoves
    <2>2. \A step \in {"rules", "members", "client"} : NextStep(step) # "idle"
      BY DEF NextStep
    <2> QED BY <2>1, <2>2
  <1>3. Typed /\ Elsewhere(r)
    BY <1>1, <1>2 DEF Typed, Elsewhere, ReplicaShape
  <1>4. \A s \in Reader : (thread'[r][s].step = "idle") <=> (thread[r][s].step = "idle")
    BY <1>2
  <1>5. {"load", "timer", "init"} \subseteq Reader
    BY DEF Reader
  <1>6. about' = about
    BY <1>1 DEF OutboxStays
  <1>7. ReplicaShape'
    <2>1. /\ sub[r] # {} => phase[r] = "up"
          /\ \A c \in Channel : inbox[r][c] # <<>> => c \in sub[r]
          /\ (thread[r]["load"].step # "idle") <=> phase[r] = "load"
          /\ thread[r]["timer"].step # "idle" => phase[r] = "up"
          /\ thread[r]["init"].step # "idle" => phase[r] = "up"
          /\ change[r].step # "idle" => phase[r] = "up"
      BY DEF ReplicaShape
    <2> QED BY <1>1, <1>3, <1>4, <1>5, <1>6, <2>1, LocalShape
  <1> QED BY <1>1, <1>3, <1>7

\* The end of the reads keeps the types.
LEMMA InstallShape ==
    ASSUME ReplicaShape, NEW r \in Replica, NEW t \in Reader, Install(r, t)
    PROVE  ReplicaShape'
  <1>1. /\ OutboxStays /\ Elsewhere(r)
        /\ thread[r][t].step = "install"
        /\ phase' = phase /\ sub' = sub /\ inbox' = inbox
        /\ store' \in [Replica -> StoreType]
        /\ thread' \in [Replica -> [Reader -> Task]]
        /\ change' \in [Replica -> Patcher]
        /\ excuse' \in [Replica -> SUBSET Excuses]
        /\ thread'[r][t].step = "decisionQuery"
        /\ \A s \in Reader \ {t} : thread'[r][s].step = thread[r][s].step
        /\ change'[r] = OvertakeChange(change[r])
    BY InstallMoves
  <1>2. \A s \in Reader : (thread'[r][s].step = "idle") <=> (thread[r][s].step = "idle")
    BY <1>1
  <1>3. change'[r].step # "idle" => change[r].step # "idle"
    <2>1. change[r] \in Patcher
      BY DEF ReplicaShape
    <2> QED BY <1>1, <2>1, OvertakeChangeMoves
  <1>4. Typed
    BY <1>1 DEF Typed, OutboxStays, ReplicaShape
  <1>5. about' = about /\ {"load", "timer", "init"} \subseteq Reader
    BY <1>1 DEF OutboxStays, Reader
  <1>6. /\ sub[r] # {} => phase[r] = "up"
        /\ \A c \in Channel : inbox[r][c] # <<>> => c \in sub[r]
        /\ (thread[r]["load"].step # "idle") <=> phase[r] = "load"
        /\ thread[r]["timer"].step # "idle" => phase[r] = "up"
        /\ thread[r]["init"].step # "idle" => phase[r] = "up"
        /\ change[r].step # "idle" => phase[r] = "up"
    BY DEF ReplicaShape
  <1> QED BY <1>1, <1>2, <1>3, <1>4, <1>5, <1>6, LocalShape

\* So does an assignment.
LEMMA AssignShape ==
    ASSUME ReplicaShape, NEW r \in Replica, NEW t \in Reader, Assign(r, t)
    PROVE  ReplicaShape'
  <1>1. /\ OutboxStays /\ Elsewhere(r)
        /\ UNCHANGED <<store, sub, inbox, change>>
        /\ phase' \in [Replica -> {"down", "load", "up"}]
        /\ thread' \in [Replica -> [Reader -> Task]]
        /\ excuse' \in [Replica -> SUBSET Excuses]
        /\ \A s \in Reader \ {t} : thread'[r][s] = thread[r][s]
        /\ thread[r][t].step # "idle"
        /\ \/ thread'[r][t].step # "idle" /\ phase' = phase
           \/ thread'[r][t].step = "idle" /\ phase'[r] = "up"
    BY AssignMoves
  <1>2. Typed
    BY <1>1 DEF Typed, OutboxStays, ReplicaShape
  <1>3. about' = about /\ {"load", "timer", "init"} = Reader
    BY <1>1 DEF OutboxStays, Reader
  <1>4. /\ sub[r] # {} => phase[r] = "up"
        /\ \A c \in Channel : inbox[r][c] # <<>> => c \in sub[r]
        /\ (thread[r]["load"].step # "idle") <=> phase[r] = "load"
        /\ thread[r]["timer"].step # "idle" => phase[r] = "up"
        /\ thread[r]["init"].step # "idle" => phase[r] = "up"
        /\ change[r].step # "idle" => phase[r] = "up"
    BY DEF ReplicaShape
  <1>5. CASE thread'[r][t].step # "idle" /\ phase' = phase
    <2>1. \A s \in Reader : (thread'[r][s].step = "idle") <=> (thread[r][s].step = "idle")
      BY <1>1, <1>5
    <2> QED BY <1>1, <1>2, <1>3, <1>4, <1>5, <2>1, LocalShape
  <1>6. CASE thread'[r][t].step = "idle" /\ phase'[r] = "up"
    <2>1. thread'[r]["load"].step = "idle"
      <3>1. CASE t = "load"
        BY <1>6, <3>1
      <3>2. CASE t # "load"
        BY <1>1, <1>3, <1>4, <3>2
      <3> QED BY <3>1, <3>2
    <2> QED BY <1>1, <1>2, <1>3, <1>4, <1>6, <2>1, LocalShape
  <1> QED BY <1>1, <1>5, <1>6

\* A replica stops.
LEMMA StopMoves ==
    ASSUME ReplicaShape, NEW r \in Replica, Stop(r)
    PROVE  OutboxStays /\ Elsewhere(r) /\ ReplicaShape' /\ phase'[r] = "down"
  <1>1. OutboxStays /\ about' = about
    BY DEF Stop, OutboxStays
  <1> DEFINE none == [c \in Channel |-> <<>>]
             idle == [t \in Reader |-> [step |-> "idle"]]
  <1>2. none \in [Channel -> Seq(1..Len(about))] /\ \A c \in Channel : none[c] = <<>>
    OBVIOUS
  <1>3. /\ idle \in [Reader -> Task] /\ \A t \in Reader : idle[t].step = "idle"
    BY TaskMade
  <1>4. inbox' = [inbox EXCEPT ![r] = none] /\ thread' = [thread EXCEPT ![r] = idle]
    BY DEF Stop
  <1> HIDE DEF none, idle
  <1>5. /\ inbox' \in [Replica -> [Channel -> Seq(1..Len(about))]] /\ inbox'[r] = none
        /\ \A v \in Replica \ {r} : inbox'[v] = inbox[v]
    BY <1>2, <1>4 DEF ReplicaShape
  <1>6. /\ thread' \in [Replica -> [Reader -> Task]] /\ thread'[r] = idle
        /\ \A v \in Replica \ {r} : thread'[v] = thread[v]
    BY <1>3, <1>4 DEF ReplicaShape
  <1>7. /\ change' \in [Replica -> Patcher] /\ change'[r] = [step |-> "idle"]
        /\ \A v \in Replica \ {r} : change'[v] = change[v]
    BY PatcherMade DEF Stop, ReplicaShape
  <1>8. /\ store' \in [Replica -> StoreType]
        /\ \A v \in Replica \ {r} : store'[v] = store[v]
    BY EmptyStore DEF Stop, ReplicaShape
  <1>9. /\ phase' \in [Replica -> {"down", "load", "up"}] /\ phase'[r] = "down"
        /\ \A v \in Replica \ {r} : phase'[v] = phase[v]
    BY DEF Stop, ReplicaShape
  <1>10. /\ sub' \in [Replica -> SUBSET Channel] /\ sub'[r] = {}
         /\ excuse' \in [Replica -> SUBSET Excuses]
         /\ \A v \in Replica \ {r} : sub'[v] = sub[v] /\ excuse'[v] = excuse[v]
    BY DEF Stop, ReplicaShape
  <1>11. Typed /\ Elsewhere(r)
    BY <1>5, <1>6, <1>7, <1>8, <1>9, <1>10 DEF Typed, Elsewhere
  <1>12. {"load", "timer", "init"} \subseteq Reader
    BY DEF Reader
  <1>13. ReplicaShape'
    <2>1. /\ sub'[r] = {} /\ phase'[r] # "load" /\ change'[r].step = "idle"
          /\ \A c \in Channel : inbox'[r][c] = <<>>
          /\ thread'[r]["load"].step = "idle" /\ thread'[r]["timer"].step = "idle"
          /\ thread'[r]["init"].step = "idle"
      BY <1>2, <1>3, <1>5, <1>6, <1>7, <1>9, <1>10, <1>12
    <2> QED BY <1>1, <1>11, <2>1, LocalShape
  <1> QED BY <1>1, <1>9, <1>11, <1>13

\* The timer gives up a round, or finds nothing to do.
LEMMA TimerEnds ==
    ASSUME ReplicaShape, NEW r \in Replica, NEW t \in Reader,
           (ReadFails(r, t) /\ ~Stop(r)) \/ Agree(r, t)
    PROVE  /\ OutboxStays /\ Elsewhere(r) /\ ReplicaShape'
           /\ UNCHANGED <<phase, store, sub, inbox, change, excuse>>
           /\ t = "timer" /\ thread'[r]["timer"] = [step |-> "idle"]
           /\ \A s \in Reader \ {"timer"} : thread'[r][s] = thread[r][s]
  <1>1. /\ t = "timer" /\ thread' = [thread EXCEPT ![r][t] = [step |-> "idle"]]
        /\ OutboxStays /\ about' = about
        /\ UNCHANGED <<phase, store, sub, inbox, change, excuse>>
        /\ thread[r][t].step # "idle"
    BY DEF ReadFails, Agree, OutboxStays
  <1>2. PICK k : k = [step |-> "idle"]
    OBVIOUS
  <1>3. /\ k \in Task /\ thread' = [thread EXCEPT ![r][t] = k]
        /\ thread \in [Replica -> [Reader -> Task]]
    BY <1>1, <1>2, TaskMade DEF ReplicaShape
  <1>4. /\ thread' \in [Replica -> [Reader -> Task]]
        /\ thread'[r][t] = k
        /\ \A s \in Reader \ {t} : thread'[r][s] = thread[r][s]
        /\ \A v \in Replica \ {r} : thread'[v] = thread[v]
    BY <1>3, OneTask
  <1>5. Typed /\ Elsewhere(r)
    BY <1>1, <1>4 DEF Typed, Elsewhere, ReplicaShape
  <1>6. /\ thread'[r]["timer"].step = "idle"
        /\ thread'[r]["load"] = thread[r]["load"] /\ thread'[r]["init"] = thread[r]["init"]
    BY <1>1, <1>2, <1>4 DEF Reader
  <1>7. ReplicaShape'
    <2>1. /\ sub[r] # {} => phase[r] = "up"
          /\ \A c \in Channel : inbox[r][c] # <<>> => c \in sub[r]
          /\ (thread[r]["load"].step # "idle") <=> phase[r] = "load"
          /\ thread[r]["init"].step # "idle" => phase[r] = "up"
          /\ change[r].step # "idle" => phase[r] = "up"
      BY DEF ReplicaShape
    <2> QED BY <1>1, <1>5, <1>6, <2>1, LocalShape
  <1> QED BY <1>1, <1>2, <1>4, <1>5, <1>7

\* The handler of changes takes a message and reads the rules; nothing else of
\* the replica changes.
LEMMA ChangeHandlerMoves ==
    ASSUME OutboxShape, ReplicaShape, NEW r \in Replica, ChangeHandler(r)
    PROVE  /\ OutboxStays /\ Elsewhere(r) /\ ReplicaShape'
           /\ UNCHANGED <<phase, store, sub, thread, excuse>>
           /\ change[r].step = "idle" /\ inbox[r]["update"] # <<>>
           /\ inbox'[r]["init"] = inbox[r]["init"]
           /\ inbox'[r]["update"] = Tail(inbox[r]["update"])
           /\ change'[r].step = "rules" /\ change'[r].late = FALSE
           /\ change'[r].rules = settings
           /\ change'[r].paths = about[Head(inbox[r]["update"])].paths
  <1>1. /\ change[r].step = "idle" /\ inbox[r]["update"] # <<>>
        /\ inbox' = [inbox EXCEPT ![r]["update"] = Tail(@)]
        /\ OutboxStays /\ about' = about
        /\ UNCHANGED <<phase, store, sub, thread, excuse>>
    BY DEF ChangeHandler, OutboxStays
  <1>2. PICK c : c = [step |-> "rules", paths |-> about[Head(inbox[r]["update"])].paths,
                      late |-> FALSE, rules |-> settings]
    OBVIOUS
  <1>3. change' = [change EXCEPT ![r] = c]
    BY <1>2 DEF ChangeHandler
  <1>4. "update" \in Channel /\ "init" \in Channel \ {"update"}
    BY DEF Channel
  <1>5. /\ inbox' \in [Replica -> [Channel -> Seq(1..Len(about))]]
        /\ inbox'[r]["update"] = Tail(inbox[r]["update"])
        /\ \A d \in Channel \ {"update"} : inbox'[r][d] = inbox[r][d]
        /\ \A v \in Replica \ {r} : inbox'[v] = inbox[v]
        /\ phase[r] = "up"
        /\ \A d \in Channel : inbox'[r][d] # <<>> => d \in sub[r]
    BY <1>1, <1>4, Taken
  <1>6. c \in Patcher
    <2>1. inbox[r]["update"] \in Seq(1..Len(about))
      BY <1>4 DEF ReplicaShape
    <2>2. PICK m : m = Head(inbox[r]["update"])
      OBVIOUS
    <2>3. m \in 1..Len(about)
      BY <1>1, <2>1, <2>2, TailOf
    <2>4. about[m].paths \in SUBSET Dept
      BY <2>3, AboutFields
    <2>5. settings \in Rules
      BY DecisionDataAssumption DEF OutboxShape, Rules
    <2> QED BY <1>2, <2>2, <2>4, <2>5, PatcherMade
  <1>7. /\ change' \in [Replica -> Patcher] /\ change'[r] = c
        /\ \A v \in Replica \ {r} : change'[v] = change[v]
    BY <1>3, <1>6 DEF ReplicaShape
  <1>8. Typed /\ Elsewhere(r)
    BY <1>1, <1>5, <1>7 DEF Typed, Elsewhere, ReplicaShape
  <1>9. (thread[r]["load"].step # "idle") <=> phase[r] = "load"
    BY DEF ReplicaShape
  <1>10. ReplicaShape'
    BY <1>1, <1>5, <1>8, <1>9, LocalShape
  <1>11. c.step = "rules" /\ c.late = FALSE /\ c.rules = settings
         /\ c.paths = about[Head(inbox[r]["update"])].paths
    BY <1>2
  <1> QED BY <1>1, <1>4, <1>5, <1>7, <1>8, <1>10, <1>11

\* Steps of the handler that leave the messages and the phase alone.
LEMMA HandlerShape ==
    ASSUME ReplicaShape, NEW r \in Replica, OutboxStays, UNCHANGED <<phase, sub, inbox>>,
           phase[r] = "up",
           store' \in [Replica -> StoreType], thread' \in [Replica -> [Reader -> Task]],
           excuse' \in [Replica -> SUBSET Excuses],
           \A v \in Replica \ {r} : /\ store'[v] = store[v] /\ thread'[v] = thread[v]
                                    /\ excuse'[v] = excuse[v],
           \A t \in Reader : thread'[r][t].step = thread[r][t].step,
           NEW c \in Patcher, change' = [change EXCEPT ![r] = c]
    PROVE  Elsewhere(r) /\ ReplicaShape' /\ change'[r] = c
  <1>1. /\ change' \in [Replica -> Patcher] /\ change'[r] = c
        /\ \A v \in Replica \ {r} : change'[v] = change[v]
    BY DEF ReplicaShape
  <1>2. Typed /\ Elsewhere(r)
    BY <1>1 DEF Typed, Elsewhere, ReplicaShape
  <1>3. (thread'[r]["load"].step # "idle") <=> phase[r] = "load"
    BY DEF ReplicaShape, Reader
  <1>4. about' = about /\ \A d \in Channel : inbox[r][d] # <<>> => d \in sub[r]
    BY DEF OutboxStays, ReplicaShape
  <1> QED BY <1>1, <1>2, <1>3, <1>4, LocalShape

\* The handler of changes has read the departments of the user.
LEMMA OpenPatchMoves ==
    ASSUME OutboxShape, ReplicaShape, NEW r \in Replica, OpenPatch(r)
    PROVE  /\ OutboxStays /\ Elsewhere(r) /\ ReplicaShape'
           /\ UNCHANGED <<phase, store, sub, inbox, thread, excuse>>
           /\ change[r].step = "rules" /\ change'[r].step = "open"
           /\ change'[r].paths = change[r].paths /\ change'[r].late = change[r].late
           /\ change'[r].rules = change[r].rules /\ change'[r].mine = member
  <1>1. change[r] \in Patcher /\ change[r].step = "rules" /\ OutboxStays
        /\ UNCHANGED <<phase, store, sub, inbox, thread, excuse>>
    BY DEF OpenPatch, OutboxStays, ReplicaShape
  <1>2. PICK b \in Patcher : b = change[r]
    BY <1>1
  <1>3. PICK c : c = [step |-> "open", paths |-> b.paths, late |-> b.late,
                      rules |-> b.rules, mine |-> member]
    OBVIOUS
  <1>4. c \in Patcher
    <2>1. b.paths \in SUBSET Dept /\ b.late \in BOOLEAN /\ b.rules \in Rules
      BY <1>1, <1>2, PatcherFields
    <2> QED BY <1>3, <2>1, PatcherMade DEF OutboxShape
  <1>5. change' = [change EXCEPT ![r] = c]
    BY <1>2, <1>3 DEF OpenPatch
  <1>6. phase[r] = "up"
    BY <1>1 DEF ReplicaShape
  <1>7. Elsewhere(r) /\ ReplicaShape' /\ change'[r] = c
    BY <1>1, <1>4, <1>5, <1>6, HandlerShape DEF ReplicaShape
  <1> QED BY <1>1, <1>2, <1>3, <1>7

\* The handler is through with a message, or drops it.
LEMMA CommitPatchMoves ==
    ASSUME ReplicaShape, NEW r \in Replica, CommitPatch(r)
    PROVE  /\ OutboxStays /\ Elsewhere(r) /\ ReplicaShape'
           /\ UNCHANGED <<phase, sub, inbox>>
           /\ change[r].step = "open" /\ change'[r] = [step |-> "idle"]
           /\ store'[r] = Patch(store[r], change[r].rules, change[r].mine, change[r].paths)
           /\ \A t \in Reader : /\ thread'[r][t].step = thread[r][t].step
                                /\ thread[r][t].step \notin Done => thread'[r][t].late
           /\ change[r].late \/ Inexact(store[r], change[r].rules, change[r].mine) =>
                 excuse'[r] # {}
           /\ excuse[r] # {} => excuse'[r] # {}
  <1> DEFINE c == change[r]
  <1>1. /\ c.step = "open" /\ OutboxStays /\ UNCHANGED <<phase, sub, inbox>>
        /\ store' = [store EXCEPT ![r] = Patch(@, c.rules, c.mine, c.paths)]
        /\ change' = [change EXCEPT ![r] = [step |-> "idle"]]
        /\ thread' = [thread EXCEPT ![r] = [s \in Reader |-> Overtake(@[s])]]
        /\ excuse' = IF c.late THEN Excuse({r}, "raced")
                     ELSE IF Inexact(store[r], c.rules, c.mine)
                     THEN Excuse({r}, "inexact") ELSE excuse
    BY DEF CommitPatch, OutboxStays
  <1>2. c \in Patcher /\ store[r] \in StoreType
    BY DEF ReplicaShape
  <1>3. /\ c.mine \in SUBSET Dept /\ c.paths \in SUBSET Dept /\ c.late \in BOOLEAN
    BY <1>1, <1>2, PatcherFields, DecisionDataAssumption
  <1> HIDE DEF c
  <1>4. PICK new : new = Patch(store[r], c.rules, c.mine, c.paths)
    OBVIOUS
  <1>5. new \in StoreType
    BY <1>2, <1>3, <1>4, PatchStore
  <1>6. /\ store' \in [Replica -> StoreType] /\ store'[r] = new
        /\ \A v \in Replica \ {r} : store'[v] = store[v]
    BY <1>1, <1>4, <1>5 DEF ReplicaShape
  <1>7. PICK th : th = [s \in Reader |-> Overtake(thread[r][s])]
    OBVIOUS
  <1>8. /\ th \in [Reader -> Task]
        /\ \A s \in Reader : /\ th[s].step = thread[r][s].step
                             /\ thread[r][s].step \notin Done => th[s].late
    <2>1. \A s \in Reader : thread[r][s] \in Task
      BY DEF ReplicaShape
    <2>2. \A s \in Reader :
             /\ Overtake(thread[r][s]) \in Task
             /\ Overtake(thread[r][s]).step = thread[r][s].step
             /\ thread[r][s].step \notin Done => Overtake(thread[r][s]).late = TRUE
      BY <2>1, OvertakeMoves
    <2> QED BY <1>7, <2>2
  <1>9. /\ thread' \in [Replica -> [Reader -> Task]]
        /\ \A t \in Reader : /\ thread'[r][t].step = thread[r][t].step
                             /\ thread[r][t].step \notin Done => thread'[r][t].late
        /\ \A v \in Replica \ {r} : thread'[v] = thread[v]
    <2>1. thread' = [thread EXCEPT ![r] = th]
      BY <1>1, <1>7
    <2> QED BY <1>8, <2>1 DEF ReplicaShape
  <1>10. /\ excuse' \in [Replica -> SUBSET Excuses]
         /\ \A v \in Replica \ {r} : excuse'[v] = excuse[v]
         /\ c.late \/ Inexact(store[r], c.rules, c.mine) => excuse'[r] # {}
         /\ excuse[r] # {} => excuse'[r] # {}
    <2>1. ASSUME NEW e \in {"raced", "inexact"}, excuse' = Excuse({r}, e)
          PROVE  /\ excuse' \in [Replica -> SUBSET Excuses]
                 /\ \A v \in Replica \ {r} : excuse'[v] = excuse[v]
                 /\ excuse'[r] # {}
      BY <2>1 DEF Excuse, Excuses, ReplicaShape
    <2>2. \/ \E e \in {"raced", "inexact"} : excuse' = Excuse({r}, e)
          \/ excuse' = excuse /\ ~(c.late \/ Inexact(store[r], c.rules, c.mine))
      BY <1>1
    <2> QED BY <2>1, <2>2 DEF ReplicaShape
  <1>11. phase[r] = "up"
    BY <1>1 DEF ReplicaShape, c
  <1>12. PICK k : k = [step |-> "idle"]
    OBVIOUS
  <1>13. k \in Patcher /\ change' = [change EXCEPT ![r] = k]
    BY <1>1, <1>12, PatcherMade
  <1>14. Elsewhere(r) /\ ReplicaShape' /\ change'[r] = k
    <2>1. OutboxStays /\ UNCHANGED <<phase, sub, inbox>>
      BY <1>1
    <2>2. \A v \in Replica \ {r} : /\ store'[v] = store[v] /\ thread'[v] = thread[v]
                                    /\ excuse'[v] = excuse[v]
      BY <1>6, <1>9, <1>10
    <2>3. /\ store' \in [Replica -> StoreType] /\ thread' \in [Replica -> [Reader -> Task]]
          /\ excuse' \in [Replica -> SUBSET Excuses]
          /\ \A t \in Reader : thread'[r][t].step = thread[r][t].step
      BY <1>6, <1>9, <1>10
    <2> QED BY <1>11, <1>13, <2>1, <2>2, <2>3, HandlerShape
  <1> QED BY <1>1, <1>4, <1>6, <1>9, <1>10, <1>12, <1>14 DEF c

\* The handler of changes gives a message up, which is an excuse.
LEMMA DropMoves ==
    ASSUME ReplicaShape, NEW r \in Replica, LosePatch(r) \/ ChangeFails(r)
    PROVE  OutboxStays /\ Elsewhere(r) /\ ReplicaShape' /\ excuse'[r] # {}
  <1>1. PICK e \in {"raced", "dropped"} : excuse' = Excuse({r}, e)
    BY DEF LosePatch, ChangeFails
  <1>2. /\ excuse' \in [Replica -> SUBSET Excuses]
        /\ \A v \in Replica \ {r} : excuse'[v] = excuse[v]
        /\ excuse'[r] # {}
    BY <1>1 DEF Excuse, Excuses, ReplicaShape
  <1>3. /\ change[r].step # "idle" /\ OutboxStays
        /\ change' = [change EXCEPT ![r] = [step |-> "idle"]]
        /\ UNCHANGED <<phase, sub, inbox, store, thread>>
    BY DEF LosePatch, ChangeFails, OutboxStays
  <1>4. PICK k : k = [step |-> "idle"]
    OBVIOUS
  <1>5. k \in Patcher /\ change' = [change EXCEPT ![r] = k] /\ phase[r] = "up"
    BY <1>3, <1>4, PatcherMade DEF ReplicaShape
  <1>6. Elsewhere(r) /\ ReplicaShape'
    BY <1>2, <1>3, <1>5, HandlerShape, ZenonT(60) DEF ReplicaShape
  <1> QED BY <1>2, <1>3, <1>6

\* The handler of changes is misled by a failing read, which is an excuse.
LEMMA MisreadMoves ==
    ASSUME OutboxShape, ReplicaShape, NEW r \in Replica, ChangeMisreads(r)
    PROVE  OutboxStays /\ Elsewhere(r) /\ ReplicaShape' /\ excuse'[r] # {}
  <1>1. PICK rel \in SUBSET settings.rel, own \in {{}, settings.own} :
           change' = [change EXCEPT ![r] =
               [step |-> "rules", paths |-> Ruled(rel), late |-> FALSE,
                rules |-> [settings EXCEPT !.rel = rel, !.own = own]]]
    BY DEF ChangeMisreads
  <1>2. PICK c, s : /\ s = [settings EXCEPT !.rel = rel, !.own = own]
                    /\ c = [step |-> "rules", paths |-> Ruled(rel), late |-> FALSE, rules |-> s]
    OBVIOUS
  <1>3. c \in Patcher
    <2>1. settings \in Rules /\ settings.rel \subseteq Dept \X Family
      BY SettingsFields, DecisionDataAssumption DEF OutboxShape, Rules
    <2>2. rel \subseteq Dept \X Family /\ own \subseteq Family
      BY <2>1 DEF Rules
    <2>3. s \in Rules
      BY <1>2, <2>1, <2>2 DEF Rules
    <2>4. Ruled(rel) \in SUBSET Dept
      BY <2>2 DEF Ruled
    <2> QED BY <1>2, <2>3, <2>4, PatcherMade
  <1>4. /\ change' \in [Replica -> Patcher]
        /\ \A v \in Replica \ {r} : change'[v] = change[v]
    BY <1>1, <1>2, <1>3 DEF ReplicaShape
  <1>5. /\ excuse' \in [Replica -> SUBSET Excuses]
        /\ \A v \in Replica \ {r} : excuse'[v] = excuse[v]
        /\ excuse'[r] # {}
    BY DEF ChangeMisreads, Excuse, Excuses, ReplicaShape
  <1>6. /\ inbox[r]["update"] # <<>> /\ inbox' = [inbox EXCEPT ![r]["update"] = Tail(@)]
        /\ OutboxStays /\ about' = about /\ UNCHANGED <<phase, store, sub, thread>>
    BY DEF ChangeMisreads, OutboxStays
  <1>7. "update" \in Channel
    BY DEF Channel
  <1>8. /\ inbox' \in [Replica -> [Channel -> Seq(1..Len(about))]]
        /\ \A v \in Replica \ {r} : inbox'[v] = inbox[v]
        /\ phase[r] = "up"
        /\ \A d \in Channel : inbox'[r][d] # <<>> => d \in sub[r]
    BY <1>6, <1>7, Taken
  <1>9. Typed /\ Elsewhere(r)
    BY <1>4, <1>5, <1>6, <1>8 DEF Typed, Elsewhere, ReplicaShape
  <1>10. (thread[r]["load"].step # "idle") <=> phase[r] = "load"
    BY DEF ReplicaShape
  <1> QED BY <1>5, <1>6, <1>8, <1>9, <1>10, LocalShape

\* A sequence without its last element.
LEMMA FrontOf ==
    ASSUME NEW S, NEW s \in Seq(S), s # <<>>
    PROVE  SubSeq(s, 1, Len(s) - 1) \in Seq(S)
  OBVIOUS

\* A message is lost on its way, which is an excuse.
LEMMA LoseMessageMoves ==
    ASSUME ReplicaShape, NEW r \in Replica, NEW c \in Channel, LoseMessage(r, c)
    PROVE  OutboxStays /\ Elsewhere(r) /\ ReplicaShape' /\ excuse'[r] # {}
  <1>1. PICK S, q : S = Seq(1..Len(about)) /\ q = SubSeq(inbox[r][c], 1, Len(inbox[r][c]) - 1)
    OBVIOUS
  <1>2. /\ inbox[r][c] # <<>> /\ inbox' = [inbox EXCEPT ![r][c] = q]
        /\ OutboxStays /\ about' = about
        /\ UNCHANGED <<phase, store, sub, thread, change>>
    BY <1>1 DEF LoseMessage, OutboxStays
  <1>3. q \in S /\ inbox \in [Replica -> [Channel -> S]]
    <2>1. inbox[r][c] \in Seq(1..Len(about))
      BY DEF ReplicaShape
    <2> QED BY <1>1, <1>2, <2>1, FrontOf DEF ReplicaShape
  <1>4. /\ inbox' \in [Replica -> [Channel -> S]]
        /\ \A d \in Channel \ {c} : inbox'[r][d] = inbox[r][d]
        /\ \A v \in Replica \ {r} : inbox'[v] = inbox[v]
    <2>1. PICK box, next : box = inbox /\ next = inbox'
      OBVIOUS
    <2>2. box \in [Replica -> [Channel -> S]] /\ next = [box EXCEPT ![r][c] = q]
      BY <1>2, <1>3, <2>1
    <2>3. /\ next \in [Replica -> [Channel -> S]]
          /\ \A d \in Channel \ {c} : next[r][d] = box[r][d]
          /\ \A v \in Replica \ {r} : next[v] = box[v]
      BY <1>3, <2>2, OneChannel
    <2> QED BY <2>1, <2>3
  <1>5. /\ excuse' \in [Replica -> SUBSET Excuses]
        /\ \A v \in Replica \ {r} : excuse'[v] = excuse[v]
        /\ excuse'[r] # {}
    BY DEF LoseMessage, Excuse, Excuses, ReplicaShape
  <1>6. Typed /\ Elsewhere(r)
    BY <1>1, <1>2, <1>4, <1>5 DEF Typed, Elsewhere, ReplicaShape
  <1>7. /\ sub[r] # {} => phase[r] = "up"
        /\ \A d \in Channel : inbox[r][d] # <<>> => d \in sub[r]
        /\ (thread[r]["load"].step # "idle") <=> phase[r] = "load"
        /\ thread[r]["timer"].step # "idle" => phase[r] = "up"
        /\ thread[r]["init"].step # "idle" => phase[r] = "up"
        /\ change[r].step # "idle" => phase[r] = "up"
    BY DEF ReplicaShape
  <1>8. \A d \in Channel : inbox'[r][d] # <<>> => d \in sub[r]
    BY <1>2, <1>4, <1>7
  <1> QED BY <1>2, <1>5, <1>6, <1>7, <1>8, LocalShape

\* A replica begins to listen to a channel.
LEMMA SubscribeMoves ==
    ASSUME ReplicaShape, NEW r \in Replica, NEW c \in Channel, Subscribe(r, c)
    PROVE  /\ OutboxStays /\ Elsewhere(r) /\ ReplicaShape'
           /\ UNCHANGED <<phase, store, inbox, thread, change, excuse>>
  <1>1. /\ phase[r] = "up" /\ OutboxStays /\ sub' = [sub EXCEPT ![r] = @ \cup {c}]
        /\ UNCHANGED <<phase, store, inbox, thread, change, excuse>>
    BY DEF Subscribe, OutboxStays
  <1>2. /\ sub' \in [Replica -> SUBSET Channel] /\ sub'[r] = sub[r] \cup {c}
        /\ \A v \in Replica \ {r} : sub'[v] = sub[v]
    BY <1>1 DEF ReplicaShape
  <1>3. Typed /\ Elsewhere(r)
    BY <1>1, <1>2 DEF Typed, Elsewhere, ReplicaShape
  <1>4. /\ about' = about /\ \A d \in Channel : inbox[r][d] # <<>> => d \in sub[r]
        /\ (thread[r]["load"].step # "idle") <=> phase[r] = "load"
    BY <1>1 DEF OutboxStays, ReplicaShape
  <1> QED BY <1>1, <1>2, <1>3, <1>4, LocalShape

\* The channels after an announcement was owed.
LEMMA InboxGrows ==
    ASSUME NEW a \in Nat, NEW b \in Nat, a <= b,
           NEW box \in [Replica -> [Channel -> Seq(1..a)]]
    PROVE  box \in [Replica -> [Channel -> Seq(1..b)]]
  <1>1. \A r \in Replica, c \in Channel : box[r][c] \in Seq(1..b)
    BY MoreMessages
  <1> QED BY <1>1

\* A new announcement keeps the types of the replicas.
LEMMA AnnouncedReplica ==
    ASSUME OutboxShape, ReplicaShape,
           \/ \E s \in Settings : SetPolicy(s)
           \/ \E m \in Memberships : MoveUser(m)
    PROVE  ReplicaShape'
  <1>1. UNCHANGED replica /\ Len(about') = Len(about) + 1 /\ Len(about) \in Nat
    <2>1. PICK c \in Channel, paths \in SUBSET Dept : Announce(c, paths) /\ UNCHANGED replica
      <3>1. CASE \E s \in Settings : SetPolicy(s)
        BY <3>1 DEF SetPolicy, Channel
      <3>2. CASE \E m \in Memberships : MoveUser(m)
        <4>1. PICK m \in Memberships : MoveUser(m)
          BY <3>2
        <4>2. (m \ member) \cup (member \ m) \in SUBSET Dept
          BY DecisionDataAssumption DEF OutboxShape
        <4> QED BY <4>1, <4>2 DEF MoveUser, Channel
      <3> QED BY <3>1, <3>2
    <2>2. Len(about') = Len(about) + 1
      BY <2>1, AnnounceMoves
    <2> QED BY <2>1, <2>2 DEF OutboxShape
  <1>2. PICK a \in Nat, b \in Nat : a = Len(about) /\ b = Len(about') /\ a <= b
    BY <1>1
  <1>3. inbox \in [Replica -> [Channel -> Seq(1..a)]]
    BY <1>2 DEF ReplicaShape
  <1>4. inbox \in [Replica -> [Channel -> Seq(1..b)]]
    BY <1>2, <1>3, InboxGrows
  <1>5. inbox' \in [Replica -> [Channel -> Seq(1..Len(about'))]]
    BY <1>1, <1>2, <1>4 DEF replica
  <1> QED BY <1>1, <1>5 DEF ReplicaShape, replica

\* What a publication does to a replica.
LEMMA ESSendMoves ==
    ASSUME OutboxShape, ReplicaShape, NEW m \in rows, ESSend(m)
    PROVE  /\ ReplicaShape'
           /\ UNCHANGED <<db, rows, dispatch, owed, about, phase, store, sub, thread, change>>
           /\ dispatch = {m} /\ ~sent /\ sent'
           /\ about[m].chan \in Channel
           /\ \A r \in Replica, c \in Channel :
                 inbox'[r][c] = IF c = about[m].chan /\ c \in sub[r]
                                THEN Append(inbox[r][c], m) ELSE inbox[r][c]
           /\ \A r \in Replica :
                 /\ excuse[r] # {} => excuse'[r] # {}
                 /\ phase[r] # "down" /\ about[m].chan \notin sub[r] => excuse'[r] # {}
  <1>1. m \in 1..Len(about)
    BY DEF OutboxShape
  <1>2. about[m].chan \in Channel
    BY <1>1, AboutFields
  <1>3. /\ UNCHANGED <<db, rows, dispatch, owed, about, phase, store, sub, thread, change>>
        /\ dispatch = {m} /\ ~sent /\ sent'
        /\ inbox' = Push(m) /\ excuse' = Excuse(Deaf(m), "deaf")
    BY DEF ESSend
  <1>4. \A r \in Replica, c \in Channel :
           inbox'[r][c] = IF c = about[m].chan /\ c \in sub[r]
                          THEN Append(inbox[r][c], m) ELSE inbox[r][c]
    BY <1>3 DEF Push
  <1>5. /\ excuse' \in [Replica -> SUBSET Excuses]
        /\ \A r \in Replica :
              /\ excuse[r] # {} => excuse'[r] # {}
              /\ phase[r] # "down" /\ about[m].chan \notin sub[r] => excuse'[r] # {}
    <2>1. PICK R : R = Deaf(m)
      OBVIOUS
    <2>2. \A r \in Replica : phase[r] # "down" /\ about[m].chan \notin sub[r] => r \in R
      BY <2>1 DEF Deaf
    <2>3. excuse' = [r \in Replica |-> IF r \in R THEN excuse[r] \cup {"deaf"} ELSE excuse[r]]
      BY <1>3, <2>1 DEF Excuse
    <2> QED BY <2>2, <2>3 DEF ReplicaShape, Excuses
  <1>6. inbox' \in [Replica -> [Channel -> Seq(1..Len(about))]]
    <2>1. PICK S : S = 1..Len(about)
      OBVIOUS
    <2>2. \A r \in Replica, c \in Channel : inbox[r][c] \in Seq(S) /\ m \in S
      BY <1>1, <2>1 DEF ReplicaShape
    <2>3. \A r \in Replica, c \in Channel : inbox'[r][c] \in Seq(S)
      <3> TAKE r \in Replica, c \in Channel
      <3>1. PICK q \in Seq(S) : q = inbox[r][c]
        BY <2>2
      <3>2. Append(q, m) \in Seq(S)
        BY <2>2, AppendOf
      <3> QED BY <1>4, <3>1, <3>2
    <2>4. inbox' = [r \in Replica |-> [c \in Channel |-> inbox'[r][c]]]
      BY <1>3 DEF Push
    <2>5. inbox' \in [Replica -> [Channel -> Seq(S)]]
      BY <2>3, <2>4
    <2> QED BY <2>1, <2>5
  <1>7. \A r \in Replica : \A c \in Channel : inbox'[r][c] # <<>> => c \in sub'[r]
    <2>1. \A r \in Replica, c \in Channel :
             inbox'[r][c] = inbox[r][c] \/ c \in sub[r]
      BY <1>4
    <2> QED BY <1>3, <2>1 DEF ReplicaShape
  <1>8. ReplicaShape'
    BY <1>3, <1>5, <1>6, <1>7 DEF ReplicaShape
  <1> QED BY <1>2, <1>3, <1>4, <1>5, <1>8

\* The replicas keep their types.
LEMMA NextReplicaShape ==
    ASSUME OutboxShape, ReplicaShape, [Next]_vars
    PROVE  ReplicaShape'
  <1>1. ASSUME NEW r \in Replica, ReplicaNext(r)
        PROVE  ReplicaShape'
    <2>1. ASSUME NEW t \in Reader, GetOPAData(r, t) \/ Install(r, t) \/ Assign(r, t)
          PROVE  ReplicaShape'
      BY <2>1, ReadShape, InstallShape, AssignShape
    <2>2. ASSUME NEW t \in Reader, ReadFails(r, t) \/ Agree(r, t)
          PROVE  ReplicaShape'
      BY <2>2, StopMoves, TimerEnds
    <2>3. CASE OrphanPanics(r) \/ Crash(r)
      BY <2>3, StopMoves DEF OrphanPanics, Crash
    <2>4. CASE Start(r) \/ InitHandler(r) \/ TimerTick(r)
      BY <2>4, StartMoves, InitHandlerMoves, TimerMoves
    <2>5. CASE ChangeHandler(r) \/ OpenPatch(r) \/ CommitPatch(r)
      BY <2>5, ChangeHandlerMoves, OpenPatchMoves, CommitPatchMoves
    <2>6. CASE LosePatch(r) \/ ChangeFails(r) \/ ChangeMisreads(r)
      BY <2>6, DropMoves, MisreadMoves
    <2>7. ASSUME NEW c \in Channel, Subscribe(r, c) \/ LoseMessage(r, c)
          PROVE  ReplicaShape'
      BY <2>7, SubscribeMoves, LoseMessageMoves
    <2> QED BY <1>1, <2>1, <2>2, <2>3, <2>4, <2>5, <2>6, <2>7 DEF ReplicaNext
  <1>2. ASSUME NEW m \in owed, Forget(m)
        PROVE  ReplicaShape'
    BY <1>2 DEF Forget, Excuse, Excuses, ReplicaShape
  <1>3. ASSUME NEW m \in rows, ESSend(m)
        PROVE  ReplicaShape'
    BY <1>3, ESSendMoves
  <1>4. CASE \/ UNCHANGED vars \/ Rollback
             \/ \E m \in owed : Send(m)
             \/ \E m \in rows : GetEvent(m) \/ Commit(m)
    <2>1. UNCHANGED <<replica, about>>
      BY <1>4 DEF vars, Rollback, Send, GetEvent, Commit
    <2> QED BY <2>1 DEF ReplicaShape, replica
  <1> QED BY <1>1, <1>2, <1>3, <1>4, AnnouncedReplica DEF Next, ReplicaNext

\* The first state.
LEMMA InitShape ==
    ASSUME Init
    PROVE  OutboxShape /\ ReplicaShape
  <1>1. OutboxShape
    <2>1. about \in Seq([chan : Channel, paths : SUBSET Dept]) /\ log \in Seq(Nat)
          /\ Len(about) \in 0..MaxWrites
      BY DecisionDataAssumption DEF Init
    <2> QED BY <2>1, DecisionDataAssumption DEF Init, OutboxShape
  <1>2. /\ phase \in [Replica -> {"down", "load", "up"}]
        /\ store \in [Replica -> StoreType]
        /\ sub \in [Replica -> SUBSET Channel]
        /\ excuse \in [Replica -> SUBSET Excuses]
        /\ change \in [Replica -> Patcher]
    BY EmptyStore, PatcherMade DEF Init
  <1>3. thread \in [Replica -> [Reader -> Task]]
    BY TaskMade DEF Init
  <1>4. inbox \in [Replica -> [Channel -> Seq(1..Len(about))]]
    BY DEF Init
  <1>5. \A r \in Replica :
           /\ phase[r] = "down" /\ sub[r] = {} /\ change[r].step = "idle"
           /\ \A c \in Channel : inbox[r][c] = <<>>
           /\ \A t \in Reader : thread[r][t].step = "idle"
    BY DEF Init
  <1> QED BY <1>1, <1>2, <1>3, <1>4, <1>5 DEF ReplicaShape, Reader

\* The types of the outbox and of every replica hold in every state.
LEMMA Shaped == Spec => [](OutboxShape /\ ReplicaShape)
  <1>1. OutboxShape /\ ReplicaShape /\ [Next]_vars => (OutboxShape /\ ReplicaShape)'
    BY NextOutboxShape, NextReplicaShape
  <1> QED BY <1>1, InitShape, PTL DEF Spec

-----------------------------------------------------------------------------
(* The queries: one that does not read the store is about to be assigned   *)
(* by the thread that replaced it, or the replica has an excuse.           *)

Pending(r, q) == \E t \in Reader : thread[r][t].step \in {"decisionQuery", q}
QueriesInv ==
    /\ behind \in [Replica -> [Query -> SUBSET StoreType]]
    /\ \A r \in Replica, q \in Query :
          excuse[r] = {} /\ behind[r][q] # {} => Pending(r, q)

\* Steps that leave the queries, and the threads between their assignments,
\* as they are.
LEMMA QueriesKept ==
    ASSUME QueriesInv, behind' = behind,
           \A r \in Replica : excuse'[r] = {} => excuse[r] = {},
           \A r \in Replica, t \in Reader :
              thread[r][t].step \in Query => thread'[r][t].step = thread[r][t].step
    PROVE  QueriesInv'
  <1>1. ASSUME NEW r \in Replica, NEW q \in Query, Pending(r, q)
        PROVE  Pending(r, q)'
    BY <1>1 DEF Pending, Query
  <1> QED BY <1>1 DEF QueriesInv

\* Of a step of replica r, only what it does to r matters.
LEMMA QueriesLocal ==
    ASSUME QueriesInv, NEW r \in Replica, Elsewhere(r),
           behind' \in [Replica -> [Query -> SUBSET StoreType]],
           \A v \in Replica \ {r} : behind'[v] = behind[v],
           \A q \in Query : excuse'[r] = {} /\ behind'[r][q] # {} => Pending(r, q)'
    PROVE  QueriesInv'
  <1>1. ASSUME NEW v \in Replica, NEW q \in Query, excuse'[v] = {}, behind'[v][q] # {}
        PROVE  Pending(v, q)'
    <2>1. CASE v = r
      BY <1>1, <2>1
    <2>2. CASE v # r
      BY <1>1, <2>2 DEF QueriesInv, Elsewhere, Pending
    <2> QED BY <2>1, <2>2
  <1> QED BY <1>1 DEF QueriesInv

\* A thread that replaces the store has both queries to assign.
LEMMA QueriesInstall ==
    ASSUME ReplicaShape, QueriesInv, NEW r \in Replica, NEW t \in Reader, Install(r, t)
    PROVE  QueriesInv'
  <1>1. Elsewhere(r) /\ thread'[r][t].step = "decisionQuery"
    BY InstallMoves
  <1>2. PICK B : B = [q \in Query |-> IF behind[r][q] = {} THEN {store[r]} ELSE behind[r][q]]
    OBVIOUS
  <1>3. behind' = [behind EXCEPT ![r] = B]
    BY <1>2 DEF Install
  <1>4. B \in [Query -> SUBSET StoreType]
    BY <1>2 DEF QueriesInv, ReplicaShape
  <1>5. /\ behind' \in [Replica -> [Query -> SUBSET StoreType]]
        /\ \A v \in Replica \ {r} : behind'[v] = behind[v]
    BY <1>3, <1>4 DEF QueriesInv
  <1>6. \A q \in Query : Pending(r, q)'
    BY <1>1 DEF Pending
  <1> QED BY <1>1, <1>5, <1>6, QueriesLocal

\* An assignment makes a query read the store, or is an excuse; the other
\* query is left to its thread.
LEMMA QueriesAssign ==
    ASSUME ReplicaShape, QueriesInv, NEW r \in Replica, NEW t \in Reader, Assign(r, t)
    PROVE  QueriesInv'
  <1>1. /\ Elsewhere(r)
        /\ \A s \in Reader \ {t} : thread'[r][s] = thread[r][s]
        /\ \/ thread[r][t].step = "decisionQuery" /\ thread'[r][t].step = "queryQuery"
           \/ thread[r][t].step = "queryQuery"
        /\ thread[r][t].late => excuse'[r] # {}
        /\ ~thread[r][t].late => excuse' = excuse
    BY AssignMoves
  <1>2. PICK x \in Task : x = thread[r][t]
    BY DEF ReplicaShape
  <1>3. x.step \in Query /\ x.new \in StoreType
    BY <1>1, <1>2, TaskFields DEF Query
  <1>4. PICK b : b = IF x.late THEN {x.new} ELSE {}
    OBVIOUS
  <1>5. b \in SUBSET StoreType
    BY <1>3, <1>4
  <1>6. behind' = [behind EXCEPT ![r][x.step] = b]
    BY <1>2, <1>4 DEF Assign
  <1>7. /\ behind' \in [Replica -> [Query -> SUBSET StoreType]]
        /\ \A v \in Replica \ {r} : behind'[v] = behind[v]
        /\ behind'[r][x.step] = b
        /\ \A q \in Query \ {x.step} : behind'[r][q] = behind[r][q]
    BY <1>3, <1>5, <1>6 DEF QueriesInv
  <1>8. ASSUME NEW q \in Query, excuse'[r] = {}, behind'[r][q] # {}
        PROVE  Pending(r, q)'
    <2>1. ~x.late /\ excuse[r] = {}
      BY <1>1, <1>2, <1>8
    <2>2. q # x.step /\ behind[r][q] # {}
      BY <1>4, <1>7, <1>8, <2>1
    <2>3. CASE thread[r][t].step = "decisionQuery" /\ thread'[r][t].step = "queryQuery"
      <3>1. q = "queryQuery"
        BY <1>2, <2>2, <2>3 DEF Query
      <3> QED BY <2>3, <3>1 DEF Pending
    <2>4. CASE thread[r][t].step = "queryQuery"
      <3>1. q = "decisionQuery"
        BY <1>2, <2>2, <2>4 DEF Query
      <3>2. PICK s \in Reader : thread[r][s].step = "decisionQuery"
        BY <2>1, <2>2, <3>1 DEF QueriesInv, Pending
      <3> QED BY <1>1, <2>4, <3>2 DEF Pending
    <2> QED BY <1>1, <2>3, <2>4
  <1> QED BY <1>1, <1>7, <1>8, QueriesLocal

\* A replica that stops has no queries.
LEMMA QueriesStop ==
    ASSUME ReplicaShape, QueriesInv, NEW r \in Replica, Stop(r)
    PROVE  QueriesInv'
  <1>1. PICK B : B = [q \in Query |-> {}]
    OBVIOUS
  <1>2. B \in [Query -> SUBSET StoreType] /\ \A q \in Query : B[q] = {}
    BY <1>1
  <1>3. behind' = [behind EXCEPT ![r] = B]
    BY <1>1 DEF Stop
  <1>4. /\ behind' \in [Replica -> [Query -> SUBSET StoreType]]
        /\ \A v \in Replica \ {r} : behind'[v] = behind[v]
        /\ \A q \in Query : behind'[r][q] = {}
    BY <1>2, <1>3 DEF QueriesInv
  <1>5. Elsewhere(r)
    BY StopMoves
  <1> QED BY <1>4, <1>5, QueriesLocal

\* A thread begins or goes on to read, or is through without a new store.
LEMMA QueriesRead ==
    ASSUME OutboxShape, ReplicaShape, QueriesInv, NEW r \in Replica,
           \/ Start(r) \/ InitHandler(r) \/ TimerTick(r)
           \/ \E t \in Reader : GetOPAData(r, t) \/ (ReadFails(r, t) /\ ~Stop(r)) \/ Agree(r, t)
    PROVE  QueriesInv'
  <1>1. /\ Elsewhere(r) /\ excuse' = excuse /\ behind' = behind
        /\ \E t \in Reader : /\ thread[r][t].step \notin Query
                             /\ \A s \in Reader \ {t} : thread'[r][s] = thread[r][s]
    <2>1. ASSUME NEW t \in Reader, GetOPAData(r, t)
          PROVE  /\ Elsewhere(r) /\ excuse' = excuse /\ behind' = behind
                 /\ thread[r][t].step \notin Query
                 /\ \A s \in Reader \ {t} : thread'[r][s] = thread[r][s]
      <3>1. /\ Elsewhere(r) /\ excuse' = excuse
            /\ thread[r][t].step \in {"rules", "members", "client"}
            /\ \A s \in Reader \ {t} : thread'[r][s] = thread[r][s]
        BY <2>1, ReadShape, ReadMoves
      <3>2. behind' = behind
        BY <2>1 DEF GetOPAData
      <3> QED BY <3>1, <3>2 DEF Query
    <2>2. ASSUME NEW t \in Reader, (ReadFails(r, t) /\ ~Stop(r)) \/ Agree(r, t)
          PROVE  /\ Elsewhere(r) /\ excuse' = excuse /\ behind' = behind
                 /\ thread[r][t].step \notin Query
                 /\ \A s \in Reader \ {t} : thread'[r][s] = thread[r][s]
      <3>1. /\ Elsewhere(r) /\ excuse' = excuse /\ t = "timer"
            /\ \A s \in Reader \ {"timer"} : thread'[r][s] = thread[r][s]
        BY <2>2, TimerEnds
      <3>2. behind' = behind /\ thread[r][t].step \notin Query
        BY <2>2 DEF ReadFails, Agree, Query
      <3> QED BY <3>1, <3>2
    <2>3. ASSUME NEW t \in Reader, Begin(r, t)
          PROVE  /\ thread[r][t].step \notin Query
                 /\ \A s \in Reader \ {t} : thread'[r][s] = thread[r][s]
      BY <2>3, BeginMoves DEF Query
    <2>4. CASE Start(r) \/ InitHandler(r) \/ TimerTick(r)
      <3>1. Elsewhere(r) /\ excuse' = excuse /\ behind' = behind
        BY <2>4, StartMoves, InitHandlerMoves, TimerMoves DEF Start, InitHandler, TimerTick
      <3>2. \E t \in Reader : Begin(r, t)
        BY <2>4 DEF Start, InitHandler, TimerTick, Reader
      <3> QED BY <2>3, <3>1, <3>2
    <2> QED BY <2>1, <2>2, <2>4
  <1>2. \A v \in Replica, s \in Reader :
           thread[v][s].step \in Query => thread'[v][s].step = thread[v][s].step
    BY <1>1 DEF Elsewhere
  <1> QED BY <1>1, <1>2, QueriesKept

\* The other steps of a replica.
LEMMA QueriesHandler ==
    ASSUME OutboxShape, ReplicaShape, QueriesInv, NEW r \in Replica,
           \/ ChangeHandler(r) \/ ChangeMisreads(r) \/ OpenPatch(r) \/ CommitPatch(r)
           \/ LosePatch(r) \/ ChangeFails(r)
           \/ \E c \in Channel : Subscribe(r, c) \/ LoseMessage(r, c)
    PROVE  QueriesInv'
  <1>1. behind' = behind
    BY DEF ChangeHandler, ChangeMisreads, OpenPatch, CommitPatch, LosePatch, ChangeFails,
           Subscribe, LoseMessage
  <1>2. /\ Elsewhere(r) /\ (excuse'[r] = {} => excuse[r] = {})
        /\ \A t \in Reader : thread'[r][t].step = thread[r][t].step
    <2>1. CASE CommitPatch(r)
      BY <2>1, CommitPatchMoves
    <2>2. CASE ChangeHandler(r) \/ OpenPatch(r)
      BY <2>2, ChangeHandlerMoves, OpenPatchMoves
    <2>3. CASE LosePatch(r) \/ ChangeFails(r) \/ ChangeMisreads(r)
      <3>1. thread' = thread
        BY <2>3 DEF LosePatch, ChangeFails, ChangeMisreads
      <3> QED BY <2>3, <3>1, DropMoves, MisreadMoves
    <2>4. ASSUME NEW c \in Channel, Subscribe(r, c)
          PROVE  /\ Elsewhere(r) /\ (excuse'[r] = {} => excuse[r] = {})
                 /\ \A t \in Reader : thread'[r][t].step = thread[r][t].step
      BY <2>4, SubscribeMoves
    <2>5. ASSUME NEW c \in Channel, LoseMessage(r, c)
          PROVE  /\ Elsewhere(r) /\ (excuse'[r] = {} => excuse[r] = {})
                 /\ \A t \in Reader : thread'[r][t].step = thread[r][t].step
      <3>1. thread' = thread
        BY <2>5 DEF LoseMessage
      <3> QED BY <2>5, <3>1, LoseMessageMoves
    <2> QED BY <2>1, <2>2, <2>3, <2>4, <2>5
  <1>3. \A v \in Replica : excuse'[v] = {} => excuse[v] = {}
    BY <1>2 DEF Elsewhere
  <1>4. \A v \in Replica, t \in Reader :
           thread[v][t].step \in Query => thread'[v][t].step = thread[v][t].step
    BY <1>2 DEF Elsewhere
  <1> QED BY <1>1, <1>3, <1>4, QueriesKept

\* Every step keeps it.
LEMMA QueriesStep ==
    ASSUME OutboxShape, ReplicaShape, QueriesInv, [Next]_vars
    PROVE  QueriesInv'
  <1>1. ASSUME NEW r \in Replica, ReplicaNext(r)
        PROVE  QueriesInv'
    <2>1. ASSUME NEW t \in Reader, Install(r, t) \/ Assign(r, t)
          PROVE  QueriesInv'
      BY <2>1, QueriesInstall, QueriesAssign
    <2>2. CASE Stop(r)
      BY <2>2, QueriesStop
    <2>3. ASSUME NEW t \in Reader, GetOPAData(r, t) \/ ReadFails(r, t) \/ Agree(r, t)
          PROVE  QueriesInv'
      BY <2>2, <2>3, QueriesRead
    <2>4. CASE OrphanPanics(r) \/ Crash(r)
      BY <2>2, <2>4 DEF OrphanPanics, Crash
    <2> QED BY <1>1, <2>1, <2>3, <2>4, QueriesRead, QueriesHandler DEF ReplicaNext
  <1>2. ASSUME \/ UNCHANGED vars \/ Rollback
               \/ \E s \in Settings : SetPolicy(s)
               \/ \E m \in Memberships : MoveUser(m)
               \/ \E m \in owed : Send(m)
               \/ \E m \in rows : GetEvent(m) \/ Commit(m)
        PROVE  QueriesInv'
    <2>1. UNCHANGED replica
      BY <1>2 DEF vars, Rollback, SetPolicy, MoveUser, Send, GetEvent, Commit
    <2> QED BY <2>1, QueriesKept DEF replica
  <1>3. ASSUME NEW m, ESSend(m) \/ Forget(m)
        PROVE  QueriesInv'
    <2>1. /\ behind' = behind /\ thread' = thread
          /\ \E R, e : excuse' = Excuse(R, e)
      BY <1>3 DEF ESSend, Forget
    <2>2. \A r \in Replica : excuse'[r] = {} => excuse[r] = {}
      BY <2>1 DEF Excuse
    <2> QED BY <2>1, <2>2, QueriesKept
  <1> QED BY <1>1, <1>2, <1>3 DEF Next, ReplicaNext

\* The queries keep to it in every state.
LEMMA Queried == Spec => []QueriesInv
  <1>1. Init => QueriesInv
    <2> SUFFICES ASSUME Init
                 PROVE  QueriesInv
      OBVIOUS
    <2>1. behind \in [Replica -> [Query -> SUBSET StoreType]]
          /\ \A r \in Replica, q \in Query : behind[r][q] = {}
      BY DEF Init
    <2> QED BY <2>1 DEF QueriesInv
  <1>2. OutboxShape /\ ReplicaShape /\ QueriesInv /\ [Next]_vars => QueriesInv'
    BY QueriesStep
  <1> QED BY <1>1, <1>2, Shaped, PTL DEF Spec

\* The types of the variables: messages wait on channels the replica is
\* subscribed to, only a running replica works, and one dispatcher at a time
\* holds a row, which is undispatched.
THEOREM DecisionDataTyped == Spec => []TypeOK
  <1>1. OutboxShape /\ ReplicaShape /\ QueriesInv => TypeOK
    <2> SUFFICES ASSUME OutboxShape, ReplicaShape, QueriesInv
                 PROVE  TypeOK
      OBVIOUS
    <2>1. 1..Len(about) \subseteq Msg
      BY DecisionDataAssumption DEF OutboxShape, Msg
    <2>2. Cardinality(dispatch) <= 1
      <3>1. CASE dispatch = {}
        BY <3>1, FS_EmptySet
      <3>2. ASSUME NEW m, dispatch = {m}
            PROVE  Cardinality(dispatch) <= 1
        <4>1. Cardinality({m}) = 1
          BY FS_Singleton
        <4> QED BY <3>2, <4>1
      <3> QED BY <3>1, <3>2 DEF OutboxShape
    <2>3. dispatch \subseteq rows
      BY DEF OutboxShape
    <2>4. \A r \in Replica, q \in Query : behind[r][q] \subseteq StoreType
      BY DEF QueriesInv
    <2> QED BY <2>1, <2>2, <2>3, <2>4 DEF TypeOK, OutboxShape, ReplicaShape
  <1> QED BY <1>1, Shaped, Queried, PTL

-----------------------------------------------------------------------------
(* The outbox of announcements implements EventDelivery.                   *)

\* Every step of the outbox is one of EventDelivery, or none.
LEMMA DeliveryStep ==
    ASSUME OutboxShape, [Next]_vars
    PROVE  [Delivery!Next]_(Delivery!vars)
  <1>1. ASSUME UNCHANGED <<rows, settled, log>>
        PROVE  UNCHANGED Delivery!vars
    BY <1>1 DEF Delivery!vars
  <1>2. ASSUME NEW m \in owed, Send(m)
        PROVE  Delivery!Next
    <2>1. m \in 1..Len(about) /\ m \notin rows \cup settled
      BY DEF OutboxShape
    <2>2. {m} \in SUBSET Msg /\ {m} # {} /\ {m} \cap (rows \cup settled) = {}
      BY <2>1, DecisionDataAssumption DEF OutboxShape, Msg
    <2>3. /\ rows' \cup settled' = (rows \cup settled) \cup {m}
          /\ settled' = settled /\ log' = log
      BY <1>2 DEF Send
    <2>4. Delivery!Accept({m})
      BY <2>2, <2>3 DEF Delivery!Accept
    <2> QED BY <2>2, <2>4 DEF Delivery!Next
  <1>3. ASSUME NEW m \in rows, ESSend(m)
        PROVE  Delivery!Next
    <2>1. m \in Msg
      BY DecisionDataAssumption DEF OutboxShape, Msg
    <2>2. rows' = rows /\ settled' = settled /\ log' = Append(log, m)
      BY <1>3 DEF ESSend
    <2>3. Delivery!Publish(m)
      BY <2>2 DEF Delivery!Publish
    <2> QED BY <2>1, <2>3 DEF Delivery!Next
  <1>4. ASSUME NEW m \in rows, Commit(m)
        PROVE  Delivery!Next
    <2>1. m \in Msg
      BY DecisionDataAssumption DEF OutboxShape, Msg
    <2>2. /\ rows' \cup settled' = rows \cup settled
          /\ settled' = settled \cup {m} /\ log' = log
      BY <1>4 DEF Commit
    <2>3. m \in (rows \cup settled) \ settled
      BY DEF OutboxShape
    <2>4. m \in Delivery!Published
      BY <1>4 DEF Commit, OutboxShape, Delivery!Published
    <2>5. Delivery!Settle(m)
      BY <2>2, <2>3, <2>4 DEF Delivery!Settle
    <2> QED BY <2>1, <2>5 DEF Delivery!Next
  <1>5. CASE \/ \E s \in Settings : SetPolicy(s)
             \/ \E m \in Memberships : MoveUser(m)
             \/ \E m \in owed : Forget(m)
             \/ \E m \in rows : GetEvent(m)
             \/ Rollback \/ UNCHANGED vars
    <2>1. UNCHANGED <<rows, settled, log>>
      BY <1>5 DEF SetPolicy, MoveUser, Forget, GetEvent, Rollback, vars, outbox
    <2> QED BY <1>1, <2>1
  <1>6. ASSUME NEW r \in Replica, ReplicaNext(r)
        PROVE  UNCHANGED Delivery!vars
    BY <1>1, <1>6, ReplicaStays DEF OutboxStays, outbox
  <1> QED BY <1>2, <1>3, <1>4, <1>5, <1>6 DEF Next, ReplicaNext

\* The outbox of announcements keeps the promise of EventDelivery: a row is
\* marked as dispatched only after its message was given to Redis, whatever
\* fails.
THEOREM AnnouncementsDelivered == Spec => ImplementsDelivery
  <1>1. Init => Delivery!Init
    BY DEF Init, Delivery!Init
  <1>2. OutboxShape /\ [Next]_vars => [Delivery!Next]_(Delivery!vars)
    BY DeliveryStep
  <1> QED BY <1>1, <1>2, Shaped, PTL DEF Spec, ImplementsDelivery, Delivery!Spec

-----------------------------------------------------------------------------
(* What a store says.                                                      *)

\* The store d answers as the settings s and the departments m demand, and
\* has the entries a patch relies on.
Says(d, s, m) ==
    /\ Answers(d) = Answers(OPAData(s, m)) /\ d.rel = OPAData(s, m).rel
    /\ s.enabled /\ s.own # {} => \A f \in Family : d.users[f].known

\* The departments m and n are the same, but for some of D.
Agrees(m, n, D) == (m \ n) \cup (n \ m) \subseteq D

\* The store d is what s and m demand, but for departments of D.
Sound(d, s, m, D) == \E n \in SUBSET Dept : Agrees(n, m, D) /\ Says(d, s, n)

\* What Says amounts to.
LEMMA SaysFields ==
    ASSUME NEW d \in StoreType, NEW s \in Settings, NEW m \in SUBSET Dept
    PROVE  Says(d, s, m) <=>
             /\ d.enabled = s.enabled /\ d.client = s.client
             /\ d.rel = (IF s.enabled THEN s.rel ELSE {})
             /\ \A p \in d.rel : p[1] \in d.users[p[2]].depts <=> p[1] \in m
             /\ \A f \in Family : d.users[f].own <=> s.enabled /\ f \in s.own
             /\ s.enabled => ((\E f \in Family : d.users[f].known) <=>
                                \E f \in Family : m \cap Ruled(s.rel) # {} \/ s.own # {})
             /\ s.enabled /\ s.own # {} => \A f \in Family : d.users[f].known
  <1> DEFINE o == OPAData(s, m)
  <1>1. /\ o.enabled = s.enabled /\ o.client = s.client
        /\ o.rel = (IF s.enabled THEN s.rel ELSE {})
        /\ o.users = IF s.enabled THEN UserData(s.rel, s.own, m) ELSE Nobody
    BY DEF OPAData
  <1>2. \A f \in Family :
           /\ o.users[f].known <=> (s.enabled /\ (m \cap Ruled(s.rel) # {} \/ s.own # {}))
           /\ o.users[f].own <=> (s.enabled /\ f \in s.own)
           /\ o.users[f].depts = IF s.enabled THEN m \cap Ruled(s.rel) ELSE {}
    <2> HIDE DEF o
    <2>1. PICK D : D = m \cap Ruled(s.rel)
      OBVIOUS
    <2>2. CASE s.enabled
      <3>1. \A f \in Family : o.users[f] = [known |-> D # {} \/ s.own # {}, depts |-> D,
                                            own |-> f \in s.own]
        BY <1>1, <2>1, <2>2 DEF UserData
      <3>2. \A f \in Family :
               /\ o.users[f].known <=> (D # {} \/ s.own # {})
               /\ o.users[f].own <=> f \in s.own
               /\ o.users[f].depts = D
        <4> TAKE f \in Family
        <4>1. PICK u : u = o.users[f]
          OBVIOUS
        <4>2. PICK k, b : k = (D # {} \/ s.own # {}) /\ b = (f \in s.own)
          OBVIOUS
        <4>3. u = [known |-> k, depts |-> D, own |-> b]
          BY <3>1, <4>1, <4>2, Zenon
        <4>4. u.known = k /\ u.own = b /\ u.depts = D
          BY <4>3
        <4> QED BY <4>1, <4>2, <4>4, Zenon
      <3> QED BY <2>1, <2>2, <3>2
    <2>3. CASE ~s.enabled
      <3>1. \A f \in Family : o.users[f] = [known |-> FALSE, depts |-> {}, own |-> FALSE]
        BY <1>1, <2>3 DEF Nobody
      <3> QED BY <2>3, <3>1
    <2> QED BY <2>2, <2>3
  <1>3. s.rel \subseteq Dept \X Family /\ s.enabled \in BOOLEAN /\ s.own \subseteq Family
        /\ s.client \in BOOLEAN
    BY SettingsFields
  <1>4. \A p \in o.rel : p[2] \in Family /\ (p[1] \in o.users[p[2]].depts <=> p[1] \in m)
    <2> HIDE DEF o
    <2> TAKE p \in o.rel
    <2>1. s.enabled /\ p \in s.rel
      BY <1>1
    <2>2. p[1] \in Ruled(s.rel) /\ p[2] \in Family
      BY <1>3, <2>1 DEF Ruled
    <2> QED BY <1>2, <2>1, <2>2
  <1>5. d.enabled \in BOOLEAN /\ \A f \in Family : /\ d.users[f].known \in BOOLEAN
                                                   /\ d.users[f].own \in BOOLEAN
    BY StoreFields DEF UserType
  <1> HIDE DEF o
  <1>6. Answers(d) = Answers(o) <=>
           /\ d.enabled = o.enabled /\ d.client = o.client
           /\ {p \in d.rel : p[1] \in d.users[p[2]].depts}
                 = {p \in o.rel : p[1] \in o.users[p[2]].depts}
           /\ {f \in Family : d.users[f].own} = {f \in Family : o.users[f].own}
           /\ (d.enabled /\ \E f \in Family : d.users[f].known)
                 = (o.enabled /\ \E f \in Family : o.users[f].known)
    BY DEF Answers
  <1>7. {f \in Family : d.users[f].own} = {f \in Family : o.users[f].own} <=>
           \A f \in Family : d.users[f].own <=> s.enabled /\ f \in s.own
    BY <1>2, <1>5
  <1>8. ASSUME d.rel = o.rel
        PROVE  {p \in d.rel : p[1] \in d.users[p[2]].depts}
                 = {p \in o.rel : p[1] \in o.users[p[2]].depts} <=>
               \A p \in d.rel : p[1] \in d.users[p[2]].depts <=> p[1] \in m
    BY <1>4, <1>8
  <1>9. ASSUME d.enabled = o.enabled
        PROVE  (d.enabled /\ \E f \in Family : d.users[f].known)
                 = (o.enabled /\ \E f \in Family : o.users[f].known) <=>
               (s.enabled => ((\E f \in Family : d.users[f].known) <=>
                                \E f \in Family : m \cap Ruled(s.rel) # {} \/ s.own # {}))
    BY <1>1, <1>2, <1>3, <1>5, <1>9
  <1>10. Says(d, s, m) <=>
           /\ Answers(d) = Answers(o) /\ d.rel = o.rel
           /\ s.enabled /\ s.own # {} => \A f \in Family : d.users[f].known
    BY DEF Says, o
  <1> QED BY <1>1, <1>6, <1>7, <1>8, <1>9, <1>10

\* What getOPAData returns says what it read.
LEMMA SaysRead ==
    ASSUME NEW s \in Settings, NEW m \in SUBSET Dept
    PROVE  Says(OPAData(s, m), s, m)
  BY DEF Says, OPAData, UserData

\* Departments without a network do not matter, nor any with the switch off.
LEMMA SaysSame ==
    ASSUME NEW d \in StoreType, NEW s \in Settings, NEW m \in SUBSET Dept,
           NEW n \in SUBSET Dept, Says(d, s, m),
           s.enabled => m \cap Ruled(s.rel) = n \cap Ruled(s.rel)
    PROVE  Says(d, s, n)
  <1>1. OPAData(s, m) = OPAData(s, n)
    BY DEF OPAData, UserData
  <1> QED BY <1>1 DEF Says

\* Departments with a network of some family.
LEMMA NoIdsRuled ==
    ASSUME NEW s \in Settings, NEW m \in SUBSET Dept
    PROVE  NoIds(s, m) <=> m \cap Ruled(s.rel) = {}
  <1>1. s.rel \subseteq Dept \X Family
    BY SettingsFields
  <1>2. ASSUME NEW f \in Family, NEW x \in Ids(s, m, f)
        PROVE  x \in m \cap Ruled(s.rel)
    <2>1. x \in m /\ <<x, f>> \in s.rel
      BY DEF Ids
    <2>2. <<x, f>>[1] = x
      OBVIOUS
    <2> QED BY <2>1, <2>2 DEF Ruled
  <1>3. ASSUME NEW x \in m \cap Ruled(s.rel)
        PROVE  \E f \in Family : x \in Ids(s, m, f)
    <2>1. PICK p \in s.rel : x = p[1]
      BY DEF Ruled
    <2>2. p[2] \in Family /\ p = <<x, p[2]>>
      BY <1>1, <2>1
    <2> QED BY <2>1, <2>2 DEF Ids
  <1> QED BY <1>2, <1>3 DEF NoIds

\* A patch of one entry, where it is exact.
LEMMA PatchUserSays ==
    ASSUME NEW u \in UserType, NEW s \in Settings, NEW n \in SUBSET Dept, NEW f \in Family,
           u.own <=> f \in s.own, s.own # {} => u.known,
           Ids(s, n, f) = {} /\ ~NoIds(s, n) => Ids(s, u.depts, f) = {}
    PROVE  LET v == PatchUser(u, s, n, f)
           IN  /\ \A x : <<x, f>> \in s.rel => (x \in v.depts <=> x \in n)
               /\ v.own <=> f \in s.own
               /\ s.own # {} => v.known
               /\ s.own = {} /\ NoIds(s, n) => ~v.known
               /\ s.own = {} /\ Ids(s, n, f) # {} => v.known
  <1> DEFINE v == PatchUser(u, s, n, f)
             ids == Ids(s, n, f)
  <1>1. \A x : <<x, f>> \in s.rel => (x \in ids <=> x \in n)
    BY DEF Ids
  <1>2. NoIds(s, n) => ids = {}
    BY DEF NoIds
  <1>3. \A D : /\ [u EXCEPT !.depts = D].depts = D
               /\ [u EXCEPT !.depts = D].own = u.own
               /\ [u EXCEPT !.depts = D].known = u.known
    BY DEF UserType
  <1>4. CASE ids # {} /\ s.own = {}
    <2>1. v = [known |-> TRUE, depts |-> ids, own |-> FALSE]
      BY <1>2, <1>4 DEF PatchUser
    <2> HIDE DEF v, ids
    <2>2. v.known /\ v.depts = ids /\ ~v.own
      BY <2>1
    <2> QED BY <1>1, <1>2, <1>4, <2>2 DEF v, ids
  <1>5. CASE ids # {} /\ s.own # {}
    <2>1. v = [u EXCEPT !.depts = ids]
      BY <1>2, <1>5 DEF PatchUser
    <2> HIDE DEF v, ids
    <2>2. v.known /\ v.depts = ids /\ (v.own <=> f \in s.own)
      BY <1>3, <1>5, <2>1
    <2> QED BY <1>1, <1>5, <2>2 DEF v, ids
  <1>6. CASE NoIds(s, n) /\ s.own = {}
    <2>1. v = Nobody[f]
      BY <1>2, <1>6 DEF PatchUser
    <2>2. v = [known |-> FALSE, depts |-> {}, own |-> FALSE]
      BY <2>1 DEF Nobody
    <2> HIDE DEF v, ids
    <2>3. ~v.known /\ v.depts = {} /\ ~v.own
      BY <2>2
    <2> QED BY <1>1, <1>2, <1>6, <2>3 DEF v, ids
  <1>7. CASE NoIds(s, n) /\ s.own # {}
    <2>1. v = [u EXCEPT !.depts = {}]
      BY <1>2, <1>7 DEF PatchUser
    <2> HIDE DEF v, ids
    <2>2. v.known /\ v.depts = {} /\ (v.own <=> f \in s.own)
      BY <1>3, <1>7, <2>1
    <2> QED BY <1>1, <1>2, <1>7, <2>2 DEF v, ids
  <1>8. CASE ids = {} /\ ~NoIds(s, n)
    <2>1. v = u
      BY <1>8 DEF PatchUser
    <2>2. \A x : <<x, f>> \in s.rel => x \notin u.depts
      BY <1>8 DEF Ids
    <2> HIDE DEF v, ids
    <2> QED BY <1>1, <1>8, <2>1, <2>2 DEF v, ids
  <1> QED BY <1>4, <1>5, <1>6, <1>7, <1>8

\* A patch of a store, where it is exact, says what it was made of.
LEMMA PatchSays ==
    ASSUME NEW d \in StoreType, NEW s \in Settings, NEW m \in SUBSET Dept,
           NEW n \in SUBSET Dept, NEW paths,
           Says(d, s, m), Patches(d, s, paths), ~Inexact(d, s, n)
    PROVE  Says(Patch(d, s, n, paths), s, n)
  <1>0. PICK e : e = Patch(d, s, n, paths)
    OBVIOUS
  <1>1. /\ d.enabled = s.enabled /\ d.client = s.client
        /\ d.rel = (IF s.enabled THEN s.rel ELSE {})
        /\ \A f \in Family : d.users[f].own <=> s.enabled /\ f \in s.own
        /\ s.enabled /\ s.own # {} => \A f \in Family : d.users[f].known
    BY SaysFields
  <1>2. /\ e \in StoreType /\ e.enabled = d.enabled /\ e.client = d.client /\ e.rel = d.rel
        /\ \A f \in Family : e.users[f] = PatchUser(d.users[f], s, n, f)
    BY <1>0, PatchStore
  <1>3. s.enabled /\ e.rel = s.rel /\ s.rel \subseteq Dept \X Family /\ s.own \subseteq Family
    BY <1>1, <1>2, SettingsFields DEF Patches
  <1>4. ASSUME NEW f \in Family
        PROVE  /\ \A x : <<x, f>> \in s.rel => (x \in e.users[f].depts <=> x \in n)
               /\ e.users[f].own <=> f \in s.own
               /\ s.own # {} => e.users[f].known
               /\ s.own = {} /\ NoIds(s, n) => ~e.users[f].known
               /\ s.own = {} /\ Ids(s, n, f) # {} => e.users[f].known
    <2>1. PICK u \in UserType : u = d.users[f]
      BY StoreFields
    <2>2. Ids(s, n, f) = {} /\ ~NoIds(s, n) => Ids(s, u.depts, f) = {}
      BY <2>1 DEF Inexact
    <2>3. (u.own <=> f \in s.own) /\ (s.own # {} => u.known)
      BY <1>1, <1>3, <2>1
    <2>4. e.users[f] = PatchUser(u, s, n, f)
      BY <1>2, <2>1
    <2>5. PICK v : v = PatchUser(u, s, n, f)
      OBVIOUS
    <2>6. /\ \A x : <<x, f>> \in s.rel => (x \in v.depts <=> x \in n)
          /\ v.own <=> f \in s.own
          /\ s.own # {} => v.known
          /\ s.own = {} /\ NoIds(s, n) => ~v.known
          /\ s.own = {} /\ Ids(s, n, f) # {} => v.known
      BY <2>2, <2>3, <2>5, PatchUserSays
    <2> QED BY <2>4, <2>5, <2>6
  <1>5. \A p \in e.rel : p[1] \in e.users[p[2]].depts <=> p[1] \in n
    <2> TAKE p \in e.rel
    <2>1. p \in s.rel /\ p[2] \in Family /\ p = <<p[1], p[2]>>
      BY <1>3
    <2> QED BY <1>4, <2>1
  <1>6. (\E f \in Family : e.users[f].known) <=>
           \E f \in Family : n \cap Ruled(s.rel) # {} \/ s.own # {}
    <2>1. CASE s.own # {}
      BY <1>3, <1>4, <2>1
    <2>2. CASE s.own = {} /\ NoIds(s, n)
      BY <1>4, <2>2, NoIdsRuled
    <2>3. CASE s.own = {} /\ ~NoIds(s, n)
      <3>1. PICK f \in Family : Ids(s, n, f) # {}
        BY <2>3 DEF NoIds
      <3> QED BY <1>4, <2>3, <3>1, NoIdsRuled
    <2> QED BY <2>1, <2>2, <2>3
  <1>7. Says(e, s, n)
    <2>1. /\ e.enabled = s.enabled /\ e.client = s.client
          /\ e.rel = (IF s.enabled THEN s.rel ELSE {})
      BY <1>1, <1>2, <1>3
    <2>2. /\ \A f \in Family : e.users[f].own <=> s.enabled /\ f \in s.own
          /\ s.enabled /\ s.own # {} => \A f \in Family : e.users[f].known
      BY <1>3, <1>4
    <2>3. e \in StoreType
      BY <1>2
    <2> QED BY <1>5, <1>6, <2>1, <2>2, <2>3, SaysFields
  <1> QED BY <1>0, <1>7

\* A store that is right but for departments of the path and of D is, after
\* the patch, right but for the ones of D.
LEMMA SoundPatch ==
    ASSUME NEW d \in StoreType, NEW s \in Settings, NEW m \in SUBSET Dept,
           NEW n \in SUBSET Dept, NEW paths \in SUBSET Dept, NEW D,
           Sound(d, s, m, D \cup paths), Agrees(n, m, D), ~Inexact(d, s, n)
    PROVE  Sound(Patch(d, s, n, paths), s, m, D)
  <1>1. PICK k \in SUBSET Dept : Agrees(k, m, D \cup paths) /\ Says(d, s, k)
    BY DEF Sound
  <1>2. CASE Patches(d, s, paths)
    <2>1. Says(Patch(d, s, n, paths), s, n)
      BY <1>1, <1>2, PatchSays
    <2> QED BY <2>1 DEF Sound
  <1>3. CASE ~Patches(d, s, paths)
    <2>1. Patch(d, s, n, paths) = d
      BY <1>3, PatchStore
    <2>2. d.enabled = s.enabled
      BY <1>1, SaysFields
    <2>3. PICK j : j = (k \ paths) \cup (m \cap paths)
      OBVIOUS
    <2>4. j \in SUBSET Dept /\ Agrees(j, m, D)
      BY <1>1, <2>3 DEF Agrees
    <2>5. s.enabled => k \cap Ruled(s.rel) = j \cap Ruled(s.rel)
      BY <1>3, <2>2, <2>3 DEF Patches
    <2>6. Says(d, s, j)
      BY <1>1, <2>4, <2>5, SaysSame
    <2> QED BY <2>1, <2>4, <2>6 DEF Sound
  <1> QED BY <1>2, <1>3

\* The user moves between departments of E.
LEMMA SoundGrow ==
    ASSUME NEW d, NEW s, NEW m, NEW n, NEW D, NEW E, NEW F,
           Sound(d, s, m, D), Agrees(m, n, E), D \cup E \subseteq F
    PROVE  Sound(d, s, n, F)
  BY DEF Sound, Agrees
-----------------------------------------------------------------------------
(* The invariant of a replica: while no init message waits for it, every   *)
(* thread that will install what it reads has read what is there, but for  *)
(* the departments that are about to be patched, or will have an excuse.   *)
(* A running reload puts right whatever else is wrong.                     *)

\* Messages that Redis was not given yet.
Unsent == owed \cup (rows \ (IF sent THEN dispatch ELSE {}))

\* A reload of r is due.
InitWaits(r) == (\E m \in Unsent : about[m].chan = "init") \/ inbox[r]["init"] # <<>>

\* Departments of messages that will be handled, or are being.
Ahead(r) ==
    {d \in Dept :
        \/ \E m \in Unsent : d \in about[m].paths
        \/ \E i \in 1..Len(inbox[r]["update"]) : d \in about[inbox[r]["update"][i]].paths}
Due(r) == Ahead(r) \cup (IF change[r].step = "idle" THEN {} ELSE change[r].paths)

\* What a thread has read so far is right, but for departments of D.
ReadsTrue(x, s, m, D) ==
    /\ x.new.enabled = s.enabled
    /\ x.step = "rules" => s.enabled
    /\ x.step = "members" => /\ s.enabled /\ x.new.rel = s.rel
                             /\ x.new.users = UserData({}, s.own, {})
    /\ x.step = "client" => Sound([x.new EXCEPT !.client = s.client], s, m, D)
    /\ x.step = "install" => Sound(x.new, s, m, D)
Trusted(x, s, m, D) == x.step \in Done \/ x.late \/ ReadsTrue(x, s, m, D)

Good(ph, th, st, ch, s, m, A, B) ==
    /\ Trusted(th["load"], s, m, B) /\ Trusted(th["init"], s, m, B)
    /\ th["init"].step \in Done =>
          /\ ph = "up" \/ th["load"].step \in Query => Sound(st, s, m, B)
          /\ Trusted(th["timer"], s, m, B)
          /\ ch.step \in {"rules", "open"} /\ ~ch.late =>
                ch.rules = s /\ (ch.step = "open" => Agrees(ch.mine, m, A))

ReplicaInv(r) ==
    phase[r] # "down" /\ excuse[r] = {} /\ ~InitWaits(r) =>
        Good(phase[r], thread[r], store[r], change[r], settings, member,
             Ahead(r), Due(r))

\* The user moves between departments of E.
LEMMA TrustedGrow ==
    ASSUME NEW x, NEW s, NEW m, NEW n, NEW D, NEW E, NEW F,
           Trusted(x, s, m, D), Agrees(m, n, E), D \cup E \subseteq F
    PROVE  Trusted(x, s, n, F)
  <1>1. ASSUME NEW d, Sound(d, s, m, D)
        PROVE  Sound(d, s, n, F)
    BY <1>1, SoundGrow, SMTT(30)
  <1> QED BY <1>1 DEF Trusted, ReadsTrue

\* What has to be shown of the next state.
LEMMA InvNext ==
    ASSUME NEW r,
           phase'[r] # "down" /\ excuse'[r] = {} /\ ~InitWaits(r)' =>
              Good(phase'[r], thread'[r], store'[r], change'[r], settings', member',
                   Ahead(r)', Due(r)')
    PROVE  ReplicaInv(r)'
  BY DEF ReplicaInv, Good, Trusted, ReadsTrue, Sound, Says, Agrees, Answers, OPAData, UserData,
         Nobody, Ruled

\* A replica that does not move itself.
LEMMA InvKept ==
    ASSUME NEW r, ReplicaInv(r), settings' = settings,
           NEW E, Agrees(member, member', E),
           phase'[r] = phase[r], store'[r] = store[r], thread'[r] = thread[r],
           change'[r] = change[r],
           phase'[r] # "down" /\ excuse'[r] = {} /\ ~InitWaits(r)' =>
              excuse[r] = {} /\ ~InitWaits(r) /\ Ahead(r) \cup E \subseteq Ahead(r)'
    PROVE  ReplicaInv(r)'
  <1> SUFFICES ASSUME phase'[r] # "down" /\ excuse'[r] = {} /\ ~InitWaits(r)'
               PROVE  Good(phase'[r], thread'[r], store'[r], change'[r], settings', member',
                           Ahead(r)', Due(r)')
    BY InvNext
  <1>1. PICK A, B, A2, B2 : A = Ahead(r) /\ B = Due(r) /\ A2 = Ahead(r)' /\ B2 = Due(r)'
    OBVIOUS
  <1>2. A \cup E \subseteq A2
    BY <1>1
  <1>3. B \cup E \subseteq B2
    BY <1>1, <1>2 DEF Due
  <1>4. PICK s, m, n : s = settings /\ m = member /\ n = member'
    OBVIOUS
  <1>5. Agrees(m, n, E)
    BY <1>4
  <1>6. Good(phase[r], thread[r], store[r], change[r], s, m, A, B)
    BY <1>1, <1>4 DEF ReplicaInv
  <1>7. \A x : Trusted(x, s, m, B) => Trusted(x, s, n, B2)
    BY <1>3, <1>5, TrustedGrow
  <1>8. \A d : Sound(d, s, m, B) => Sound(d, s, n, B2)
    BY <1>3, <1>5, SoundGrow
  <1>9. \A k : Agrees(k, m, A) => Agrees(k, n, A2)
    BY <1>2, <1>5 DEF Agrees
  <1>10. Good(phase[r], thread[r], store[r], change[r], s, n, A2, B2)
    BY <1>6, <1>7, <1>8, <1>9 DEF Good
  <1> QED BY <1>1, <1>4, <1>10

\* A thread that has just begun knows the switch.
LEMMA BeginTrusted ==
    ASSUME NEW s \in Settings, NEW m \in SUBSET Dept, NEW D, NEW y,
           y.step = IF s.enabled THEN "rules" ELSE "client",
           y.new = [enabled |-> s.enabled, client |-> FALSE, rel |-> {}, users |-> Nobody]
    PROVE  ReadsTrue(y, s, m, D)
  <1>1. s.enabled \in BOOLEAN
    BY SettingsFields
  <1>2. y.new.enabled = s.enabled
    OBVIOUS
  <1>3. CASE s.enabled
    BY <1>2, <1>3 DEF ReadsTrue
  <1>4. CASE ~s.enabled
    <2>1. y.new \in StoreType
      BY <1>1, NobodyType, StoreMade
    <2>2. PICK d \in StoreType : d = y.new
      BY <2>1
    <2>3. [d EXCEPT !.client = s.client] = [enabled |-> d.enabled, client |-> s.client,
                                            rel |-> d.rel, users |-> d.users]
      BY StoreExcept
    <2>4. d.enabled = s.enabled /\ d.rel = {} /\ d.users = Nobody
      BY <2>2
    <2>5. [d EXCEPT !.client = s.client] = OPAData(s, m)
      BY <1>4, <2>3, <2>4 DEF OPAData
    <2>6. Sound([d EXCEPT !.client = s.client], s, m, D)
      BY <2>5, SaysRead DEF Sound, Agrees
    <2> QED BY <1>2, <1>4, <2>2, <2>6 DEF ReadsTrue
  <1> QED BY <1>3, <1>4

\* A thread that reads on knows more.
LEMMA ReadTrusted ==
    ASSUME OutboxShape, NEW x \in Task, x.step \in {"rules", "members", "client"}, NEW D, NEW y,
           y.step = NextStep(x.step), y.new = ReadPart(x),
           ReadsTrue(x, settings, member, D)
    PROVE  ReadsTrue(y, settings, member, D)
  <1>1. PICK s \in Settings : s = settings
    BY DEF OutboxShape
  <1>2. PICK m \in SUBSET Dept : m = member
    BY DecisionDataAssumption DEF OutboxShape
  <1>3. PICK d \in StoreType : d = x.new
    BY TaskFields
  <1>4. d.enabled = s.enabled
    BY <1>1, <1>3 DEF ReadsTrue
  <1>5. CASE x.step = "rules"
    <2>1. y.step = "members" /\ s.enabled
      BY <1>1, <1>5 DEF NextStep, ReadsTrue
    <2>2. PICK rel, users : rel = s.rel /\ users = UserData({}, s.own, {})
      OBVIOUS
    <2>3. y.new = [[d EXCEPT !.rel = rel] EXCEPT !.users = users]
      BY <1>1, <1>3, <1>5, <2>2 DEF ReadPart
    <2>4. y.new.enabled = d.enabled /\ y.new.rel = rel /\ y.new.users = users
      BY <2>3 DEF StoreType
    <2> QED BY <1>1, <1>4, <2>1, <2>2, <2>4 DEF ReadsTrue
  <1>6. CASE x.step = "members"
    <2>1. y.step = "client" /\ s.enabled /\ d.rel = s.rel /\ d.users = UserData({}, s.own, {})
      BY <1>1, <1>3, <1>6 DEF NextStep, ReadsTrue
    <2>2. {f \in Family : d.users[f].own} = s.own
      <3>1. \A f \in Family : d.users[f].own <=> f \in s.own
        <4> TAKE f \in Family
        <4>1. d.users[f] = [known |-> {} \cap Ruled({}) # {} \/ s.own # {},
                            depts |-> {} \cap Ruled({}), own |-> f \in s.own]
          BY <2>1 DEF UserData
        <4>2. PICK k, D1, b : /\ k = ({} \cap Ruled({}) # {} \/ s.own # {})
                              /\ D1 = {} \cap Ruled({}) /\ b = (f \in s.own)
          OBVIOUS
        <4>3. d.users[f] = [known |-> k, depts |-> D1, own |-> b]
          BY <4>1, <4>2, Zenon
        <4>4. d.users[f].own = b
          BY <4>3
        <4> QED BY <4>2, <4>4, Zenon
      <3> QED BY <3>1, SettingsFields
    <2>3. PICK users : users = UserData(s.rel, s.own, m)
      OBVIOUS
    <2>4. y.new = [d EXCEPT !.users = users]
      BY <1>2, <1>3, <1>6, <2>1, <2>2, <2>3 DEF ReadPart
    <2>5. y.new = [enabled |-> d.enabled, client |-> d.client, rel |-> d.rel, users |-> users]
      BY <2>4, StoreExcept
    <2>6. y.new.enabled = s.enabled /\ y.new.rel = s.rel /\ y.new.users = users
      <3>1. y.new.enabled = d.enabled /\ y.new.rel = d.rel /\ y.new.users = users
        BY <2>5
      <3> QED BY <1>4, <2>1, <3>1
    <2>7. y.new \in StoreType
      <3>1. users \in [Family -> UserType]
        BY <2>3, UserDataType, SettingsFields
      <3> QED BY <2>4, <3>1, StoreUpdate
    <2>8. [y.new EXCEPT !.client = s.client] = OPAData(s, m)
      <3>1. PICK e \in StoreType : e = y.new
        BY <2>7
      <3>2. [e EXCEPT !.client = s.client] = [enabled |-> e.enabled, client |-> s.client,
                                              rel |-> e.rel, users |-> e.users]
        BY StoreExcept
      <3> QED BY <2>1, <2>3, <2>6, <3>1, <3>2 DEF OPAData
    <2>9. Sound([y.new EXCEPT !.client = s.client], s, m, D)
      BY <2>8, SaysRead DEF Sound, Agrees
    <2> QED BY <1>1, <1>2, <2>1, <2>6, <2>9 DEF ReadsTrue
  <1>7. CASE x.step = "client"
    <2>1. y.step = "install" /\ Sound([d EXCEPT !.client = s.client], s, m, D)
      BY <1>1, <1>2, <1>3, <1>7 DEF NextStep, ReadsTrue
    <2>2. y.new = [d EXCEPT !.client = s.client]
      BY <1>1, <1>3, <1>7 DEF ReadPart
    <2>3. y.new.enabled = s.enabled
      BY <1>4, <2>2, StoreExcept
    <2> QED BY <1>1, <1>2, <2>1, <2>2, <2>3 DEF ReadsTrue
  <1> QED BY <1>5, <1>6, <1>7

\* A replica that does not move while another one does.
LEMMA InvElsewhere ==
    ASSUME NEW r \in Replica, OutboxStays, Elsewhere(r), NEW v \in Replica \ {r}, ReplicaInv(v)
    PROVE  ReplicaInv(v)'
  <1>1. /\ phase'[v] = phase[v] /\ store'[v] = store[v] /\ inbox'[v] = inbox[v]
        /\ thread'[v] = thread[v] /\ change'[v] = change[v] /\ excuse'[v] = excuse[v]
    BY DEF Elsewhere
  <1>2. settings' = settings /\ Agrees(member, member', {})
    BY DEF OutboxStays, db, Agrees
  <1>3. InitWaits(v)' <=> InitWaits(v)
    BY <1>1 DEF InitWaits, Unsent, OutboxStays, outbox
  <1>4. Ahead(v)' = Ahead(v)
    BY <1>1 DEF Ahead, Unsent, OutboxStays, outbox
  <1> QED BY <1>1, <1>2, <1>3, <1>4, InvKept

\* Steps of a replica that take no message.
LEMMA SameMessages ==
    ASSUME NEW r \in Replica, OutboxStays, inbox' = inbox
    PROVE  /\ settings' = settings /\ member' = member
           /\ InitWaits(r)' <=> InitWaits(r)
           /\ Ahead(r)' = Ahead(r)
  <1>1. settings' = settings /\ member' = member
    BY DEF OutboxStays, db
  <1>2. InitWaits(r)' <=> InitWaits(r)
    BY DEF InitWaits, Unsent, OutboxStays, outbox
  <1>3. Ahead(r)' = Ahead(r)
    BY DEF Ahead, Unsent, OutboxStays, outbox
  <1> QED BY <1>1, <1>2, <1>3

\* The load at start begins with the switch as it is.
LEMMA InvStart ==
    ASSUME OutboxShape, ReplicaShape, NEW r \in Replica, Start(r)
    PROVE  ReplicaInv(r)'
  <1>1. /\ OutboxStays /\ phase[r] = "down" /\ phase'[r] = "load" /\ Begin(r, "load")
        /\ change'[r] = change[r]
    BY StartMoves
  <1>2. {"load", "init", "timer"} = Reader
    BY DEF Reader
  <1>3. /\ thread'[r]["load"].step = IF settings.enabled THEN "rules" ELSE "client"
        /\ thread'[r]["load"].new = [enabled |-> settings.enabled, client |-> FALSE,
                                     rel |-> {}, users |-> Nobody]
        /\ \A s \in Reader \ {"load"} : thread'[r][s] = thread[r][s]
    BY <1>1, <1>2, BeginMoves
  <1>4. /\ thread'[r]["init"].step = "idle" /\ thread'[r]["timer"].step = "idle"
        /\ change'[r].step = "idle"
    BY <1>1, <1>2, <1>3 DEF ReplicaShape
  <1>5. settings' = settings /\ member' = member
    BY <1>1 DEF OutboxStays, db
  <1>6. PICK s \in Settings, m \in SUBSET Dept : s = settings /\ m = member
    BY DecisionDataAssumption DEF OutboxShape
  <1>7. PICK A, B : A = Ahead(r)' /\ B = Due(r)'
    OBVIOUS
  <1>8. ReadsTrue(thread'[r]["load"], s, m, B) /\ thread'[r]["load"].step \notin Query
    BY <1>3, <1>6, BeginTrusted DEF Query
  <1>9. Good(phase'[r], thread'[r], store'[r], change'[r], s, m, A, B)
    BY <1>1, <1>4, <1>8 DEF Good, Trusted, Done
  <1> QED BY <1>5, <1>6, <1>7, <1>9, InvNext

\* A reload begins with the switch as it is; the rest of the store is up to it.
LEMMA InvInitHandler ==
    ASSUME OutboxShape, ReplicaShape, NEW r \in Replica, InitHandler(r)
    PROVE  ReplicaInv(r)'
  <1>1. OutboxStays /\ phase[r] = "up" /\ Begin(r, "init")
    BY InitHandlerMoves
  <1>2. {"load", "init", "timer"} = Reader
    BY DEF Reader
  <1>3. /\ thread'[r]["init"].step = IF settings.enabled THEN "rules" ELSE "client"
        /\ thread'[r]["init"].new = [enabled |-> settings.enabled, client |-> FALSE,
                                     rel |-> {}, users |-> Nobody]
        /\ \A s \in Reader \ {"init"} : thread'[r][s] = thread[r][s]
    BY <1>1, <1>2, BeginMoves
  <1>4. thread'[r]["load"].step = "idle"
    BY <1>1, <1>2, <1>3 DEF ReplicaShape
  <1>5. settings' = settings /\ member' = member
    BY <1>1 DEF OutboxStays, db
  <1>6. PICK s \in Settings, m \in SUBSET Dept : s = settings /\ m = member
    BY DecisionDataAssumption DEF OutboxShape
  <1>7. PICK A, B : A = Ahead(r)' /\ B = Due(r)'
    OBVIOUS
  <1>8. ReadsTrue(thread'[r]["init"], s, m, B) /\ thread'[r]["init"].step \notin Done
    BY <1>3, <1>6, BeginTrusted DEF Done
  <1>9. Good(phase'[r], thread'[r], store'[r], change'[r], s, m, A, B)
    BY <1>4, <1>8 DEF Good, Trusted, Done
  <1> QED BY <1>5, <1>6, <1>7, <1>9, InvNext

\* So does a round of the timer, which nothing relies on.
LEMMA InvTimer ==
    ASSUME OutboxShape, ReplicaShape, NEW r \in Replica, TimerTick(r), ReplicaInv(r)
    PROVE  ReplicaInv(r)'
  <1>1. /\ OutboxStays /\ phase[r] = "up" /\ Begin(r, "timer") /\ inbox' = inbox
        /\ phase' = phase /\ store' = store /\ change' = change /\ excuse' = excuse
    BY TimerMoves
  <1>2. {"load", "init", "timer"} = Reader
    BY DEF Reader
  <1>3. /\ thread'[r]["timer"].step = IF settings.enabled THEN "rules" ELSE "client"
        /\ thread'[r]["timer"].new = [enabled |-> settings.enabled, client |-> FALSE,
                                      rel |-> {}, users |-> Nobody]
        /\ \A s \in Reader \ {"timer"} : thread'[r][s] = thread[r][s]
    BY <1>1, <1>2, BeginMoves
  <1>4. thread'[r]["load"] = thread[r]["load"] /\ thread'[r]["init"] = thread[r]["init"]
    BY <1>2, <1>3
  <1>5. /\ settings' = settings /\ member' = member
        /\ InitWaits(r)' <=> InitWaits(r)
        /\ Ahead(r)' = Ahead(r)
    BY <1>1, SameMessages
  <1>6. PICK s \in Settings, m \in SUBSET Dept : s = settings /\ m = member
    BY DecisionDataAssumption DEF OutboxShape
  <1>7. Due(r)' = Due(r)
    BY <1>1, <1>5 DEF Due
  <1>8. PICK A, B : A = Ahead(r) /\ B = Due(r)
    OBVIOUS
  <1>9. ReadsTrue(thread'[r]["timer"], s, m, B)
    BY <1>3, <1>6, BeginTrusted
  <1>10. phase[r] # "down" /\ excuse[r] = {} /\ ~InitWaits(r) =>
            Good(phase[r], thread[r], store[r], change[r], s, m, A, B)
    BY <1>6, <1>8 DEF ReplicaInv
  <1>11. phase[r] # "down" /\ excuse[r] = {} /\ ~InitWaits(r) =>
            Good(phase[r], thread'[r], store[r], change[r], s, m, A, B)
    BY <1>4, <1>9, <1>10 DEF Good, Trusted
  <1> QED BY <1>1, <1>5, <1>6, <1>7, <1>8, <1>11, InvNext

\* A call of getOPAData reads what is there.
LEMMA InvRead ==
    ASSUME OutboxShape, ReplicaShape, NEW r \in Replica, NEW t \in Reader,
           GetOPAData(r, t), ReplicaInv(r)
    PROVE  ReplicaInv(r)'
  <1>1. /\ OutboxStays /\ inbox' = inbox
        /\ phase' = phase /\ store' = store /\ change' = change /\ excuse' = excuse
    BY ReadShape
  <1>2. {"load", "init", "timer"} = Reader
    BY DEF Reader
  <1>3. /\ thread[r][t].step \in {"rules", "members", "client"}
        /\ thread'[r][t].step = NextStep(thread[r][t].step)
        /\ thread'[r][t].late = thread[r][t].late
        /\ thread'[r][t].new = ReadPart(thread[r][t])
        /\ \A s \in Reader \ {t} : thread'[r][s] = thread[r][s]
    BY ReadMoves
  <1>4. /\ thread[r][t].step \notin Done /\ thread'[r][t].step \notin Done
        /\ thread[r][t].step \notin Query /\ thread'[r][t].step \notin Query
    BY <1>3 DEF NextStep, Done, Query
  <1>5. /\ settings' = settings /\ member' = member
        /\ InitWaits(r)' <=> InitWaits(r)
        /\ Ahead(r)' = Ahead(r)
    BY <1>1, SameMessages
  <1>6. PICK s, m : s = settings /\ m = member
    OBVIOUS
  <1>7. Due(r)' = Due(r)
    BY <1>1, <1>5 DEF Due
  <1>8. PICK A, B : A = Ahead(r) /\ B = Due(r)
    OBVIOUS
  <1>9. Trusted(thread[r][t], s, m, B) => Trusted(thread'[r][t], s, m, B)
    <2>1. PICK x, y : x \in Task /\ x = thread[r][t] /\ y = thread'[r][t]
      BY DEF ReplicaShape
    <2>2. ReadsTrue(x, settings, member, B) => ReadsTrue(y, settings, member, B)
      BY <1>3, <2>1, ReadTrusted
    <2> QED BY <1>3, <1>4, <1>6, <2>1, <2>2 DEF Trusted
  <1>10. phase[r] # "down" /\ excuse[r] = {} /\ ~InitWaits(r) =>
            Good(phase[r], thread[r], store[r], change[r], s, m, A, B)
    BY <1>6, <1>8 DEF ReplicaInv
  <1>11. \A u \in Reader : /\ Trusted(thread[r][u], s, m, B) => Trusted(thread'[r][u], s, m, B)
                           /\ (thread'[r][u].step \in Done) <=> (thread[r][u].step \in Done)
                           /\ (thread'[r][u].step \in Query) <=> (thread[r][u].step \in Query)
    BY <1>3, <1>4, <1>9
  <1>12. phase[r] # "down" /\ excuse[r] = {} /\ ~InitWaits(r) =>
            Good(phase[r], thread'[r], store[r], change[r], s, m, A, B)
    BY <1>2, <1>10, <1>11 DEF Good
  <1> QED BY <1>1, <1>5, <1>6, <1>7, <1>8, <1>12, InvNext

\* The end of the reads: what is installed was read after the last change, or
\* there is an excuse, or a reload is still to come.
LEMMA InvInstall ==
    ASSUME ReplicaShape, NEW r \in Replica, NEW t \in Reader, Install(r, t), ReplicaInv(r)
    PROVE  ReplicaInv(r)'
  <1>1. /\ OutboxStays /\ inbox' = inbox /\ phase' = phase
        /\ thread[r][t].step = "install" /\ thread'[r][t].step = "decisionQuery"
        /\ store'[r] = thread[r][t].new
        /\ \A s \in Reader \ {t} :
              /\ thread'[r][s].step = thread[r][s].step
              /\ thread[r][s].step \notin Done => thread'[r][s].late
        /\ change'[r] = OvertakeChange(change[r])
        /\ thread[r][t].late => excuse'[r] # {}
        /\ excuse[r] # {} => excuse'[r] # {}
    BY InstallMoves
  <1>2. {"load", "init", "timer"} = Reader
    BY DEF Reader
  <1>3. phase[r] # "down"
    BY <1>1, <1>2 DEF ReplicaShape
  <1>4. /\ settings' = settings /\ member' = member
        /\ InitWaits(r)' <=> InitWaits(r)
        /\ Ahead(r)' = Ahead(r)
    BY <1>1, SameMessages
  <1>5. PICK s, m, A, B : s = settings /\ m = member /\ A = Ahead(r) /\ B = Due(r)
    OBVIOUS
  <1>6. excuse[r] = {} /\ ~InitWaits(r) =>
            Good(phase[r], thread[r], store[r], change[r], s, m, A, B)
    BY <1>3, <1>5 DEF ReplicaInv
  <1> SUFFICES ASSUME excuse'[r] = {}, ~InitWaits(r)'
               PROVE  Good(phase'[r], thread'[r], store'[r], change'[r], settings', member',
                           Ahead(r)', Due(r)')
    BY InvNext
  <1>7. Good(phase[r], thread[r], store[r], change[r], s, m, A, B) /\ ~thread[r][t].late
    BY <1>1, <1>4, <1>6
  <1>8. thread[r][t].step \notin Done /\ thread'[r][t].step \in Done
    BY <1>1 DEF Done
  <1>9. \A u \in Reader : Trusted(thread'[r][u], s, m, B)
    BY <1>1, <1>8 DEF Trusted
  <1>10. thread'[r]["init"].step \in Done => Sound(store'[r], s, m, B)
    <2>1. thread'[r]["init"].step \in Done => Trusted(thread[r][t], s, m, B)
      BY <1>1, <1>2, <1>7 DEF Good
    <2> QED BY <1>1, <1>7, <1>8, <2>1 DEF Trusted, ReadsTrue
  <1>11. PICK c \in Patcher : c = change[r]
    BY DEF ReplicaShape
  <1>12. /\ c.step = "idle" => change'[r] = c
         /\ c.step # "idle" => /\ change'[r].step # "idle" /\ change'[r].step # "open"
                               /\ change'[r].paths = c.paths
                               /\ change'[r].step = "rules" => change'[r].late
    BY <1>1, <1>11, OvertakeChangeMoves
  <1>13. ~(change'[r].step \in {"rules", "open"} /\ ~change'[r].late)
    BY <1>12
  <1>14. Due(r)' = B
    BY <1>4, <1>5, <1>11, <1>12 DEF Due
  <1>15. Good(phase'[r], thread'[r], store'[r], change'[r], s, m, A, B)
    BY <1>2, <1>9, <1>10, <1>13 DEF Good
  <1> QED BY <1>4, <1>5, <1>14, <1>15

\* An assignment: the store it makes a query read, or will with the next one,
\* is right already.
LEMMA InvAssign ==
    ASSUME ReplicaShape, NEW r \in Replica, NEW t \in Reader, Assign(r, t), ReplicaInv(r)
    PROVE  ReplicaInv(r)'
  <1>1. /\ OutboxStays /\ inbox' = inbox /\ store' = store /\ change' = change
        /\ \A s \in Reader \ {t} : thread'[r][s] = thread[r][s]
        /\ \/ /\ thread[r][t].step = "decisionQuery"
              /\ thread'[r][t].step = "queryQuery" /\ phase' = phase
           \/ /\ thread[r][t].step = "queryQuery"
              /\ thread'[r][t].step = "idle" /\ phase'[r] = "up"
        /\ thread[r][t].late => excuse'[r] # {}
        /\ excuse[r] # {} => excuse'[r] # {}
    BY AssignMoves
  <1>2. {"load", "init", "timer"} = Reader
    BY DEF Reader
  <1>3. /\ thread[r][t].step \in Done /\ thread'[r][t].step \in Done
        /\ thread[r][t].step \in Query
    BY <1>1 DEF Done, Query
  <1>4. /\ t = "load" \/ phase[r] = "up"
        /\ phase[r] # "down"
    BY <1>1, <1>2 DEF ReplicaShape
  <1>5. /\ settings' = settings /\ member' = member
        /\ InitWaits(r)' <=> InitWaits(r)
        /\ Ahead(r)' = Ahead(r)
    BY <1>1, SameMessages
  <1>6. Due(r)' = Due(r)
    BY <1>1, <1>5 DEF Due
  <1>7. PICK s, m, A, B : s = settings /\ m = member /\ A = Ahead(r) /\ B = Due(r)
    OBVIOUS
  <1>8. excuse[r] = {} /\ ~InitWaits(r) =>
            Good(phase[r], thread[r], store[r], change[r], s, m, A, B)
    BY <1>4, <1>7 DEF ReplicaInv
  <1>9. /\ \A u \in Reader : /\ Trusted(thread[r][u], s, m, B) => Trusted(thread'[r][u], s, m, B)
                             /\ (thread'[r][u].step \in Done) <=> (thread[r][u].step \in Done)
        /\ phase'[r] = "up" \/ thread'[r]["load"].step \in Query =>
              phase[r] = "up" \/ thread[r]["load"].step \in Query
    <2>1. \A u \in Reader : /\ Trusted(thread[r][u], s, m, B) => Trusted(thread'[r][u], s, m, B)
                            /\ (thread'[r][u].step \in Done) <=> (thread[r][u].step \in Done)
      BY <1>1, <1>3 DEF Trusted
    <2>2. CASE t = "load"
      BY <1>3, <2>1, <2>2
    <2>3. CASE phase[r] = "up"
      BY <2>1, <2>3
    <2> QED BY <1>4, <2>2, <2>3
  <1>10. excuse[r] = {} /\ ~InitWaits(r) =>
            Good(phase'[r], thread'[r], store[r], change[r], s, m, A, B)
    BY <1>2, <1>8, <1>9 DEF Good
  <1> QED BY <1>1, <1>5, <1>6, <1>7, <1>10, InvNext

\* A message that is taken is still behind the store.
LEMMA InvChangeHandler ==
    ASSUME OutboxShape, ReplicaShape, NEW r \in Replica, ChangeHandler(r), ReplicaInv(r)
    PROVE  ReplicaInv(r)'
  <1>1. /\ OutboxStays /\ phase' = phase /\ store' = store /\ thread' = thread
        /\ excuse' = excuse
        /\ change[r].step = "idle" /\ inbox[r]["update"] # <<>>
        /\ inbox'[r]["init"] = inbox[r]["init"]
        /\ inbox'[r]["update"] = Tail(inbox[r]["update"])
        /\ change'[r].step = "rules" /\ change'[r].rules = settings
        /\ change'[r].paths = about[Head(inbox[r]["update"])].paths
    BY ChangeHandlerMoves
  <1>2. settings' = settings /\ member' = member
    BY <1>1 DEF OutboxStays, db
  <1>3. InitWaits(r)' <=> InitWaits(r)
    BY <1>1 DEF InitWaits, Unsent, OutboxStays, outbox
  <1>4. Due(r) \subseteq Due(r)'
    <2>1. PICK q \in Seq(1..Len(about)) : q = inbox[r]["update"]
      BY DEF ReplicaShape, Channel
    <2>2. /\ Len(q) \in Nat /\ Len(Tail(q)) = Len(q) - 1
          /\ Head(q) = q[1] /\ Len(q) > 0
          /\ \A i \in 1..Len(q) - 1 : Tail(q)[i] = q[i + 1]
      BY <1>1, <2>1, TailOf
    <2> SUFFICES ASSUME NEW d \in Due(r)
                 PROVE  d \in Due(r)'
      OBVIOUS
    <2>3. d \in Ahead(r)
      BY <1>1 DEF Due
    <2>4. CASE \E k \in Unsent : d \in about[k].paths
      <3>1. d \in Ahead(r)'
        BY <1>1, <2>3, <2>4 DEF Ahead, Unsent, OutboxStays, outbox
      <3> QED BY <3>1 DEF Due
    <2>5. ASSUME NEW i \in 1..Len(q), d \in about[q[i]].paths
          PROVE  d \in Due(r)'
      <3>1. CASE i = 1
        BY <1>1, <2>1, <2>2, <2>5, <3>1 DEF Due
      <3>2. CASE i # 1
        <4>1. i - 1 \in 1..Len(Tail(q)) /\ Tail(q)[i - 1] = q[i]
          BY <2>2, <3>2
        <4>2. d \in Ahead(r)'
          BY <1>1, <2>1, <2>3, <2>5, <4>1 DEF Ahead, OutboxStays
        <4> QED BY <4>2 DEF Due
      <3> QED BY <3>1, <3>2
    <2> QED BY <2>1, <2>3, <2>4, <2>5 DEF Ahead
  <1>5. PICK s, m, A, B, A2, B2 : /\ s = settings /\ m = member /\ A = Ahead(r) /\ B = Due(r)
                                  /\ A2 = Ahead(r)' /\ B2 = Due(r)'
    OBVIOUS
  <1>6. phase[r] # "down" /\ excuse[r] = {} /\ ~InitWaits(r) =>
            Good(phase[r], thread[r], store[r], change[r], s, m, A, B)
    BY <1>5 DEF ReplicaInv
  <1>7. Agrees(m, m, {}) /\ B \cup {} \subseteq B2
    BY <1>4, <1>5 DEF Agrees
  <1>8. /\ \A x : Trusted(x, s, m, B) => Trusted(x, s, m, B2)
        /\ \A d : Sound(d, s, m, B) => Sound(d, s, m, B2)
    BY <1>7, TrustedGrow, SoundGrow
  <1>9. phase[r] # "down" /\ excuse[r] = {} /\ ~InitWaits(r) =>
            Good(phase[r], thread[r], store[r], change'[r], s, m, A2, B2)
    BY <1>1, <1>5, <1>6, <1>8 DEF Good
  <1> QED BY <1>1, <1>2, <1>3, <1>5, <1>9, InvNext

\* The departments a patch is made of are those of now.
LEMMA InvOpenPatch ==
    ASSUME OutboxShape, ReplicaShape, NEW r \in Replica, OpenPatch(r), ReplicaInv(r)
    PROVE  ReplicaInv(r)'
  <1>1. /\ OutboxStays /\ phase' = phase /\ store' = store /\ thread' = thread
        /\ inbox' = inbox /\ excuse' = excuse
        /\ change[r].step = "rules" /\ change'[r].step = "open"
        /\ change'[r].paths = change[r].paths /\ change'[r].late = change[r].late
        /\ change'[r].rules = change[r].rules /\ change'[r].mine = member
    BY OpenPatchMoves
  <1>2. /\ settings' = settings /\ member' = member
        /\ InitWaits(r)' <=> InitWaits(r)
        /\ Ahead(r)' = Ahead(r)
    BY <1>1, SameMessages
  <1>3. Due(r)' = Due(r)
    BY <1>1, <1>2 DEF Due
  <1>4. PICK s, m, A, B : s = settings /\ m = member /\ A = Ahead(r) /\ B = Due(r)
    OBVIOUS
  <1>5. phase[r] # "down" /\ excuse[r] = {} /\ ~InitWaits(r) =>
            Good(phase[r], thread[r], store[r], change[r], s, m, A, B)
    BY <1>4 DEF ReplicaInv
  <1>6. Agrees(m, m, A)
    BY DEF Agrees
  <1>7. phase[r] # "down" /\ excuse[r] = {} /\ ~InitWaits(r) =>
            Good(phase[r], thread[r], store[r], change'[r], s, m, A, B)
    BY <1>1, <1>4, <1>5, <1>6 DEF Good
  <1> QED BY <1>1, <1>2, <1>3, <1>4, <1>7, InvNext

\* A patch without an excuse brings the store up to date.
LEMMA InvCommitPatch ==
    ASSUME OutboxShape, ReplicaShape, NEW r \in Replica, CommitPatch(r), ReplicaInv(r)
    PROVE  ReplicaInv(r)'
  <1>1. /\ OutboxStays /\ phase' = phase /\ inbox' = inbox
        /\ change[r].step = "open" /\ change'[r] = [step |-> "idle"]
        /\ store'[r] = Patch(store[r], change[r].rules, change[r].mine, change[r].paths)
        /\ \A t \in Reader : /\ thread'[r][t].step = thread[r][t].step
                             /\ thread[r][t].step \notin Done => thread'[r][t].late
        /\ change[r].late \/ Inexact(store[r], change[r].rules, change[r].mine) =>
              excuse'[r] # {}
        /\ excuse[r] # {} => excuse'[r] # {}
    BY CommitPatchMoves
  <1>2. {"load", "init", "timer"} = Reader
    BY DEF Reader
  <1>3. /\ settings' = settings /\ member' = member
        /\ InitWaits(r)' <=> InitWaits(r)
        /\ Ahead(r)' = Ahead(r)
    BY <1>1, SameMessages
  <1>4. Due(r)' = Ahead(r) /\ Due(r) = Ahead(r) \cup change[r].paths
    BY <1>1, <1>3 DEF Due
  <1>5. PICK s \in Settings, m \in SUBSET Dept, A \in SUBSET Dept :
           s = settings /\ m = member /\ A = Ahead(r)
    BY DecisionDataAssumption DEF OutboxShape, Ahead
  <1>6. PICK c \in Patcher, d \in StoreType : c = change[r] /\ d = store[r]
    BY DEF ReplicaShape
  <1>7. phase[r] = "up" /\ c.mine \in SUBSET Dept /\ c.paths \in SUBSET Dept
    BY <1>1, <1>6, PatcherFields, DecisionDataAssumption DEF ReplicaShape
  <1> SUFFICES ASSUME phase'[r] # "down", excuse'[r] = {}, ~InitWaits(r)'
               PROVE  Good(phase'[r], thread'[r], store'[r], change'[r], settings', member',
                           Ahead(r)', Due(r)')
    BY InvNext
  <1>8. Good(phase[r], thread[r], d, c, s, m, A, A \cup c.paths)
    BY <1>1, <1>3, <1>4, <1>5, <1>6 DEF ReplicaInv
  <1>9. ~c.late /\ ~Inexact(d, c.rules, c.mine)
    BY <1>1, <1>6
  <1>10. \A t \in Reader : Trusted(thread'[r][t], s, m, A)
    BY <1>1 DEF Trusted
  <1>11. thread'[r]["init"].step \in Done => Sound(store'[r], s, m, A)
    <2> SUFFICES ASSUME thread'[r]["init"].step \in Done
                 PROVE  Sound(store'[r], s, m, A)
      OBVIOUS
    <2>1. thread[r]["init"].step \in Done /\ phase[r] = "up" /\ c.step = "open"
      BY <1>1, <1>2, <1>6, <1>7
    <2>2. Sound(d, s, m, A \cup c.paths) /\ c.rules = s /\ Agrees(c.mine, m, A)
      BY <1>8, <1>9, <2>1 DEF Good
    <2>3. PICK n \in SUBSET Dept, paths \in SUBSET Dept : n = c.mine /\ paths = c.paths
      BY <1>7
    <2>4. Sound(Patch(d, s, n, paths), s, m, A)
      BY <1>9, <2>2, <2>3, SoundPatch
    <2> QED BY <1>1, <1>6, <2>2, <2>3, <2>4
  <1>12. change'[r].step = "idle"
    BY <1>1
  <1>13. Good(phase'[r], thread'[r], store'[r], change'[r], s, m, A, A)
    BY <1>2, <1>10, <1>11, <1>12 DEF Good
  <1> QED BY <1>3, <1>4, <1>5, <1>13

\* The timer gives up a round or finds nothing to do, or the replica begins to
\* listen.
LEMMA InvQuiet ==
    ASSUME ReplicaShape, NEW r \in Replica, ReplicaInv(r),
           \/ \E t \in Reader : (ReadFails(r, t) /\ ~Stop(r)) \/ Agree(r, t)
           \/ \E c \in Channel : Subscribe(r, c)
    PROVE  ReplicaInv(r)'
  <1>1. /\ OutboxStays /\ UNCHANGED <<phase, store, inbox, change, excuse>>
        /\ thread'[r]["load"] = thread[r]["load"] /\ thread'[r]["init"] = thread[r]["init"]
        /\ thread'[r]["timer"] = thread[r]["timer"] \/ thread'[r]["timer"].step = "idle"
    <2>1. ASSUME NEW t \in Reader, (ReadFails(r, t) /\ ~Stop(r)) \/ Agree(r, t)
          PROVE  /\ OutboxStays /\ UNCHANGED <<phase, store, inbox, change, excuse>>
                 /\ thread'[r]["load"] = thread[r]["load"]
                 /\ thread'[r]["init"] = thread[r]["init"]
                 /\ thread'[r]["timer"].step = "idle"
      BY <2>1, TimerEnds DEF Reader
    <2>2. ASSUME NEW c \in Channel, Subscribe(r, c)
          PROVE  OutboxStays /\ UNCHANGED <<phase, store, inbox, thread, change, excuse>>
      BY <2>2, SubscribeMoves
    <2> QED BY <2>1, <2>2
  <1>2. /\ settings' = settings /\ member' = member
        /\ InitWaits(r)' <=> InitWaits(r)
        /\ Ahead(r)' = Ahead(r)
    BY <1>1, SameMessages
  <1>3. Due(r)' = Due(r)
    BY <1>1, <1>2 DEF Due
  <1>4. PICK s, m, A, B : s = settings /\ m = member /\ A = Ahead(r) /\ B = Due(r)
    OBVIOUS
  <1>5. phase[r] # "down" /\ excuse[r] = {} /\ ~InitWaits(r) =>
            Good(phase[r], thread[r], store[r], change[r], s, m, A, B)
    BY <1>4 DEF ReplicaInv
  <1>6. phase[r] # "down" /\ excuse[r] = {} /\ ~InitWaits(r) =>
            Good(phase[r], thread'[r], store[r], change[r], s, m, A, B)
    BY <1>1, <1>5 DEF Good, Trusted, Done
  <1> QED BY <1>1, <1>2, <1>3, <1>4, <1>6, InvNext

\* A message is dropped, lost or misread, which is an excuse, or the replica
\* stops.
LEMMA InvGivesUp ==
    ASSUME OutboxShape, ReplicaShape, NEW r \in Replica,
           \/ LosePatch(r) \/ ChangeFails(r) \/ ChangeMisreads(r) \/ Stop(r)
           \/ \E c \in Channel : LoseMessage(r, c)
    PROVE  ReplicaInv(r)'
  <1>1. excuse'[r] # {} \/ phase'[r] = "down"
    BY DropMoves, MisreadMoves, LoseMessageMoves, StopMoves
  <1> QED BY <1>1, InvNext

\* A step of a replica.
LEMMA InvReplica ==
    ASSUME OutboxShape, ReplicaShape, NEW r \in Replica, ReplicaNext(r),
           \A v \in Replica : ReplicaInv(v)
    PROVE  \A v \in Replica : ReplicaInv(v)'
  <1>1. ReplicaInv(r)' /\ Elsewhere(r)
    <2>1. ASSUME NEW t \in Reader, GetOPAData(r, t)
          PROVE  ReplicaInv(r)' /\ Elsewhere(r)
      BY <2>1, InvRead, ReadShape
    <2>2. ASSUME NEW t \in Reader, Install(r, t)
          PROVE  ReplicaInv(r)' /\ Elsewhere(r)
      BY <2>2, InvInstall, InstallMoves
    <2>3. ASSUME NEW t \in Reader, Assign(r, t)
           PROVE  ReplicaInv(r)' /\ Elsewhere(r)
      BY <2>3, InvAssign, AssignMoves
    <2>4. ASSUME NEW t \in Reader, ReadFails(r, t) \/ Agree(r, t)
          PROVE  ReplicaInv(r)' /\ Elsewhere(r)
      <3>1. CASE Stop(r)
        BY <3>1, InvGivesUp, StopMoves
      <3>2. CASE ~Stop(r)
        BY <2>4, <3>2, InvQuiet, TimerEnds
      <3> QED BY <3>1, <3>2
    <2>5. CASE OrphanPanics(r) \/ Crash(r)
      BY <2>5, InvGivesUp, StopMoves DEF OrphanPanics, Crash
    <2>6. CASE Start(r)
      BY <2>6, InvStart, StartMoves
    <2>7. CASE InitHandler(r)
      BY <2>7, InvInitHandler, InitHandlerMoves
    <2>8. CASE TimerTick(r)
      BY <2>8, InvTimer, TimerMoves
    <2>9. CASE ChangeHandler(r)
      BY <2>9, InvChangeHandler, ChangeHandlerMoves
    <2>10. CASE OpenPatch(r)
      BY <2>10, InvOpenPatch, OpenPatchMoves
    <2>11. CASE CommitPatch(r)
      BY <2>11, InvCommitPatch, CommitPatchMoves
    <2>12. CASE LosePatch(r) \/ ChangeFails(r) \/ ChangeMisreads(r)
      BY <2>12, InvGivesUp, DropMoves, MisreadMoves
    <2>13. ASSUME NEW c \in Channel, Subscribe(r, c)
           PROVE  ReplicaInv(r)' /\ Elsewhere(r)
      BY <2>13, InvQuiet, SubscribeMoves
    <2>14. ASSUME NEW c \in Channel, LoseMessage(r, c)
           PROVE  ReplicaInv(r)' /\ Elsewhere(r)
      BY <2>14, InvGivesUp, LoseMessageMoves
    <2> QED BY <2>1, <2>2, <2>3, <2>4, <2>5, <2>6, <2>7, <2>8, <2>9, <2>10, <2>11, <2>12,
               <2>13, <2>14 DEF ReplicaNext
  <1>2. OutboxStays
    BY ReplicaStays
  <1>3. ASSUME NEW v \in Replica
        PROVE  ReplicaInv(v)'
    <2>1. CASE v = r
      BY <1>1, <2>1
    <2>2. CASE v # r
      BY <1>1, <1>2, <2>2, InvElsewhere
    <2> QED BY <2>1, <2>2
  <1> QED BY <1>3

\* A step of the outbox that loses no message and gives none to a replica.
LEMMA InvOutbox ==
    ASSUME OutboxShape, ReplicaShape, NEW r \in Replica, ReplicaInv(r), settings' = settings,
           NEW E, Agrees(member, member', E), E \subseteq Ahead(r)',
           UNCHANGED <<phase, store, inbox, thread, change, excuse>>,
           Unsent \subseteq Unsent',
           \A i \in 1..Len(about) : about'[i] = about[i]
    PROVE  ReplicaInv(r)'
  <1>1. Unsent \subseteq 1..Len(about)
    BY DEF Unsent, OutboxShape
  <1>2. InitWaits(r) => InitWaits(r)'
    BY <1>1 DEF InitWaits
  <1>3. Ahead(r) \subseteq Ahead(r)'
    <2>1. PICK q \in Seq(1..Len(about)) : q = inbox[r]["update"]
      BY DEF ReplicaShape, Channel
    <2>2. \A i \in 1..Len(q) : q[i] \in 1..Len(about)
      <3>1. PICK S : S = 1..Len(about)
        OBVIOUS
      <3> QED BY <2>1, <3>1, ElementOf
    <2> SUFFICES ASSUME NEW d \in Ahead(r)
                 PROVE  d \in Ahead(r)'
      OBVIOUS
    <2>3. d \in Dept
      BY DEF Ahead
    <2>4. CASE \E k \in Unsent : d \in about[k].paths
      BY <1>1, <2>3, <2>4 DEF Ahead
    <2>5. CASE \E i \in 1..Len(q) : d \in about[q[i]].paths
      <3>1. PICK i \in 1..Len(q) : d \in about[q[i]].paths
        BY <2>5
      <3>2. d \in about'[q[i]].paths /\ inbox'[r]["update"] = q
        BY <2>1, <2>2, <3>1
      <3> QED BY <2>3, <3>2 DEF Ahead
    <2> QED BY <2>1, <2>4, <2>5 DEF Ahead
  <1> QED BY <1>2, <1>3, InvKept

\* A change that is announced on the init channel: a reload is due.
LEMMA InvSetPolicy ==
    ASSUME OutboxShape, NEW s \in Settings, SetPolicy(s), NEW r \in Replica
    PROVE  ReplicaInv(r)'
  <1>1. Announce("init", {})
    BY DEF SetPolicy
  <1>2. PICK c \in Channel, paths \in SUBSET Dept : c = "init" /\ paths = {}
    BY DEF Channel
  <1>3. /\ owed' = owed \cup {Len(about')}
        /\ about'[Len(about')] = [chan |-> c, paths |-> paths]
    BY <1>1, <1>2, AnnounceMoves
  <1>4. Len(about') \in Unsent' /\ about'[Len(about')].chan = "init"
    BY <1>2, <1>3 DEF Unsent
  <1>5. InitWaits(r)'
    BY <1>4 DEF InitWaits
  <1> QED BY <1>5, InvNext

\* The user moves: the departments it left and entered are announced.
LEMMA InvMoveUser ==
    ASSUME OutboxShape, ReplicaShape, NEW m \in Memberships, MoveUser(m),
           NEW r \in Replica, ReplicaInv(r)
    PROVE  ReplicaInv(r)'
  <1>1. PICK c \in Channel, paths \in SUBSET Dept :
           c = "update" /\ paths = (m \ member) \cup (member \ m)
    <2>1. (m \ member) \cup (member \ m) \in SUBSET Dept
      BY DecisionDataAssumption DEF OutboxShape
    <2> QED BY <2>1 DEF Channel
  <1>2. /\ Announce(c, paths) /\ settings' = settings /\ member' = m
        /\ UNCHANGED outbox
        /\ UNCHANGED <<phase, store, inbox, thread, change, excuse>>
    BY <1>1 DEF MoveUser, replica
  <1>3. /\ owed' = owed \cup {Len(about')}
        /\ \A i \in 1..Len(about) : about'[i] = about[i]
        /\ about'[Len(about')] = [chan |-> c, paths |-> paths]
    BY <1>2, AnnounceMoves
  <1>4. Unsent \subseteq Unsent' /\ Len(about') \in Unsent'
    BY <1>2, <1>3 DEF Unsent, outbox
  <1>5. about'[Len(about')].paths = paths
    BY <1>3
  <1>6. paths \subseteq Ahead(r)'
    BY <1>4, <1>5 DEF Ahead
  <1>7. Agrees(member, member', paths)
    BY <1>1, <1>2 DEF Agrees
  <1> QED BY <1>2, <1>3, <1>4, <1>6, <1>7, InvOutbox

\* Rows come and are held, settled or given back: no message is lost.
LEMMA InvDispatch ==
    ASSUME OutboxShape, ReplicaShape, NEW r \in Replica, ReplicaInv(r),
           \/ UNCHANGED vars \/ Rollback
           \/ \E m \in owed : Send(m)
           \/ \E m \in rows : GetEvent(m) \/ Commit(m)
    PROVE  ReplicaInv(r)'
  <1>1. /\ UNCHANGED <<db, about>>
        /\ UNCHANGED <<phase, store, inbox, thread, change, excuse>>
    BY DEF vars, replica, Rollback, Send, GetEvent, Commit
  <1>2. Unsent \subseteq Unsent'
    <2>1. CASE UNCHANGED vars
      BY <2>1 DEF vars, outbox, Unsent
    <2>2. CASE Rollback
      BY <2>2 DEF Rollback, Unsent
    <2>3. ASSUME NEW m \in owed, Send(m)
          PROVE  Unsent \subseteq Unsent'
      BY <2>3 DEF Send, Unsent, OutboxShape
    <2>4. ASSUME NEW m \in rows, GetEvent(m)
          PROVE  Unsent \subseteq Unsent'
      BY <2>4 DEF GetEvent, Unsent
    <2>5. ASSUME NEW m \in rows, Commit(m)
          PROVE  Unsent \subseteq Unsent'
      BY <2>5 DEF Commit, Unsent
    <2> QED BY <2>1, <2>2, <2>3, <2>4, <2>5
  <1>3. settings' = settings /\ Agrees(member, member', {})
    BY <1>1 DEF db, Agrees
  <1> QED BY <1>1, <1>2, <1>3, InvOutbox

\* An announcement that is never sent is everyone's excuse.
LEMMA InvForget ==
    ASSUME ReplicaShape, NEW m \in owed, Forget(m), NEW r \in Replica
    PROVE  ReplicaInv(r)'
  <1>1. excuse'[r] # {}
    BY DEF Forget, Excuse
  <1> QED BY <1>1, InvNext

\* A message is published: it waits for the replica, or that did not listen.
LEMMA InvESSend ==
    ASSUME OutboxShape, ReplicaShape, NEW m \in rows, ESSend(m), NEW r \in Replica, ReplicaInv(r)
    PROVE  ReplicaInv(r)'
  <1>1. /\ UNCHANGED <<db, rows, dispatch, owed, about, phase, store, sub, thread, change>>
        /\ dispatch = {m} /\ ~sent /\ sent'
        /\ about[m].chan \in Channel
        /\ \A c \in Channel :
              inbox'[r][c] = IF c = about[m].chan /\ c \in sub[r]
                             THEN Append(inbox[r][c], m) ELSE inbox[r][c]
        /\ excuse[r] # {} => excuse'[r] # {}
        /\ phase[r] # "down" /\ about[m].chan \notin sub[r] => excuse'[r] # {}
    BY ESSendMoves
  <1>2. settings' = settings /\ Agrees(member, member', {})
    BY <1>1 DEF db, Agrees
  <1>3. Unsent = Unsent' \cup {m} /\ Channel = {"init", "update"}
    BY <1>1 DEF Unsent, Channel
  <1>4. m \in 1..Len(about)
    BY DEF OutboxShape
  <1>5. PICK S, p, q :
           /\ S = 1..Len(about) /\ q = inbox[r]["update"] /\ p = inbox[r]["init"]
           /\ p \in Seq(S) /\ q \in Seq(S)
    BY <1>3 DEF ReplicaShape
  <1>6. /\ Append(p, m) # <<>>
        /\ Len(q) \in Nat /\ Len(Append(q, m)) = Len(q) + 1
        /\ \A i \in 1..Len(q) : Append(q, m)[i] = q[i]
        /\ Append(q, m)[Len(q) + 1] = m
    <2>1. p \in Seq(S) /\ q \in Seq(S) /\ m \in S
      BY <1>4, <1>5
    <2>2. Append(p, m) # <<>>
      BY ONLY <2>1, AppendOf
    <2> QED BY ONLY <2>1, <2>2, AppendOf
  <1> SUFFICES ASSUME phase'[r] # "down", excuse'[r] = {}, ~InitWaits(r)'
               PROVE  excuse[r] = {} /\ ~InitWaits(r) /\ Ahead(r) \subseteq Ahead(r)'
    <2>1. PICK E : E = {}
      OBVIOUS
    <2>2. /\ Agrees(member, member', E) /\ phase'[r] = phase[r] /\ store'[r] = store[r]
          /\ thread'[r] = thread[r] /\ change'[r] = change[r]
      BY <1>1, <1>2, <2>1
    <2>3. ASSUME phase'[r] # "down" /\ excuse'[r] = {} /\ ~InitWaits(r)' =>
                    excuse[r] = {} /\ ~InitWaits(r) /\ Ahead(r) \subseteq Ahead(r)'
          PROVE  ReplicaInv(r)'
      BY <1>2, <2>1, <2>2, <2>3, InvKept
    <2> QED BY <2>3
  <1>7. about[m].chan \in sub[r]
    BY <1>1
  <1>8. about[m].chan = "update"
    <2>1. CASE about[m].chan = "init"
      <3>1. inbox'[r]["init"] = Append(p, m)
        BY <1>1, <1>5, <1>7, <2>1
      <3> QED BY <1>6, <3>1 DEF InitWaits
    <2> QED BY <1>1, <1>3, <2>1
  <1>9. inbox'[r]["init"] = p /\ inbox'[r]["update"] = Append(q, m)
    BY <1>1, <1>3, <1>5, <1>7, <1>8
  <1>10. ~InitWaits(r)
    BY <1>1, <1>3, <1>5, <1>8, <1>9 DEF InitWaits
  <1>11. ASSUME NEW d \in Ahead(r)
         PROVE  d \in Ahead(r)'
    <2>1. d \in Dept
      BY DEF Ahead
    <2>2. CASE \E k \in Unsent' : d \in about[k].paths
      BY <1>1, <2>1, <2>2 DEF Ahead
    <2>3. CASE d \in about[m].paths
      <3>1. Len(q) + 1 \in 1..Len(Append(q, m))
        BY <1>6
      <3>2. d \in about'[inbox'[r]["update"][Len(q) + 1]].paths
        BY <1>1, <1>6, <1>9, <2>3
      <3> QED BY <1>9, <2>1, <3>1, <3>2 DEF Ahead
    <2>4. ASSUME NEW i \in 1..Len(q), d \in about[q[i]].paths
          PROVE  d \in Ahead(r)'
      <3>1. i \in 1..Len(Append(q, m)) /\ Append(q, m)[i] = q[i]
        BY <1>6
      <3> QED BY <1>1, <1>9, <2>1, <2>4, <3>1 DEF Ahead
    <2> QED BY <1>3, <1>5, <2>2, <2>3, <2>4 DEF Ahead
  <1> QED BY <1>1, <1>10, <1>11

\* Every replica keeps its invariant.
LEMMA InvStep ==
    ASSUME OutboxShape, ReplicaShape, \A r \in Replica : ReplicaInv(r), [Next]_vars
    PROVE  \A r \in Replica : ReplicaInv(r)'
  <1>1. ASSUME NEW r \in Replica, ReplicaNext(r)
        PROVE  \A v \in Replica : ReplicaInv(v)'
    BY <1>1, InvReplica
  <1>2. ASSUME NEW s \in Settings, SetPolicy(s)
        PROVE  \A r \in Replica : ReplicaInv(r)'
    BY <1>2, InvSetPolicy
  <1>3. ASSUME NEW m \in Memberships, MoveUser(m)
        PROVE  \A r \in Replica : ReplicaInv(r)'
    BY <1>3, InvMoveUser
  <1>4. CASE \/ UNCHANGED vars \/ Rollback
             \/ \E m \in owed : Send(m)
             \/ \E m \in rows : GetEvent(m) \/ Commit(m)
    BY <1>4, InvDispatch
  <1>5. ASSUME NEW m \in owed, Forget(m)
        PROVE  \A r \in Replica : ReplicaInv(r)'
    BY <1>5, InvForget
  <1>6. ASSUME NEW m \in rows, ESSend(m)
        PROVE  \A r \in Replica : ReplicaInv(r)'
    BY <1>6, InvESSend
  <1> QED BY <1>1, <1>2, <1>3, <1>4, <1>5, <1>6 DEF Next, ReplicaNext

\* With nothing under way the invariant is what is promised.
LEMMA SettledFresh ==
    ASSUME OutboxShape, ReplicaShape, QueriesInv, NEW r \in Replica, ReplicaInv(r),
           Settled(r), excuse[r] = {}
    PROVE  Fresh(r)
  <1>1. /\ owed = {} /\ rows = {} /\ phase[r] = "up"
        /\ inbox[r]["init"] = <<>> /\ inbox[r]["update"] = <<>>
        /\ thread[r]["init"].step = "idle" /\ change[r].step = "idle"
    BY DEF Settled, Channel
  <1>2. Unsent = {}
    BY <1>1 DEF Unsent
  <1>3. ~InitWaits(r) /\ Ahead(r) = {}
    BY <1>1, <1>2 DEF InitWaits, Ahead
  <1>4. Due(r) = {}
    BY <1>1, <1>3 DEF Due
  <1>5. Sound(store[r], settings, member, {})
    BY <1>1, <1>3, <1>4 DEF ReplicaInv, Good, Done
  <1>6. PICK n \in SUBSET Dept : Agrees(n, member, {}) /\ Says(store[r], settings, n)
    BY <1>5 DEF Sound
  <1>7. n = member
    BY <1>6 DEF Agrees
  <1>8. Served(r) = store[r]
    <2>1. \A q \in Query : behind[r][q] = {}
      BY DEF Settled, QueriesInv, Pending, Query
    <2>2. View(r, "decisionQuery") = store[r] /\ View(r, "queryQuery") = store[r]
      BY <2>1 DEF View, Query
    <2>3. PICK d \in StoreType : d = store[r]
      BY DEF ReplicaShape
    <2>4. [d EXCEPT !.client = d.client] = d
      BY StoreFields, StoreExcept
    <2> QED BY <2>2, <2>3, <2>4 DEF Served
  <1> QED BY <1>6, <1>7, <1>8 DEF Says, Fresh, Right

\* Once every announcement was handled, a replica answers as the database
\* says, unless it has one of the known excuses: torn reads, messages sent
\* twice or handled in another order than the changes, and changes between a
\* handler's reads do no harm, nor do assignments of queries of which none
\* was overtaken, with any number of replicas, changes and faults.
THEOREM FreshOnceSettled == Spec => []FreshWhenSettled
  <1> DEFINE All == \A r \in Replica : ReplicaInv(r)
  <1>1. Init => All
    BY DEF Init, ReplicaInv
  <1>2. OutboxShape /\ ReplicaShape /\ All /\ [Next]_vars => All'
    BY InvStep
  <1>3. OutboxShape /\ ReplicaShape /\ QueriesInv /\ All => FreshWhenSettled
    BY SettledFresh DEF FreshWhenSettled
  <1> HIDE DEF All
  <1> QED BY <1>1, <1>2, <1>3, Shaped, Queried, PTL DEF Spec
=============================================================================
