--------------------------- MODULE DecisionData ----------------------------
(***************************************************************************)
(* The decision data of PolicyManagement: every replica answers "may this  *)
(* client log in from this network" out of a copy in memory (decision/     *)
(* policy_decision.go), which three kinds of thread rebuild or patch:      *)
(*   - the load at start, the handler of the init channel and a timer read *)
(*     everything from the database and UserManagement, call by call, and  *)
(*     then replace the store and, one assignment after the other, the two *)
(*     prepared queries that read it;                                      *)
(*   - the handler of the update channel reads the departments of one user *)
(*     and patches the store in place.                                     *)
(* The announcements go through an outbox table (utils/gocommon/v2/outbox) *)
(* to Redis, which forgets a message nobody is subscribed for.  They are   *)
(* not written in the transaction of the change they announce.  Nothing    *)
(* keeps the threads of a replica apart.                                   *)
(*                                                                         *)
(* One user is followed.  Settings stands for the tables of PolicyManage-  *)
(* ment: the switch, the networks of departments (rel) and of the user     *)
(* (own), by address family, and the client restriction, for which the     *)
(* answer without any network stands too; member is the state of           *)
(* UserManagement.  Both families always have a network, the public one    *)
(* (network/publicnet.go).  The replica that owes an announcement and the  *)
(* one that dispatches are any replicas.                                   *)
(***************************************************************************)
EXTENDS Naturals, Sequences, FiniteSets

CONSTANTS Replica, Dept, Family,
          Settings,       \* what administrators may set
          Memberships,    \* departments the user may be in
          FirstSettings, FirstMember,
          MaxWrites,      \* bound: changes
          MaxEvents       \* bound: changes, crashes, failing calls, lost messages

ASSUME DecisionDataAssumption ==
    /\ Settings \subseteq [enabled : BOOLEAN, client : BOOLEAN,
                           rel : SUBSET (Dept \X Family), own : SUBSET Family]
    /\ FirstSettings \in Settings
    /\ Memberships \subseteq SUBSET Dept /\ FirstMember \in Memberships
    /\ MaxWrites \in Nat /\ MaxEvents \in Nat

VARIABLES
    \* the databases
    settings, member,
    rows,       \* undispatched messages of the outbox table
    dispatch,   \* the message whose row a dispatcher holds, if any
    sent,       \* it was given to Redis
    \* announcements a handler still has to Send
    owed,
    about,      \* what the messages say
    \* a replica
    phase, store, sub, inbox,
    behind,     \* the data of a query that does not read the store, if any
    thread,     \* the threads that read everything
    change,     \* the handler of the update channel
    \* bounds and history
    faults, settled, log,
    excuse      \* what may have left the store of a replica out of date

db == <<settings, member>>
outbox == <<rows, dispatch, sent, settled, log>>
replica == <<phase, store, behind, sub, inbox, thread, change, excuse>>
vars == <<db, outbox, owed, about, replica, faults>>

Channel == {"init", "update"}
Reader == {"load", "init", "timer"}
Query == {"decisionQuery", "queryQuery"}
Msg == 1..MaxWrites

-----------------------------------------------------------------------------
(* The data: a store holds, for each family, whether the user has an entry *)
(* and its departments and own networks.                                   *)

Nobody == [f \in Family |-> [known |-> FALSE, depts |-> {}, own |-> FALSE]]
Ruled(rel) == {p[1] : p \in rel}

\* getAllPolicies and convertUserData: the departments of the user that have
\* a network of any family, and its own networks of this one.
UserData(rel, own, m) ==
    LET depts == m \cap Ruled(rel)
    IN  [f \in Family |-> [known |-> depts # {} \/ own # {},
                           depts |-> depts, own |-> f \in own]]

\* getOPAData: with the switch off the network data is not read.
OPAData(s, m) ==
    [enabled |-> s.enabled, client |-> s.client,
     rel |-> IF s.enabled THEN s.rel ELSE {},
     users |-> IF s.enabled THEN UserData(s.rel, s.own, m) ELSE Nobody]

\* allow.rego and the client restriction: everything the answers depend on.
Answers(d) ==
    [enabled |-> d.enabled, client |-> d.client,
     nets |-> {p \in d.rel : p[1] \in d.users[p[2]].depts},
     own |-> {f \in Family : d.users[f].own},
     known |-> d.enabled /\ \E f \in Family : d.users[f].known]

Empty == OPAData([enabled |-> FALSE, client |-> FALSE, rel |-> {}, own |-> {}], {})

\* updateUserDepartmentRelation and incrementalUpdateData: what a patch made
\* of the rules s and the departments m does to the store d.
Ids(s, m, f) == {d \in m : <<d, f>> \in s.rel}
NoIds(s, m) == \A f \in Family : Ids(s, m, f) = {}

PatchUser(u, s, m, f) ==
    LET ids == Ids(s, m, f)
    IN  CASE ids # {} /\ s.own = {} -> [known |-> TRUE, depts |-> ids, own |-> FALSE]
          [] ids # {} /\ s.own # {} -> IF u.known THEN [u EXCEPT !.depts = ids] ELSE u
          [] NoIds(s, m) /\ s.own = {} -> Nobody[f]
          [] NoIds(s, m) /\ s.own # {} -> [u EXCEPT !.depts = {}]
          [] OTHER -> u

Patch(d, s, m, paths) ==
    IF d.enabled /\ paths \cap Ruled(s.rel) # {}
    THEN [d EXCEPT !.users = [f \in Family |-> PatchUser(@[f], s, m, f)]]
    ELSE d

\* A family whose last department went while another one has some is left
\* as it is, and so is an entry that is not there.
Inexact(d, s, m) ==
    \E f \in Family :
        \/ Ids(s, m, f) = {} /\ ~NoIds(s, m) /\ Ids(s, d.users[f].depts, f) # {}
        \/ Ids(s, m, f) # {} /\ s.own # {} /\ ~d.users[f].known

-----------------------------------------------------------------------------
(* Changes and their announcement.                                         *)

Init ==
    /\ settings = FirstSettings /\ member = FirstMember
    /\ rows = {} /\ dispatch = {} /\ sent = FALSE
    /\ settled = {} /\ log = <<>>
    /\ owed = {} /\ about = <<>>
    /\ phase = [r \in Replica |-> "down"]
    /\ store = [r \in Replica |-> Empty]
    /\ behind = [r \in Replica |-> [q \in Query |-> {}]]
    /\ sub = [r \in Replica |-> {}]
    /\ inbox = [r \in Replica |-> [c \in Channel |-> <<>>]]
    /\ thread = [r \in Replica |-> [t \in Reader |-> [step |-> "idle"]]]
    /\ change = [r \in Replica |-> [step |-> "idle"]]
    /\ excuse = [r \in Replica |-> {}]
    /\ faults = 0

Announce(c, paths) ==
    /\ Len(about) < MaxWrites /\ Len(about) + faults < MaxEvents
    /\ owed' = owed \cup {Len(about) + 1}
    /\ about' = Append(about, [chan |-> c, paths |-> paths])

\* SetPolicyValue, EditNetwork, DeleteNetwork, AddAccessors, DeleteAccessors
\* and FlushAccessors: the tables change, then PublishInit is due.
SetPolicy(s) ==
    /\ s \in Settings \ {settings}
    /\ settings' = s
    /\ Announce("init", {})
    /\ UNCHANGED <<member, outbox, replica, faults>>

\* External: UserManagement adds, moves or removes the user; the message is
\* acknowledged as soon as it is in the channel of handleDepartAddUser,
\* handleUserMOved or handleDepartRemoveUser, which owe a PublishChange.
MoveUser(m) ==
    /\ m \in Memberships \ {member}
    /\ member' = m
    /\ Announce("update", (m \ member) \cup (member \ m))
    /\ UNCHANGED <<settings, outbox, replica, faults>>

\* PublishInit, PublishChange: Outboxer.Send adds the row.
Send(m) ==
    /\ m \in owed
    /\ owed' = owed \ {m}
    /\ rows' = rows \cup {m}
    /\ UNCHANGED <<db, dispatch, sent, settled, log, about, replica, faults>>

Excuse(R, e) == [r \in Replica |-> IF r \in R THEN excuse[r] \cup {e} ELSE excuse[r]]
Fault == Len(about) + faults < MaxEvents /\ faults' = faults + 1

\* Send fails, or the replica that owes the message stops.
Forget(m) ==
    /\ Fault
    /\ m \in owed
    /\ owed' = owed \ {m}
    /\ excuse' = Excuse(Replica, "unsent")
    /\ UNCHANGED <<db, outbox, about, phase, store, behind, sub, inbox,
                   thread, change>>

-----------------------------------------------------------------------------
(* StartDispatcher: one transaction locks the undispatched row with the    *)
(* smallest f_id, marks it, publishes it and commits.  The lock lets one   *)
(* dispatcher in at a time; f_id is made of the clocks of the replicas, so *)
(* that any row may be the smallest.                                       *)

\* Mutant: a plain select.
GetEventUnlocked(m) ==
    /\ m \in rows \ dispatch
    /\ dispatch' = dispatch \cup {m} /\ sent' = FALSE
    /\ UNCHANGED <<db, rows, settled, log, owed, about, replica, faults>>

GetEvent(m) ==
    /\ dispatch = {} /\ m \in rows
    /\ dispatch' = {m} /\ sent' = FALSE
    /\ UNCHANGED <<db, rows, settled, log, owed, about, replica, faults>>

\* Mutant: an announcement is dropped while a reload is under way.
PushUnlessBusy(m) ==
    [r \in Replica |->
        [c \in Channel |-> IF c = about[m].chan /\ c \in sub[r]
                                /\ thread[r]["init"].step = "idle"
                           THEN Append(inbox[r][c], m) ELSE inbox[r][c]]]

\* RedisES.Send, and what Redis does with the message (external): it goes to
\* who is subscribed now.
Push(m) ==
    [r \in Replica |->
        [c \in Channel |-> IF c = about[m].chan /\ c \in sub[r]
                           THEN Append(inbox[r][c], m) ELSE inbox[r][c]]]

Deaf(m) == {r \in Replica : phase[r] # "down" /\ about[m].chan \notin sub[r]}

ESSend(m) ==
    /\ dispatch = {m} /\ ~sent
    /\ sent' = TRUE
    /\ log' = Append(log, m)
    /\ inbox' = Push(m)
    /\ excuse' = Excuse(Deaf(m), "deaf")
    /\ UNCHANGED <<db, rows, dispatch, settled, owed, about, phase, store, behind,
                   sub, thread, change, faults>>

\* Mutant: the row is marked in a transaction of its own.
CommitUnsent(m) ==
    /\ dispatch = {m}
    /\ dispatch' = {} /\ sent' = FALSE
    /\ rows' = rows \ {m} /\ settled' = settled \cup {m}
    /\ UNCHANGED <<db, log, owed, about, replica, faults>>

Commit(m) ==
    /\ dispatch = {m} /\ sent
    /\ dispatch' = {} /\ sent' = FALSE
    /\ rows' = rows \ {m} /\ settled' = settled \cup {m}
    /\ UNCHANGED <<db, log, owed, about, replica, faults>>

\* A statement or the publication fails, or the dispatcher stops: the
\* transaction is rolled back, whether Redis got the message or not.
Rollback ==
    /\ Fault
    /\ dispatch # {}
    /\ dispatch' = {} /\ sent' = FALSE
    /\ UNCHANGED <<db, rows, settled, log, owed, about, replica>>

-----------------------------------------------------------------------------
(* The threads that read everything.                                       *)

\* getOPAData is called: the timer has read the store, the switch is read.
Begin(r, t) ==
    /\ thread[r][t].step = "idle"
    /\ thread' = [thread EXCEPT ![r][t] =
           [step |-> IF settings.enabled THEN "rules" ELSE "client",
            old |-> IF t = "timer" THEN store[r] ELSE Empty, late |-> FALSE,
            new |-> [Empty EXCEPT !.enabled = settings.enabled]]]

\* StartAPIServer, NewPolicyDecision: the load at start.
Start(r) ==
    /\ phase[r] = "down"
    /\ phase' = [phase EXCEPT ![r] = "load"]
    /\ Begin(r, "load")
    /\ UNCHANGED <<db, outbox, owed, about, store, behind, sub, inbox, change, excuse,
                   faults>>

\* policyInitHandler takes a message.
InitHandler(r) ==
    /\ inbox[r]["init"] # <<>>
    /\ Begin(r, "init")
    /\ inbox' = [inbox EXCEPT ![r]["init"] = Tail(@)]
    /\ UNCHANGED <<db, outbox, owed, about, phase, store, behind, sub, change, excuse,
                   faults>>

\* compareVersionTimer: a tick, or another round after an error.
TimerTick(r) ==
    /\ phase[r] = "up"
    /\ Begin(r, "timer")
    /\ UNCHANGED <<db, outbox, owed, about, phase, store, behind, sub, inbox, change,
                   excuse, faults>>

\* getOPAData goes on, a call at a time: the rules, the departments of the
\* user, the client restriction.
NextStep(step) ==
    CASE step = "rules"   -> "members"
      [] step = "members" -> "client"
      [] step = "client"  -> "install"

ReadPart(x) ==
    CASE x.step = "rules"   -> [x.new EXCEPT !.rel = settings.rel,
                                    !.users = UserData({}, settings.own, {})]
      [] x.step = "members" ->
             [x.new EXCEPT !.users =
                 UserData(x.new.rel, {f \in Family : @[f].own}, member)]
      [] x.step = "client"  -> [x.new EXCEPT !.client = settings.client]

GetOPAData(r, t) ==
    LET x == thread[r][t]
    IN  /\ x.step \in {"rules", "members", "client"}
        /\ thread' = [thread EXCEPT ![r][t] =
               [x EXCEPT !.new = ReadPart(x), !.step = NextStep(x.step)]]
        /\ UNCHANGED <<db, outbox, owed, about, phase, store, behind, sub, inbox,
                       change, excuse, faults>>

\* A patch of the store overtakes the threads that have read and not yet
\* replaced it.
Overtake(x) ==
    IF x.step \in {"idle"} \cup Query THEN x ELSE [x EXCEPT !.late = TRUE]

\* A new store does so too, and the queries a thread has yet to assign read
\* the one it replaces, which nobody changes any more.
Replaced(x, old) ==
    IF x.step \in Query /\ ~x.late THEN [x EXCEPT !.late = TRUE, !.new = old]
    ELSE Overtake(x)

\* The handler of changes keeps using p.opaStore: a transaction of the store
\* that was replaced is unknown to the new one.
OvertakeChange(c) ==
    CASE c.step = "open" -> [c EXCEPT !.step = "orphan"]
      [] c.step = "rules" -> [c EXCEPT !.late = TRUE]
      [] OTHER -> c

\* Mutant: the timer looks at the switch only.
DiffersInSwitch(x) == x.new.enabled # x.old.enabled

\* The comparison of the timer, reflect.DeepEqual.
Differs(x) == x.new # x.old

\* The lists of departments and networks come out of maps, in any order: the
\* comparison may find a difference in equal data that has some.
MayDiffer(x) == x.new.rel # {} \/ \E f \in Family : x.new.users[f].own

\* initOPA: d.opaStore = store.  The timer only does so when its copy of the
\* store differs from what it read.
Install(r, t) ==
    LET x == thread[r][t]
    IN  /\ x.step = "install"
        /\ t # "timer" \/ Differs(x) \/ MayDiffer(x)
        /\ store' = [store EXCEPT ![r] = x.new]
        /\ behind' = [behind EXCEPT ![r] =
               [q \in Query |-> IF @[q] = {} THEN {store[r]} ELSE @[q]]]
        /\ thread' = [thread EXCEPT ![r] =
               [s \in Reader |->
                   IF s = t THEN [x EXCEPT !.step = "decisionQuery", !.late = FALSE]
                   ELSE Replaced(@[s], store[r])]]
        /\ change' = [change EXCEPT ![r] = OvertakeChange(@)]
        /\ excuse' = IF x.late THEN Excuse({r}, "raced") ELSE excuse
        /\ UNCHANGED <<db, outbox, owed, about, phase, sub, inbox, faults>>

\* d.decisionQuery = decisionQuery, then d.queryQuery = queryQuery, prepared
\* for the store of this thread, which may not be d.opaStore any more.
Assign(r, t) ==
    LET x == thread[r][t]
        last == x.step = "queryQuery"
    IN  /\ x.step \in Query
        /\ behind' = [behind EXCEPT ![r][x.step] = IF x.late THEN {x.new} ELSE {}]
        /\ thread' = [thread EXCEPT ![r][t] =
               IF last THEN [step |-> "idle"] ELSE [x EXCEPT !.step = "queryQuery"]]
        /\ phase' = IF last THEN [phase EXCEPT ![r] = "up"] ELSE phase
        /\ excuse' = IF x.late THEN Excuse({r}, "mixed") ELSE excuse
        /\ UNCHANGED <<db, outbox, owed, about, store, sub, inbox, change, faults>>

\* The timer finds no difference.
Agree(r, t) ==
    /\ t = "timer" /\ thread[r][t].step = "install" /\ ~Differs(thread[r][t])
    /\ thread' = [thread EXCEPT ![r][t] = [step |-> "idle"]]
    /\ UNCHANGED <<db, outbox, owed, about, phase, store, behind, sub, inbox, change,
                   excuse, faults>>

-----------------------------------------------------------------------------
(* policyChangeHandler.                                                    *)

\* It takes a message and reads the relations of departments and user.
ChangeHandler(r) ==
    /\ change[r].step = "idle" /\ inbox[r]["update"] # <<>>
    /\ inbox' = [inbox EXCEPT ![r]["update"] = Tail(@)]
    /\ change' = [change EXCEPT ![r] =
           [step |-> "rules", paths |-> about[Head(inbox[r]["update"])].paths,
            late |-> FALSE, rules |-> settings]]
    /\ UNCHANGED <<db, outbox, owed, about, phase, store, behind, sub, thread, excuse,
                   faults>>

\* A read comes to nothing or is cut short, and nobody looks at the error:
\* some of the rules or the user's own networks are missing.  That no network
\* of a department of the message is found comes to the same as that there
\* are no rules.
ChangeMisreads(r) ==
    /\ Fault
    /\ change[r].step = "idle" /\ inbox[r]["update"] # <<>>
    /\ about[Head(inbox[r]["update"])].paths \cap Ruled(settings.rel) # {}
    /\ inbox' = [inbox EXCEPT ![r]["update"] = Tail(@)]
    /\ \E rel \in SUBSET settings.rel, own \in {{}, settings.own} :
          change' = [change EXCEPT ![r] =
              [step |-> "rules", paths |-> Ruled(rel), late |-> FALSE,
               rules |-> [settings EXCEPT !.rel = rel, !.own = own]]]
    /\ excuse' = Excuse({r}, "misread")
    /\ UNCHANGED <<db, outbox, owed, about, phase, store, behind, sub, thread>>

\* GetBelongDepartByUserId, then NewTransaction.
OpenPatch(r) ==
    /\ change[r].step = "rules"
    /\ change' = [change EXCEPT ![r] =
           [step |-> "open", paths |-> @.paths, late |-> @.late,
            rules |-> @.rules, mine |-> member]]
    /\ UNCHANGED <<db, outbox, owed, about, phase, store, behind, sub, inbox, thread,
                   excuse, faults>>

CommitPatch(r) ==
    LET c == change[r]
    IN  /\ c.step = "open"
        /\ store' = [store EXCEPT ![r] = Patch(@, c.rules, c.mine, c.paths)]
        /\ change' = [change EXCEPT ![r] = [step |-> "idle"]]
        /\ thread' = [thread EXCEPT ![r] = [s \in Reader |-> Overtake(@[s])]]
        /\ excuse' =
               IF c.late THEN Excuse({r}, "raced")
               ELSE IF Inexact(store[r], c.rules, c.mine)
               THEN Excuse({r}, "inexact") ELSE excuse
        /\ UNCHANGED <<db, outbox, owed, about, phase, behind, sub, inbox, faults>>

\* The patch of a store that was replaced is given up.
LosePatch(r) ==
    /\ change[r].step = "orphan"
    /\ change' = [change EXCEPT ![r] = [step |-> "idle"]]
    /\ excuse' = Excuse({r}, "raced")
    /\ UNCHANGED <<db, outbox, owed, about, phase, store, behind, sub, inbox, thread,
                   faults>>

-----------------------------------------------------------------------------
(* Subscriptions, failures.                                                *)

\* SubscribeRedis: each channel in a goroutine of its own.
Subscribe(r, c) ==
    /\ phase[r] = "up" /\ c \notin sub[r]
    /\ sub' = [sub EXCEPT ![r] = @ \cup {c}]
    /\ UNCHANGED <<db, outbox, owed, about, phase, store, behind, inbox, thread, change,
                   excuse, faults>>

\* External: the connection of a subscription breaks and go-redis makes a new
\* one, or its channel is full: a message does not arrive.
LoseMessage(r, c) ==
    /\ Fault
    /\ inbox[r][c] # <<>>
    /\ inbox' = [inbox EXCEPT ![r][c] = SubSeq(@, 1, Len(@) - 1)]
    /\ excuse' = Excuse({r}, "missed")
    /\ UNCHANGED <<db, outbox, owed, about, phase, store, behind, sub, thread, change>>

\* The process stops, with all it holds in memory.
Stop(r) ==
    /\ phase' = [phase EXCEPT ![r] = "down"]
    /\ store' = [store EXCEPT ![r] = Empty]
    /\ behind' = [behind EXCEPT ![r] = [q \in Query |-> {}]]
    /\ sub' = [sub EXCEPT ![r] = {}]
    /\ inbox' = [inbox EXCEPT ![r] = [c \in Channel |-> <<>>]]
    /\ thread' = [thread EXCEPT ![r] = [t \in Reader |-> [step |-> "idle"]]]
    /\ change' = [change EXCEPT ![r] = [step |-> "idle"]]
    /\ excuse' = [excuse EXCEPT ![r] = {}]
    /\ UNCHANGED <<db, outbox, owed, about>>

Crash(r) == phase[r] # "down" /\ Fault /\ Stop(r)

\* External: the engine may panic when it is asked to abort a transaction it
\* does not know.
OrphanPanics(r) == change[r].step = "orphan" /\ Stop(r) /\ UNCHANGED faults

\* A read fails: the load and policyInitHandler panic, the timer begins
\* again, policyChangeHandler logs the error and drops the message.
ReadFails(r, t) ==
    /\ Fault
    /\ thread[r][t].step \in {"rules", "members", "client"}
    /\ IF t = "timer"
       THEN /\ thread' = [thread EXCEPT ![r][t] = [step |-> "idle"]]
            /\ UNCHANGED <<db, outbox, owed, about, phase, store, behind, sub, inbox,
                           change, excuse>>
       ELSE Stop(r)

ChangeFails(r) ==
    /\ Fault
    /\ change[r].step = "rules"
    /\ change' = [change EXCEPT ![r] = [step |-> "idle"]]
    /\ excuse' = Excuse({r}, "dropped")
    /\ UNCHANGED <<db, outbox, owed, about, phase, store, behind, sub, inbox, thread>>

Next ==
    \/ \E s \in Settings : SetPolicy(s)
    \/ \E m \in Memberships : MoveUser(m)
    \/ \E m \in owed : Send(m) \/ Forget(m)
    \/ \E m \in rows : GetEvent(m) \/ ESSend(m) \/ Commit(m)
    \/ Rollback
    \/ \E r \in Replica :
          \/ Start(r) \/ InitHandler(r) \/ TimerTick(r)
          \/ \E t \in Reader : \/ GetOPAData(r, t) \/ ReadFails(r, t)
                               \/ Install(r, t) \/ Assign(r, t) \/ Agree(r, t)
          \/ ChangeHandler(r) \/ ChangeMisreads(r) \/ OpenPatch(r) \/ CommitPatch(r)
          \/ LosePatch(r) \/ OrphanPanics(r) \/ ChangeFails(r)
          \/ \E c \in Channel : Subscribe(r, c) \/ LoseMessage(r, c)
          \/ Crash(r)

Spec == Init /\ [][Next]_vars

\* A stopped replica is started again, threads and tickers go on, an owed
\* message is sent.  Administrators and failures are under no obligation, nor
\* are subscriptions: one that fails is not tried again.
Fairness ==
    /\ WF_vars(\E m \in owed : Send(m))
    /\ WF_vars(\E m \in rows : GetEvent(m) \/ ESSend(m) \/ Commit(m))
    /\ \A r \in Replica :
          /\ WF_vars(Start(r))
          /\ \A t \in Reader : WF_vars(GetOPAData(r, t) \/ Install(r, t)
                                       \/ Assign(r, t) \/ Agree(r, t))
          /\ WF_vars(TimerTick(r))
          /\ WF_vars(InitHandler(r))
          /\ WF_vars(ChangeHandler(r) \/ OpenPatch(r)
                     \/ CommitPatch(r) \/ LosePatch(r) \/ OrphanPanics(r))

FairSpec == Spec /\ Fairness

-----------------------------------------------------------------------------
(* Properties.                                                             *)

StoreType ==
    [enabled : BOOLEAN, client : BOOLEAN, rel : SUBSET (Dept \X Family),
     users : [Family -> [known : BOOLEAN, depts : SUBSET Dept, own : BOOLEAN]]]

\* Messages wait on channels the replica is subscribed to, only a running
\* replica works, and a row is held by a dispatcher only while it is
\* undispatched.
TypeOK ==
    /\ settings \in Settings /\ member \in Memberships
    /\ rows \subseteq Msg /\ owed \subseteq Msg
    /\ dispatch \subseteq rows /\ Cardinality(dispatch) <= 1
    /\ sent \in BOOLEAN /\ (sent => dispatch # {})
    /\ owed \cap rows = {} /\ settled \cap (owed \cup rows) = {}
    /\ \A r \in Replica :
          /\ phase[r] \in {"down", "load", "up"}
          /\ store[r] \in StoreType
          /\ \A q \in Query : behind[r][q] \subseteq StoreType
          /\ sub[r] \subseteq Channel /\ (sub[r] # {} => phase[r] = "up")
          /\ \A c \in Channel : inbox[r][c] # <<>> => c \in sub[r]
          /\ (thread[r]["load"].step # "idle") <=> phase[r] = "load"
          /\ thread[r]["timer"].step # "idle" => phase[r] = "up"

\* Nothing is on its way to a replica that runs and listens, and none of its
\* threads is between its assignments.
Settled(r) ==
    /\ owed = {} /\ rows = {}
    /\ phase[r] = "up" /\ sub[r] = Channel
    /\ \A c \in Channel : inbox[r][c] = <<>>
    /\ thread[r]["init"].step = "idle" /\ change[r].step = "idle"
    /\ \A t \in Reader : thread[r][t].step \notin Query

\* NetWorkDecision and ClientSignDecision: the data a query reads, and what
\* the two of them make up.
View(r, q) == IF behind[r][q] = {} THEN store[r] ELSE CHOOSE d \in behind[r][q] : TRUE
Served(r) == [View(r, "queryQuery") EXCEPT !.client = View(r, "decisionQuery").client]

Right(d) == Answers(d) = Answers(OPAData(settings, member))
Fresh(r) == Right(Served(r))

\* Once every announcement was handled, a replica answers as the database
\* says, unless one of these happened: an announcement was not sent, was
\* published while the replica was not yet listening, was lost on its way or
\* dropped; the handler of changes took a failed read for an answer; one
\* thread changed the store between another's reads and its own change, or
\* between its assignments; the patch was of a kind the code leaves
\* incomplete.  So torn reads, messages sent twice or handled in another
\* order than the changes, and changes between a handler's reads do no harm.
FreshWhenSettled ==
    \A r \in Replica : Settled(r) /\ excuse[r] = {} => Fresh(r)

\* The outbox of announcements keeps the promise of EventDelivery.
Delivery == INSTANCE EventDelivery WITH accepted <- rows \cup settled
ImplementsDelivery == Delivery!Spec

\* A query was left with another store than the one the timer looks at.
Mixed(r) == "mixed" \in excuse[r] /\ \E q \in Query : behind[r][q] # {}

\* Whatever was lost, once the changes stop the store of every replica comes
\* to say what the database says, and goes on so: the timer repairs what the
\* announcements did not.  The answers do too, except where threads mixed
\* their assignments: the timer compares the store and not what the queries
\* read, so that it need not repair those.
EventuallyFresh ==
    <>[](\A r \in Replica : phase[r] = "up" /\ Right(store[r]) /\ (Fresh(r) \/ Mixed(r)))
=============================================================================
