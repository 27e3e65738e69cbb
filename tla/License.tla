------------------------------ MODULE License -------------------------------
(***************************************************************************)
(* Product licences of users in PolicyManagement (logics/license.go,       *)
(* dbaccess/license.go, apiserver/mq_handler.go).                          *)
(*                                                                         *)
(* t_product_relation has a row for every product a user may use; nothing  *)
(* in the table keeps a pair from being there twice.  An administrator     *)
(* replaces the products of some users; the messages of a created, enabled,*)
(* disabled or deleted user give and take them all.  Every one of these    *)
(* operations reads what it needs first and writes in a transaction of its *)
(* own later, and the three topics are consumed concurrently and in no     *)
(* common order, each message at least once.                               *)
(*                                                                         *)
(* ShareMgnt keeps the users (modules/user_manage.py): it changes a user   *)
(* in statements of their own and publishes the message after them, so the *)
(* message of a change may be lost.                                        *)
(*                                                                         *)
(* A worker is a goroutine that serves a message or a request.  The reads  *)
(* do not look at the error with which a result ends early: a list may     *)
(* lack rows, and a count be zero (Misread).  External: the database, the  *)
(* broker and the licence server.                                          *)
(***************************************************************************)
EXTENDS Integers, Sequences, FiniteSets, Functions, FiniteSetsExt, TLC

CONSTANTS User, Product, Worker, Replica,
          Home,        \* the replica of a worker
          Tables,      \* what the licence server may answer
          Default,     \* the products of the configuration default_user_license
          Requests,    \* what administrators ask for: users to lists of products
          NoRequest,
          FirstStatus, \* of the users who are there already
          MaxEvents,   \* bound: messages about users
          MaxRequests, \* bound: requests of administrators
          MaxChanges,  \* bound: changes of the licence
          MaxFaults    \* bound: crashes, failing calls, lost messages, truncated
                       \* reads, early redeliveries

Unlimited == -1

ASSUME LicenseAssumption ==
    /\ Home \in [Worker -> Replica]
    /\ IsFiniteSet(User)
    /\ \A t \in Tables : /\ DOMAIN t \subseteq Product
                         /\ \A p \in DOMAIN t : t[p] \in Nat \cup {Unlimited}
    /\ Default \subseteq Product
    /\ \A q \in Requests : /\ DOMAIN q \subseteq User
                           /\ \A u \in DOMAIN q : q[u] \in Seq(Product)
    /\ NoRequest \notin Requests
    /\ FirstStatus \in [User -> {"none", "enabled", "disabled"}]
    /\ MaxEvents \in Nat /\ MaxRequests \in Nat /\ MaxChanges \in Nat
    /\ MaxFaults \in Nat

VARIABLES
    \* outside
    status,    \* what the service of the users says of a user
    events,    \* the changes of users, in order, each with its message
    owed,      \* the ones whose message is not published yet
    pending,   \* the ones whose message is published and not acknowledged
    licence,   \* what the licence server answers
    \* a replica
    cache,     \* licenseCache
    age,       \* of licenseCacheGetTime: 0 up to 5 seconds, 1 up to 5 minutes
    \* the database
    rows,      \* t_product_relation: how many rows a user and product have
    audit,     \* the products named by the last audit row about a user
    \* a worker
    pc, msg, req,
    lic,       \* the licences it goes by
    own,       \* the rows it has read
    todo,      \* products it has not counted yet
    refused,   \* products whose quota has no room
    requests, changes, faults,
    \* history
    highest,   \* the largest quota a product ever had
    known,     \* the users a request has found to exist
    moved,     \* users whose rows are not, or no longer, what a worker has read
    counted,   \* products another worker changed since a worker relied on them,
               \* or of which it has read too little
    excess,    \* rows that were inserted on an outdated count
    twins,     \* pairs that a worker inserted without seeing their twin
    latest,    \* the last of a user's messages that took effect
    crossed,   \* users of whom an older message took effect last
    outlived,  \* deleted users who were given products by an earlier request
    untold,    \* users whose removal no message tells
    settled    \* users whose last audit row tells what they have

outside    == <<status, events, owed, pending, licence>>
cacheVars  == <<cache, age>>
database   == <<rows, audit>>
workerVars == <<pc, msg, req, lic, own, todo, refused>>
bounds     == <<requests, changes, faults>>
history    == <<highest, known, moved, counted, excess, twins, latest,
                crossed, outlived, untold, settled>>
vars == <<status, events, owed, pending, licence, cache, age, rows, audit, pc, msg,
          req, lic, own, todo, refused, requests, changes, faults, highest,
          known, moved, counted, excess, twins, latest, crossed, outlived,
          untold, settled>>

Status   == {"none", "enabled", "disabled", "deleted"}
NoRows   == [u \in User |-> [p \in Product |-> 0]]
NoTable  == [p \in {} |-> 0]
Grants   == {"created", "enabled"}

\* The products a user has rows for.
Has(table, u) == {p \in Product : table[u][p] > 0}

\* How many rows there are when user u has f[u] of them.
Total(f) == Cardinality(UNION {{u} \X (1..f[u]) : u \in DOMAIN f})

\* GetProductsAuthorizedCount counts rows, not users.
Count(p) == Total([u \in User |-> rows[u][p]])

\* The largest of two quotas.
Larger(a, b) == IF Unlimited \in {a, b} THEN Unlimited ELSE Max({a, b})

Init ==
    /\ status = FirstStatus
    /\ events = <<>>
    /\ owed = {} /\ pending = {}
    /\ licence \in Tables
    /\ cache = [r \in Replica |-> NoTable]
    /\ age = [r \in Replica |-> 2]
    /\ rows = NoRows
    /\ audit = [u \in User |-> {}]
    /\ pc = [w \in Worker |-> "idle"]
    /\ msg = [w \in Worker |-> 0]
    /\ req = [w \in Worker |-> NoRequest]
    /\ lic = [w \in Worker |-> NoTable]
    /\ own = [w \in Worker |-> NoRows]
    /\ todo = [w \in Worker |-> {}]
    /\ refused = [w \in Worker |-> {}]
    /\ requests = 0 /\ changes = 0 /\ faults = 0
    /\ highest = [p \in Product |-> IF p \in DOMAIN licence THEN licence[p] ELSE 0]
    /\ known = [w \in Worker |-> {}]
    /\ moved = [w \in Worker |-> {}]
    /\ counted = [w \in Worker |-> {}]
    /\ excess = [p \in Product |-> 0]
    /\ twins = {}
    /\ latest = [u \in User |-> 0]
    /\ crossed = {} /\ outlived = {} /\ untold = {} /\ settled = User

-----------------------------------------------------------------------------
(* The world outside.                                                      *)

\* ShareMgnt changes a user; the message is published in a step of its own.
Change(u, kind, to) ==
    /\ Len(events) < MaxEvents
    /\ status' = [status EXCEPT ![u] = to]
    /\ events' = Append(events, [user |-> u, kind |-> kind])
    /\ owed' = owed \cup {Len(events) + 1}
    /\ UNCHANGED <<pending, licence, cacheVars, database, workerVars, bounds, history>>

UserCreated(u)  == status[u] = "none" /\ Change(u, "created", "enabled")
UserDisabled(u) == status[u] = "enabled" /\ Change(u, "disabled", "disabled")
UserEnabled(u)  == status[u] = "disabled" /\ Change(u, "enabled", "enabled")
UserDeleted(u)  == /\ status[u] \in {"enabled", "disabled"}
                   /\ Change(u, "deleted", "deleted")

pub_nsq_msg(i) ==
    /\ i \in owed
    /\ owed' = owed \ {i}
    /\ pending' = pending \cup {i}
    /\ UNCHANGED <<status, events, licence, cacheVars, database, workerVars, bounds,
                   history>>

\* A later statement or the publication fails, or the process dies.  Nobody
\* does it again: the user is changed, and a second deletion finds no user.
\* add_user_to_db takes the user back when the publication fails, be it that the
\* message was published all the same.
LoseMessage(i) ==
    /\ i \in owed
    /\ faults < MaxFaults /\ faults' = faults + 1
    /\ owed' = owed \ {i}
    /\ LET u == events[i].user IN
       \/ /\ untold' = IF events[i].kind = "deleted" THEN untold \cup {u} ELSE untold
          /\ UNCHANGED <<status, pending>>
       \/ /\ events[i].kind = "created"
          /\ status' = [status EXCEPT ![u] = "deleted"]
          /\ untold' = untold \cup {u}
          /\ pending' \in {pending, pending \cup {i}}
    /\ UNCHANGED <<events, licence, cacheVars, database, workerVars, requests, changes,
                   highest, known, moved, counted, excess, twins, latest, crossed,
                   outlived, settled>>

LicenceChanges ==
    /\ changes < MaxChanges
    /\ \E t \in Tables \ {licence} :
          /\ licence' = t
          /\ highest' = [p \in Product |->
                           IF p \in DOMAIN t THEN Larger(highest[p], t[p])
                           ELSE highest[p]]
    /\ changes' = changes + 1
    /\ UNCHANGED <<status, events, owed, pending, cacheVars, database, workerVars,
                   requests, faults, known, moved, counted, excess, twins,
                   latest, crossed, outlived, untold, settled>>

\* Five seconds, or five minutes, go by.
Time(r) ==
    /\ age[r] < 2
    /\ age' = [age EXCEPT ![r] = @ + 1]
    /\ UNCHANGED <<outside, cache, database, workerVars, bounds, history>>

-----------------------------------------------------------------------------
(* What a worker knows, and what others did to it since.                   *)

\* The user of the message that w serves.
Target(w) == events[msg[w]].user

\* needAddProducts and needDeleteProducts: the products to add with the
\* number of rows each gets, the products whose rows go.
Occurrences(s, p) == Cardinality({i \in DOMAIN s : s[i] = p})

\* Mutant: the current products are not looked at.
AddedAlways(w, u, p) ==
    IF req[w] # NoRequest
    THEN IF u \in DOMAIN req[w] THEN Occurrences(req[w][u], p) ELSE 0
    ELSE IF u = Target(w) /\ p \in DOMAIN lic[w] \ refused[w] THEN 1 ELSE 0

Added(w, u, p) ==
    IF req[w] # NoRequest
    THEN IF u \in DOMAIN req[w] /\ own[w][u][p] = 0
         THEN Occurrences(req[w][u], p) ELSE 0
    ELSE IF u = Target(w) /\ own[w][u][p] = 0 /\ p \in DOMAIN lic[w] \ refused[w]
         THEN 1 ELSE 0

\* Mutant: rows of products without a licence are left alone.
RemovedOfLicensed(w, u, p) ==
    /\ req[w] # NoRequest
    /\ u \in DOMAIN req[w]
    /\ own[w][u][p] > 0 /\ p \in DOMAIN lic[w]
    /\ Occurrences(req[w][u], p) = 0

Removed(w, u, p) ==
    /\ req[w] # NoRequest
    /\ u \in DOMAIN req[w]
    /\ own[w][u][p] > 0
    /\ Occurrences(req[w][u], p) = 0

\* mapProductChange: rows that a request adds less the rows that it deletes.
ProductChange(w, table, p) ==
    Total([u \in DOMAIN req[w] |->
              IF table[u][p] = 0 THEN Occurrences(req[w][u], p) ELSE 0])
    - Total([u \in DOMAIN req[w] |->
                IF Occurrences(req[w][u], p) = 0 THEN table[u][p] ELSE 0])

\* The users and products whose rows a step changes.
UsersOf(next)    == {u \in User : next[u] # rows[u]}
ProductsOf(next) == {p \in Product : \E u \in User : next[u][p] # rows[u][p]}
Grown(next)      == {p \in Product : \E u \in User : next[u][p] > rows[u][p]}

\* What the workers know after the table became next and those of W are done.
\* A message relies on a product from its count on and only growth hurts it; a
\* request relies on every product from the moment it read the rows.
Notice(W, next) ==
    /\ known' = [v \in Worker |-> IF v \in W THEN {} ELSE known[v]]
    /\ moved' = [v \in Worker |->
          IF v \in W THEN {}
          ELSE IF pc[v] = "count" THEN moved[v] \cup UsersOf(next) ELSE moved[v]]
    /\ counted' = [v \in Worker |->
          IF v \in W THEN {}
          ELSE IF pc[v] # "count" THEN counted[v]
          ELSE IF req[v] = NoRequest
               THEN counted[v] \cup (Grown(next) \ todo[v])
               ELSE counted[v] \cup ProductsOf(next)]

\* The workers of W serve no one any more.
Leave(W) ==
    /\ pc' = [w \in Worker |-> IF w \in W THEN "idle" ELSE pc[w]]
    /\ msg' = [w \in Worker |-> IF w \in W THEN 0 ELSE msg[w]]
    /\ req' = [w \in Worker |-> IF w \in W THEN NoRequest ELSE req[w]]
    /\ lic' = [w \in Worker |-> IF w \in W THEN NoTable ELSE lic[w]]
    /\ own' = [w \in Worker |-> IF w \in W THEN NoRows ELSE own[w]]
    /\ todo' = [w \in Worker |-> IF w \in W THEN {} ELSE todo[w]]
    /\ refused' = [w \in Worker |-> IF w \in W THEN {} ELSE refused[w]]

\* The message is acknowledged; a request has none.
Acknowledge(w) == pending' = pending \ {msg[w]}

\* The worker returns without having written anything.
Return(w) ==
    /\ Leave({w})
    /\ Notice({w}, rows)
    /\ Acknowledge(w)
    /\ UNCHANGED <<status, events, owed, licence, database, bounds, highest, excess,
                   twins, latest, crossed, outlived, untold, settled>>

-----------------------------------------------------------------------------
(* Serving a message or a request.                                         *)

\* A message is given to a worker; while another one has it this is the
\* redelivery of a message that is taking long.
Deliver(w, i) ==
    /\ pc[w] = "idle"
    /\ i \in pending
    /\ \/ (\A v \in Worker : msg[v] # i) /\ UNCHANGED faults
       \/ /\ \E v \in Worker : msg[v] = i
          /\ faults < MaxFaults /\ faults' = faults + 1
    /\ msg' = [msg EXCEPT ![w] = i]
    /\ pc' = [pc EXCEPT ![w] = IF events[i].kind \in Grants THEN "licences"
                               ELSE "delete"]
    /\ UNCHANGED <<outside, cacheVars, database, req, lic, own, todo, refused,
                   requests, changes, history>>

Ask(w, q) ==
    /\ pc[w] = "idle"
    /\ requests < MaxRequests /\ requests' = requests + 1
    /\ req' = [req EXCEPT ![w] = q]
    /\ pc' = [pc EXCEPT ![w] = "users"]
    /\ UNCHANGED <<outside, cacheVars, database, msg, lic, own, todo, refused,
                   changes, faults, history>>

\* Mutant: the users of a request need not exist.
AnyUser(w) == TRUE

\* GetUserInfos fails when one of the users does not exist.
UsersExist(w) == \A u \in DOMAIN req[w] : status[u] \in {"enabled", "disabled"}

GetUserInfos(w) ==
    /\ pc[w] = "users"
    /\ \/ /\ UsersExist(w)
          /\ pc' = [pc EXCEPT ![w] = "licences"]
          /\ known' = [known EXCEPT ![w] =
                         {u \in DOMAIN req[w] : status[u] # "deleted"}]
          /\ UNCHANGED <<outside, database, msg, req, lic, own, todo, refused,
                         bounds, highest, moved, counted, excess, twins, latest,
                         crossed, outlived, untold, settled>>
       \/ ~UsersExist(w) /\ Return(w)
    /\ UNCHANGED cacheVars

\* The cached licences, or the server's answer, which is cached.
Licences(r) == IF age[r] = 0 THEN cache[r] ELSE licence

\* Mutant: the cached table itself is filtered.
RefreshFiltered(r) ==
    /\ cache' = [cache EXCEPT ![r] =
                    Restrict(Licences(r), DOMAIN Licences(r) \cap Default)]
    /\ age' = [age EXCEPT ![r] = 0]

Refresh(r) ==
    /\ cache' = [cache EXCEPT ![r] = Licences(r)]
    /\ age' = [age EXCEPT ![r] = 0]

\* getLicenses for a request, getLicensesFromDefaultConfig for a message,
\* which has nothing to do when no licence is left.
GetLicenses(w) ==
    /\ pc[w] = "licences"
    /\ Refresh(Home[w])
    /\ LET table == Licences(Home[w])
           mine  == IF req[w] # NoRequest THEN table
                    ELSE Restrict(table, DOMAIN table \cap Default)
       IN  \/ /\ req[w] # NoRequest \/ DOMAIN mine # {}
              /\ lic' = [lic EXCEPT ![w] = mine]
              /\ pc' = [pc EXCEPT ![w] = "own"]
              /\ UNCHANGED <<outside, database, msg, req, own, todo, refused,
                             bounds, history>>
           \/ req[w] = NoRequest /\ DOMAIN mine = {} /\ Return(w)

\* A login asks for the licences when the cached ones are older than five
\* minutes.
CheckProductAuthorized(r) ==
    /\ age[r] = 2
    /\ Refresh(r)
    /\ UNCHANGED <<outside, database, workerVars, bounds, history>>

\* The rows of the users as w sees them, and the products that are to be
\* counted: the ones a message's user does not have, the ones a request makes
\* grow.
Sees(w, table) ==
    /\ pc[w] = "own"
    /\ own' = [own EXCEPT ![w] = table]
    /\ todo' = [todo EXCEPT ![w] =
          IF req[w] = NoRequest THEN DOMAIN lic[w] \ Has(table, Target(w))
          ELSE {p \in DOMAIN lic[w] : /\ ProductChange(w, table, p) > 0
                                      /\ lic[w][p] # Unlimited}]
    /\ pc' = [pc EXCEPT ![w] = "count"]
    /\ UNCHANGED <<outside, cacheVars, database, msg, req, lic, refused, requests,
                   changes, highest, known, excess, twins, latest, crossed,
                   outlived, untold, settled>>

GetAuthorizedProducts(w) == Sees(w, rows) /\ UNCHANGED <<faults, moved, counted>>

\* Mutant: a full quota has room for one more.
RoomForOneMore(w, p, n) == n <= lic[w][p]

HasRoom(w, p, n) ==
    \/ lic[w][p] = Unlimited
    \/ n + (IF req[w] = NoRequest THEN 1 ELSE ProductChange(w, own[w], p)) <= lic[w][p]

\* The number of rows of a product, as w is told.
Told(w, p, n) ==
    /\ pc[w] = "count"
    /\ p \in todo[w]
    /\ todo' = [todo EXCEPT ![w] = @ \ {p}]
    /\ refused' = [refused EXCEPT ![w] = IF HasRoom(w, p, n) THEN @ ELSE @ \cup {p}]
    /\ UNCHANGED <<outside, cacheVars, database, pc, msg, req, lic, own, requests,
                   changes, highest, known, moved, excess, twins, latest, crossed,
                   outlived, untold, settled>>

\* The products are counted one by one, in the order of a map.
GetProductsAuthorizedCount(w, p) ==
    Told(w, p, Count(p)) /\ UNCHANGED <<faults, counted>>

\* The users whose rows w reads.
Concerned(w) == IF req[w] = NoRequest THEN {Target(w)} ELSE DOMAIN req[w]

\* The table but for some rows.
Without(gone) ==
    [u \in User |-> [p \in Product |-> IF <<u, p>> \in gone THEN 0 ELSE rows[u][p]]]

\* A result ends early: some rows are missing, or the count is zero.
Misread(w) ==
    /\ faults < MaxFaults /\ faults' = faults + 1
    /\ \/ /\ pc[w] = "own"
          /\ \E gone \in SUBSET (Concerned(w) \X Product) :
                /\ Without(gone) # rows
                /\ Sees(w, Without(gone))
                /\ moved' = [moved EXCEPT ![w] = UsersOf(Without(gone))]
                /\ counted' = [counted EXCEPT ![w] =
                      IF req[w] = NoRequest THEN {} ELSE ProductsOf(Without(gone))]
       \/ \E p \in Product :
             /\ Count(p) > 0
             /\ Told(w, p, 0)
             /\ counted' = [counted EXCEPT ![w] = @ \cup {p}]

\* A request fails as a whole, a message leaves out what has no room.
Declined(w) ==
    IF req[w] # NoRequest
    THEN \/ refused[w] # {}
         \/ \E u \in DOMAIN req[w] : Range(req[w][u]) \ DOMAIN lic[w] # {}
    ELSE \A p \in Product : Added(w, Target(w), p) = 0

Decline(w) ==
    /\ pc[w] = "count" /\ todo[w] = {}
    /\ Declined(w)
    /\ Return(w)
    /\ UNCHANGED cacheVars

-----------------------------------------------------------------------------
(* The transactions.                                                       *)

\* Rows with which a worker may have made a product exceed its quota, as long
\* as it does.
Excess(w, next, ins) ==
    [p \in Product |->
        IF \/ highest[p] = Unlimited
           \/ Total([u \in User |-> next[u][p]]) <= highest[p] THEN 0
        ELSE excess[p] + (IF p \in counted[w] THEN ins[p] ELSE 0)]

\* The transaction is committed.  The call may report an error all the same:
\* then the message is not acknowledged and the push thread not notified.
Committed(w, next) ==
    /\ rows' = next
    /\ Leave({w})
    /\ Notice({w}, next)
    /\ \/ Acknowledge(w) /\ UNCHANGED faults
       \/ /\ faults < MaxFaults /\ faults' = faults + 1
          /\ UNCHANGED pending
    /\ UNCHANGED <<status, events, owed, licence, cacheVars, requests, changes,
                   highest, untold>>

\* The order in which the messages of a user take effect.
Applied(w, u) ==
    /\ latest' = [latest EXCEPT ![u] = Max({@, msg[w]})]
    /\ crossed' = IF msg[w] < latest[u] THEN crossed \cup {u}
                  ELSE crossed \ {u}

\* userAddAllProducts and UpdateAuthorizedProducts: delete, insert, audit.
Write(w) ==
    /\ pc[w] = "count" /\ todo[w] = {}
    /\ ~Declined(w)
    /\ LET next == [u \in User |-> [p \in Product |->
                      (IF Removed(w, u, p) THEN 0 ELSE rows[u][p]) + Added(w, u, p)]]
           ins  == [p \in Product |-> Total([u \in User |-> Added(w, u, p)])]
           new  == {t \in User \X Product : next[t[1]][t[2]] > 1}
           named == IF req[w] = NoRequest THEN {}
                    ELSE {u \in DOMAIN req[w] : Has(own[w], u) # {} \/ req[w][u] # <<>>}
       IN  /\ Committed(w, next)
           /\ audit' = [u \in User |-> IF u \in named THEN Range(req[w][u])
                                       ELSE audit[u]]
           /\ excess' = Excess(w, next, ins)
           /\ twins' = new \cap (twins \cup
                 {t \in User \X Product :
                     /\ Added(w, t[1], t[2]) > 0
                     /\ t[1] \in moved[w] \/ Added(w, t[1], t[2]) > 1})
           /\ settled' = (settled \ (UsersOf(next) \cup named)) \cup (named \ moved[w])
           /\ outlived' = outlived \cup
                 {u \in known[w] \cap UsersOf(next) : status[u] = "deleted"}
           /\ IF req[w] = NoRequest THEN Applied(w, Target(w))
              ELSE UNCHANGED <<latest, crossed>>

\* userDeleteAllProducts.
userDeleteAllProducts(w) ==
    /\ pc[w] = "delete"
    /\ LET u    == Target(w)
           next == [rows EXCEPT ![u] = [p \in Product |-> 0]]
       IN  /\ Committed(w, next)
           /\ Applied(w, u)
           /\ excess' = Excess(w, next, [p \in Product |-> 0])
           /\ twins' = {t \in twins : t[1] # u}
           /\ outlived' = outlived \ {u}
           /\ settled' = settled \ UsersOf(next)
           /\ UNCHANGED audit

\* A call reports an error, or a transaction is rolled back.  The handlers
\* return every error, also the ones that needReTry would not retry.
CallFails(w) ==
    /\ pc[w] # "idle"
    /\ faults < MaxFaults /\ faults' = faults + 1
    /\ Leave({w})
    /\ Notice({w}, rows)
    /\ UNCHANGED <<outside, cacheVars, database, requests, changes, highest,
                   excess, twins, latest, crossed, outlived, untold, settled>>

\* A replica crashes and starts again, with an empty cache.
Crash(r) ==
    /\ faults < MaxFaults /\ faults' = faults + 1
    /\ LET W == {w \in Worker : Home[w] = r}
       IN  Leave(W) /\ Notice(W, rows)
    /\ cache' = [cache EXCEPT ![r] = NoTable]
    /\ age' = [age EXCEPT ![r] = 2]
    /\ UNCHANGED <<outside, database, requests, changes, highest, excess, twins,
                   latest, crossed, outlived, untold, settled>>

-----------------------------------------------------------------------------
Users == \E u \in User : \/ UserCreated(u) \/ UserDisabled(u)
                         \/ UserEnabled(u) \/ UserDeleted(u)

Proceed(w) ==
    \/ GetUserInfos(w) \/ GetLicenses(w) \/ GetAuthorizedProducts(w)
    \/ \E p \in Product : GetProductsAuthorizedCount(w, p)
    \/ Decline(w) \/ Write(w) \/ userDeleteAllProducts(w)

Next ==
    \/ Users \/ LicenceChanges
    \/ \E i \in 1..MaxEvents : pub_nsq_msg(i) \/ LoseMessage(i)
    \/ \E r \in Replica : Time(r) \/ CheckProductAuthorized(r) \/ Crash(r)
    \/ \E w \in Worker :
          \/ \E i \in 1..MaxEvents : Deliver(w, i)
          \/ \E q \in Requests : Ask(w, q)
          \/ Proceed(w) \/ Misread(w) \/ CallFails(w)

Spec == Init /\ [][Next]_vars

-----------------------------------------------------------------------------
(* Properties.                                                             *)

\* The types of the variables; a cache never holds anything but a whole answer
\* of the licence server.
TypeOK ==
    /\ status \in [User -> Status]
    /\ owed \subseteq 1..Len(events) /\ pending \subseteq 1..Len(events) \ owed
    /\ licence \in Tables
    /\ \A r \in Replica : cache[r] \in Tables \cup {NoTable}
    /\ age \in [Replica -> 0..2]
    /\ rows \in [User -> [Product -> Nat]]
    /\ audit \in [User -> SUBSET Product]
    /\ pc \in [Worker -> {"idle", "users", "licences", "own", "count", "delete"}]
    /\ msg \in [Worker -> 0..MaxEvents]
    /\ req \in [Worker -> Requests \cup {NoRequest}]
    /\ own \in [Worker -> [User -> [Product -> Nat]]]
    /\ todo \in [Worker -> SUBSET Product]
    /\ refused \in [Worker -> SUBSET Product]

\* The quota check of messages and requests: a product never has more rows
\* than the largest quota it ever had, but for the rows that were inserted
\* after another worker changed what their count relied on, or on a count that
\* was read in part.
QuotaUnlessOverlap ==
    \A p \in Product :
        highest[p] # Unlimited => Count(p) <= highest[p] + excess[p]

\* The check against repeated messages: a message that is redelivered, also
\* after a commit that reported an error, gives no product twice.  A second
\* row comes from a worker whose user was changed under it, from one that did
\* not see the first, or from a request that names a product twice.
OneRowUnlessOverlap ==
    \A u \in User, p \in Product :
        rows[u][p] > 1 => <<u, p>> \in twins

\* Once the messages about a deleted user are published and acknowledged, the
\* user holds no product, unless an older message took effect last, a request
\* that had found the user came later, or the removal was never told.
DeletedUserHoldsNothing ==
    \A u \in User :
        /\ status[u] = "deleted"
        /\ \A i \in owed \cup pending : events[i].user # u
        => Has(rows, u) = {} \/ u \in crossed \/ u \in outlived \/ u \in untold

\* The last audit row about a user tells what the user has, as long as no
\* message changed it and the request's view was not outdated.
AuditTells == \A u \in settled : Has(rows, u) = audit[u]

====
