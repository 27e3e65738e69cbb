--------------------------- MODULE LicenseProofs ----------------------------
(***************************************************************************)
(* Proofs about License, for every set of users, products, workers and     *)
(* replicas, every licence table and request and any number of messages    *)
(* and faults: no pair gets a second row from repeated messages, a deleted *)
(* user keeps nothing, and the audit rows tell the truth, each but for the *)
(* interleavings that the statement names.                                 *)
(***************************************************************************)
EXTENDS License, FiniteSetTheorems, TLAPS

Kind == {"created", "enabled", "disabled", "deleted"}
Serving == {"licences", "own", "count"}

\* The types of the database and the world outside.
TableShape ==
    /\ status \in [User -> Status]
    /\ events \in Seq([user : User, kind : Kind]) /\ Len(events) <= MaxEvents
    /\ owed \subseteq 1..Len(events) /\ pending \subseteq 1..Len(events) \ owed
    /\ licence \in Tables
    /\ cache \in [Replica -> Tables \cup {NoTable}]
    /\ age \in [Replica -> 0..2]
    /\ rows \in [User -> [Product -> Nat]]
    /\ audit \in [User -> SUBSET Product]
    /\ latest \in [User -> 0..Len(events)]

\* The types of the workers.
WorkerShape ==
    /\ pc \in [Worker -> {"idle", "users", "licences", "own", "count", "delete"}]
    /\ msg \in [Worker -> 0..Len(events)]
    /\ req \in [Worker -> Requests \cup {NoRequest}]
    /\ lic = [w \in Worker |-> lic[w]]
    /\ \A w \in Worker : DOMAIN lic[w] \subseteq Product
    /\ own \in [Worker -> [User -> [Product -> Nat]]]
    /\ todo \in [Worker -> SUBSET Product]
    /\ refused \in [Worker -> SUBSET Product]
    /\ known \in [Worker -> SUBSET User]
    /\ moved \in [Worker -> SUBSET User]

\* A worker serves a message of the right kind or a request whose users were
\* found; what it has read is still there, but for users it was told about.
WorkerInv(w) ==
    /\ pc[w] = "idle" => msg[w] = 0 /\ req[w] = NoRequest
    /\ pc[w] = "users" => req[w] # NoRequest
    /\ pc[w] = "delete" => /\ req[w] = NoRequest /\ msg[w] # 0
                           /\ events[msg[w]].kind \notin Grants
    /\ pc[w] \in Serving /\ req[w] = NoRequest =>
          msg[w] # 0 /\ events[msg[w]].kind \in Grants
    /\ req[w] # NoRequest => msg[w] = 0
    /\ pc[w] \in Serving /\ req[w] # NoRequest => known[w] = DOMAIN req[w]
    /\ pc[w] = "count" => \A u \in User \ moved[w] : own[w][u] = rows[u]

\* The last change of a deleted user is the deletion, unless nobody was told of
\* it; once its message has taken effect the user has nothing, or it is known
\* why.
Last(u, d) ==
    /\ events[d].user = u /\ events[d].kind = "deleted"
    /\ \A i \in 1..Len(events) : events[i].user = u => i <= d
    /\ latest[u] = d => Has(rows, u) = {} \/ u \in crossed \/ u \in outlived
DeletedInv(u) ==
    /\ latest[u] # 0 => events[latest[u]].user = u
    /\ status[u] = "deleted" => u \in untold \/ \E d \in 1..Len(events) : Last(u, d)

\* The message of a deletion that is neither to be published nor to be
\* acknowledged has taken effect, or a later one has, or it was lost.
Handled ==
    \A i \in 1..Len(events) :
        events[i].kind = "deleted" /\ i \notin owed \cup pending =>
            latest[events[i].user] >= i \/ events[i].user \in untold

-----------------------------------------------------------------------------
(* The operators.                                                          *)

\* How often a product is named in a list.
LEMMA OccurrencesType ==
    ASSUME NEW s \in Seq(Product), NEW p
    PROVE  /\ Occurrences(s, p) \in Nat
           /\ Occurrences(s, p) > 0 <=> p \in Range(s)
  <1>1. PICK T : T = {i \in DOMAIN s : s[i] = p}
    OBVIOUS
  <1>2. Len(s) \in Nat /\ DOMAIN s = 1..Len(s) /\ T \in SUBSET (1..Len(s))
    BY <1>1
  <1>3. IsFiniteSet(1..Len(s))
    BY <1>2, FS_Interval
  <1>4. IsFiniteSet(T)
    BY <1>2, <1>3, FS_Subset
  <1>5. Cardinality(T) \in Nat /\ (Cardinality(T) = 0 <=> T = {})
    BY <1>4, FS_CardinalityType, FS_EmptySet
  <1>6. Occurrences(s, p) = Cardinality(T)
    BY <1>1 DEF Occurrences
  <1>7. p \in Range(s) <=> T # {}
    BY <1>1 DEF Range
  <1> QED BY <1>5, <1>6, <1>7

\* The lists of a request.
LEMMA RequestType ==
    ASSUME NEW q \in Requests
    PROVE  q # NoRequest /\ DOMAIN q \subseteq User /\ \A u \in DOMAIN q : q[u] \in Seq(Product)
  BY LicenseAssumption

\* The larger of two numbers.
LEMMA MaxOfTwo ==
    ASSUME NEW a \in Nat, NEW b \in Nat
    PROVE  Max({a, b}) = IF a >= b THEN a ELSE b
  BY DEF Max

\* The rows a worker adds and the ones it takes.
LEMMA AddedType ==
    ASSUME WorkerShape, NEW w \in Worker, NEW u \in User, NEW p \in Product
    PROVE  /\ Added(w, u, p) \in Nat
           /\ Added(w, u, p) > 0 => own[w][u][p] = 0
           /\ Removed(w, u, p) => own[w][u][p] > 0
           /\ req[w] # NoRequest /\ u \notin DOMAIN req[w] =>
                 Added(w, u, p) = 0 /\ ~Removed(w, u, p)
           /\ req[w] = NoRequest => ~Removed(w, u, p)
           /\ req[w] = NoRequest /\ u # Target(w) => Added(w, u, p) = 0
           /\ req[w] # NoRequest /\ u \in DOMAIN req[w] /\ own[w][u][p] = 0 =>
                 (Added(w, u, p) > 0 <=> p \in Range(req[w][u]))
           /\ req[w] # NoRequest /\ u \in DOMAIN req[w] /\ own[w][u][p] > 0 =>
                 (Removed(w, u, p) <=> p \notin Range(req[w][u]))
  <1>1. own[w][u][p] \in Nat
    BY DEF WorkerShape
  <1>2. CASE req[w] = NoRequest
    BY <1>1, <1>2 DEF Added, Removed
  <1>3. CASE req[w] # NoRequest
    <2>1. PICK q \in Requests : q = req[w]
      BY <1>3 DEF WorkerShape
    <2>2. CASE u \notin DOMAIN q
      BY <1>3, <2>1, <2>2 DEF Added, Removed
    <2>3. CASE u \in DOMAIN q
      <3>1. /\ Occurrences(q[u], p) \in Nat
            /\ Occurrences(q[u], p) > 0 <=> p \in Range(q[u])
        <4>1. PICK s \in Seq(Product) : s = q[u]
          BY <2>3, RequestType
        <4> QED BY <4>1, OccurrencesType
      <3>2. Added(w, u, p) = IF own[w][u][p] = 0 THEN Occurrences(q[u], p) ELSE 0
        BY <1>3, <2>1, <2>3 DEF Added
      <3>3. Removed(w, u, p) <=> own[w][u][p] > 0 /\ Occurrences(q[u], p) = 0
        BY <1>3, <2>1, <2>3 DEF Removed
      <3> QED BY <1>1, <1>3, <2>1, <2>3, <3>1, <3>2, <3>3
    <2> QED BY <2>2, <2>3
  <1> QED BY <1>2, <1>3

\* A sequence with one more element.
LEMMA AppendOf ==
    ASSUME NEW S, NEW s \in Seq(S), NEW x \in S
    PROVE  /\ Append(s, x) \in Seq(S) /\ Len(s) \in Nat
           /\ Len(Append(s, x)) = Len(s) + 1
           /\ \A i \in 1..Len(s) : Append(s, x)[i] = s[i]
           /\ Append(s, x)[Len(s) + 1] = x
  OBVIOUS

\* What a message says.
LEMMA EventFields ==
    ASSUME TableShape, NEW i \in 1..Len(events)
    PROVE  events[i].user \in User /\ events[i].kind \in Kind
  <1>1. PICK S : S = [user : User, kind : Kind]
    OBVIOUS
  <1>2. events \in Seq(S)
    BY <1>1 DEF TableShape
  <1>3. events[i] \in S
    BY <1>2
  <1> QED BY <1>1, <1>3

-----------------------------------------------------------------------------
(* What each step changes, and the types after it.                         *)

\* A user changes; the message is owed.
LEMMA ChangeMoves ==
    ASSUME TableShape, WorkerShape, NEW u \in User, NEW k \in Kind, NEW to \in Status,
           Change(u, k, to)
    PROVE  /\ TableShape' /\ WorkerShape'
           /\ UNCHANGED <<database, workerVars, history>>
           /\ Len(events) \in Nat /\ Len(events') = Len(events) + 1
           /\ \A i \in 1..Len(events) : events'[i] = events[i]
           /\ events'[Len(events')].user = u /\ events'[Len(events')].kind = k
           /\ owed' = owed \cup {Len(events')} /\ pending' = pending
           /\ status' = [status EXCEPT ![u] = to]
  <1>1. PICK S, e : S = [user : User, kind : Kind] /\ e = [user |-> u, kind |-> k]
    OBVIOUS
  <1>2. /\ events \in Seq(S) /\ e \in S /\ events' = Append(events, e)
        /\ Len(events) < MaxEvents /\ MaxEvents \in Nat
    BY <1>1, LicenseAssumption DEF TableShape, Change
  <1>3. /\ events' \in Seq(S) /\ Len(events) \in Nat
        /\ Len(events') = Len(events) + 1
        /\ \A i \in 1..Len(events) : events'[i] = events[i]
        /\ events'[Len(events) + 1] = e
    BY <1>2, AppendOf
  <1>4. /\ UNCHANGED <<licence, cacheVars, database, workerVars, bounds, history>>
        /\ status' = [status EXCEPT ![u] = to]
        /\ owed' = owed \cup {Len(events) + 1} /\ pending' = pending
    BY DEF Change
  <1>5. 0..Len(events) \subseteq 0..Len(events') /\ Len(events') <= MaxEvents
        /\ 1..Len(events) \subseteq 1..Len(events') /\ Len(events') \in 1..Len(events')
    BY <1>2, <1>3
  <1>6. /\ status' \in [User -> Status]
        /\ owed' \subseteq 1..Len(events') /\ pending' \subseteq 1..Len(events') \ owed'
    <2>1. Len(events) + 1 \notin 1..Len(events) /\ pending \subseteq 1..Len(events)
      BY <1>3 DEF TableShape
    <2> QED BY <1>3, <1>4, <1>5, <2>1 DEF TableShape
  <1>7. latest' \in [User -> 0..Len(events')] /\ msg' \in [Worker -> 0..Len(events')]
    BY <1>4, <1>5 DEF TableShape, WorkerShape, history, workerVars
  <1>8. TableShape'
    BY <1>1, <1>3, <1>4, <1>5, <1>6, <1>7 DEF TableShape, cacheVars, database
  <1>9. WorkerShape'
    BY <1>4, <1>7 DEF WorkerShape, workerVars, history
  <1> QED BY <1>1, <1>3, <1>4, <1>8, <1>9

\* The workers of W stop serving and the table becomes next.
LEMMA LeaveMoves ==
    ASSUME WorkerShape, NEW W, NEW next, Leave(W), Notice(W, next), events' = events
    PROVE  /\ WorkerShape'
           /\ \A v \in Worker \cap W : /\ pc'[v] = "idle" /\ msg'[v] = 0
                                       /\ req'[v] = NoRequest
           /\ \A v \in Worker \ W :
                 /\ pc'[v] = pc[v] /\ msg'[v] = msg[v] /\ req'[v] = req[v]
                 /\ own'[v] = own[v] /\ known'[v] = known[v]
                 /\ moved[v] \subseteq moved'[v]
                 /\ pc[v] = "count" => UsersOf(next) \subseteq moved'[v]
  <1>1. NoRows \in [User -> [Product -> Nat]] /\ DOMAIN NoTable = {}
        /\ UsersOf(next) \subseteq User
    BY DEF NoRows, NoTable, UsersOf
  <1>2. /\ pc' \in [Worker -> {"idle", "users", "licences", "own", "count", "delete"}]
        /\ msg' \in [Worker -> 0..Len(events')]
        /\ req' \in [Worker -> Requests \cup {NoRequest}]
    BY DEF Leave, WorkerShape
  <1>3. /\ lic' = [w \in Worker |-> lic'[w]]
        /\ \A w \in Worker : DOMAIN lic'[w] \subseteq Product
    <2>1. lic' = [w \in Worker |-> IF w \in W THEN NoTable ELSE lic[w]]
      BY DEF Leave
    <2>2. \A w \in Worker : lic'[w] = NoTable \/ lic'[w] = lic[w]
      BY <2>1
    <2>3. lic' = [w \in Worker |-> lic'[w]]
      BY <2>1
    <2> QED BY <1>1, <2>2, <2>3 DEF WorkerShape
  <1>4. /\ own' \in [Worker -> [User -> [Product -> Nat]]]
        /\ todo' \in [Worker -> SUBSET Product]
        /\ refused' \in [Worker -> SUBSET Product]
    BY <1>1 DEF Leave, WorkerShape
  <1>5. PICK U : U = UsersOf(next)
    OBVIOUS
  <1>6. known' \in [Worker -> SUBSET User] /\ moved' \in [Worker -> SUBSET User]
    <2>1. known' = [v \in Worker |-> IF v \in W THEN {} ELSE known[v]]
      BY DEF Notice
    <2>2. moved' = [v \in Worker |->
            IF v \in W THEN {}
            ELSE IF pc[v] = "count" THEN moved[v] \cup U ELSE moved[v]]
      BY <1>5 DEF Notice
    <2> QED BY <1>1, <1>5, <2>1, <2>2 DEF WorkerShape
  <1>7. \A v \in Worker \cap W : pc'[v] = "idle" /\ msg'[v] = 0 /\ req'[v] = NoRequest
    BY DEF Leave
  <1>8. \A v \in Worker \ W :
           /\ pc'[v] = pc[v] /\ msg'[v] = msg[v] /\ req'[v] = req[v] /\ own'[v] = own[v]
    BY DEF Leave
  <1>9. \A v \in Worker \ W :
           /\ known'[v] = known[v] /\ moved[v] \subseteq moved'[v]
           /\ pc[v] = "count" => U \subseteq moved'[v]
    BY <1>5 DEF Notice
  <1>10. WorkerShape'
    BY <1>2, <1>3, <1>4, <1>6 DEF WorkerShape
  <1> QED BY <1>5, <1>7, <1>8, <1>9, <1>10

\* The workers after that.
LEMMA LeaveInv ==
    ASSUME TableShape, WorkerShape, NEW W, NEW next, Leave(W), Notice(W, next),
           events' = events, rows' = next, \A w \in Worker : WorkerInv(w)
    PROVE  \A w \in Worker : WorkerInv(w)'
  <1> SUFFICES ASSUME NEW w \in Worker
               PROVE  WorkerInv(w)'
    OBVIOUS
  <1>1. CASE w \in W
    <2>1. pc'[w] = "idle" /\ msg'[w] = 0 /\ req'[w] = NoRequest
      BY <1>1, LeaveMoves
    <2> QED BY <2>1 DEF WorkerInv, Serving
  <1>2. CASE w \notin W
    <2>1. /\ pc'[w] = pc[w] /\ msg'[w] = msg[w] /\ req'[w] = req[w]
          /\ own'[w] = own[w] /\ known'[w] = known[w]
          /\ moved[w] \subseteq moved'[w]
          /\ pc[w] = "count" => UsersOf(next) \subseteq moved'[w]
      BY <1>2, LeaveMoves
    <2>2. \A u \in User : u \in UsersOf(next) \/ rows'[u] = rows[u]
      BY DEF UsersOf
    <2>3. pc[w] = "count" => \A u \in User \ moved'[w] : own'[w][u] = rows'[u]
      BY <2>1, <2>2 DEF WorkerInv
    <2> QED BY <2>1, <2>3 DEF WorkerInv
  <1> QED BY <1>1, <1>2

\* The steps that change no row: what the properties are about stays, and only
\* messages that give products are acknowledged.
Working == TableShape /\ WorkerShape /\ \A w \in Worker : WorkerInv(w)
Quiet ==
    /\ UNCHANGED <<status, events, owed, rows, audit, twins, latest, crossed, outlived,
                   untold, settled>>
    /\ pending' \subseteq pending
    /\ \A i \in pending \ pending' : events[i].kind \in Grants

\* A table of licences that a worker goes by.
LEMMA LicencesType ==
    ASSUME TableShape, NEW r \in Replica
    PROVE  Licences(r) \in Tables \cup {NoTable} /\ DOMAIN Licences(r) \subseteq Product
  <1>1. Licences(r) \in Tables \cup {NoTable}
    BY DEF Licences, TableShape
  <1>2. DOMAIN NoTable = {}
    BY DEF NoTable
  <1>3. \A t \in Tables : DOMAIN t \subseteq Product
    BY LicenseAssumption
  <1> QED BY <1>1, <1>2, <1>3

\* The cache after it was asked.
LEMMA RefreshType ==
    ASSUME TableShape, NEW r \in Replica, Refresh(r)
    PROVE  cache' \in [Replica -> Tables \cup {NoTable}] /\ age' \in [Replica -> 0..2]
  <1>1. PICK t : t = Licences(r)
    OBVIOUS
  <1>2. t \in Tables \cup {NoTable} /\ cache' = [cache EXCEPT ![r] = t]
        /\ age' = [age EXCEPT ![r] = 0]
    BY <1>1, LicencesType DEF Refresh
  <1> QED BY <1>2 DEF TableShape

\* The world outside, and a login.
LEMMA OutsideQuiet ==
    ASSUME Working,
           \/ LicenceChanges
           \/ \E r \in Replica : Time(r) \/ CheckProductAuthorized(r)
           \/ UNCHANGED vars
    PROVE  Working' /\ Quiet
  <1>1. /\ UNCHANGED <<status, events, owed, pending, database, workerVars, known, moved, twins,
                       latest, crossed, outlived, untold, settled>>
        /\ licence' \in Tables
        /\ cache' \in [Replica -> Tables \cup {NoTable}] /\ age' \in [Replica -> 0..2]
    <2>1. CASE LicenceChanges
      BY <2>1 DEF LicenceChanges, Working, TableShape, cacheVars
    <2>2. ASSUME NEW r \in Replica, Time(r)
          PROVE  /\ UNCHANGED <<status, events, owed, pending, database, workerVars, known,
                                moved, twins, latest, crossed, outlived, untold, settled>>
                 /\ licence' \in Tables
                 /\ cache' \in [Replica -> Tables \cup {NoTable}] /\ age' \in [Replica -> 0..2]
      <3>1. /\ age[r] < 2 /\ age' = [age EXCEPT ![r] = age[r] + 1] /\ cache' = cache
            /\ UNCHANGED <<outside, database, workerVars, history>>
        BY <2>2 DEF Time
      <3>2. age \in [Replica -> 0..2] /\ cache \in [Replica -> Tables \cup {NoTable}]
            /\ licence \in Tables
        BY DEF Working, TableShape
      <3>3. age' \in [Replica -> 0..2]
        <4>1. age[r] + 1 \in 0..2
          BY <3>1, <3>2
        <4> QED BY <3>1, <3>2, <4>1
      <3> QED BY <3>1, <3>2, <3>3 DEF outside, history
    <2>3. ASSUME NEW r \in Replica, CheckProductAuthorized(r)
          PROVE  /\ UNCHANGED <<status, events, owed, pending, database, workerVars, known,
                                moved, twins, latest, crossed, outlived, untold, settled>>
                 /\ licence' \in Tables
                 /\ cache' \in [Replica -> Tables \cup {NoTable}] /\ age' \in [Replica -> 0..2]
      <3>1. cache' \in [Replica -> Tables \cup {NoTable}] /\ age' \in [Replica -> 0..2]
        BY <2>3, RefreshType DEF Working, CheckProductAuthorized
      <3> QED BY <2>3, <3>1 DEF CheckProductAuthorized, Working, TableShape, outside, history
    <2>4. CASE UNCHANGED vars
      BY <2>4 DEF vars, Working, TableShape, database, workerVars
    <2> QED BY <2>1, <2>2, <2>3, <2>4
  <1>2. TableShape'
    BY <1>1 DEF Working, TableShape, database
  <1>3. WorkerShape'
    BY <1>1 DEF Working, WorkerShape, workerVars
  <1>4. \A w \in Worker : WorkerInv(w)'
    BY <1>1 DEF Working, WorkerInv, workerVars, database
  <1>5. Quiet
    BY <1>1 DEF Quiet, database
  <1> QED BY <1>2, <1>3, <1>4, <1>5 DEF Working

\* Workers leave without having written: a call fails or a replica crashes.
LEMMA FailsQuiet ==
    ASSUME Working,
           \/ \E r \in Replica : Crash(r)
           \/ \E w \in Worker : CallFails(w)
    PROVE  Working' /\ Quiet
  <1>1. PICK W : Leave(W) /\ Notice(W, rows)
    BY DEF Crash, CallFails
  <1>2. /\ UNCHANGED <<outside, database, twins, latest, crossed, outlived, untold, settled>>
        /\ cache' \in [Replica -> Tables \cup {NoTable}] /\ age' \in [Replica -> 0..2]
    <2>1. age \in [Replica -> 0..2] /\ cache \in [Replica -> Tables \cup {NoTable}]
      BY DEF Working, TableShape
    <2>2. ASSUME NEW r \in Replica, Crash(r)
          PROVE  cache' \in [Replica -> Tables \cup {NoTable}] /\ age' \in [Replica -> 0..2]
      <3>1. cache' = [cache EXCEPT ![r] = NoTable] /\ age' = [age EXCEPT ![r] = 2]
        BY <2>2 DEF Crash
      <3> QED BY <2>1, <3>1
    <2>3. ASSUME NEW w \in Worker, CallFails(w)
          PROVE  cache' = cache /\ age' = age
      BY <2>3 DEF CallFails, cacheVars
    <2>4. UNCHANGED <<outside, database, twins, latest, crossed, outlived, untold, settled>>
      BY DEF Crash, CallFails
    <2> QED BY <2>1, <2>2, <2>3, <2>4
  <1>3. TableShape'
    BY <1>2 DEF Working, TableShape, database, outside
  <1>4. events' = events /\ rows' = rows
    BY <1>2 DEF outside, database
  <1>5. WorkerShape' /\ \A w \in Worker : WorkerInv(w)'
    BY <1>1, <1>4, LeaveMoves, LeaveInv DEF Working
  <1>6. Quiet
    BY <1>2 DEF Quiet, outside, database
  <1> QED BY <1>3, <1>5, <1>6 DEF Working

\* A worker returns without having written; it was not to take products.
LEMMA ReturnQuiet ==
    ASSUME Working, NEW w \in Worker, pc[w] # "delete", pc[w] # "idle", Return(w),
           cache' \in [Replica -> Tables \cup {NoTable}], age' \in [Replica -> 0..2]
    PROVE  Working' /\ Quiet
  <1>1. PICK W : W = {w} /\ Leave(W) /\ Notice(W, rows)
    BY DEF Return
  <1>2. /\ UNCHANGED <<status, events, owed, licence, database, twins, latest, crossed,
                       outlived, untold, settled>>
        /\ pending' = pending \ {msg[w]}
    BY DEF Return, Acknowledge
  <1>3. TableShape'
    BY <1>2 DEF Working, TableShape, database
  <1>4. events' = events /\ rows' = rows
    BY <1>2 DEF database
  <1>5. WorkerShape' /\ \A v \in Worker : WorkerInv(v)'
    BY <1>1, <1>4, LeaveMoves, LeaveInv DEF Working
  <1>6. msg[w] \in pending => events[msg[w]].kind \in Grants
    <2>1. /\ pc[w] \in {"users", "licences", "own", "count"} /\ 0 \notin pending
          /\ WorkerInv(w)
      BY DEF Working, WorkerShape, TableShape
    <2>2. CASE req[w] # NoRequest
      BY <2>1, <2>2 DEF WorkerInv
    <2>3. CASE req[w] = NoRequest
      BY <2>1, <2>3 DEF WorkerInv, Serving
    <2> QED BY <2>2, <2>3
  <1>7. Quiet
    BY <1>2, <1>6 DEF Quiet, database
  <1> QED BY <1>3, <1>5, <1>7 DEF Working

\* One worker moves and the others stay; nothing is written or acknowledged.
LEMMA MoverQuiet ==
    ASSUME Working, NEW w \in Worker, WorkerShape',
           UNCHANGED <<outside, database, twins, latest, crossed, outlived, untold, settled>>,
           cache' \in [Replica -> Tables \cup {NoTable}], age' \in [Replica -> 0..2],
           \A v \in Worker \ {w} :
              /\ pc'[v] = pc[v] /\ msg'[v] = msg[v] /\ req'[v] = req[v]
              /\ own'[v] = own[v] /\ known'[v] = known[v] /\ moved'[v] = moved[v],
           WorkerInv(w)'
    PROVE  Working' /\ Quiet
  <1>1. TableShape'
    BY DEF Working, TableShape, outside, database
  <1>2. ASSUME NEW v \in Worker \ {w}
        PROVE  WorkerInv(v)'
    <2>1. WorkerInv(v)
      BY DEF Working
    <2> QED BY <2>1 DEF WorkerInv, outside, database
  <1>3. Quiet
    BY DEF Quiet, outside, database
  <1> QED BY <1>1, <1>2, <1>3 DEF Working

\* A worker is given a message.
LEMMA DeliverQuiet ==
    ASSUME Working, NEW w \in Worker, NEW i \in 1..MaxEvents, Deliver(w, i)
    PROVE  Working' /\ Quiet
  <1>1. /\ pc[w] = "idle" /\ i \in pending
        /\ msg' = [msg EXCEPT ![w] = i]
        /\ UNCHANGED <<outside, cacheVars, database, req, lic, own, todo, refused, history>>
    BY DEF Deliver
  <1>2. PICK k \in {"licences", "delete"} :
           /\ pc' = [pc EXCEPT ![w] = k]
           /\ k = "licences" <=> events[i].kind \in Grants
    BY DEF Deliver
  <1>3. i \in 1..Len(events) /\ i # 0
    BY <1>1 DEF Working, TableShape
  <1>4. events' = events
    BY <1>1 DEF outside
  <1>5. /\ pc' \in [Worker -> {"idle", "users", "licences", "own", "count", "delete"}]
        /\ msg' \in [Worker -> 0..Len(events')]
    BY <1>1, <1>2, <1>3, <1>4 DEF Working, WorkerShape
  <1>6. WorkerShape'
    BY <1>1, <1>5 DEF Working, WorkerShape, history
  <1>7. /\ pc'[w] = k /\ msg'[w] = i
        /\ \A v \in Worker \ {w} : pc'[v] = pc[v] /\ msg'[v] = msg[v]
    BY <1>1, <1>2 DEF Working, WorkerShape
  <1>8. req'[w] = NoRequest
    BY <1>1 DEF Working, WorkerInv
  <1>9. WorkerInv(w)'
    BY <1>2, <1>3, <1>4, <1>7, <1>8 DEF WorkerInv, Serving
  <1>10. cache' \in [Replica -> Tables \cup {NoTable}] /\ age' \in [Replica -> 0..2]
    BY <1>1 DEF cacheVars, Working, TableShape
  <1> QED BY <1>1, <1>6, <1>7, <1>9, <1>10, MoverQuiet DEF history

\* An administrator asks.
LEMMA AskQuiet ==
    ASSUME Working, NEW w \in Worker, NEW q \in Requests, Ask(w, q)
    PROVE  Working' /\ Quiet
  <1>1. /\ pc[w] = "idle"
        /\ req' = [req EXCEPT ![w] = q] /\ pc' = [pc EXCEPT ![w] = "users"]
        /\ UNCHANGED <<outside, cacheVars, database, msg, lic, own, todo, refused, history>>
    BY DEF Ask
  <1>2. events' = events
    BY <1>1 DEF outside
  <1>3. /\ pc' \in [Worker -> {"idle", "users", "licences", "own", "count", "delete"}]
        /\ req' \in [Worker -> Requests \cup {NoRequest}]
    BY <1>1 DEF Working, WorkerShape
  <1>4. WorkerShape'
    BY <1>1, <1>2, <1>3 DEF Working, WorkerShape, history
  <1>5. /\ pc'[w] = "users" /\ req'[w] = q
        /\ \A v \in Worker \ {w} : pc'[v] = pc[v] /\ req'[v] = req[v]
    BY <1>1 DEF Working, WorkerShape
  <1>6. msg'[w] = 0 /\ q # NoRequest
    BY <1>1, RequestType DEF Working, WorkerInv
  <1>7. WorkerInv(w)'
    BY <1>5, <1>6 DEF WorkerInv, Serving
  <1>8. cache' \in [Replica -> Tables \cup {NoTable}] /\ age' \in [Replica -> 0..2]
    BY <1>1 DEF cacheVars, Working, TableShape
  <1> QED BY <1>1, <1>4, <1>5, <1>7, <1>8, MoverQuiet DEF history

\* The users of a request are looked up: all of them exist, or it returns.
LEMMA GetUserInfosQuiet ==
    ASSUME Working, NEW w \in Worker, GetUserInfos(w)
    PROVE  Working' /\ Quiet
  <1>1. pc[w] = "users" /\ UNCHANGED cacheVars
    BY DEF GetUserInfos
  <1>2. cache' \in [Replica -> Tables \cup {NoTable}] /\ age' \in [Replica -> 0..2]
    BY <1>1 DEF cacheVars, Working, TableShape
  <1>3. CASE ~UsersExist(w)
    BY <1>1, <1>2, <1>3, ReturnQuiet DEF GetUserInfos
  <1>4. CASE UsersExist(w)
    <2>1. /\ pc' = [pc EXCEPT ![w] = "licences"]
          /\ known' = [known EXCEPT ![w] = {u \in DOMAIN req[w] : status[u] # "deleted"}]
          /\ UNCHANGED <<outside, database, msg, req, lic, own, todo, refused, moved, twins,
                         latest, crossed, outlived, untold, settled>>
      BY <1>4 DEF GetUserInfos
    <2>2. req[w] # NoRequest /\ msg[w] = 0
      BY <1>1 DEF Working, WorkerInv
    <2>3. PICK q \in Requests : q = req[w]
      BY <2>2 DEF Working, WorkerShape
    <2>4. {u \in DOMAIN q : status[u] # "deleted"} = DOMAIN q
      BY <1>4, <2>3 DEF UsersExist
    <2>5. known' = [known EXCEPT ![w] = DOMAIN q] /\ DOMAIN q \in SUBSET User
      BY <2>1, <2>3, <2>4, RequestType
    <2>6. /\ pc' \in [Worker -> {"idle", "users", "licences", "own", "count", "delete"}]
          /\ known' \in [Worker -> SUBSET User]
      BY <2>1, <2>5 DEF Working, WorkerShape
    <2>7. WorkerShape'
      BY <2>1, <2>6 DEF Working, WorkerShape, outside
    <2>8. /\ pc'[w] = "licences" /\ known'[w] = DOMAIN q
          /\ \A v \in Worker \ {w} : pc'[v] = pc[v] /\ known'[v] = known[v]
      BY <2>1, <2>5 DEF Working, WorkerShape
    <2>9. WorkerInv(w)'
      BY <2>1, <2>2, <2>3, <2>8 DEF WorkerInv, Serving
    <2> QED BY <1>2, <2>1, <2>7, <2>8, <2>9, MoverQuiet
  <1> QED BY <1>3, <1>4

\* The licences are read; a message without any is done.
LEMMA GetLicensesQuiet ==
    ASSUME Working, NEW w \in Worker, GetLicenses(w)
    PROVE  Working' /\ Quiet
  <1>1. pc[w] = "licences" /\ Home[w] \in Replica /\ Refresh(Home[w])
    BY LicenseAssumption DEF GetLicenses
  <1>2. cache' \in [Replica -> Tables \cup {NoTable}] /\ age' \in [Replica -> 0..2]
    BY <1>1, RefreshType DEF Working
  <1>3. CASE Return(w)
    BY <1>1, <1>2, <1>3, ReturnQuiet
  <1>4. CASE ~Return(w)
    <2>1. PICK t, mine :
             /\ t = Licences(Home[w])
             /\ mine = t \/ mine = Restrict(t, DOMAIN t \cap Default)
             /\ lic' = [lic EXCEPT ![w] = mine]
             /\ pc' = [pc EXCEPT ![w] = "own"]
             /\ UNCHANGED <<outside, database, msg, req, own, todo, refused, history>>
      BY <1>4 DEF GetLicenses
    <2>2. DOMAIN mine \subseteq Product
      <3>1. DOMAIN t \subseteq Product
        BY <1>1, <2>1, LicencesType DEF Working
      <3>2. DOMAIN Restrict(t, DOMAIN t \cap Default) = DOMAIN t \cap Default
        BY DEF Restrict
      <3> QED BY <2>1, <3>1, <3>2
    <2>3. pc' \in [Worker -> {"idle", "users", "licences", "own", "count", "delete"}]
      BY <2>1 DEF Working, WorkerShape
    <2>4. /\ lic' = [v \in Worker |-> lic'[v]]
          /\ \A v \in Worker : DOMAIN lic'[v] \subseteq Product
      <3>1. lic = [v \in Worker |-> lic[v]] /\ \A v \in Worker : DOMAIN lic[v] \subseteq Product
        BY DEF Working, WorkerShape
      <3>2. DOMAIN lic = Worker
        BY <3>1
      <3>3. lic' = [v \in Worker |-> IF v = w THEN mine ELSE lic[v]]
        BY <2>1, <3>2
      <3>4. \A v \in Worker : lic'[v] = mine \/ lic'[v] = lic[v]
        BY <3>3
      <3>5. lic' = [v \in Worker |-> lic'[v]]
        BY <3>3
      <3> QED BY <2>2, <3>1, <3>4, <3>5
    <2>5. WorkerShape'
      BY <2>1, <2>3, <2>4 DEF Working, WorkerShape, outside, history
    <2>6. pc'[w] = "own" /\ \A v \in Worker \ {w} : pc'[v] = pc[v]
      BY <2>1 DEF Working, WorkerShape
    <2>7. WorkerInv(w)'
      BY <1>1, <2>1, <2>6 DEF Working, WorkerInv, Serving, outside, history
    <2> QED BY <1>2, <2>1, <2>5, <2>6, <2>7, MoverQuiet DEF history
  <1> QED BY <1>3, <1>4

\* The rows of the users are read; what is missing in the answer is known.
LEMMA SeesQuiet ==
    ASSUME Working, NEW w \in Worker, NEW table \in [User -> [Product -> Nat]],
           Sees(w, table), moved' \in [Worker -> SUBSET User],
           \A v \in Worker \ {w} : moved'[v] = moved[v],
           \A u \in User \ moved'[w] : table[u] = rows[u]
    PROVE  Working' /\ Quiet
  <1>1. PICK T :
           /\ T \subseteq DOMAIN lic[w]
           /\ todo' = [todo EXCEPT ![w] = T]
    BY DEF Sees
  <1>2. /\ pc[w] = "own" /\ own' = [own EXCEPT ![w] = table]
        /\ pc' = [pc EXCEPT ![w] = "count"]
        /\ UNCHANGED <<outside, cacheVars, database, msg, req, lic, refused, known, twins,
                       latest, crossed, outlived, untold, settled>>
    BY DEF Sees
  <1>3. T \in SUBSET Product
    BY <1>1 DEF Working, WorkerShape
  <1>4. /\ pc' \in [Worker -> {"idle", "users", "licences", "own", "count", "delete"}]
        /\ todo' \in [Worker -> SUBSET Product]
    BY <1>1, <1>2, <1>3 DEF Working, WorkerShape
  <1>5. own' \in [Worker -> [User -> [Product -> Nat]]]
    BY <1>2 DEF Working, WorkerShape
  <1>6. WorkerShape'
    BY <1>2, <1>4, <1>5 DEF Working, WorkerShape, outside
  <1>7. /\ pc'[w] = "count" /\ own'[w] = table
        /\ \A v \in Worker \ {w} : pc'[v] = pc[v] /\ own'[v] = own[v]
    BY <1>2 DEF Working, WorkerShape
  <1>8. WorkerInv(w)'
    BY <1>2, <1>7 DEF Working, WorkerInv, Serving, outside, database
  <1>9. cache' \in [Replica -> Tables \cup {NoTable}] /\ age' \in [Replica -> 0..2]
    BY <1>2 DEF cacheVars, Working, TableShape
  <1> QED BY <1>2, <1>6, <1>7, <1>8, <1>9, MoverQuiet

\* A worker is told a number of rows.
LEMMA ToldQuiet ==
    ASSUME Working, NEW w \in Worker, NEW p \in Product, NEW n, Told(w, p, n)
    PROVE  Working' /\ Quiet
  <1>1. PICK R : R \subseteq refused[w] \cup {p} /\ refused' = [refused EXCEPT ![w] = R]
    BY DEF Told
  <1>2. /\ todo' = [todo EXCEPT ![w] = todo[w] \ {p}]
        /\ UNCHANGED <<outside, cacheVars, database, pc, msg, req, lic, own, known, moved,
                       twins, latest, crossed, outlived, untold, settled>>
    BY DEF Told
  <1>3. R \in SUBSET Product
    BY <1>1 DEF Working, WorkerShape
  <1>4. todo' \in [Worker -> SUBSET Product] /\ refused' \in [Worker -> SUBSET Product]
    BY <1>1, <1>2, <1>3 DEF Working, WorkerShape
  <1>5. WorkerShape'
    BY <1>2, <1>4 DEF Working, WorkerShape, outside
  <1>6. WorkerInv(w)'
    BY <1>2 DEF Working, WorkerInv, outside, database
  <1>7. cache' \in [Replica -> Tables \cup {NoTable}] /\ age' \in [Replica -> 0..2]
    BY <1>2 DEF cacheVars, Working, TableShape
  <1> QED BY <1>2, <1>5, <1>6, <1>7, MoverQuiet

\* A table that lacks some of the rows.
LEMMA MisreadTable ==
    ASSUME Working, NEW w \in Worker, Misread(w), \A p \in Product : ~Told(w, p, 0)
    PROVE  \E table \in [User -> [Product -> Nat]] :
              /\ Sees(w, table) /\ pc[w] = "own"
              /\ moved' = [moved EXCEPT ![w] = UsersOf(table)]
              /\ counted' = [counted EXCEPT ![w] =
                                IF req[w] = NoRequest THEN {} ELSE ProductsOf(table)]
  <1>1. PICK gone :
           /\ Sees(w, Without(gone)) /\ pc[w] = "own"
           /\ moved' = [moved EXCEPT ![w] = UsersOf(Without(gone))]
           /\ counted' = [counted EXCEPT ![w] =
                             IF req[w] = NoRequest THEN {} ELSE ProductsOf(Without(gone))]
    BY DEF Misread
  <1>2. Without(gone) \in [User -> [Product -> Nat]]
    BY DEF Without, Working, TableShape
  <1> QED BY <1>1, <1>2

\* The rows are read, or a product is counted, in whole or in part.
LEMMA ReadsQuiet ==
    ASSUME Working, NEW w \in Worker,
           \/ GetAuthorizedProducts(w) \/ Misread(w)
           \/ \E p \in Product : GetProductsAuthorizedCount(w, p)
    PROVE  Working' /\ Quiet
  <1>1. CASE GetAuthorizedProducts(w)
    <2>1. Sees(w, rows) /\ moved' = moved /\ rows \in [User -> [Product -> Nat]]
      BY <1>1 DEF GetAuthorizedProducts, Working, TableShape
    <2>2. PICK table : table = rows
      OBVIOUS
    <2> QED BY <2>1, <2>2, SeesQuiet DEF Working, WorkerShape
  <1>2. ASSUME NEW p \in Product, NEW n, Told(w, p, n)
        PROVE  Working' /\ Quiet
    BY <1>2, ToldQuiet
  <1>3. CASE Misread(w) /\ \A p \in Product : ~Told(w, p, 0)
    <2>1. PICK table \in [User -> [Product -> Nat]] :
             Sees(w, table) /\ moved' = [moved EXCEPT ![w] = UsersOf(table)]
      BY <1>3, MisreadTable
    <2>2. PICK M : M = UsersOf(table)
      OBVIOUS
    <2>3. M \subseteq User /\ \A u \in User \ M : table[u] = rows[u]
      BY <2>2 DEF UsersOf
    <2>4. /\ moved' \in [Worker -> SUBSET User] /\ moved'[w] = M
          /\ \A v \in Worker \ {w} : moved'[v] = moved[v]
      BY <2>1, <2>2, <2>3 DEF Working, WorkerShape
    <2> QED BY <2>1, <2>3, <2>4, SeesQuiet
  <1> QED BY <1>1, <1>2, <1>3 DEF GetProductsAuthorizedCount

\* A request is refused, or a message has nothing to add.
LEMMA DeclineQuiet ==
    ASSUME Working, NEW w \in Worker, Decline(w)
    PROVE  Working' /\ Quiet
  <1>1. pc[w] = "count" /\ Return(w) /\ UNCHANGED cacheVars
    BY DEF Decline
  <1>2. cache' \in [Replica -> Tables \cup {NoTable}] /\ age' \in [Replica -> 0..2]
    BY <1>1 DEF cacheVars, Working, TableShape
  <1> QED BY <1>1, <1>2, ReturnQuiet

\* A transaction is committed.
LEMMA CommittedMoves ==
    ASSUME Working, NEW w \in Worker, NEW next \in [User -> [Product -> Nat]],
           Committed(w, next), audit' \in [User -> SUBSET Product],
           latest' \in [User -> 0..Len(events)]
    PROVE  /\ Working' /\ rows' = next
           /\ UNCHANGED <<status, events, owed, untold>>
           /\ pending' \subseteq pending /\ pending \ pending' \subseteq {msg[w]}
  <1>1. /\ rows' = next /\ Leave({w}) /\ Notice({w}, next)
        /\ UNCHANGED <<status, events, owed, untold, licence, cacheVars>>
        /\ pending' = pending \ {msg[w]} \/ pending' = pending
    BY DEF Committed, Acknowledge
  <1>2. PICK W : W = {w}
    OBVIOUS
  <1>3. WorkerShape' /\ \A v \in Worker : WorkerInv(v)'
    BY <1>1, <1>2, LeaveMoves, LeaveInv DEF Working
  <1>4. TableShape'
    BY <1>1 DEF Working, TableShape, cacheVars
  <1> QED BY <1>1, <1>3, <1>4 DEF Working

\* A message has taken effect.
LEMMA AppliedMoves ==
    ASSUME TableShape, NEW w \in Worker, NEW u \in User, Applied(w, u),
           msg[w] \in 1..Len(events)
    PROVE  /\ latest' \in [User -> 0..Len(events)]
           /\ latest'[u] = IF latest[u] >= msg[w] THEN latest[u] ELSE msg[w]
           /\ \A v \in User \ {u} : latest'[v] = latest[v]
           /\ \A v \in User \ {u} : v \in crossed' <=> v \in crossed
           /\ msg[w] < latest[u] => u \in crossed'
  <1>1. PICK a \in Nat, b \in Nat : a = latest[u] /\ b = msg[w]
    BY DEF TableShape
  <1>2. latest' = [latest EXCEPT ![u] = Max({a, b})]
    BY <1>1 DEF Applied
  <1>3. Max({a, b}) = IF a >= b THEN a ELSE b
    BY MaxOfTwo
  <1>4. Max({a, b}) \in 0..Len(events)
    BY <1>1, <1>3 DEF TableShape
  <1>5. /\ latest' \in [User -> 0..Len(events)] /\ latest'[u] = Max({a, b})
        /\ \A v \in User \ {u} : latest'[v] = latest[v]
    BY <1>2, <1>4 DEF TableShape
  <1>6. /\ \A v \in User \ {u} : v \in crossed' <=> v \in crossed
        /\ msg[w] < latest[u] => u \in crossed'
    BY DEF Applied
  <1> QED BY <1>1, <1>3, <1>5, <1>6

\* Products are given, or replaced.
LEMMA WriteMoves ==
    ASSUME Working, NEW w \in Worker, Write(w), settled \subseteq User
    PROVE  /\ Working' /\ pc[w] = "count"
           /\ UNCHANGED <<status, events, owed, untold>>
           /\ pending' \subseteq pending /\ pending \ pending' \subseteq {msg[w]}
           /\ \A u \in User, p \in Product :
                 rows'[u][p] = (IF Removed(w, u, p) THEN 0 ELSE rows[u][p]) + Added(w, u, p)
           /\ \A u \in User, p \in Product :
                 /\ rows'[u][p] > 1
                 /\ \/ <<u, p>> \in twins
                    \/ Added(w, u, p) > 0 /\ (u \in moved[w] \/ Added(w, u, p) > 1)
                 => <<u, p>> \in twins'
           /\ \A u \in settled' : \/ u \in settled /\ rows'[u] = rows[u] /\ audit'[u] = audit[u]
                                  \/ /\ req[w] # NoRequest /\ u \in DOMAIN req[w] \ moved[w]
                                     /\ audit'[u] = Range(req[w][u])
           /\ outlived \subseteq outlived'
           /\ \A u \in User : /\ u \in known[w] /\ rows'[u] # rows[u] /\ status[u] = "deleted"
                              => u \in outlived'
           /\ IF req[w] = NoRequest THEN Applied(w, Target(w)) ELSE UNCHANGED <<latest, crossed>>
  <1>1. PICK next, named :
           /\ next = [u \in User |-> [p \in Product |->
                        (IF Removed(w, u, p) THEN 0 ELSE rows[u][p]) + Added(w, u, p)]]
           /\ named = IF req[w] = NoRequest THEN {}
                      ELSE {u \in DOMAIN req[w] : Has(own[w], u) # {} \/ req[w][u] # <<>>}
           /\ Committed(w, next)
           /\ audit' = [u \in User |-> IF u \in named THEN Range(req[w][u]) ELSE audit[u]]
           /\ twins' = {t \in User \X Product : next[t[1]][t[2]] > 1}
                       \cap (twins \cup {t \in User \X Product :
                               /\ Added(w, t[1], t[2]) > 0
                               /\ t[1] \in moved[w] \/ Added(w, t[1], t[2]) > 1})
           /\ settled' = (settled \ (UsersOf(next) \cup named)) \cup (named \ moved[w])
           /\ outlived' = outlived \cup
                 {u \in known[w] \cap UsersOf(next) : status[u] = "deleted"}
    BY DEF Write
  <1>2. /\ pc[w] = "count"
        /\ IF req[w] = NoRequest THEN Applied(w, Target(w)) ELSE UNCHANGED <<latest, crossed>>
    BY DEF Write
  <1>3. req[w] # NoRequest =>
           DOMAIN req[w] \subseteq User /\ \A u \in DOMAIN req[w] : req[w][u] \in Seq(Product)
    BY RequestType DEF Working, WorkerShape
  <1>4. named \subseteq User /\ (req[w] = NoRequest => named = {})
        /\ (req[w] # NoRequest => named \subseteq DOMAIN req[w])
    BY <1>1, <1>3
  <1>5. next \in [User -> [Product -> Nat]]
    <2>1. \A u \in User, p \in Product : rows[u][p] \in Nat /\ Added(w, u, p) \in Nat
      BY AddedType DEF Working, TableShape
    <2>2. \A u \in User, p \in Product :
             (IF Removed(w, u, p) THEN 0 ELSE rows[u][p]) + Added(w, u, p) \in Nat
      BY <2>1
    <2> QED BY <1>1, <2>2
  <1>6. audit' \in [User -> SUBSET Product]
    <2>1. \A s \in Seq(Product) : Range(s) \subseteq Product
      BY DEF Range
    <2>2. \A u \in named : Range(req[w][u]) \subseteq Product
      BY <1>3, <1>4, <2>1
    <2> QED BY <1>1, <2>2 DEF Working, TableShape
  <1>7. latest' \in [User -> 0..Len(events)]
    <2>1. CASE req[w] # NoRequest
      BY <1>2, <2>1 DEF Working, TableShape
    <2>2. CASE req[w] = NoRequest
      <3>1. msg[w] \in 1..Len(events)
        BY <1>2, <2>2 DEF Working, WorkerInv, Serving, WorkerShape
      <3>2. PICK u \in User : u = Target(w)
        BY <3>1, EventFields DEF Target, Working
      <3> QED BY <1>2, <2>2, <3>1, <3>2, AppliedMoves DEF Working
    <2> QED BY <2>1, <2>2
  <1>8. /\ Working' /\ rows' = next /\ UNCHANGED <<status, events, owed, untold>>
        /\ pending' \subseteq pending /\ pending \ pending' \subseteq {msg[w]}
    BY <1>1, <1>5, <1>6, <1>7, CommittedMoves
  <1>9. \A u \in User, p \in Product :
           rows'[u][p] = (IF Removed(w, u, p) THEN 0 ELSE rows[u][p]) + Added(w, u, p)
    BY <1>1, <1>8
  <1>10. ASSUME NEW u \in User, NEW p \in Product, rows'[u][p] > 1,
                \/ <<u, p>> \in twins
                \/ Added(w, u, p) > 0 /\ (u \in moved[w] \/ Added(w, u, p) > 1)
         PROVE  <<u, p>> \in twins'
    <2>1. PICK t : t = <<u, p>>
      OBVIOUS
    <2>2. t \in User \X Product /\ t[1] = u /\ t[2] = p
      BY <2>1
    <2> QED BY <1>1, <1>8, <1>10, <2>1, <2>2
  <1>11. ASSUME NEW u \in settled'
         PROVE  \/ u \in settled /\ rows'[u] = rows[u] /\ audit'[u] = audit[u]
                \/ /\ req[w] # NoRequest /\ u \in DOMAIN req[w] \ moved[w]
                   /\ audit'[u] = Range(req[w][u])
    <2>1. CASE u \in named \ moved[w]
      BY <1>1, <1>4, <2>1
    <2>2. CASE u \notin named /\ u \in settled /\ u \notin UsersOf(next)
      BY <1>1, <1>8, <2>2 DEF UsersOf
    <2> QED BY <1>1, <2>1, <2>2
  <1>12. /\ outlived \subseteq outlived'
         /\ \A u \in User : /\ u \in known[w] /\ rows'[u] # rows[u] /\ status[u] = "deleted"
                            => u \in outlived'
    BY <1>1, <1>8 DEF UsersOf
  <1> QED BY <1>2, <1>8, <1>9, <1>10, <1>11, <1>12

\* All products of a user are taken.
LEMMA DeleteMoves ==
    ASSUME Working, NEW w \in Worker, userDeleteAllProducts(w)
    PROVE  /\ Working' /\ pc[w] = "delete" /\ Target(w) \in User
           /\ msg[w] \in 1..Len(events)
           /\ UNCHANGED <<status, events, owed, untold, audit>>
           /\ pending' \subseteq pending /\ pending \ pending' \subseteq {msg[w]}
           /\ Applied(w, Target(w))
           /\ \A p \in Product : rows'[Target(w)][p] = 0
           /\ \A u \in User \ {Target(w)} : rows'[u] = rows[u]
           /\ twins' = {t \in twins : t[1] # Target(w)}
           /\ outlived' = outlived \ {Target(w)}
           /\ settled' \subseteq settled
           /\ \A u \in settled' : u \in User => rows'[u] = rows[u]
  <1>1. pc[w] = "delete" /\ msg[w] \in 1..Len(events)
    BY DEF userDeleteAllProducts, Working, WorkerInv, WorkerShape
  <1>2. PICK u \in User : u = Target(w)
    BY <1>1, EventFields DEF Target, Working
  <1>3. PICK next :
           /\ next = [rows EXCEPT ![u] = [p \in Product |-> 0]]
           /\ Committed(w, next) /\ Applied(w, u)
           /\ twins' = {t \in twins : t[1] # u}
           /\ outlived' = outlived \ {u}
           /\ settled' = settled \ UsersOf(next)
           /\ UNCHANGED audit
    BY <1>2 DEF userDeleteAllProducts
  <1>4. /\ next \in [User -> [Product -> Nat]]
        /\ \A p \in Product : next[u][p] = 0
        /\ \A v \in User \ {u} : next[v] = rows[v]
    BY <1>3 DEF Working, TableShape
  <1>5. latest' \in [User -> 0..Len(events)]
    BY <1>1, <1>2, <1>3, AppliedMoves DEF Working
  <1>6. audit' \in [User -> SUBSET Product]
    BY <1>3 DEF Working, TableShape
  <1>7. /\ Working' /\ rows' = next /\ UNCHANGED <<status, events, owed, untold>>
        /\ pending' \subseteq pending /\ pending \ pending' \subseteq {msg[w]}
    BY <1>3, <1>4, <1>5, <1>6, CommittedMoves
  <1>8. settled' \subseteq settled /\ \A v \in settled' : v \in User => rows'[v] = rows[v]
    BY <1>3, <1>7 DEF UsersOf
  <1> QED BY <1>1, <1>2, <1>3, <1>4, <1>7, <1>8

-----------------------------------------------------------------------------
(* The properties.                                                         *)

\* A message is published or lost; a creation that is taken back goes untold.
LEMMA MailMoves ==
    ASSUME Working, NEW i \in 1..MaxEvents, pub_nsq_msg(i) \/ LoseMessage(i)
    PROVE  /\ Working'
           /\ UNCHANGED <<events, cacheVars, licence, database, workerVars, highest, counted,
                          excess, twins, latest, crossed, outlived, settled>>
           /\ untold \subseteq untold'
           /\ \A u \in User : status'[u] = "deleted" => status[u] = "deleted" \/ u \in untold'
           /\ \A j \in owed \cup pending :
                 \/ j \in owed' \cup pending'
                 \/ events[j].kind = "deleted" => events[j].user \in untold'
  <1>1. /\ i \in owed /\ owed' = owed \ {i}
        /\ UNCHANGED <<events, cacheVars, licence, database, workerVars, highest, known, moved,
                       counted, excess, twins, latest, crossed, outlived, settled>>
        /\ pending' = pending \/ pending' = pending \cup {i}
    BY DEF pub_nsq_msg, LoseMessage, history
  <1>2. i \in 1..Len(events) /\ events[i].user \in User
    BY <1>1, EventFields DEF Working, TableShape
  <1>3. PICK u \in User : u = events[i].user
    BY <1>2
  <1>4. \/ /\ pending' = pending \cup {i} /\ UNCHANGED <<status, untold>>
        \/ /\ UNCHANGED <<status, pending>>
           /\ untold' = IF events[i].kind = "deleted" THEN untold \cup {u} ELSE untold
        \/ /\ events[i].kind = "created"
           /\ status' = [status EXCEPT ![u] = "deleted"]
           /\ untold' = untold \cup {u}
    BY <1>3 DEF pub_nsq_msg, LoseMessage, history
  <1>5. status' \in [User -> Status]
    BY <1>4 DEF Working, TableShape, Status
  <1>6. TableShape'
    BY <1>1, <1>2, <1>5 DEF Working, TableShape, cacheVars, database
  <1>7. WorkerShape'
    BY <1>1 DEF Working, WorkerShape, workerVars
  <1>8. \A w \in Worker : WorkerInv(w)'
    BY <1>1 DEF Working, WorkerInv, workerVars, database
  <1>9. untold \subseteq untold'
        /\ \A v \in User : status'[v] = "deleted" => status[v] = "deleted" \/ v \in untold'
    BY <1>4 DEF Working, TableShape
  <1>10. \A j \in owed \cup pending :
            \/ j \in owed' \cup pending'
            \/ events[j].kind = "deleted" => events[j].user \in untold'
    <2> SUFFICES ASSUME NEW j \in owed \cup pending, j \notin owed' \cup pending',
                        events[j].kind = "deleted"
                 PROVE  events[j].user \in untold'
      OBVIOUS
    <2>1. j = i
      BY <1>1
    <2> QED BY <1>3, <1>4, <2>1
  <1> QED BY <1>1, <1>6, <1>7, <1>8, <1>9, <1>10 DEF Working

\* Every step is one of these.
LEMMA Steps ==
    ASSUME Working, [Next]_vars
    PROVE  \/ Working' /\ Quiet
           \/ \E i \in 1..MaxEvents : pub_nsq_msg(i) \/ LoseMessage(i)
           \/ \E w \in Worker : Write(w) \/ userDeleteAllProducts(w)
           \/ \E u \in User : UserCreated(u) \/ UserDisabled(u) \/ UserEnabled(u) \/ UserDeleted(u)
  <1>1. CASE Users
    BY <1>1 DEF Users
  <1>2. CASE \/ LicenceChanges
             \/ \E r \in Replica : Time(r) \/ CheckProductAuthorized(r)
             \/ UNCHANGED vars
    BY <1>2, OutsideQuiet
  <1>3. CASE \/ \E r \in Replica : Crash(r)
             \/ \E w \in Worker : CallFails(w)
    BY <1>3, FailsQuiet
  <1>4. ASSUME NEW w \in Worker,
               \/ \E i \in 1..MaxEvents : Deliver(w, i)
               \/ \E q \in Requests : Ask(w, q)
        PROVE  Working' /\ Quiet
    BY <1>4, DeliverQuiet, AskQuiet
  <1>5. ASSUME NEW w \in Worker,
               \/ GetUserInfos(w) \/ GetLicenses(w) \/ GetAuthorizedProducts(w)
               \/ \E p \in Product : GetProductsAuthorizedCount(w, p)
               \/ Decline(w) \/ Misread(w)
        PROVE  Working' /\ Quiet
    BY <1>5, GetUserInfosQuiet, GetLicensesQuiet, ReadsQuiet, DeclineQuiet
  <1> QED BY <1>1, <1>2, <1>3, <1>4, <1>5 DEF Next, Proceed

\* A change of a user changes nothing that the workers hold.
LEMMA UsersStep ==
    ASSUME Working, NEW u \in User,
           UserCreated(u) \/ UserDisabled(u) \/ UserEnabled(u) \/ UserDeleted(u)
    PROVE  /\ Working'
           /\ UNCHANGED <<rows, audit, twins, latest, crossed, outlived, untold, settled>>
           /\ Len(events) \in Nat /\ Len(events') = Len(events) + 1
           /\ \A i \in 1..Len(events) : events'[i] = events[i]
           /\ events'[Len(events')].user = u
           /\ owed' = owed \cup {Len(events')} /\ pending' = pending
           /\ \A v \in User \ {u} : status'[v] = status[v]
           /\ status[u] # "deleted"
           /\ status'[u] = "deleted" => events'[Len(events')].kind = "deleted"
  <1>1. PICK k \in Kind, to \in Status :
           /\ Change(u, k, to) /\ status[u] # "deleted"
           /\ to = "deleted" => k = "deleted"
    BY DEF UserCreated, UserDisabled, UserEnabled, UserDeleted, Kind, Status
  <1>2. /\ TableShape' /\ WorkerShape'
        /\ UNCHANGED <<database, workerVars, history>>
        /\ Len(events) \in Nat /\ Len(events') = Len(events) + 1
        /\ \A i \in 1..Len(events) : events'[i] = events[i]
        /\ events'[Len(events')].user = u /\ events'[Len(events')].kind = k
        /\ owed' = owed \cup {Len(events')} /\ pending' = pending
        /\ status' = [status EXCEPT ![u] = to]
    BY <1>1, ChangeMoves DEF Working
  <1>3. status'[u] = to /\ \A v \in User \ {u} : status'[v] = status[v]
    BY <1>2 DEF Working, TableShape
  <1>4. ASSUME NEW w \in Worker
        PROVE  WorkerInv(w)'
    <2>1. msg[w] # 0 => events'[msg[w]] = events[msg[w]]
      BY <1>2 DEF Working, WorkerShape
    <2>2. WorkerInv(w)
      BY DEF Working
    <2> QED BY <1>2, <2>1, <2>2 DEF WorkerInv, database, workerVars, history
  <1>5. Working'
    BY <1>2, <1>4 DEF Working
  <1> QED BY <1>1, <1>2, <1>3, <1>5 DEF database, history

\* The first state.
LEMMA InitWorking ==
    ASSUME Init
    PROVE  Working /\ Len(events) = 0
  <1>1. Len(events) = 0 /\ events \in Seq([user : User, kind : Kind])
    BY DEF Init
  <1>2. NoRows \in [User -> [Product -> Nat]] /\ DOMAIN NoTable = {}
    BY DEF NoRows, NoTable
  <1>3. TableShape
    <2>1. status \in [User -> Status]
      BY LicenseAssumption DEF Init, Status
    <2>2. cache \in [Replica -> Tables \cup {NoTable}] /\ age \in [Replica -> 0..2]
      BY DEF Init
    <2>3. /\ latest \in [User -> 0..Len(events)] /\ audit \in [User -> SUBSET Product]
          /\ owed \subseteq 1..Len(events) /\ pending \subseteq 1..Len(events) \ owed
          /\ Len(events) <= MaxEvents
      BY <1>1, LicenseAssumption DEF Init
    <2> QED BY <1>1, <1>2, <2>1, <2>2, <2>3 DEF TableShape, Init
  <1>4. WorkerShape
    <2>1. lic = [w \in Worker |-> NoTable]
      BY DEF Init
    <2>2. lic = [w \in Worker |-> lic[w]] /\ \A w \in Worker : DOMAIN lic[w] \subseteq Product
      BY <1>2, <2>1
    <2>3. msg \in [Worker -> 0..Len(events)] /\ own \in [Worker -> [User -> [Product -> Nat]]]
      BY <1>1, <1>2 DEF Init
    <2> QED BY <2>2, <2>3 DEF WorkerShape, Init
  <1>5. \A w \in Worker : pc[w] = "idle" /\ msg[w] = 0 /\ req[w] = NoRequest
    BY DEF Init
  <1>6. \A w \in Worker : WorkerInv(w)
    BY <1>5 DEF WorkerInv, Serving
  <1> QED BY <1>1, <1>3, <1>4, <1>6 DEF Working

\* The workers keep what they rely on.
LEMMA NextWorking ==
    ASSUME Working, settled \subseteq User, [Next]_vars
    PROVE  Working' /\ settled' \subseteq User
  <1>1. CASE Working' /\ Quiet
    BY <1>1 DEF Quiet
  <1>2. ASSUME NEW w \in Worker, Write(w)
        PROVE  Working' /\ settled' \subseteq User
    <2>1. /\ Working'
          /\ \A u \in settled' : u \in settled \/ (req[w] # NoRequest /\ u \in DOMAIN req[w])
      BY <1>2, WriteMoves
    <2>2. req[w] # NoRequest => DOMAIN req[w] \subseteq User
      BY RequestType DEF Working, WorkerShape
    <2> QED BY <2>1, <2>2
  <1>3. ASSUME NEW w \in Worker, userDeleteAllProducts(w)
        PROVE  Working' /\ settled' \subseteq User
    <2>1. Working' /\ settled' \subseteq settled
      BY <1>3, DeleteMoves
    <2> QED BY <2>1
  <1>4. ASSUME NEW u \in User,
               UserCreated(u) \/ UserDisabled(u) \/ UserEnabled(u) \/ UserDeleted(u)
        PROVE  Working' /\ settled' \subseteq User
    <2>1. Working' /\ settled' = settled
      BY <1>4, UsersStep
    <2> QED BY <2>1
  <1>5. ASSUME NEW i \in 1..MaxEvents, pub_nsq_msg(i) \/ LoseMessage(i)
        PROVE  Working' /\ settled' \subseteq User
    <2>1. Working' /\ settled' = settled
      BY <1>5, MailMoves
    <2> QED BY <2>1
  <1> QED BY <1>1, <1>2, <1>3, <1>4, <1>5, Steps

\* The types and the workers' invariant hold in every state.
LEMMA Works == Spec => [](Working /\ settled \subseteq User)
  <1>1. Init => Working /\ settled \subseteq User
    BY InitWorking DEF Init
  <1>2. (Working /\ settled \subseteq User) /\ [Next]_vars
            => (Working /\ settled \subseteq User)'
    BY NextWorking
  <1> QED BY <1>1, <1>2, PTL DEF Spec

\* The types of the variables; a cache never holds anything but a whole answer
\* of the licence server.
THEOREM LicenseTyped == Spec => []TypeOK
  <1>1. Working => TypeOK
    <2> SUFFICES ASSUME Working
                 PROVE  TypeOK
      OBVIOUS
    <2>1. Len(events) \in Nat /\ Len(events) <= MaxEvents
      BY DEF Working, TableShape
    <2>2. msg \in [Worker -> 0..MaxEvents]
      BY <2>1, LicenseAssumption DEF Working, WorkerShape
    <2> QED BY <2>2 DEF Working, TableShape, WorkerShape, TypeOK
  <1> QED BY <1>1, Works, PTL

\* A message that is redelivered, also after a commit that reported an error,
\* gives no product twice: a second row comes from a worker whose user was
\* changed under it, from one that did not see the first, or from a request
\* that names a product twice.
THEOREM NoSecondRow == Spec => []OneRowUnlessOverlap
  <1>1. Init => OneRowUnlessOverlap
    BY DEF Init, OneRowUnlessOverlap, NoRows
  <1>2. ASSUME Working, settled \subseteq User, OneRowUnlessOverlap, [Next]_vars
        PROVE  OneRowUnlessOverlap'
    <2> SUFFICES ASSUME NEW u \in User, NEW p \in Product, rows'[u][p] > 1
                 PROVE  <<u, p>> \in twins'
      BY DEF OneRowUnlessOverlap
    <2>1. CASE UNCHANGED <<rows, twins>>
      BY <1>2, <2>1 DEF OneRowUnlessOverlap
    <2>2. CASE Quiet
      BY <2>1, <2>2 DEF Quiet
    <2>3. ASSUME NEW w \in Worker, Write(w)
          PROVE  <<u, p>> \in twins'
      <3>1. /\ pc[w] = "count"
            /\ rows'[u][p] = (IF Removed(w, u, p) THEN 0 ELSE rows[u][p]) + Added(w, u, p)
            /\ \/ <<u, p>> \in twins
               \/ Added(w, u, p) > 0 /\ (u \in moved[w] \/ Added(w, u, p) > 1)
               => <<u, p>> \in twins'
        BY <1>2, <2>3, WriteMoves
      <3>2. /\ rows[u][p] \in Nat /\ Added(w, u, p) \in Nat
            /\ Added(w, u, p) > 0 => own[w][u][p] = 0
        BY <1>2, AddedType DEF Working, TableShape
      <3>3. u \notin moved[w] => own[w][u] = rows[u]
        BY <1>2, <3>1 DEF Working, WorkerInv
      <3>4. CASE Added(w, u, p) = 0
        BY <1>2, <3>1, <3>2, <3>4 DEF OneRowUnlessOverlap
      <3>5. CASE Added(w, u, p) > 0 /\ u \in moved[w]
        BY <3>1, <3>5
      <3>6. CASE Added(w, u, p) > 0 /\ u \notin moved[w]
        <4>1. rows[u][p] = 0
          BY <3>2, <3>3, <3>6
        <4>2. Added(w, u, p) > 1
          BY <3>1, <3>2, <4>1
        <4> QED BY <3>1, <3>6, <4>2
      <3> QED BY <3>2, <3>4, <3>5, <3>6
    <2>4. ASSUME NEW w \in Worker, userDeleteAllProducts(w)
          PROVE  <<u, p>> \in twins'
      <3>1. /\ \A q \in Product : rows'[Target(w)][q] = 0
            /\ \A v \in User \ {Target(w)} : rows'[v] = rows[v]
            /\ twins' = {t \in twins : t[1] # Target(w)}
        BY <1>2, <2>4, DeleteMoves
      <3>2. u # Target(w) /\ rows[u][p] > 1
        BY <3>1
      <3>3. <<u, p>> \in twins
        BY <1>2, <3>2 DEF OneRowUnlessOverlap
      <3> QED BY <3>1, <3>2, <3>3
    <2>5. ASSUME NEW v \in User,
                 UserCreated(v) \/ UserDisabled(v) \/ UserEnabled(v) \/ UserDeleted(v)
          PROVE  <<u, p>> \in twins'
      BY <1>2, <2>1, <2>5, UsersStep
    <2>6. ASSUME NEW i \in 1..MaxEvents, pub_nsq_msg(i) \/ LoseMessage(i)
          PROVE  <<u, p>> \in twins'
      BY <1>2, <2>1, <2>6, MailMoves DEF database
    <2> QED BY <1>2, <2>2, <2>3, <2>4, <2>5, <2>6, Steps
  <1> QED BY <1>1, <1>2, Works, PTL DEF Spec

\* The last audit row about a user tells what the user has, as long as no
\* message changed it and the request's view was not outdated.
THEOREM AuditIsTrue == Spec => []AuditTells
  <1>1. Init => AuditTells
    BY DEF Init, AuditTells, Has, NoRows
  <1>2. ASSUME Working, settled \subseteq User, AuditTells, [Next]_vars
        PROVE  AuditTells'
    <2> SUFFICES ASSUME NEW u \in settled'
                 PROVE  Has(rows', u) = audit'[u]
      BY DEF AuditTells, Has
    <2>1. CASE u \in settled /\ rows'[u] = rows[u] /\ audit'[u] = audit[u]
      BY <1>2, <2>1 DEF AuditTells, Has
    <2>2. CASE Quiet
      BY <2>1, <2>2 DEF Quiet
    <2>3. ASSUME NEW w \in Worker, Write(w)
          PROVE  Has(rows', u) = audit'[u]
      <3>1. /\ pc[w] = "count"
            /\ \A v \in User, p \in Product :
                  rows'[v][p] = (IF Removed(w, v, p) THEN 0 ELSE rows[v][p]) + Added(w, v, p)
            /\ \/ u \in settled /\ rows'[u] = rows[u] /\ audit'[u] = audit[u]
               \/ /\ req[w] # NoRequest /\ u \in DOMAIN req[w] \ moved[w]
                  /\ audit'[u] = Range(req[w][u])
        BY <1>2, <2>3, WriteMoves
      <3>2. CASE /\ req[w] # NoRequest /\ u \in DOMAIN req[w] \ moved[w]
                 /\ audit'[u] = Range(req[w][u])
        <4>1. u \in User /\ Range(req[w][u]) \subseteq Product
          <5>1. PICK q \in Requests : q = req[w]
            BY <1>2, <3>2 DEF Working, WorkerShape
          <5>2. u \in User /\ q[u] \in Seq(Product)
            BY <3>2, <5>1, RequestType
          <5>3. \A s \in Seq(Product) : Range(s) \subseteq Product
            BY DEF Range
          <5> QED BY <5>1, <5>2, <5>3
        <4>2. own[w][u] = rows[u]
          BY <1>2, <3>1, <3>2, <4>1 DEF Working, WorkerInv
        <4>3. ASSUME NEW p \in Product
              PROVE  rows'[u][p] > 0 <=> p \in Range(req[w][u])
          <5>1. /\ Added(w, u, p) \in Nat
                /\ Added(w, u, p) > 0 => own[w][u][p] = 0
                /\ Removed(w, u, p) => own[w][u][p] > 0
                /\ own[w][u][p] = 0 => (Added(w, u, p) > 0 <=> p \in Range(req[w][u]))
                /\ own[w][u][p] > 0 => (Removed(w, u, p) <=> p \notin Range(req[w][u]))
            BY <1>2, <3>2, <4>1, AddedType DEF Working
          <5>2. rows[u][p] \in Nat
            BY <1>2, <4>1 DEF Working, TableShape
          <5>3. CASE rows[u][p] = 0
            BY <3>1, <4>1, <4>2, <5>1, <5>2, <5>3
          <5>4. CASE rows[u][p] > 0
            <6>1. Added(w, u, p) = 0
              BY <4>2, <5>1, <5>2, <5>4
            <6> QED BY <3>1, <4>1, <4>2, <5>1, <5>2, <5>4, <6>1
          <5> QED BY <5>2, <5>3, <5>4
        <4> QED BY <3>2, <4>1, <4>3 DEF Has
      <3> QED BY <2>1, <3>1, <3>2
    <2>4. ASSUME NEW w \in Worker, userDeleteAllProducts(w)
          PROVE  Has(rows', u) = audit'[u]
      <3>1. /\ settled' \subseteq settled /\ audit' = audit
            /\ \A v \in settled' : v \in User => rows'[v] = rows[v]
        BY <1>2, <2>4, DeleteMoves
      <3> QED BY <1>2, <2>1, <3>1
    <2>5. ASSUME NEW v \in User,
                 UserCreated(v) \/ UserDisabled(v) \/ UserEnabled(v) \/ UserDeleted(v)
          PROVE  Has(rows', u) = audit'[u]
      BY <1>2, <2>1, <2>5, UsersStep
    <2>6. ASSUME NEW i \in 1..MaxEvents, pub_nsq_msg(i) \/ LoseMessage(i)
          PROVE  Has(rows', u) = audit'[u]
      BY <1>2, <2>1, <2>6, MailMoves DEF database
    <2> QED BY <1>2, <2>2, <2>3, <2>4, <2>5, <2>6, Steps
  <1> QED BY <1>1, <1>2, Works, PTL DEF Spec

\* Steps that leave the rows of a user, or say why they do not.
LEMMA LastKept ==
    ASSUME NEW u \in User, NEW d \in 1..Len(events), Last(u, d), events' = events,
           latest'[u] = d => \/ /\ latest[u] = d
                                /\ \/ /\ rows'[u] = rows[u]
                                      /\ u \in crossed => u \in crossed'
                                      /\ u \in outlived => u \in outlived'
                                   \/ u \in crossed' \/ u \in outlived'
                             \/ \A p \in Product : rows'[u][p] = 0
    PROVE  Last(u, d)'
  <1>1. /\ events'[d].user = u /\ events'[d].kind = "deleted"
        /\ \A i \in 1..Len(events') : events'[i].user = u => i <= d
    BY DEF Last
  <1>2. ASSUME latest'[u] = d
        PROVE  Has(rows', u) = {} \/ u \in crossed' \/ u \in outlived'
    <2>1. CASE \A p \in Product : rows'[u][p] = 0
      BY <2>1 DEF Has
    <2>2. CASE latest[u] = d /\ rows'[u] = rows[u] /\ (u \in crossed => u \in crossed')
               /\ (u \in outlived => u \in outlived')
      <3>1. Has(rows', u) = Has(rows, u)
        BY <2>2 DEF Has
      <3> QED BY <2>2, <3>1 DEF Last
    <2> QED BY <1>2, <2>1, <2>2
  <1> QED BY <1>1, <1>2 DEF Last, Has

\* The parts of the invariant.
Deleting == Handled /\ \A u \in User : DeletedInv(u)

\* A worker has written for a request: only users it had found change.
LEMMA DeletingRequest ==
    ASSUME Working, settled \subseteq User, Deleting, NEW w \in Worker, Write(w),
           req[w] # NoRequest
    PROVE  Deleting'
  <1>1. /\ pc[w] = "count" /\ UNCHANGED <<status, events, owed, untold, latest, crossed>>
        /\ pending' \subseteq pending /\ pending \ pending' \subseteq {msg[w]}
        /\ \A u \in User, p \in Product :
              rows'[u][p] = (IF Removed(w, u, p) THEN 0 ELSE rows[u][p]) + Added(w, u, p)
        /\ outlived \subseteq outlived'
        /\ \A u \in User : /\ u \in known[w] /\ rows'[u] # rows[u] /\ status[u] = "deleted"
                           => u \in outlived'
        /\ TableShape'
    BY WriteMoves DEF Working
  <1>2. msg[w] = 0 /\ known[w] = DOMAIN req[w]
    BY <1>1 DEF Working, WorkerInv, Serving
  <1>3. pending' = pending
    <2>1. 0 \notin pending
      BY DEF Working, TableShape
    <2> QED BY <1>1, <1>2, <2>1
  <1>4. ASSUME NEW u \in User, u \notin known[w]
        PROVE  rows'[u] = rows[u]
    <2>1. \A p \in Product : rows'[u][p] = rows[u][p]
      <3> TAKE p \in Product
      <3>1. Added(w, u, p) = 0 /\ ~Removed(w, u, p) /\ rows[u][p] \in Nat
        BY <1>2, <1>4, AddedType DEF Working, TableShape
      <3> QED BY <1>1, <3>1
    <2>2. rows[u] \in [Product -> Nat] /\ rows'[u] \in [Product -> Nat]
      BY <1>1 DEF Working, TableShape
    <2> QED BY <2>1, <2>2
  <1>5. ASSUME NEW u \in User
        PROVE  DeletedInv(u)'
    <2>1. latest'[u] # 0 => events'[latest'[u]].user = u
      BY <1>1 DEF Deleting, DeletedInv
    <2>2. ASSUME status'[u] = "deleted", u \notin untold'
          PROVE  \E d \in 1..Len(events') : Last(u, d)'
      <3>1. PICK d \in 1..Len(events) : Last(u, d)
        BY <1>1, <2>2 DEF Deleting, DeletedInv
      <3>2. rows'[u] = rows[u] \/ u \in outlived'
        BY <1>1, <1>4, <2>2
      <3>3. Last(u, d)'
        BY <1>1, <3>1, <3>2, LastKept
      <3> QED BY <1>1, <3>3
    <2> QED BY <2>1, <2>2 DEF DeletedInv
  <1>6. Handled'
    BY <1>1, <1>3 DEF Deleting, Handled
  <1> QED BY <1>5, <1>6 DEF Deleting

\* A message has taken effect: the one it is about has nothing, or an older
\* message came last.
LEMMA DeletingMessage ==
    ASSUME Working, settled \subseteq User, Deleting, NEW w \in Worker,
           \/ Write(w) /\ req[w] = NoRequest
           \/ userDeleteAllProducts(w)
    PROVE  Deleting'
  <1>1. PICK t : t = Target(w)
    OBVIOUS
  <1>2. msg[w] \in 1..Len(events)
    <2>1. CASE Write(w) /\ req[w] = NoRequest
      <3>1. pc[w] = "count" /\ WorkerInv(w) /\ msg[w] \in 0..Len(events) /\ Len(events) \in Nat
        BY <2>1, WriteMoves DEF Working, WorkerShape, TableShape
      <3>2. msg[w] # 0
        BY <2>1, <3>1 DEF WorkerInv, Serving
      <3> QED BY <3>1, <3>2
    <2>2. CASE userDeleteAllProducts(w)
      BY <2>2, DeleteMoves
    <2> QED BY <2>1, <2>2
  <1>3. t \in User /\ events[msg[w]].user = t
    BY <1>1, <1>2, EventFields DEF Target, Working
  <1>4. /\ Applied(w, t) /\ UNCHANGED <<status, events, owed, untold>>
        /\ pending' \subseteq pending /\ pending \ pending' \subseteq {msg[w]}
        /\ \/ events[msg[w]].kind \in Grants
           \/ \A p \in Product : rows'[t][p] = 0
        /\ \A u \in User \ {t} : rows'[u] = rows[u]
        /\ \A u \in User \ {t} : u \in outlived => u \in outlived'
    <2>1. CASE Write(w) /\ req[w] = NoRequest
      <3>1. /\ pc[w] = "count" /\ Applied(w, t) /\ UNCHANGED <<status, events, owed, untold>>
            /\ pending' \subseteq pending /\ pending \ pending' \subseteq {msg[w]}
            /\ \A u \in User, p \in Product :
                  rows'[u][p] = (IF Removed(w, u, p) THEN 0 ELSE rows[u][p]) + Added(w, u, p)
            /\ outlived \subseteq outlived'
            /\ TableShape'
        BY <1>1, <2>1, WriteMoves DEF Working
      <3>2. events[msg[w]].kind \in Grants
        BY <2>1, <3>1 DEF Working, WorkerInv, Serving
      <3>3. ASSUME NEW u \in User \ {t}
            PROVE  rows'[u] = rows[u]
        <4>1. \A p \in Product : rows'[u][p] = rows[u][p]
          <5> TAKE p \in Product
          <5>1. Added(w, u, p) = 0 /\ ~Removed(w, u, p) /\ rows[u][p] \in Nat
            BY <1>1, <2>1, AddedType DEF Working, TableShape
          <5> QED BY <3>1, <5>1
        <4>2. rows[u] \in [Product -> Nat] /\ rows'[u] \in [Product -> Nat]
          BY <3>1 DEF Working, TableShape
        <4> QED BY <4>1, <4>2
      <3> QED BY <3>1, <3>2, <3>3
    <2>2. CASE userDeleteAllProducts(w)
      <3>1. /\ Applied(w, t) /\ UNCHANGED <<status, events, owed, untold>>
            /\ pending' \subseteq pending /\ pending \ pending' \subseteq {msg[w]}
            /\ \A p \in Product : rows'[t][p] = 0
            /\ \A u \in User \ {t} : rows'[u] = rows[u]
            /\ outlived' = outlived \ {t}
        BY <1>1, <2>2, DeleteMoves
      <3> QED BY <3>1
    <2> QED BY <2>1, <2>2
  <1>5. /\ latest'[t] = IF latest[t] >= msg[w] THEN latest[t] ELSE msg[w]
        /\ \A v \in User \ {t} : latest'[v] = latest[v]
        /\ \A v \in User \ {t} : v \in crossed' <=> v \in crossed
        /\ msg[w] < latest[t] => t \in crossed'
    BY <1>2, <1>3, <1>4, AppliedMoves DEF Working
  <1>6. \A v \in User : latest[v] \in Nat
    BY DEF Working, TableShape
  <1>7. ASSUME NEW u \in User
        PROVE  DeletedInv(u)'
    <2>1. latest'[u] # 0 => events'[latest'[u]].user = u
      BY <1>3, <1>4, <1>5 DEF Deleting, DeletedInv
    <2>2. ASSUME status'[u] = "deleted", u \notin untold'
          PROVE  \E d \in 1..Len(events') : Last(u, d)'
      <3>1. PICK d \in 1..Len(events) : Last(u, d)
        BY <1>4, <2>2 DEF Deleting, DeletedInv
      <3>2. CASE u # t
        <4>1. Last(u, d)'
          BY <1>4, <1>5, <3>1, <3>2, LastKept
        <4> QED BY <1>4, <4>1
      <3>3. CASE u = t
        <4>1. msg[w] <= d /\ events[d].kind = "deleted"
          BY <1>2, <1>3, <3>1, <3>3 DEF Last
        <4>2. CASE msg[w] = d
          <5>1. \A p \in Product : rows'[u][p] = 0
            BY <1>4, <3>3, <4>1, <4>2 DEF Grants
          <5>2. Last(u, d)'
            BY <1>4, <3>1, <5>1, LastKept
          <5> QED BY <1>4, <5>2
        <4>3. CASE msg[w] # d
          <5>1. latest'[u] = d => latest[u] = d /\ u \in crossed'
            BY <1>2, <1>5, <1>6, <3>3, <4>1, <4>3
          <5>2. Last(u, d)'
            BY <1>4, <3>1, <5>1, LastKept
          <5> QED BY <1>4, <5>2
        <4> QED BY <4>2, <4>3
      <3> QED BY <3>2, <3>3
    <2> QED BY <2>1, <2>2 DEF DeletedInv
  <1>8. ASSUME NEW i \in 1..Len(events'), events'[i].kind = "deleted",
               i \notin owed' \cup pending', events'[i].user \notin untold'
        PROVE  latest'[events'[i].user] >= i
    <2>1. events[i].user \in User /\ i \in 1..Len(events) /\ i \in Nat
      BY <1>4, EventFields DEF Working
    <2>2. latest'[events[i].user] >= latest[events[i].user]
      BY <1>2, <1>5, <1>6, <2>1
    <2>3. CASE i = msg[w]
      BY <1>2, <1>3, <1>4, <1>5, <1>6, <2>3
    <2>4. CASE i # msg[w]
      <3>1. latest[events[i].user] >= i
        BY <1>4, <1>8, <2>1, <2>4 DEF Deleting, Handled
      <3>2. latest[events[i].user] \in Nat /\ latest'[events[i].user] \in Nat
        BY <1>2, <1>5, <1>6, <2>1
      <3> QED BY <1>4, <2>1, <2>2, <3>1, <3>2
    <2> QED BY <2>3, <2>4
  <1>9. Handled'
    BY <1>8 DEF Handled
  <1> QED BY <1>7, <1>9 DEF Deleting

\* A user is created, disabled, enabled or deleted.
LEMMA DeletingUsers ==
    ASSUME Working, Deleting, NEW u \in User,
           UserCreated(u) \/ UserDisabled(u) \/ UserEnabled(u) \/ UserDeleted(u)
    PROVE  Deleting'
  <1>1. /\ UNCHANGED <<rows, latest, crossed, outlived, untold>>
        /\ Len(events) \in Nat /\ Len(events') = Len(events) + 1
        /\ \A i \in 1..Len(events) : events'[i] = events[i]
        /\ events'[Len(events')].user = u
        /\ owed' = owed \cup {Len(events')} /\ pending' = pending
        /\ \A v \in User \ {u} : status'[v] = status[v]
        /\ status[u] # "deleted"
        /\ status'[u] = "deleted" => events'[Len(events')].kind = "deleted"
    BY UsersStep
  <1>2. \A v \in User : latest[v] \in 0..Len(events)
    BY DEF Working, TableShape
  <1>3. ASSUME NEW v \in User
        PROVE  DeletedInv(v)'
    <2>1. latest'[v] # 0 => events'[latest'[v]].user = v
      BY <1>1, <1>2 DEF Deleting, DeletedInv
    <2>2. ASSUME status'[v] = "deleted", v \notin untold'
          PROVE  \E d \in 1..Len(events') : Last(v, d)'
      <3>1. CASE v = u
        <4>1. Len(events') \in 1..Len(events') /\ latest'[v] # Len(events')
          BY <1>1, <1>2
        <4>2. PICK n : n = Len(events')
          OBVIOUS
        <4>3. /\ events'[n].user = v /\ events'[n].kind = "deleted" /\ latest'[v] # n
              /\ \A i \in 1..Len(events') : events'[i].user = v => i <= n
          BY <1>1, <2>2, <3>1, <4>1, <4>2
        <4>4. Last(v, n)'
          BY <4>3 DEF Last, Has
        <4> QED BY <4>1, <4>2, <4>4
      <3>2. CASE v # u
        <4>1. PICK d \in 1..Len(events) : Last(v, d)
          BY <1>1, <2>2, <3>2 DEF Deleting, DeletedInv
        <4>2. d \in 1..Len(events')
          BY <1>1
        <4>3. /\ events'[d].user = v /\ events'[d].kind = "deleted"
              /\ \A i \in 1..Len(events') : events'[i].user = v => i <= d
          BY <1>1, <3>2, <4>1 DEF Last
        <4>4. latest'[v] = d => Has(rows', v) = {} \/ v \in crossed' \/ v \in outlived'
          BY <1>1, <4>1 DEF Last, Has
        <4>5. Last(v, d)'
          BY <4>3, <4>4 DEF Last, Has
        <4> QED BY <4>2, <4>5
      <3> QED BY <3>1, <3>2
    <2> QED BY <2>1, <2>2 DEF DeletedInv
  <1>4. Handled'
    <2> SUFFICES ASSUME NEW i \in 1..Len(events'), events'[i].kind = "deleted",
                        i \notin owed' \cup pending', events'[i].user \notin untold'
                 PROVE  latest'[events'[i].user] >= i
      BY DEF Handled
    <2>1. i \in 1..Len(events)
      BY <1>1
    <2> QED BY <1>1, <2>1 DEF Deleting, Handled
  <1> QED BY <1>3, <1>4 DEF Deleting

\* A message is published or lost.
LEMMA DeletingMail ==
    ASSUME Working, Deleting, NEW i \in 1..MaxEvents, pub_nsq_msg(i) \/ LoseMessage(i)
    PROVE  Deleting'
  <1>1. /\ UNCHANGED <<events, rows, latest, crossed, outlived>>
        /\ untold \subseteq untold'
        /\ \A u \in User : status'[u] = "deleted" => status[u] = "deleted" \/ u \in untold'
        /\ \A j \in owed \cup pending :
              \/ j \in owed' \cup pending'
              \/ events[j].kind = "deleted" => events[j].user \in untold'
    BY MailMoves DEF database
  <1>2. \A u \in User : DeletedInv(u)'
    BY <1>1 DEF Deleting, DeletedInv, Last, Has
  <1>3. Handled'
    BY <1>1 DEF Deleting, Handled
  <1> QED BY <1>2, <1>3 DEF Deleting

\* Once the messages about a deleted user are published and acknowledged, the
\* user holds no product, unless an older message took effect last, a request
\* that had found the user came later, or the removal was never told.
THEOREM DeletedUserStripped == Spec => []DeletedUserHoldsNothing
  <1>1. Init => Deleting
    <2> SUFFICES ASSUME Init
                 PROVE  Deleting
      OBVIOUS
    <2>1. Len(events) = 0
      BY InitWorking
    <2>2. \A u \in User : latest[u] = 0 /\ status[u] # "deleted"
      BY LicenseAssumption DEF Init
    <2> QED BY <2>1, <2>2 DEF Deleting, Handled, DeletedInv
  <1>2. ASSUME Working, settled \subseteq User, Deleting, [Next]_vars
        PROVE  Deleting'
    <2>1. CASE Quiet
      <3>1. /\ UNCHANGED <<status, events, owed, untold, rows, latest, crossed, outlived>>
            /\ \A i \in pending \ pending' : events[i].kind \in Grants
        BY <2>1 DEF Quiet
      <3>2. \A u \in User : DeletedInv(u)'
        BY <1>2, <3>1 DEF Deleting, DeletedInv, Last, Has
      <3>3. Handled'
        BY <1>2, <3>1 DEF Deleting, Handled, Grants
      <3> QED BY <3>2, <3>3 DEF Deleting
    <2>2. ASSUME NEW w \in Worker, Write(w)
          PROVE  Deleting'
      BY <1>2, <2>2, DeletingRequest, DeletingMessage
    <2>3. ASSUME NEW w \in Worker, userDeleteAllProducts(w)
          PROVE  Deleting'
      BY <1>2, <2>3, DeletingMessage
    <2>4. ASSUME NEW u \in User,
                 UserCreated(u) \/ UserDisabled(u) \/ UserEnabled(u) \/ UserDeleted(u)
          PROVE  Deleting'
      BY <1>2, <2>4, DeletingUsers
    <2>5. ASSUME NEW i \in 1..MaxEvents, pub_nsq_msg(i) \/ LoseMessage(i)
          PROVE  Deleting'
      BY <1>2, <2>5, DeletingMail
    <2> QED BY <1>2, <2>1, <2>2, <2>3, <2>4, <2>5, Steps
  <1>3. ASSUME Working, Deleting
        PROVE  DeletedUserHoldsNothing
    <2> SUFFICES ASSUME NEW u \in User, status[u] = "deleted",
                        \A i \in owed \cup pending : events[i].user # u,
                        u \notin untold
                 PROVE  Has(rows, u) = {} \/ u \in crossed \/ u \in outlived
      BY DEF DeletedUserHoldsNothing
    <2>1. PICK d \in 1..Len(events) : Last(u, d)
      BY <1>3 DEF Deleting, DeletedInv
    <2>2. d \notin owed \cup pending /\ events[d].kind = "deleted" /\ events[d].user = u
      BY <2>1 DEF Last
    <2>3. latest[u] >= d
      BY <1>3, <2>2 DEF Deleting, Handled
    <2>4. latest[u] \in 1..Len(events)
      BY <1>3, <2>3 DEF Working, TableShape
    <2>5. events[latest[u]].user = u
      BY <1>3, <2>4 DEF Deleting, DeletedInv
    <2>6. latest[u] <= d
      BY <2>1, <2>4, <2>5 DEF Last
    <2>7. latest[u] = d
      BY <2>3, <2>4, <2>6
    <2> QED BY <2>1, <2>7 DEF Last
  <1> QED BY <1>1, <1>2, <1>3, Works, PTL DEF Spec
-----------------------------------------------------------------------------
(* The number of rows.                                                     *)

Units(f) == UNION {{u} \X (1..f[u]) : u \in DOMAIN f}

\* A row of u has a number up to f[u].
LEMMA UnitsOf ==
    ASSUME NEW f
    PROVE  /\ \A x : x \in Units(f) <=> \E u \in DOMAIN f : \E k \in 1..f[u] : x = <<u, k>>
           /\ \A u, k : <<u, k>> \in Units(f) <=> u \in DOMAIN f /\ k \in 1..f[u]
  BY DEF Units

\* Finitely many users have finitely many rows.
LEMMA TotalType ==
    ASSUME NEW f \in [User -> Nat]
    PROVE  IsFiniteSet(Units(f)) /\ Total(f) = Cardinality(Units(f)) /\ Total(f) \in Nat
  <1>0. IsFiniteSet(User)
    BY LicenseAssumption
  <1>1. PICK g : g = [u \in User |-> {u} \X (1..f[u])]
    OBVIOUS
  <1>2. PICK T : T = {{u} \X (1..f[u]) : u \in User}
    OBVIOUS
  <1>3. g \in Surjection(User, T)
    BY <1>1, <1>2 DEF Surjection
  <1>4. IsFiniteSet(T)
    BY <1>0, <1>3, FS_Surjection
  <1>5. \A X \in T : IsFiniteSet(X)
    <2> SUFFICES ASSUME NEW u \in User
                 PROVE  IsFiniteSet({u} \X (1..f[u]))
      BY <1>2
    <2>1. IsFiniteSet({u})
      BY FS_Singleton
    <2>2. PICK n \in Nat : n = f[u]
      OBVIOUS
    <2>3. IsFiniteSet(1..n)
      BY FS_Interval
    <2> QED BY <2>1, <2>2, <2>3, FS_Product
  <1>6. IsFiniteSet(UNION T)
    BY <1>4, <1>5, FS_UNION
  <1>7. Units(f) = UNION T /\ Total(f) = Cardinality(UNION T)
    BY <1>2 DEF Units, Total
  <1> QED BY <1>6, <1>7, FS_CardinalityType

\* Sums.
LEMMA TotalAdd ==
    ASSUME NEW f \in [User -> Nat], NEW g \in [User -> Nat],
           NEW h \in [User -> Nat], \A u \in User : h[u] = f[u] + g[u]
    PROVE  Total(h) = Total(f) + Total(g)
  <1>1. PICK F, G, H : F = Units(f) /\ G = Units(g) /\ H = Units(h)
    OBVIOUS
  <1>2. /\ IsFiniteSet(F) /\ Total(f) = Cardinality(F) /\ Total(f) \in Nat
        /\ IsFiniteSet(G) /\ Total(g) = Cardinality(G) /\ Total(g) \in Nat
        /\ IsFiniteSet(H) /\ Total(h) = Cardinality(H) /\ Total(h) \in Nat
    BY <1>1, TotalType
  <1>3. /\ \A u, k : <<u, k>> \in F <=> u \in User /\ k \in 1..f[u]
        /\ \A u, k : <<u, k>> \in G <=> u \in User /\ k \in 1..g[u]
        /\ \A u, k : <<u, k>> \in H <=> u \in User /\ k \in 1..h[u]
        /\ \A x \in F \cup G \cup H : x = <<x[1], x[2]>> /\ x[1] \in User /\ x[2] \in Nat
    <2>1. DOMAIN f = User /\ DOMAIN g = User /\ DOMAIN h = User
      OBVIOUS
    <2>2. ASSUME NEW e \in [User -> Nat], NEW x \in Units(e)
          PROVE  x = <<x[1], x[2]>> /\ x[1] \in User /\ x[2] \in Nat
      <3>1. PICK u \in User, k \in Nat : k \in 1..e[u] /\ x = <<u, k>>
        BY <2>2, UnitsOf
      <3> QED BY <3>1
    <2> QED BY <1>1, <2>1, <2>2, UnitsOf
  <1>4. PICK s : s = [x \in G |-> <<x[1], f[x[1]] + x[2]>>]
    OBVIOUS
  <1>5. s \in Bijection(G, H \ F)
    <2>1. ASSUME NEW x \in G
          PROVE  s[x] \in H \ F
      <3>1. PICK u \in User, k \in Nat : k \in 1..g[u] /\ x = <<u, k>>
        BY <1>3
      <3>2. s[x] = <<u, f[u] + k>> /\ f[u] \in Nat /\ g[u] \in Nat
        BY <1>4, <3>1
      <3>3. f[u] + k \in 1..h[u] /\ f[u] + k \notin 1..f[u]
        BY <3>1, <3>2
      <3> QED BY <1>3, <3>2, <3>3
    <2>2. ASSUME NEW x \in G, NEW y \in G, s[x] = s[y]
          PROVE  x = y
      <3>1. /\ x = <<x[1], x[2]>> /\ x[1] \in User /\ x[2] \in Nat
            /\ y = <<y[1], y[2]>> /\ y[1] \in User /\ y[2] \in Nat
        BY <1>3
      <3>2. x[1] = y[1] /\ f[x[1]] + x[2] = f[y[1]] + y[2] /\ f[x[1]] \in Nat
        BY <1>4, <2>2, <3>1
      <3>3. x[2] = y[2]
        BY <3>1, <3>2
      <3>4. <<x[1], x[2]>> = <<y[1], y[2]>>
        BY <3>2, <3>3
      <3> QED BY <3>1, <3>4
    <2>3. ASSUME NEW z \in H \ F
          PROVE  \E x \in G : s[x] = z
      <3>1. z = <<z[1], z[2]>> /\ z[1] \in User /\ z[2] \in 1..h[z[1]]
            /\ z[2] \notin 1..f[z[1]]
        BY <1>3
      <3>2. PICK u \in User, k \in Nat : u = z[1] /\ k = z[2]
        BY <3>1
      <3>3. f[u] \in Nat /\ g[u] \in Nat /\ k - f[u] \in 1..g[u] /\ f[u] + (k - f[u]) = k
        BY <3>1, <3>2
      <3>4. <<u, k - f[u]>> \in G
        BY <1>3, <3>3
      <3>5. s[<<u, k - f[u]>>] = <<u, f[u] + (k - f[u])>>
        BY <1>4, <3>4
      <3> QED BY <3>1, <3>2, <3>3, <3>4, <3>5
    <2>4. s \in [G -> H \ F]
      BY <1>4, <2>1
    <2> QED BY <2>2, <2>3, <2>4 DEF Bijection, Injection, Surjection, IsInjective
  <1>6. Cardinality(H \ F) = Cardinality(G)
    BY <1>2, <1>5, FS_Bijection DEF ExistsBijection
  <1>7. F \subseteq H
    <2> SUFFICES ASSUME NEW x \in F
                 PROVE  x \in H
      OBVIOUS
    <2>1. PICK u \in User, k \in Nat : k \in 1..f[u] /\ x = <<u, k>>
      BY <1>3
    <2>2. k \in 1..h[u]
      <3>1. f[u] \in Nat /\ g[u] \in Nat /\ h[u] = f[u] + g[u]
        OBVIOUS
      <3> QED BY <2>1, <3>1
    <2> QED BY <1>3, <2>1, <2>2
  <1>8. Cardinality(H \ F) = Cardinality(H) - Cardinality(F)
    <2>1. H \cap F = F
      BY <1>7
    <2>2. Cardinality(H \ F) = Cardinality(H) - Cardinality(H \cap F)
      BY <1>2, FS_Difference
    <2> QED BY <2>1, <2>2
  <1> QED BY <1>2, <1>6, <1>8

\* More rows.
LEMMA TotalMore ==
    ASSUME NEW f \in [User -> Nat], NEW g \in [User -> Nat],
           \A u \in User : f[u] <= g[u]
    PROVE  Total(f) <= Total(g)
  <1>1. PICK d : d = [u \in User |-> g[u] - f[u]]
    OBVIOUS
  <1>2. d \in [User -> Nat] /\ \A u \in User : g[u] = f[u] + d[u]
    BY <1>1
  <1>3. Total(g) = Total(f) + Total(d) /\ Total(f) \in Nat /\ Total(d) \in Nat
    BY <1>2, TotalAdd, TotalType
  <1> QED BY <1>3

\* Users without a row do not count.
LEMMA TotalRest ==
    ASSUME NEW f, NEW g, DOMAIN f \subseteq DOMAIN g,
           \A u \in DOMAIN f : g[u] = f[u],
           \A u \in DOMAIN g \ DOMAIN f : g[u] = 0
    PROVE  Total(f) = Total(g)
  <1>1. \A u, k : <<u, k>> \in Units(f) <=> <<u, k>> \in Units(g)
    <2>1. 1..0 = {}
      OBVIOUS
    <2> QED BY <2>1, UnitsOf
  <1>2. Units(f) = Units(g)
    <2>1. \A x \in Units(f) \cup Units(g) : \E u, k : x = <<u, k>>
      BY UnitsOf
    <2> QED BY <1>1, <2>1
  <1> QED BY <1>2 DEF Total, Units

\* One row.
LEMMA TotalOne ==
    ASSUME NEW f \in [User -> Nat], NEW u,
           \A v \in User : f[v] = 0 \/ (v = u /\ f[v] = 1)
    PROVE  Total(f) <= 1
  <1>1. Units(f) \subseteq {<<u, 1>>}
    <2> SUFFICES ASSUME NEW x \in Units(f)
                 PROVE  x = <<u, 1>>
      OBVIOUS
    <2>1. PICK v \in User, k \in Nat : k \in 1..f[v] /\ x = <<v, k>>
      BY UnitsOf
    <2>2. v = u /\ f[v] = 1
      BY <2>1
    <2> QED BY <2>1, <2>2
  <1>2. IsFiniteSet({<<u, 1>>}) /\ Cardinality({<<u, 1>>}) = 1
    BY FS_Singleton
  <1>3. Cardinality(Units(f)) <= 1
    BY <1>1, <1>2, FS_Subset
  <1> QED BY <1>3, TotalType
-----------------------------------------------------------------------------
(* The licences that are in use: no table, in a cache or in the hands of a *)
(* worker, has a larger quota than the largest that there ever was.        *)

Within(a, b) == b = Unlimited \/ (a # Unlimited /\ a <= b)
Held(t) == \A p \in DOMAIN t :
              /\ p \in Product /\ t[p] \in Nat \cup {Unlimited}
              /\ Within(t[p], highest[p])
HighInv ==
    /\ highest \in [Product -> Nat \cup {Unlimited}]
    /\ Held(licence)
    /\ \A r \in Replica : Held(cache[r])
    /\ \A w \in Worker : Held(lic[w])

\* The table of no licences and parts of a table.
LEMMA HeldParts ==
    ASSUME NEW D
    PROVE  /\ Held(NoTable)
           /\ \A t : Held(t) => Held(Restrict(t, DOMAIN t \cap D))
  <1>1. DOMAIN NoTable = {}
    BY DEF NoTable
  <1>2. \A t : /\ DOMAIN Restrict(t, DOMAIN t \cap D) \subseteq DOMAIN t
               /\ \A p \in DOMAIN Restrict(t, DOMAIN t \cap D) :
                     Restrict(t, DOMAIN t \cap D)[p] = t[p]
    BY DEF Restrict
  <1> QED BY <1>1, <1>2 DEF Held

\* While the licence stays, every table comes from one that is there.
LEMMA HighKept ==
    ASSUME HighInv, UNCHANGED <<licence, highest>>,
           \A r \in Replica : Held(cache'[r]), \A w \in Worker : Held(lic'[w])
    PROVE  HighInv'
  BY DEF HighInv, Held

\* A worker or a login asks for the licences.
LEMMA RefreshHeld ==
    ASSUME Working, HighInv, NEW r \in Replica, Refresh(r)
    PROVE  Held(Licences(r)) /\ \A s \in Replica : Held(cache'[s])
  <1>1. PICK t : t = Licences(r)
    OBVIOUS
  <1>2. Held(t)
    BY <1>1 DEF Licences, HighInv
  <1>3. cache' = [cache EXCEPT ![r] = t] /\ DOMAIN cache = Replica
    BY <1>1 DEF Refresh, Working, TableShape
  <1>4. \A s \in Replica : cache'[s] = t \/ cache'[s] = cache[s]
    BY <1>3
  <1> QED BY <1>1, <1>2, <1>4 DEF HighInv

\* The quotas stay below the largest.
LEMMA NextHigh ==
    ASSUME Working, HighInv, [Next]_vars
    PROVE  HighInv'
  <1>1. CASE LicenceChanges
    <2>1. PICK t \in Tables :
             /\ licence' = t
             /\ highest' = [p \in Product |->
                              IF p \in DOMAIN t THEN Larger(highest[p], t[p]) ELSE highest[p]]
             /\ UNCHANGED <<cache, lic>>
      BY <1>1 DEF LicenceChanges, cacheVars, workerVars
    <2>2. \A p \in DOMAIN t : p \in Product /\ t[p] \in Nat \cup {Unlimited}
      BY LicenseAssumption
    <2>3. ASSUME NEW a \in Nat \cup {Unlimited}, NEW b \in Nat \cup {Unlimited}
          PROVE  /\ Larger(a, b) \in Nat \cup {Unlimited}
                 /\ Within(a, Larger(a, b)) /\ Within(b, Larger(a, b))
      <3>1. CASE Unlimited \in {a, b}
        BY <3>1 DEF Larger, Within
      <3>2. CASE Unlimited \notin {a, b}
        <4>1. a \in Nat /\ b \in Nat /\ Larger(a, b) = Max({a, b})
          BY <3>2 DEF Larger
        <4>2. Max({a, b}) = IF a >= b THEN a ELSE b
          BY <4>1, MaxOfTwo
        <4> QED BY <3>2, <4>1, <4>2 DEF Within
      <3> QED BY <3>1, <3>2
    <2>4. ASSUME NEW p \in Product
          PROVE  /\ highest'[p] \in Nat \cup {Unlimited}
                 /\ Within(highest[p], highest'[p])
                 /\ p \in DOMAIN t => Within(t[p], highest'[p])
      <3>1. PICK a \in Nat \cup {Unlimited} : a = highest[p]
        BY DEF HighInv
      <3>2. CASE p \in DOMAIN t
        <4>1. PICK b \in Nat \cup {Unlimited} : b = t[p]
          BY <2>2, <3>2
        <4>2. highest'[p] = Larger(a, b)
          BY <2>1, <3>1, <3>2, <4>1
        <4> QED BY <2>3, <3>1, <4>1, <4>2
      <3>3. CASE p \notin DOMAIN t
        <4>1. highest'[p] = a
          BY <2>1, <3>1, <3>3
        <4> QED BY <3>1, <3>3, <4>1 DEF Within
      <3> QED BY <3>2, <3>3
    <2>5. highest' \in [Product -> Nat \cup {Unlimited}]
      <3>1. highest' = [p \in Product |-> highest'[p]]
        BY <2>1
      <3> QED BY <2>4, <3>1
    <2>6. ASSUME NEW s, Held(s)
          PROVE  \A p \in DOMAIN s : /\ p \in Product /\ s[p] \in Nat \cup {Unlimited}
                                     /\ Within(s[p], highest'[p])
      <3> SUFFICES ASSUME NEW p \in DOMAIN s
                   PROVE  /\ p \in Product /\ s[p] \in Nat \cup {Unlimited}
                          /\ Within(s[p], highest'[p])
        OBVIOUS
      <3>1. p \in Product /\ s[p] \in Nat \cup {Unlimited} /\ Within(s[p], highest[p])
        BY <2>6 DEF Held
      <3>2. /\ Within(highest[p], highest'[p]) /\ highest'[p] \in Nat \cup {Unlimited}
            /\ highest[p] \in Nat \cup {Unlimited}
        BY <2>4, <3>1 DEF HighInv
      <3> QED BY <3>1, <3>2 DEF Within, Unlimited
    <2>7. Held(licence)'
      BY <2>1, <2>2, <2>4 DEF Held
    <2>8. (\A r \in Replica : Held(cache[r])') /\ (\A w \in Worker : Held(lic[w])')
      BY <2>1, <2>6 DEF Held, HighInv
    <2> QED BY <2>5, <2>7, <2>8 DEF HighInv
  <1>2. CASE ~LicenceChanges
    <2>1. UNCHANGED <<licence, highest>>
      <3>1. CASE Users
        BY <3>1 DEF Users, UserCreated, UserDisabled, UserEnabled, UserDeleted, Change, history
      <3>2. ASSUME NEW r \in Replica, Time(r) \/ CheckProductAuthorized(r) \/ Crash(r)
            PROVE  UNCHANGED <<licence, highest>>
        BY <3>2 DEF Time, CheckProductAuthorized, Crash, outside, history
      <3>3. ASSUME NEW w \in Worker,
                   \/ \E i \in 1..MaxEvents : Deliver(w, i)
                   \/ \E q \in Requests : Ask(w, q)
                   \/ CallFails(w) \/ Misread(w)
            PROVE  UNCHANGED <<licence, highest>>
        BY <3>3 DEF Deliver, Ask, CallFails, Misread, Sees, Told, outside, history
      <3>4. ASSUME NEW w \in Worker, Proceed(w)
            PROVE  UNCHANGED <<licence, highest>>
        BY <3>4 DEF Proceed, GetUserInfos, GetLicenses, GetAuthorizedProducts, Sees,
                    GetProductsAuthorizedCount, Told, Decline, Write, userDeleteAllProducts,
                    Committed, Return, outside, history
      <3>5. CASE UNCHANGED vars
        BY <3>5 DEF vars
      <3>6. ASSUME NEW i \in 1..MaxEvents, pub_nsq_msg(i) \/ LoseMessage(i)
            PROVE  UNCHANGED <<licence, highest>>
        BY <3>6, MailMoves
      <3> QED BY <1>2, <3>1, <3>2, <3>3, <3>4, <3>5, <3>6 DEF Next
    <2>2. \A r \in Replica : Held(cache'[r])
      <3>1. CASE UNCHANGED cache
        BY <3>1 DEF HighInv
      <3>2. ASSUME NEW r \in Replica, Crash(r)
            PROVE  \A s \in Replica : Held(cache'[s])
        <4>1. cache' = [cache EXCEPT ![r] = NoTable] /\ DOMAIN cache = Replica
          BY <3>2 DEF Crash, Working, TableShape
        <4>2. \A s \in Replica : cache'[s] = NoTable \/ cache'[s] = cache[s]
          BY <4>1
        <4> QED BY <4>2, HeldParts DEF HighInv
      <3>3. ASSUME NEW r \in Replica, Refresh(r)
            PROVE  \A s \in Replica : Held(cache'[s])
        BY <3>3, RefreshHeld
      <3>4. \/ UNCHANGED cache
            \/ \E r \in Replica : Crash(r) \/ Refresh(r)
        <4>1. CASE Users
          BY <4>1 DEF Users, UserCreated, UserDisabled, UserEnabled, UserDeleted, Change,
                      cacheVars
        <4>2. ASSUME NEW r \in Replica, Time(r) \/ CheckProductAuthorized(r) \/ Crash(r)
              PROVE  UNCHANGED cache \/ Crash(r) \/ Refresh(r)
          BY <4>2 DEF Time, CheckProductAuthorized
        <4>3. ASSUME NEW w \in Worker,
                     \/ \E i \in 1..MaxEvents : Deliver(w, i)
                     \/ \E q \in Requests : Ask(w, q)
                     \/ CallFails(w) \/ Misread(w)
              PROVE  UNCHANGED cache
          BY <4>3 DEF Deliver, Ask, CallFails, Misread, Sees, Told, cacheVars
        <4>4. ASSUME NEW w \in Worker, Proceed(w)
              PROVE  UNCHANGED cache \/ \E r \in Replica : Refresh(r)
          <5>1. CASE GetLicenses(w)
            BY <5>1, LicenseAssumption DEF GetLicenses
          <5>2. CASE ~GetLicenses(w)
            BY <4>4, <5>2
            DEF Proceed, GetUserInfos, GetAuthorizedProducts, Sees,
                GetProductsAuthorizedCount, Told, Decline, Write, userDeleteAllProducts,
                Committed, cacheVars
          <5> QED BY <5>1, <5>2
        <4>5. CASE UNCHANGED vars
          BY <4>5 DEF vars
        <4>6. ASSUME NEW i \in 1..MaxEvents, pub_nsq_msg(i) \/ LoseMessage(i)
              PROVE  UNCHANGED cache
          BY <4>6, MailMoves DEF cacheVars
        <4> QED BY <1>2, <4>1, <4>2, <4>3, <4>4, <4>5, <4>6 DEF Next
      <3> QED BY <3>1, <3>2, <3>3, <3>4
    <2>3. \A w \in Worker : Held(lic'[w])
      <3>1. CASE UNCHANGED lic
        BY <3>1 DEF HighInv
      <3>2. ASSUME NEW W, Leave(W)
            PROVE  \A w \in Worker : Held(lic'[w])
        <4>1. \A w \in Worker : lic'[w] = NoTable \/ lic'[w] = lic[w]
          BY <3>2 DEF Leave
        <4> QED BY <4>1, HeldParts DEF HighInv
      <3>3. ASSUME NEW w \in Worker, GetLicenses(w), ~Return(w)
            PROVE  \A v \in Worker : Held(lic'[v])
        <4>1. Home[w] \in Replica /\ Refresh(Home[w])
          BY <3>3, LicenseAssumption DEF GetLicenses
        <4>2. PICK t, mine :
                 /\ t = Licences(Home[w])
                 /\ mine = t \/ mine = Restrict(t, DOMAIN t \cap Default)
                 /\ lic' = [lic EXCEPT ![w] = mine]
          BY <3>3 DEF GetLicenses
        <4>3. Held(mine)
          BY <4>1, <4>2, RefreshHeld, HeldParts
        <4>4. DOMAIN lic = Worker
          BY DEF Working, WorkerShape
        <4>5. \A v \in Worker : lic'[v] = mine \/ lic'[v] = lic[v]
          BY <4>2, <4>4
        <4> QED BY <4>3, <4>5 DEF HighInv
      <3>4. \/ UNCHANGED lic
            \/ \E W : Leave(W)
            \/ \E w \in Worker : GetLicenses(w) /\ ~Return(w)
        <4>1. CASE Users
          BY <4>1 DEF Users, UserCreated, UserDisabled, UserEnabled, UserDeleted, Change,
                      workerVars
        <4>2. ASSUME NEW r \in Replica, Time(r) \/ CheckProductAuthorized(r) \/ Crash(r)
              PROVE  UNCHANGED lic \/ \E W : Leave(W)
          BY <4>2 DEF Time, CheckProductAuthorized, Crash, workerVars
        <4>3. ASSUME NEW w \in Worker,
                     \/ \E i \in 1..MaxEvents : Deliver(w, i)
                     \/ \E q \in Requests : Ask(w, q)
                     \/ CallFails(w) \/ Misread(w)
              PROVE  UNCHANGED lic \/ \E W : Leave(W)
          BY <4>3 DEF Deliver, Ask, CallFails, Misread, Sees, Told
        <4>4. ASSUME NEW w \in Worker, Proceed(w)
              PROVE  \/ UNCHANGED lic \/ \E W : Leave(W)
                     \/ GetLicenses(w) /\ ~Return(w)
          <5>1. Return(w) => Leave({w})
            BY DEF Return
          <5>2. Write(w) \/ userDeleteAllProducts(w) => Leave({w})
            BY DEF Write, userDeleteAllProducts, Committed
          <5>3. CASE \/ GetUserInfos(w) \/ GetAuthorizedProducts(w)
                     \/ \E p \in Product : GetProductsAuthorizedCount(w, p)
                     \/ Decline(w)
            BY <5>1, <5>3
            DEF GetUserInfos, GetAuthorizedProducts, Sees, GetProductsAuthorizedCount, Told,
                Decline
          <5> QED BY <4>4, <5>1, <5>2, <5>3 DEF Proceed
        <4>5. CASE UNCHANGED vars
          BY <4>5 DEF vars
        <4>6. ASSUME NEW i \in 1..MaxEvents, pub_nsq_msg(i) \/ LoseMessage(i)
              PROVE  UNCHANGED lic
          BY <4>6, MailMoves DEF workerVars
        <4> QED BY <1>2, <4>1, <4>2, <4>3, <4>4, <4>5, <4>6 DEF Next
      <3> QED BY <3>1, <3>2, <3>3, <3>4
    <2> QED BY <2>1, <2>2, <2>3, HighKept
  <1> QED BY <1>1, <1>2
-----------------------------------------------------------------------------
(* What a worker has found out about the quotas holds until it writes, but *)
(* for the products that others have changed since.                        *)

RowCount(table, p) == Total([u \in User |-> table[u][p]])
Growth(q, table, p) ==
    Total([u \in DOMAIN q |-> IF table[u][p] = 0 THEN Occurrences(q[u], p) ELSE 0])
    - Total([u \in DOMAIN q |-> IF Occurrences(q[u], p) = 0 THEN table[u][p] ELSE 0])

\* A message: a product it may add has room for one more row.
MessageRoom(t, has, out, table) ==
    \A p \in DOMAIN t \ out :
        t[p] = Unlimited \/ has[p] > 0 \/ RowCount(table, p) + 1 <= t[p]

\* A request: the rows it has read are there, and what it adds has room.
RequestRoom(t, q, mine, out, changed, table) ==
    \A p \in Product \ changed :
        /\ \A u \in User : mine[u][p] = table[u][p]
        /\ p \in DOMAIN t \ out =>
              \/ t[p] = Unlimited \/ Growth(q, mine, p) <= 0
              \/ RowCount(table, p) + Growth(q, mine, p) <= t[p]

RoomInv(w) ==
    /\ counted[w] \subseteq Product
    /\ pc[w] # "count" => counted[w] = {}
    /\ pc[w] = "count" /\ req[w] = NoRequest =>
          MessageRoom(lic[w], own[w][Target(w)], todo[w] \cup refused[w] \cup counted[w], rows)
    /\ pc[w] = "count" /\ req[w] # NoRequest =>
          RequestRoom(lic[w], req[w], own[w], todo[w] \cup refused[w], counted[w], rows)
Rooms == counted = [w \in Worker |-> counted[w]] /\ \A w \in Worker : RoomInv(w)

\* The numbers are numbers.
LEMMA CountType ==
    ASSUME NEW table \in [User -> [Product -> Nat]], NEW p \in Product
    PROVE  /\ [u \in User |-> table[u][p]] \in [User -> Nat]
           /\ IsFiniteSet(User) /\ RowCount(table, p) \in Nat
  <1>1. PICK f : f = [u \in User |-> table[u][p]]
    OBVIOUS
  <1>2. f \in [User -> Nat] /\ IsFiniteSet(User)
    BY <1>1, LicenseAssumption
  <1>3. Total(f) \in Nat
    BY <1>2, TotalType
  <1> QED BY <1>1, <1>2, <1>3 DEF RowCount

\* The two parts of the growth, as functions of all users.
Gained(q, table, p) == [u \in User |-> IF u \in DOMAIN q /\ table[u][p] = 0
                                       THEN Occurrences(q[u], p) ELSE 0]
Lost(q, table, p) == [u \in User |-> IF u \in DOMAIN q /\ Occurrences(q[u], p) = 0
                                       THEN table[u][p] ELSE 0]

\* The growth is their difference.
LEMMA GrowthType ==
    ASSUME NEW table \in [User -> [Product -> Nat]], NEW p \in Product, NEW q \in Requests
    PROVE  /\ Gained(q, table, p) \in [User -> Nat] /\ Lost(q, table, p) \in [User -> Nat]
           /\ Total(Gained(q, table, p)) \in Nat /\ Total(Lost(q, table, p)) \in Nat
           /\ Growth(q, table, p) = Total(Gained(q, table, p)) - Total(Lost(q, table, p))
           /\ Growth(q, table, p) \in Int
  <1>0. PICK add, del : add = Gained(q, table, p) /\ del = Lost(q, table, p)
    OBVIOUS
  <1>1. PICK D : D = DOMAIN q /\ D \in SUBSET User
    BY RequestType
  <1>2. ASSUME NEW u \in D
        PROVE  Occurrences(q[u], p) \in Nat /\ table[u][p] \in Nat
    <2>1. PICK s \in Seq(Product) : s = q[u]
      BY <1>1, RequestType
    <2> QED BY <1>1, <2>1, OccurrencesType
  <1>3. add \in [User -> Nat] /\ del \in [User -> Nat]
    BY <1>0, <1>1, <1>2 DEF Gained, Lost
  <1>4. PICK a, d :
           /\ a = [u \in D |-> IF table[u][p] = 0 THEN Occurrences(q[u], p) ELSE 0]
           /\ d = [u \in D |-> IF Occurrences(q[u], p) = 0 THEN table[u][p] ELSE 0]
    OBVIOUS
  <1>5. a \in [D -> Nat] /\ d \in [D -> Nat]
    BY <1>2, <1>4
  <1>6. Total(a) = Total(add)
    <2>1. \A u \in D : add[u] = a[u]
      BY <1>0, <1>1, <1>4 DEF Gained
    <2>2. \A u \in User \ D : add[u] = 0
      BY <1>0, <1>1 DEF Gained
    <2>3. DOMAIN a = D /\ DOMAIN add = User
      BY <1>3, <1>5
    <2> QED BY <1>1, <2>1, <2>2, <2>3, TotalRest
  <1>7. Total(d) = Total(del)
    <2>1. \A u \in D : del[u] = d[u]
      BY <1>0, <1>1, <1>4 DEF Lost
    <2>2. \A u \in User \ D : del[u] = 0
      BY <1>0, <1>1 DEF Lost
    <2>3. DOMAIN d = D /\ DOMAIN del = User
      BY <1>3, <1>5
    <2> QED BY <1>1, <2>1, <2>2, <2>3, TotalRest
  <1>8. Growth(q, table, p) = Total(a) - Total(d)
    BY <1>1, <1>4 DEF Growth
  <1>9. Total(add) \in Nat /\ Total(del) \in Nat
    BY <1>3, TotalType
  <1> QED BY <1>0, <1>3, <1>6, <1>7, <1>8, <1>9

\* The model's counts are these.
LEMMA CountIs ==
    ASSUME NEW w, NEW p, NEW table
    PROVE  Count(p) = RowCount(rows, p) /\ ProductChange(w, table, p) = Growth(req[w], table, p)
  BY DEF Count, RowCount, ProductChange, Growth

\* A table in which no user has more rows of a product.
LEMMA CountMore ==
    ASSUME NEW table \in [User -> [Product -> Nat]], NEW next \in [User -> [Product -> Nat]],
           NEW p \in Product, \A u \in User : next[u][p] <= table[u][p]
    PROVE  RowCount(next, p) <= RowCount(table, p)
  <1>1. PICK f, g : f = [u \in User |-> next[u][p]] /\ g = [u \in User |-> table[u][p]]
    OBVIOUS
  <1>2. f \in [User -> Nat] /\ g \in [User -> Nat] /\ \A u \in User : f[u] <= g[u]
    BY <1>1
  <1>3. Total(f) <= Total(g)
    BY <1>2, TotalMore
  <1> QED BY <1>1, <1>3 DEF RowCount

\* A worker that stays while the table becomes next.
LEMMA RoomKept ==
    ASSUME Working, Working', HighInv, Rooms, NEW v \in Worker,
           pc'[v] = pc[v], req'[v] = req[v], lic'[v] = lic[v], own'[v] = own[v],
           todo'[v] = todo[v], refused'[v] = refused[v],
           pc[v] = "count" /\ req[v] = NoRequest => Target(v)' = Target(v),
           pc[v] # "count" => counted'[v] = counted[v],
           pc[v] = "count" /\ req[v] = NoRequest =>
              counted'[v] = counted[v] \cup (Grown(rows') \ todo[v]),
           pc[v] = "count" /\ req[v] # NoRequest =>
              counted'[v] = counted[v] \cup ProductsOf(rows')
    PROVE  RoomInv(v)'
  <1>1. /\ rows \in [User -> [Product -> Nat]] /\ rows' \in [User -> [Product -> Nat]]
        /\ DOMAIN lic[v] \subseteq Product /\ todo[v] \subseteq Product
        /\ RoomInv(v)
    BY DEF Working, TableShape, WorkerShape, Rooms
  <1>2. PICK next : next = rows'
    OBVIOUS
  <1>3. CASE pc[v] # "count"
    BY <1>1, <1>3 DEF RoomInv
  <1>4. CASE pc[v] = "count" /\ req[v] = NoRequest
    <2>1. PICK t, has, ex : /\ t = lic[v] /\ has = own[v][Target(v)]
                            /\ ex = todo[v] \cup refused[v]
      OBVIOUS
    <2>2. MessageRoom(t, has, ex \cup counted[v], rows)
      BY <1>1, <1>4, <2>1 DEF RoomInv
    <2>3. counted'[v] = counted[v] \cup (Grown(next) \ todo[v]) /\ Grown(next) \subseteq Product
      BY <1>2, <1>4 DEF Grown
    <2>4. ASSUME NEW p \in DOMAIN t \ (ex \cup counted'[v])
          PROVE  t[p] = Unlimited \/ has[p] > 0 \/ RowCount(next, p) + 1 <= t[p]
      <3>1. p \in DOMAIN t \ (ex \cup counted[v]) /\ p \in Product /\ p \notin Grown(next)
        BY <1>1, <2>1, <2>3
      <3>2. t[p] = Unlimited \/ has[p] > 0 \/ RowCount(rows, p) + 1 <= t[p]
        BY <2>2, <3>1 DEF MessageRoom
      <3>3. \A u \in User : next[u][p] <= rows[u][p]
        BY <1>1, <1>2, <3>1 DEF Grown
      <3>4. RowCount(next, p) <= RowCount(rows, p) /\ RowCount(next, p) \in Nat
            /\ RowCount(rows, p) \in Nat
        BY <1>1, <1>2, <3>1, <3>3, CountMore, CountType
      <3>5. CASE RowCount(rows, p) + 1 <= t[p]
        <4>1. t[p] \in Int => RowCount(next, p) + 1 <= t[p]
          BY <3>4, <3>5
        <4>2. t[p] \in Int
          BY <2>1, <3>1 DEF HighInv, Held, Unlimited
        <4> QED BY <4>1, <4>2
      <3> QED BY <3>2, <3>5
    <2>5. MessageRoom(t, has, ex \cup counted'[v], next)
      BY <2>4 DEF MessageRoom
    <2>6. MessageRoom(lic'[v], own'[v][Target(v)'], todo'[v] \cup refused'[v] \cup counted'[v],
                      rows')
      BY <1>2, <1>4, <2>1, <2>5
    <2> QED BY <1>1, <1>4, <2>3, <2>6 DEF RoomInv, MessageRoom, RowCount
  <1>5. CASE pc[v] = "count" /\ req[v] # NoRequest
    <2>1. PICK t, q, mine, ex : /\ t = lic[v] /\ q = req[v] /\ mine = own[v]
                                /\ ex = todo[v] \cup refused[v]
      OBVIOUS
    <2>2. RequestRoom(t, q, mine, ex, counted[v], rows)
      BY <1>1, <1>5, <2>1 DEF RoomInv
    <2>3. counted'[v] = counted[v] \cup ProductsOf(next) /\ ProductsOf(next) \subseteq Product
      BY <1>2, <1>5 DEF ProductsOf
    <2>4. ASSUME NEW p \in Product \ counted'[v]
          PROVE  /\ \A u \in User : mine[u][p] = next[u][p]
                 /\ p \in DOMAIN t \ ex =>
                       \/ t[p] = Unlimited \/ Growth(q, mine, p) <= 0
                       \/ RowCount(next, p) + Growth(q, mine, p) <= t[p]
      <3>1. p \in Product \ counted[v] /\ \A u \in User : next[u][p] = rows[u][p]
        BY <2>3 DEF ProductsOf
      <3>2. RowCount(next, p) = RowCount(rows, p)
        <4>1. [u \in User |-> next[u][p]] = [u \in User |-> rows[u][p]]
          BY <3>1
        <4> QED BY <4>1 DEF RowCount
      <3> QED BY <2>2, <3>1, <3>2 DEF RequestRoom
    <2>5. RequestRoom(t, q, mine, ex, counted'[v], next)
      BY <2>4 DEF RequestRoom
    <2>6. RequestRoom(lic'[v], req'[v], own'[v], todo'[v] \cup refused'[v], counted'[v], rows')
      BY <1>2, <2>1, <2>5
    <2> QED BY <1>1, <1>5, <2>3, <2>6 DEF RoomInv, RequestRoom, RowCount, Growth
  <1> QED BY <1>3, <1>4, <1>5
\* A worker that stays while nothing is written.
LEMMA RoomStays ==
    ASSUME Working, Working', HighInv, Rooms, NEW v \in Worker, rows' = rows,
           pc'[v] = pc[v], req'[v] = req[v], lic'[v] = lic[v], own'[v] = own[v],
           todo'[v] = todo[v], refused'[v] = refused[v], counted'[v] = counted[v],
           pc[v] = "count" /\ req[v] = NoRequest => Target(v)' = Target(v)
    PROVE  RoomInv(v)'
  <1>1. Grown(rows') = {} /\ ProductsOf(rows') = {}
    <2>1. rows \in [User -> [Product -> Nat]]
      BY DEF Working, TableShape
    <2> QED BY <2>1 DEF Grown, ProductsOf
  <1> QED BY <1>1, RoomKept

\* The workers of W stop serving, and the others notice what was written.
LEMMA LeaveRooms ==
    ASSUME Working, Working', HighInv, Rooms, NEW W, NEW next, Leave(W), Notice(W, next),
           rows' = next, events' = events
    PROVE  Rooms'
  <1>1. counted' = [v \in Worker |->
           IF v \in W THEN {}
           ELSE IF pc[v] # "count" THEN counted[v]
           ELSE IF req[v] = NoRequest
                THEN counted[v] \cup (Grown(next) \ todo[v])
                ELSE counted[v] \cup ProductsOf(next)]
    BY DEF Notice
  <1>2. counted' = [v \in Worker |-> counted'[v]]
    BY <1>1
  <1>3. ASSUME NEW v \in Worker, v \in W
        PROVE  RoomInv(v)'
    <2>1. pc'[v] = "idle" /\ counted'[v] = {}
      BY <1>1, <1>3 DEF Leave
    <2> QED BY <2>1 DEF RoomInv
  <1>4. ASSUME NEW v \in Worker, v \notin W
        PROVE  RoomInv(v)'
    <2>1. /\ pc'[v] = pc[v] /\ msg'[v] = msg[v] /\ req'[v] = req[v] /\ lic'[v] = lic[v]
          /\ own'[v] = own[v] /\ todo'[v] = todo[v] /\ refused'[v] = refused[v]
      BY <1>4 DEF Leave
    <2>2. Target(v)' = Target(v)
      BY <2>1 DEF Target
    <2>3. /\ pc[v] # "count" => counted'[v] = counted[v]
          /\ pc[v] = "count" /\ req[v] = NoRequest =>
                counted'[v] = counted[v] \cup (Grown(rows') \ todo[v])
          /\ pc[v] = "count" /\ req[v] # NoRequest =>
                counted'[v] = counted[v] \cup ProductsOf(rows')
      BY <1>1, <1>4
    <2> QED BY <2>1, <2>2, <2>3, RoomKept
  <1> QED BY <1>2, <1>3, <1>4 DEF Rooms

\* One worker moves, and does not come to count yet; or none moves.
LEMMA MoverRooms ==
    ASSUME Working, Working', HighInv, Rooms, NEW M, UNCHANGED <<rows, counted>>,
           \A w \in Worker \cap M : pc[w] # "count" /\ pc'[w] # "count",
           \A v \in Worker \ M :
              /\ pc'[v] = pc[v] /\ req'[v] = req[v] /\ lic'[v] = lic[v]
              /\ own'[v] = own[v] /\ todo'[v] = todo[v] /\ refused'[v] = refused[v]
              /\ pc[v] = "count" /\ req[v] = NoRequest => Target(v)' = Target(v)
    PROVE  Rooms'
  <1>1. counted' = [v \in Worker |-> counted'[v]]
    BY DEF Rooms
  <1>2. ASSUME NEW v \in Worker, v \in M
        PROVE  RoomInv(v)'
    <2>1. pc[v] # "count" /\ pc'[v] # "count"
      BY <1>2
    <2> QED BY <2>1 DEF Rooms, RoomInv
  <1>3. ASSUME NEW v \in Worker, v \notin M
        PROVE  RoomInv(v)'
    <2>1. /\ pc'[v] = pc[v] /\ req'[v] = req[v] /\ lic'[v] = lic[v]
          /\ own'[v] = own[v] /\ todo'[v] = todo[v] /\ refused'[v] = refused[v]
          /\ pc[v] = "count" /\ req[v] = NoRequest => Target(v)' = Target(v)
      BY <1>3
    <2> QED BY <2>1, RoomStays
  <1> QED BY <1>1, <1>2, <1>3 DEF Rooms

\* A user or the licence changes, a message is published or lost, or time goes
\* by.
LEMMA OutsideRooms ==
    ASSUME Working, Working', HighInv, Rooms,
           \/ Users \/ LicenceChanges
           \/ \E i \in 1..MaxEvents : pub_nsq_msg(i) \/ LoseMessage(i)
           \/ \E r \in Replica : Time(r) \/ CheckProductAuthorized(r)
           \/ UNCHANGED vars
    PROVE  Rooms'
  <1>1. UNCHANGED <<rows, pc, msg, req, lic, own, todo, refused, counted>>
    BY DEF Users, UserCreated, UserDisabled, UserEnabled, UserDeleted, Change, LicenceChanges,
           pub_nsq_msg, LoseMessage, Time, CheckProductAuthorized, vars, database, workerVars,
           history
  <1>2. ASSUME NEW v \in Worker, pc[v] = "count", req[v] = NoRequest
        PROVE  Target(v)' = Target(v)
    <2>1. msg[v] \in 1..Len(events)
      BY <1>2 DEF Working, WorkerShape, WorkerInv, Serving
    <2>2. CASE events' = events
      BY <1>1, <2>2 DEF Target
    <2>3. CASE Users
      <3>1. PICK u \in User :
               UserCreated(u) \/ UserDisabled(u) \/ UserEnabled(u) \/ UserDeleted(u)
        BY <2>3 DEF Users
      <3>2. \A i \in 1..Len(events) : events'[i] = events[i]
        BY <3>1, UsersStep
      <3> QED BY <1>1, <2>1, <3>2 DEF Target
    <2> QED BY <2>2, <2>3
        DEF LicenceChanges, pub_nsq_msg, LoseMessage, Time, CheckProductAuthorized, vars,
            outside
  <1>3. ASSUME NEW v \in Worker
        PROVE  RoomInv(v)'
    BY <1>1, <1>2, RoomStays
  <1> QED BY <1>1, <1>3 DEF Rooms

\* The rows are read: a product that is not to be counted needs no room.
LEMMA SeesRooms ==
    ASSUME Working, Working', HighInv, Rooms, NEW w \in Worker,
           NEW table \in [User -> [Product -> Nat]], Sees(w, table), NEW C \in SUBSET Product,
           counted' = [counted EXCEPT ![w] = C],
           req[w] # NoRequest =>
              \A p \in Product \ C, u \in User : table[u][p] = rows[u][p]
    PROVE  Rooms'
  <1>1. /\ pc[w] = "own" /\ own' = [own EXCEPT ![w] = table]
        /\ pc' = [pc EXCEPT ![w] = "count"]
        /\ UNCHANGED <<events, rows, msg, req, lic, refused>>
    BY DEF Sees, outside, database
  <1>2. /\ pc'[w] = "count" /\ own'[w] = table
        /\ \A v \in Worker \ {w} : pc'[v] = pc[v] /\ own'[v] = own[v]
    BY <1>1 DEF Working, WorkerShape
  <1>3. PICK T :
           /\ todo' = [todo EXCEPT ![w] = T]
           /\ req[w] = NoRequest => T = DOMAIN lic[w] \ Has(table, Target(w))
           /\ req[w] # NoRequest =>
                 T = {p \in DOMAIN lic[w] : /\ ProductChange(w, table, p) > 0
                                            /\ lic[w][p] # Unlimited}
    BY DEF Sees
  <1>4. todo'[w] = T /\ \A v \in Worker \ {w} : todo'[v] = todo[v]
    BY <1>3 DEF Working, WorkerShape
  <1>5. DOMAIN lic[w] \subseteq Product /\ Target(w)' = Target(w)
        /\ req[w] \in Requests \cup {NoRequest}
    BY <1>1 DEF Rooms, RoomInv, Working, WorkerShape, TableShape, Target
  <1>6. /\ counted' = [v \in Worker |-> counted'[v]] /\ counted'[w] = C
        /\ \A v \in Worker \ {w} : counted'[v] = counted[v]
    <2>1. DOMAIN counted = Worker
      BY DEF Rooms
    <2> QED BY <2>1
  <1>7. ASSUME req[w] = NoRequest
        PROVE  MessageRoom(lic[w], table[Target(w)], T, rows)
    <2> SUFFICES ASSUME NEW p \in DOMAIN lic[w] \ T
                 PROVE  table[Target(w)][p] > 0
      BY DEF MessageRoom
    <2>1. p \in Has(table, Target(w))
      BY <1>3, <1>7
    <2> QED BY <2>1 DEF Has
  <1>8. ASSUME req[w] # NoRequest
        PROVE  RequestRoom(lic[w], req[w], table, T, C, rows)
    <2> SUFFICES ASSUME NEW p \in Product, p \in DOMAIN lic[w] \ T
                 PROVE  lic[w][p] = Unlimited \/ Growth(req[w], table, p) <= 0
      BY <1>8 DEF RequestRoom
    <2>1. PICK g : g = Growth(req[w], table, p)
      OBVIOUS
    <2>2. ProductChange(w, table, p) = g
      BY <2>1, CountIs
    <2>3. g \in Int
      BY <1>5, <1>8, <2>1, GrowthType
    <2> QED BY <1>3, <1>8, <2>1, <2>2, <2>3
  <1>9. RoomInv(w)'
    <2>1. MessageRoom(lic[w], table[Target(w)], T, rows) =>
             MessageRoom(lic[w], table[Target(w)], T \cup refused[w] \cup C, rows)
      BY DEF MessageRoom
    <2>2. RequestRoom(lic[w], req[w], table, T, C, rows) =>
             RequestRoom(lic[w], req[w], table, T \cup refused[w], C, rows)
      BY DEF RequestRoom
    <2>3. req'[w] = NoRequest =>
             MessageRoom(lic'[w], own'[w][Target(w)'], todo'[w] \cup refused'[w] \cup counted'[w],
                         rows')
      BY <1>1, <1>2, <1>4, <1>5, <1>6, <1>7, <2>1
    <2>4. req'[w] # NoRequest =>
             RequestRoom(lic'[w], req'[w], own'[w], todo'[w] \cup refused'[w], counted'[w], rows')
      BY <1>1, <1>2, <1>4, <1>6, <1>8, <2>2
    <2>5. counted'[w] \subseteq Product
      BY <1>6
    <2> QED BY <1>2, <2>3, <2>4, <2>5
        DEF RoomInv, MessageRoom, RequestRoom, RowCount, Growth
  <1>10. ASSUME NEW v \in Worker \ {w}
         PROVE  RoomInv(v)'
    <2>1. Target(v)' = Target(v)
      BY <1>1 DEF Target
    <2> QED BY <1>1, <1>2, <1>4, <1>6, <2>1, RoomStays
  <1> QED BY <1>6, <1>9, <1>10 DEF Rooms

\* A worker is told a number: the product has room, or is refused, or the
\* number is known to be wrong.
LEMMA ToldRooms ==
    ASSUME Working, Working', HighInv, Rooms, NEW w \in Worker, NEW p \in Product, NEW n,
           Told(w, p, n), NEW C \in SUBSET Product, counted[w] \subseteq C,
           counted' = [counted EXCEPT ![w] = C], n = Count(p) \/ p \in C
    PROVE  Rooms'
  <1>1. /\ pc[w] = "count" /\ p \in todo[w]
        /\ todo' = [todo EXCEPT ![w] = todo[w] \ {p}]
        /\ UNCHANGED <<events, rows, pc, msg, req, lic, own>>
    BY DEF Told, outside, database
  <1>2. PICK R :
           /\ refused' = [refused EXCEPT ![w] = R]
           /\ (R = refused[w] /\ HasRoom(w, p, n)) \/ R = refused[w] \cup {p}
    BY DEF Told
  <1>3. /\ todo'[w] = todo[w] \ {p} /\ refused'[w] = R
        /\ \A v \in Worker \ {w} : todo'[v] = todo[v] /\ refused'[v] = refused[v]
    BY <1>1, <1>2 DEF Working, WorkerShape
  <1>4. Target(w)' = Target(w) /\ RoomInv(w)
    BY <1>1 DEF Rooms, Target
  <1>5. /\ counted' = [v \in Worker |-> counted'[v]] /\ counted'[w] = C
        /\ \A v \in Worker \ {w} : counted'[v] = counted[v]
    <2>1. DOMAIN counted = Worker
      BY DEF Rooms
    <2> QED BY <2>1
  <1>6. HasRoom(w, p, n) =>
           \/ lic[w][p] = Unlimited \/ p \in C
           \/ req[w] = NoRequest /\ RowCount(rows, p) + 1 <= lic[w][p]
           \/ req[w] # NoRequest /\ RowCount(rows, p) + Growth(req[w], own[w], p) <= lic[w][p]
    <2>1. /\ Count(p) = RowCount(rows, p)
          /\ ProductChange(w, own[w], p) = Growth(req[w], own[w], p)
      BY CountIs
    <2> QED BY <2>1 DEF HasRoom
  <1>7. PICK ex, ex2 : /\ ex = todo[w] \cup refused[w] /\ ex2 = (todo[w] \ {p}) \cup R
                       /\ \A x : x \in ex /\ x \notin ex2 => x = p /\ HasRoom(w, p, n)
    BY <1>2
  <1>8. ASSUME req[w] = NoRequest
        PROVE  MessageRoom(lic[w], own[w][Target(w)], ex2 \cup C, rows)
    <2>1. MessageRoom(lic[w], own[w][Target(w)], ex \cup counted[w], rows)
      BY <1>1, <1>4, <1>7, <1>8 DEF RoomInv
    <2> QED BY <1>6, <1>7, <1>8, <2>1 DEF MessageRoom
  <1>9. ASSUME req[w] # NoRequest
        PROVE  RequestRoom(lic[w], req[w], own[w], ex2, C, rows)
    <2>1. RequestRoom(lic[w], req[w], own[w], ex, counted[w], rows)
      BY <1>1, <1>4, <1>7, <1>9 DEF RoomInv
    <2> QED BY <1>6, <1>7, <1>9, <2>1 DEF RequestRoom
  <1>10. RoomInv(w)'
    <2>1. req'[w] = NoRequest =>
             MessageRoom(lic'[w], own'[w][Target(w)'], todo'[w] \cup refused'[w] \cup counted'[w],
                         rows')
      BY <1>1, <1>3, <1>4, <1>5, <1>7, <1>8
    <2>2. req'[w] # NoRequest =>
             RequestRoom(lic'[w], req'[w], own'[w], todo'[w] \cup refused'[w], counted'[w], rows')
      BY <1>1, <1>3, <1>5, <1>7, <1>9
    <2> QED BY <1>1, <1>5, <2>1, <2>2
        DEF RoomInv, MessageRoom, RequestRoom, RowCount, Growth
  <1>11. ASSUME NEW v \in Worker \ {w}
         PROVE  RoomInv(v)'
    <2>1. Target(v)' = Target(v)
      BY <1>1 DEF Target
    <2> QED BY <1>1, <1>3, <1>5, <2>1, RoomStays
  <1> QED BY <1>5, <1>10, <1>11 DEF Rooms

\* The rows are read, or a product is counted, in whole or in part.
LEMMA ReadRooms ==
    ASSUME Working, Working', HighInv, Rooms, NEW w \in Worker,
           \/ GetAuthorizedProducts(w) \/ Misread(w)
           \/ \E p \in Product : GetProductsAuthorizedCount(w, p)
    PROVE  Rooms'
  <1>1. RoomInv(w) /\ counted = [v \in Worker |-> counted[v]] /\ counted[w] \subseteq Product
    BY DEF Rooms, RoomInv
  <1>2. PICK C : C = counted[w] /\ C \in SUBSET Product
    BY <1>1
  <1>3. counted' = counted => counted' = [counted EXCEPT ![w] = C]
    BY <1>1, <1>2
  <1>4. CASE GetAuthorizedProducts(w)
    <2>1. /\ Sees(w, rows) /\ counted' = [counted EXCEPT ![w] = C]
          /\ rows \in [User -> [Product -> Nat]]
      BY <1>3, <1>4 DEF GetAuthorizedProducts, Working, TableShape
    <2>2. PICK table : table = rows
      OBVIOUS
    <2> QED BY <1>2, <2>1, <2>2, SeesRooms
  <1>5. ASSUME NEW p \in Product, GetProductsAuthorizedCount(w, p)
        PROVE  Rooms'
    <2>1. Told(w, p, Count(p)) /\ counted' = [counted EXCEPT ![w] = C]
      BY <1>3, <1>5 DEF GetProductsAuthorizedCount
    <2> QED BY <1>2, <2>1, ToldRooms
  <1>6. ASSUME NEW p \in Product, Misread(w), Told(w, p, 0)
        PROVE  Rooms'
    <2>1. PICK q \in Product : Told(w, q, 0) /\ counted' = [counted EXCEPT ![w] = C \cup {q}]
      <3>1. pc[w] = "count"
        BY <1>6 DEF Told
      <3> QED BY <1>2, <1>6, <3>1 DEF Misread
    <2>2. PICK D : D = C \cup {q} /\ D \in SUBSET Product
      BY <1>2
    <2> QED BY <1>2, <2>1, <2>2, ToldRooms
  <1>7. CASE Misread(w) /\ \A p \in Product : ~Told(w, p, 0)
    <2>1. PICK table \in [User -> [Product -> Nat]] :
             /\ Sees(w, table)
             /\ counted' = [counted EXCEPT ![w] =
                               IF req[w] = NoRequest THEN {} ELSE ProductsOf(table)]
      BY <1>7, MisreadTable
    <2>2. PICK D : D = IF req[w] = NoRequest THEN {} ELSE ProductsOf(table)
      OBVIOUS
    <2>3. /\ D \in SUBSET Product
          /\ req[w] # NoRequest => \A p \in Product \ D, u \in User : table[u][p] = rows[u][p]
      BY <2>2 DEF ProductsOf
    <2> QED BY <2>1, <2>2, <2>3, SeesRooms
  <1> QED BY <1>4, <1>5, <1>6, <1>7

\* A worker is served, asks or gets its licences.
LEMMA StartRooms ==
    ASSUME Working, Working', HighInv, Rooms, NEW w \in Worker,
           \/ \E i \in 1..MaxEvents : Deliver(w, i)
           \/ \E q \in Requests : Ask(w, q)
           \/ GetUserInfos(w) /\ ~Return(w)
           \/ GetLicenses(w) /\ ~Return(w)
    PROVE  Rooms'
  <1>1. PICK M : M = {w}
    OBVIOUS
  <1>2. UNCHANGED <<events, rows, counted, own, todo, refused>>
    BY DEF Deliver, Ask, GetUserInfos, GetLicenses, outside, database, history
  <1>3. pc[w] # "count" /\ pc'[w] # "count" /\ \A v \in Worker \ M : pc'[v] = pc[v]
    <2>1. PICK a \in {"licences", "delete", "users", "own"} : pc' = [pc EXCEPT ![w] = a]
      BY DEF Deliver, Ask, GetUserInfos, GetLicenses
    <2>2. pc[w] # "count"
      BY DEF Deliver, Ask, GetUserInfos, GetLicenses
    <2> QED BY <1>1, <2>1, <2>2 DEF Working, WorkerShape
  <1>4. \A v \in Worker \ M : msg'[v] = msg[v] /\ req'[v] = req[v]
    <2>1. /\ \/ msg' = msg
             \/ \E x : msg' = [msg EXCEPT ![w] = x]
          /\ \/ req' = req
             \/ \E x : req' = [req EXCEPT ![w] = x]
      BY DEF Deliver, Ask, GetUserInfos, GetLicenses
    <2> QED BY <1>1, <2>1 DEF Working, WorkerShape
  <1>5. \A v \in Worker \ M : lic'[v] = lic[v]
    <2>1. \/ lic' = lic
          \/ \E x : lic' = [lic EXCEPT ![w] = x]
      BY DEF Deliver, Ask, GetUserInfos, GetLicenses
    <2>2. DOMAIN lic = Worker
      BY DEF Working, WorkerShape
    <2> QED BY <1>1, <2>1, <2>2
  <1>6. \A v \in Worker \ M : Target(v)' = Target(v)
    BY <1>2, <1>4 DEF Target
  <1> QED BY <1>1, <1>2, <1>3, <1>4, <1>5, <1>6, MoverRooms

\* What the workers know of the quotas stays true.
LEMMA NextRooms ==
    ASSUME Working, Working', HighInv, Rooms, [Next]_vars
    PROVE  Rooms'
  <1>1. CASE \/ Users \/ LicenceChanges
             \/ \E i \in 1..MaxEvents : pub_nsq_msg(i) \/ LoseMessage(i)
             \/ \E r \in Replica : Time(r) \/ CheckProductAuthorized(r)
             \/ UNCHANGED vars
    BY <1>1, OutsideRooms
  <1>2. ASSUME NEW r \in Replica, Crash(r)
        PROVE  Rooms'
    <2>1. PICK W : Leave(W) /\ Notice(W, rows) /\ UNCHANGED <<rows, events>>
      BY <1>2 DEF Crash, database, outside
    <2> QED BY <2>1, LeaveRooms
  <1>3. ASSUME NEW w \in Worker, CallFails(w) \/ Return(w)
        PROVE  Rooms'
    <2>1. PICK W : Leave(W) /\ Notice(W, rows) /\ UNCHANGED <<rows, events>>
      BY <1>3 DEF CallFails, Return, database, outside
    <2> QED BY <2>1, LeaveRooms
  <1>4. ASSUME NEW w \in Worker, Write(w) \/ userDeleteAllProducts(w)
        PROVE  Rooms'
    <2>1. PICK next : Committed(w, next)
      BY <1>4 DEF Write, userDeleteAllProducts
    <2>2. PICK W : W = {w} /\ Leave(W) /\ Notice(W, next) /\ rows' = next /\ events' = events
      BY <2>1 DEF Committed
    <2> QED BY <2>2, LeaveRooms
  <1>5. ASSUME NEW w \in Worker,
               \/ \E i \in 1..MaxEvents : Deliver(w, i)
               \/ \E q \in Requests : Ask(w, q)
        PROVE  Rooms'
    BY <1>5, StartRooms
  <1>6. ASSUME NEW w \in Worker, Proceed(w)
        PROVE  Rooms'
    <2>1. CASE GetUserInfos(w) \/ GetLicenses(w)
      BY <1>3, <2>1, StartRooms
    <2>2. CASE \/ GetAuthorizedProducts(w)
               \/ \E p \in Product : GetProductsAuthorizedCount(w, p)
      BY <2>2, ReadRooms
    <2>3. CASE Decline(w)
      BY <1>3, <2>3 DEF Decline
    <2> QED BY <1>4, <1>6, <2>1, <2>2, <2>3 DEF Proceed
  <1>7. ASSUME NEW w \in Worker, Misread(w)
        PROVE  Rooms'
    BY <1>7, ReadRooms
  <1> QED BY <1>1, <1>2, <1>3, <1>4, <1>5, <1>6, <1>7 DEF Next

-----------------------------------------------------------------------------
(* The quotas.                                                             *)

\* A worker adds rows and deletes some: no more than that is new.
LEMMA WriteGrows ==
    ASSUME NEW table \in [User -> [Product -> Nat]], NEW next \in [User -> [Product -> Nat]],
           NEW p \in Product, NEW ins \in [User -> Nat],
           \A u \in User : next[u][p] <= table[u][p] + ins[u]
    PROVE  RowCount(next, p) <= RowCount(table, p) + Total(ins) /\ Total(ins) \in Nat
  <1>1. PICK f, g, h : /\ f = [u \in User |-> next[u][p]] /\ g = [u \in User |-> table[u][p]]
                       /\ h = [u \in User |-> g[u] + ins[u]]
    OBVIOUS
  <1>2. f \in [User -> Nat] /\ g \in [User -> Nat] /\ h \in [User -> Nat]
        /\ (\A u \in User : f[u] <= h[u]) /\ (\A u \in User : h[u] = g[u] + ins[u])
    BY <1>1
  <1>3. Total(f) <= Total(h)
    BY <1>2, TotalMore
  <1>4. Total(h) = Total(g) + Total(ins)
    BY <1>2, TotalAdd
  <1>5. Total(ins) \in Nat
    BY TotalType
  <1>6. RowCount(next, p) = Total(f) /\ RowCount(table, p) = Total(g)
    BY <1>1 DEF RowCount
  <1> QED BY <1>3, <1>4, <1>5, <1>6

\* The rows of a product after a request whose view is up to date.
Reckoned(table, next, mine, q, p) ==
    \A u \in User : next[u][p] + Lost(q, mine, p)[u] = table[u][p] + Gained(q, mine, p)[u]

\* It changes the count by what it reckoned.
LEMMA WriteReckoned ==
    ASSUME NEW table \in [User -> [Product -> Nat]], NEW next \in [User -> [Product -> Nat]],
           NEW mine \in [User -> [Product -> Nat]], NEW q \in Requests, NEW p \in Product,
           Reckoned(table, next, mine, q, p)
    PROVE  RowCount(next, p) = RowCount(table, p) + Growth(q, mine, p)
  <1>1. PICK f, g, h, a, d :
           /\ f = [u \in User |-> next[u][p]] /\ g = [u \in User |-> table[u][p]]
           /\ a = Gained(q, mine, p) /\ d = Lost(q, mine, p)
           /\ h = [u \in User |-> f[u] + d[u]]
    OBVIOUS
  <1>2. a \in [User -> Nat] /\ d \in [User -> Nat] /\ Total(a) \in Nat /\ Total(d) \in Nat
        /\ Growth(q, mine, p) = Total(a) - Total(d)
    BY <1>1, GrowthType
  <1>3. f \in [User -> Nat] /\ g \in [User -> Nat] /\ h \in [User -> Nat]
        /\ (\A u \in User : h[u] = f[u] + d[u]) /\ (\A u \in User : h[u] = g[u] + a[u])
    BY <1>1, <1>2 DEF Reckoned
  <1>4. Total(h) = Total(f) + Total(d)
    BY <1>2, <1>3, TotalAdd
  <1>5. Total(h) = Total(g) + Total(a)
    BY <1>2, <1>3, TotalAdd
  <1>6. Total(f) \in Nat /\ Total(g) \in Nat
    BY <1>3, TotalType
  <1>7. RowCount(next, p) = Total(f) /\ RowCount(table, p) = Total(g)
    BY <1>1 DEF RowCount
  <1>8. PICK x \in Nat, y \in Nat, s \in Nat, r \in Nat :
           x = Total(f) /\ y = Total(g) /\ s = Total(a) /\ r = Total(d)
    BY <1>2, <1>6
  <1>9. x + r = y + s
    BY <1>4, <1>5, <1>8
  <1>10. x = y + (s - r)
    BY <1>9
  <1> QED BY <1>2, <1>7, <1>8, <1>10
\* The promise, with its type.
QuotaInv ==
    /\ excess \in [Product -> Nat]
    /\ \A p \in Product : highest[p] # Unlimited => RowCount(rows, p) <= highest[p] + excess[p]

\* What a message adds of a product that nobody else has given since it was
\* counted stays within the quota.
LEMMA MessageFits ==
    ASSUME Working, Working', HighInv, Rooms, settled \subseteq User, NEW w \in Worker, Write(w),
           req[w] = NoRequest, NEW p \in Product, p \notin counted[w],
           highest[p] # Unlimited
    PROVE  RowCount(rows', p) <= RowCount(rows, p) \/ RowCount(rows', p) <= highest[p]
  <1>1. PICK table, next : table = rows /\ next = rows'
    OBVIOUS
  <1>2. table \in [User -> [Product -> Nat]] /\ next \in [User -> [Product -> Nat]]
    BY <1>1 DEF Working, TableShape
  <1>3. PICK a : a = [u \in User |-> Added(w, u, p)]
    OBVIOUS
  <1>4. \A u \in User : /\ Added(w, u, p) \in Nat /\ ~Removed(w, u, p)
                        /\ next[u][p] = table[u][p] + Added(w, u, p)
                        /\ u # Target(w) => Added(w, u, p) = 0
    BY <1>1, AddedType, WriteMoves DEF Working
  <1>5. \A u \in User : Added(w, u, p) \in {0, 1}
    BY DEF Added
  <1>6. a \in [User -> Nat] /\ \A u \in User : next[u][p] <= table[u][p] + a[u]
    BY <1>2, <1>3, <1>4
  <1>7. CASE \A u \in User : Added(w, u, p) = 0
    <2>1. \A u \in User : next[u][p] <= table[u][p]
      BY <1>2, <1>4, <1>7
    <2>2. RowCount(next, p) <= RowCount(table, p)
      BY <1>2, <2>1, CountMore
    <2> QED BY <1>1, <2>2
  <1>8. CASE \E u \in User : Added(w, u, p) # 0
    <2>1. PICK u \in User : Added(w, u, p) # 0
      BY <1>8
    <2>2. /\ u = Target(w) /\ own[w][u][p] = 0 /\ p \in DOMAIN lic[w] \ refused[w]
          /\ pc[w] = "count" /\ todo[w] = {}
      BY <2>1 DEF Added, Write
    <2>3. MessageRoom(lic[w], own[w][u], todo[w] \cup refused[w] \cup counted[w], rows)
      BY <2>2 DEF Rooms, RoomInv
    <2>4. lic[w][p] = Unlimited \/ own[w][u][p] > 0 \/ RowCount(rows, p) + 1 <= lic[w][p]
      BY <2>2, <2>3 DEF MessageRoom
    <2>5. lic[w][p] \in Nat /\ highest[p] \in Nat /\ lic[w][p] <= highest[p]
      BY <2>2 DEF HighInv, Held, Within
    <2>6. RowCount(table, p) + 1 <= lic[w][p]
      BY <1>1, <2>2, <2>4, <2>5 DEF Unlimited
    <2>7. RowCount(next, p) <= RowCount(table, p) + Total(a) /\ Total(a) \in Nat
      BY <1>2, <1>6, WriteGrows
    <2>8. Total(a) <= 1
      <3>1. \A v \in User : a[v] = 0 \/ (v = u /\ a[v] = 1)
        BY <1>3, <1>4, <1>5, <2>2
      <3> QED BY <1>6, <3>1, TotalOne
    <2>9. RowCount(table, p) \in Nat /\ RowCount(next, p) \in Nat
      BY <1>2, CountType
    <2>10. RowCount(next, p) <= highest[p]
      BY <2>5, <2>6, <2>7, <2>8, <2>9
    <2> QED BY <1>1, <2>10
  <1> QED BY <1>7, <1>8

\* The same for a request.
LEMMA RequestFits ==
    ASSUME Working, Working', HighInv, Rooms, settled \subseteq User, NEW w \in Worker, Write(w),
           req[w] # NoRequest, NEW p \in Product, p \notin counted[w],
           highest[p] # Unlimited
    PROVE  RowCount(rows', p) <= RowCount(rows, p) \/ RowCount(rows', p) <= highest[p]
  <1>1. PICK table, next, mine, q : table = rows /\ next = rows' /\ mine = own[w] /\ q = req[w]
    OBVIOUS
  <1>2. /\ table \in [User -> [Product -> Nat]] /\ next \in [User -> [Product -> Nat]]
        /\ mine \in [User -> [Product -> Nat]] /\ q \in Requests
    BY <1>1 DEF Working, TableShape, WorkerShape
  <1>3. pc[w] = "count" /\ todo[w] = {} /\ ~Declined(w)
    BY DEF Write
  <1>4. refused[w] = {} /\ \A u \in DOMAIN q : Range(q[u]) \subseteq DOMAIN lic[w]
    BY <1>1, <1>3 DEF Declined
  <1>5. RequestRoom(lic[w], q, mine, {}, counted[w], table)
    <2>1. RequestRoom(lic[w], q, mine, todo[w] \cup refused[w], counted[w], table)
      BY <1>1, <1>3 DEF Rooms, RoomInv
    <2>2. todo[w] \cup refused[w] = {}
      BY <1>3, <1>4
    <2> QED BY <2>1, <2>2
  <1>6. \A u \in User : mine[u][p] = table[u][p]
    BY <1>5 DEF RequestRoom
  <1>7. \A u \in User :
           next[u][p] = (IF Removed(w, u, p) THEN 0 ELSE table[u][p]) + Added(w, u, p)
    BY <1>1, WriteMoves
  <1>8. ASSUME NEW u \in User
        PROVE  /\ next[u][p] + Lost(q, mine, p)[u] = table[u][p] + Gained(q, mine, p)[u]
               /\ p \notin DOMAIN lic[w] => next[u][p] <= table[u][p]
    <2>1. CASE u \notin DOMAIN q
      <3>1. Added(w, u, p) = 0 /\ ~Removed(w, u, p)
        BY <1>1, <2>1 DEF Added, Removed
      <3>2. Lost(q, mine, p)[u] = 0 /\ Gained(q, mine, p)[u] = 0
        BY <2>1 DEF Lost, Gained
      <3> QED BY <1>2, <1>7, <3>1, <3>2
    <2>2. CASE u \in DOMAIN q
      <3>1. PICK s \in Seq(Product) : s = q[u]
        BY <1>2, <2>2, RequestType
      <3>2. PICK o \in Nat : o = Occurrences(s, p) /\ (o > 0 <=> p \in Range(s))
        BY OccurrencesType
      <3>3. PICK n \in Nat : n = table[u][p] /\ n = mine[u][p]
        BY <1>2, <1>6
      <3>4. /\ Added(w, u, p) = IF n = 0 THEN o ELSE 0
            /\ Removed(w, u, p) <=> n > 0 /\ o = 0
        BY <1>1, <2>2, <3>1, <3>2, <3>3 DEF Added, Removed
      <3>5. /\ Gained(q, mine, p)[u] = IF n = 0 THEN o ELSE 0
            /\ Lost(q, mine, p)[u] = IF o = 0 THEN n ELSE 0
        BY <2>2, <3>1, <3>2, <3>3 DEF Gained, Lost
      <3>6. next[u][p] = (IF n > 0 /\ o = 0 THEN 0 ELSE n) + (IF n = 0 THEN o ELSE 0)
        BY <1>7, <3>3, <3>4
      <3>7. p \notin DOMAIN lic[w] => o = 0
        BY <1>4, <2>2, <3>1, <3>2
      <3> QED BY <3>3, <3>5, <3>6, <3>7
    <2> QED BY <2>1, <2>2
  <1>9. CASE p \notin DOMAIN lic[w]
    <2>1. RowCount(next, p) <= RowCount(table, p)
      BY <1>2, <1>8, <1>9, CountMore
    <2> QED BY <1>1, <2>1
  <1>10. CASE p \in DOMAIN lic[w]
    <2>1. /\ RowCount(table, p) \in Nat /\ RowCount(next, p) \in Nat
          /\ Growth(q, mine, p) \in Int
      BY <1>2, CountType, GrowthType
    <2>2. RowCount(next, p) = RowCount(table, p) + Growth(q, mine, p)
      <3>1. Reckoned(table, next, mine, q, p)
        BY <1>8 DEF Reckoned
      <3>2. table \in [User -> [Product -> Nat]]
        BY <1>2
      <3>3. next \in [User -> [Product -> Nat]]
        BY <1>2
      <3>4. mine \in [User -> [Product -> Nat]]
        BY <1>2
      <3>5. q \in Requests
        BY <1>2
      <3> QED BY ONLY <3>1, <3>2, <3>3, <3>4, <3>5, p \in Product, WriteReckoned, Zenon
    <2>3. lic[w][p] \in Nat /\ highest[p] \in Nat /\ lic[w][p] <= highest[p]
      BY <1>10 DEF HighInv, Held, Within
    <2>4. \/ Growth(q, mine, p) <= 0
          \/ RowCount(table, p) + Growth(q, mine, p) <= lic[w][p]
      <3>1. lic[w][p] # Unlimited
        BY <2>3 DEF Unlimited
      <3> QED BY <1>5, <1>10, <3>1 DEF RequestRoom
    <2>5. RowCount(next, p) <= RowCount(table, p) \/ RowCount(next, p) <= highest[p]
      BY <2>1, <2>2, <2>3, <2>4
    <2> QED BY <1>1, <2>5
  <1> QED BY <1>9, <1>10

\* The excess after a transaction, when it is more than the rows that other
\* workers' changes account for.
LEMMA QuotaKept ==
    ASSUME Working, Working', HighInv, QuotaInv, NEW w \in Worker, NEW next, NEW ins,
           ins \in [Product -> Nat], excess' = Excess(w, next, ins), rows' = next,
           highest' = highest,
           \A p \in Product : highest[p] # Unlimited =>
              \/ RowCount(next, p) <= highest[p] \/ RowCount(next, p) <= RowCount(rows, p)
              \/ p \in counted[w] /\ RowCount(next, p) <= RowCount(rows, p) + ins[p]
    PROVE  QuotaInv'
  <1>1. rows \in [User -> [Product -> Nat]] /\ next \in [User -> [Product -> Nat]]
    BY DEF Working, TableShape
  <1>2. ASSUME NEW p \in Product
        PROVE  /\ excess'[p] \in Nat
               /\ highest[p] # Unlimited => RowCount(next, p) <= highest[p] + excess'[p]
    <2>1. PICK n \in Nat, m \in Nat, e \in Nat, i \in Nat :
             n = RowCount(next, p) /\ m = RowCount(rows, p) /\ e = excess[p] /\ i = ins[p]
      BY <1>1, CountType DEF QuotaInv
    <2>2. PICK h \in Nat \cup {Unlimited} : h = highest[p]
      BY DEF HighInv
    <2>3. excess'[p] = IF h = Unlimited \/ n <= h THEN 0
                       ELSE e + (IF p \in counted[w] THEN i ELSE 0)
      BY <2>1, <2>2 DEF Excess, RowCount
    <2>4. h # Unlimited => h \in Nat /\ m <= h + e
                           /\ (n <= h \/ n <= m \/ (p \in counted[w] /\ n <= m + i))
      BY <2>1, <2>2 DEF QuotaInv
    <2>5. excess'[p] \in Nat
      BY <2>3
    <2>6. h # Unlimited => n <= h + excess'[p]
      BY <2>3, <2>4
    <2> QED BY <2>1, <2>2, <2>5, <2>6
  <1>3. excess' = [p \in Product |-> excess'[p]]
    BY DEF Excess
  <1>4. excess' \in [Product -> Nat]
    BY <1>2, <1>3
  <1> QED BY <1>2, <1>4 DEF QuotaInv, RowCount

\* Products are given within the quota.
LEMMA WriteQuota ==
    ASSUME Working, HighInv, Rooms, QuotaInv, settled \subseteq User,
           NEW w \in Worker, Write(w)
    PROVE  QuotaInv'
  <1>1. Working'
    BY WriteMoves
  <1>2. PICK next, ins :
           /\ Committed(w, next) /\ excess' = Excess(w, next, ins)
           /\ ins = [p \in Product |-> Total([u \in User |-> Added(w, u, p)])]
    BY DEF Write
  <1>3. rows' = next /\ highest' = highest
    BY <1>2 DEF Committed
  <1>4. /\ rows \in [User -> [Product -> Nat]] /\ next \in [User -> [Product -> Nat]]
        /\ WorkerShape
    BY <1>1, <1>3 DEF Working, TableShape
  <1>5. ASSUME NEW p \in Product
        PROVE  ins[p] \in Nat /\ RowCount(next, p) <= RowCount(rows, p) + ins[p]
    <2>1. PICK a : a = [u \in User |-> Added(w, u, p)]
      OBVIOUS
    <2>2. \A u \in User :
             /\ Added(w, u, p) \in Nat
             /\ next[u][p] = (IF Removed(w, u, p) THEN 0 ELSE rows[u][p]) + Added(w, u, p)
      BY <1>3, <1>4, AddedType, WriteMoves
    <2>3. a \in [User -> Nat] /\ \A u \in User : next[u][p] <= rows[u][p] + a[u]
      BY <1>4, <2>1, <2>2
    <2>4. PICK table : table = rows
      OBVIOUS
    <2>5. RowCount(next, p) <= RowCount(table, p) + Total(a) /\ Total(a) \in Nat
      BY <1>4, <2>3, <2>4, WriteGrows
    <2>6. ins[p] = Total(a)
      BY <1>2, <2>1
    <2> QED BY <2>4, <2>5, <2>6
  <1>6. ins \in [Product -> Nat]
    BY <1>2, <1>5
  <1>7. \A p \in Product : highest[p] # Unlimited /\ p \notin counted[w] =>
           RowCount(next, p) <= RowCount(rows, p) \/ RowCount(next, p) <= highest[p]
    BY <1>1, <1>3, MessageFits, RequestFits
  <1> QED BY <1>1, <1>2, <1>3, <1>5, <1>6, <1>7, QuotaKept

\* Products are taken.
LEMMA DeleteQuota ==
    ASSUME Working, HighInv, QuotaInv, NEW w \in Worker, userDeleteAllProducts(w)
    PROVE  QuotaInv'
  <1>1. Working'
    BY DeleteMoves
  <1>2. PICK next, ins, u :
           /\ Committed(w, next) /\ excess' = Excess(w, next, ins)
           /\ ins = [p \in Product |-> 0]
           /\ next = [rows EXCEPT ![u] = [p \in Product |-> 0]]
    BY DEF userDeleteAllProducts
  <1>3. rows' = next /\ highest' = highest
    BY <1>2 DEF Committed
  <1>4. rows \in [User -> [Product -> Nat]] /\ next \in [User -> [Product -> Nat]]
    BY <1>1, <1>3 DEF Working, TableShape
  <1>5. \A p \in Product : RowCount(next, p) <= RowCount(rows, p)
    <2>1. PICK table : table = rows
      OBVIOUS
    <2>2. \A p \in Product, v \in User : next[v][p] <= table[v][p]
      BY <1>2, <1>4, <2>1
    <2> QED BY <1>4, <2>1, <2>2, CountMore
  <1>6. ins \in [Product -> Nat]
    BY <1>2
  <1> QED BY <1>1, <1>2, <1>3, <1>5, <1>6, QuotaKept

\* The quota check of messages and requests: for any licences and however they
\* change, a product never has more rows than its largest quota, but for the
\* rows that were inserted after another worker changed what their count
\* relied on, or on a count that was read in part.
THEOREM QuotaRespected == Spec => []QuotaUnlessOverlap
  <1> DEFINE All == HighInv /\ Rooms /\ QuotaInv
  <1>1. Init => All
    <2> SUFFICES ASSUME Init
                 PROVE  All
      OBVIOUS
    <2>1. HighInv
      <3>1. DOMAIN NoTable = {}
        BY DEF NoTable
      <3>2. \A p \in DOMAIN licence : p \in Product /\ licence[p] \in Nat \cup {Unlimited}
        BY LicenseAssumption DEF Init
      <3>3. highest = [p \in Product |-> IF p \in DOMAIN licence THEN licence[p] ELSE 0]
        BY DEF Init
      <3>4. highest \in [Product -> Nat \cup {Unlimited}]
        BY <3>2, <3>3
      <3>5. Held(licence)
        BY <3>2, <3>3 DEF Held, Within
      <3>6. Held(NoTable)
        BY <3>1 DEF Held
      <3> QED BY <3>4, <3>5, <3>6 DEF HighInv, Init
    <2>2. Rooms
      <3>1. counted = [w \in Worker |-> {}] /\ \A w \in Worker : pc[w] = "idle"
        BY DEF Init
      <3> QED BY <3>1 DEF Rooms, RoomInv
    <2>3. QuotaInv
      <3>1. excess = [p \in Product |-> 0]
        BY DEF Init
      <3>2. ASSUME NEW p \in Product
            PROVE  RowCount(rows, p) = 0
        <4>1. PICK f : f = [u \in User |-> rows[u][p]]
          OBVIOUS
        <4>2. \A u \in User : f[u] = 0
          BY <4>1 DEF Init, NoRows
        <4>3. Units(f) = {}
          BY <4>1, <4>2, UnitsOf
        <4>4. Total(f) = 0
          BY <4>3, FS_EmptySet DEF Total, Units
        <4> QED BY <4>1, <4>4 DEF RowCount
      <3>3. \A p \in Product : highest[p] # Unlimited => highest[p] \in Nat
        BY <2>1 DEF HighInv
      <3> QED BY <3>1, <3>2, <3>3 DEF QuotaInv
    <2> QED BY <2>1, <2>2, <2>3
  <1>2. ASSUME Working, Working', settled \subseteq User, All, [Next]_vars
        PROVE  All'
    <2>1. HighInv' /\ Rooms'
      BY <1>2, NextHigh, NextRooms
    <2>2. QuotaInv'
      <3>1. ASSUME NEW w \in Worker, Write(w) \/ userDeleteAllProducts(w)
            PROVE  QuotaInv'
        BY <1>2, <3>1, WriteQuota, DeleteQuota
      <3>2. CASE UNCHANGED <<rows, excess, highest>>
        BY <1>2, <3>2 DEF QuotaInv, RowCount
      <3>3. CASE LicenceChanges
        <4>1. UNCHANGED <<rows, excess>>
          BY <3>3 DEF LicenceChanges, database
        <4>2. ASSUME NEW p \in Product, highest'[p] # Unlimited
              PROVE  RowCount(rows, p) <= highest'[p] + excess[p]
          <5>1. PICK a \in Nat \cup {Unlimited}, b \in Nat : a = highest[p] /\ b = highest'[p]
            BY <1>2, <2>1, <4>2 DEF HighInv
          <5>2. b = a \/ \E c \in Nat \cup {Unlimited} : b = Larger(a, c)
            BY <3>3, <5>1, LicenseAssumption DEF LicenceChanges
          <5>3. a \in Nat /\ a <= b
            <6>1. CASE b = a
              BY <5>1, <6>1
            <6>2. ASSUME NEW c \in Nat \cup {Unlimited}, b = Larger(a, c)
                  PROVE  a \in Nat /\ a <= b
              <7>1. a \in Nat /\ c \in Nat /\ b = Max({a, c})
                BY <6>2 DEF Larger, Unlimited
              <7> QED BY <7>1, MaxOfTwo
            <6> QED BY <5>2, <6>1, <6>2
          <5>4. PICK n \in Nat, e \in Nat : n = RowCount(rows, p) /\ e = excess[p]
            <6>1. RowCount(rows, p) \in Nat
              BY <1>2, CountType DEF Working, TableShape
            <6> QED BY <1>2, <6>1 DEF QuotaInv
          <5>5. n <= a + e
            BY <1>2, <5>1, <5>3, <5>4 DEF QuotaInv, Unlimited
          <5> QED BY <5>1, <5>3, <5>4, <5>5
        <4> QED BY <1>2, <4>1, <4>2 DEF QuotaInv, RowCount
      <3>4. CASE Users
        BY <3>2, <3>4 DEF Users, UserCreated, UserDisabled, UserEnabled, UserDeleted, Change,
                          database, history
      <3>5. ASSUME NEW r \in Replica, Time(r) \/ CheckProductAuthorized(r) \/ Crash(r)
            PROVE  QuotaInv'
        BY <3>2, <3>5 DEF Time, CheckProductAuthorized, Crash, database, history
      <3>6. ASSUME NEW w \in Worker,
                   \/ \E i \in 1..MaxEvents : Deliver(w, i)
                   \/ \E q \in Requests : Ask(w, q)
                   \/ CallFails(w) \/ Misread(w)
            PROVE  QuotaInv'
        BY <3>2, <3>6 DEF Deliver, Ask, CallFails, Misread, Sees, Told, database, history
      <3>7. ASSUME NEW w \in Worker, Proceed(w)
            PROVE  QuotaInv'
        <4>1. CASE Return(w)
          BY <3>2, <4>1 DEF Return, database
        <4> QED BY <3>1, <3>2, <3>7, <4>1
            DEF Proceed, GetUserInfos, GetLicenses, GetAuthorizedProducts, Sees,
                GetProductsAuthorizedCount, Told, Decline, database, history
      <3>8. CASE UNCHANGED vars
        BY <3>2, <3>8 DEF vars
      <3>9. ASSUME NEW i \in 1..MaxEvents, pub_nsq_msg(i) \/ LoseMessage(i)
            PROVE  QuotaInv'
        BY <1>2, <3>2, <3>9, MailMoves DEF database
      <3> QED BY <1>2, <3>3, <3>4, <3>5, <3>6, <3>7, <3>8, <3>9 DEF Next
    <2> QED BY <2>1, <2>2
  <1>3. All => QuotaUnlessOverlap
    BY CountIs DEF QuotaInv, QuotaUnlessOverlap
  <1> HIDE DEF All
  <1> QED BY <1>1, <1>2, <1>3, Works, PTL DEF Spec
=============================================================================
