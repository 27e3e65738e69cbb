------------------------------- MODULE Outbox -------------------------------
(***************************************************************************)
(* The ordered transactional outbox of one business type, as every service *)
(* of the repository carries it: UserManagement, Authentication,           *)
(* PolicyManagement and Auditlog have near-identical copies of             *)
(* logics/outbox.go and dbaccess/outbox.go.                                *)
(*                                                                         *)
(* A request handler on some replica writes its business change and a      *)
(* batch of messages in one database transaction, commits, and notifies    *)
(* the push thread of its own replica.  A push thread takes the row lock   *)
(* of the business type, reads the oldest row, calls the message's handler *)
(* (which publishes to the broker or calls another service) while it holds *)
(* the lock, deletes the row and commits.  Rows, locks and handlers of     *)
(* different business types are disjoint, so one type is modelled.         *)
(*                                                                         *)
(* External to the source: the database (transactions, the row lock, a     *)
(* connection that dies, a commit whose outcome is not reported) and the   *)
(* broker behind a handler.                                                *)
(***************************************************************************)
EXTENDS Integers, Sequences, FiniteSets

CONSTANTS Replica,    \* the processes of the service
          Request,    \* the business requests that write to the outbox
          Msg,        \* the messages they write
          ReqOf,      \* the request that writes a message
          OpType,     \* message types, the keys of outboxHandlers
          TypeOf,     \* the type of a message
          Skew,       \* how far the clock of a replica is ahead
          MaxFaults,  \* bound: how many faults of the environment happen
          NoMsg,      \* no row has been read
          NoReplica,  \* the lock is free
          Zombie      \* owns a lock whose client is gone and whose
                      \* transaction the database has not yet ended

ASSUME OutboxAssumption ==
    /\ ReqOf \in [Msg -> Request]
    /\ TypeOf \in [Msg -> OpType]
    /\ Skew \in [Replica -> Nat]
    /\ MaxFaults \in Nat
    /\ NoMsg \notin Msg
    /\ {NoReplica, Zombie} \cap Replica = {}
    /\ NoReplica # Zombie

VARIABLES
    \* the push thread of a replica
    tpc,         \* where it is
    cur,         \* messageID: the row it has read
    needTimer,   \* retry when the 30s ticker fires
    pushChan,    \* the one-place channel holds a token
    registered,  \* the keys of outboxHandlers
    \* the database
    rows,        \* t_outbox: the committed rows
    lock,        \* who holds the row of t_outbox_lock
    \* the request handlers
    bpc,         \* where a request is
    brep,        \* the replica that serves it
    inserted,    \* when it called AddOutboxInfos
    committed,   \* when its transaction was committed
    \* the environment
    now,         \* real time
    log,         \* what the handlers have published, in order
    faults,      \* how many faults have happened
    severed      \* some transaction was ended under a live thread

threadVars == <<tpc, cur, needTimer, pushChan, registered>>
bizVars    == <<bpc, brep, inserted, committed>>
vars == <<tpc, cur, needTimer, pushChan, registered, rows, lock,
          bpc, brep, inserted, committed, now, log, faults, severed>>

ThreadState == {"down", "select", "begin", "read", "handle", "delete", "commit"}
BizState    == {"idle", "inserted", "notify", "done", "orphan", "aborted"}

Published == {log[i] : i \in 1..Len(log)}

\* A transaction that took effect: its commit returned nil ("notify",
\* "done") or was applied and reported as an error ("orphan").
Committed(q) == bpc[q] \in {"notify", "done", "orphan"}
Batch(q)     == {m \in Msg : ReqOf[m] = q}

\* f_create_time: the clock of the writing replica at AddOutboxInfos, the
\* same for the whole batch.
CreateTime(m) == inserted[ReqOf[m]] + Skew[brep[ReqOf[m]]]

Init ==
    /\ tpc = [r \in Replica |-> "down"]
    /\ cur = [r \in Replica |-> NoMsg]
    /\ needTimer = [r \in Replica |-> FALSE]
    /\ pushChan = [r \in Replica |-> FALSE]
    /\ registered = [r \in Replica |-> {}]
    /\ rows = {}
    /\ lock = NoReplica
    /\ bpc = [q \in Request |-> "idle"]
    /\ brep \in [Request -> Replica]
    /\ inserted = [q \in Request |-> 0]
    /\ committed = [q \in Request |-> 0]
    /\ now = 0
    /\ log = <<>>
    /\ faults = 0
    /\ severed = FALSE

-----------------------------------------------------------------------------
(* Start of a replica.                                                     *)

\* NewOutbox: a fresh object with a started thread, notified before any
\* handler is registered.
NewOutbox(r) ==
    /\ tpc[r] = "down"
    /\ tpc' = [tpc EXCEPT ![r] = "select"]
    /\ pushChan' = [pushChan EXCEPT ![r] = TRUE]
    /\ UNCHANGED <<cur, needTimer, registered, rows, lock, bizVars, now, log, faults, severed>>

RegisterHandlers(r, t) ==
    /\ tpc[r] # "down"
    /\ t \notin registered[r]
    /\ registered' = [registered EXCEPT ![r] = @ \cup {t}]
    /\ UNCHANGED <<tpc, cur, needTimer, pushChan, rows, lock, bizVars, now,
                   log, faults, severed>>

-----------------------------------------------------------------------------
(* A business request.                                                     *)

\* AddOutboxInfos inside the business transaction.  A type without a handler
\* is refused, and the caller rolls back.
AddOutboxInfos(q) ==
    /\ bpc[q] = "idle"
    /\ tpc[brep[q]] # "down"
    /\ IF \A m \in Batch(q) : TypeOf[m] \in registered[brep[q]]
       THEN /\ bpc' = [bpc EXCEPT ![q] = "inserted"]
            /\ inserted' = [inserted EXCEPT ![q] = now]
       ELSE /\ bpc' = [bpc EXCEPT ![q] = "aborted"]
            /\ UNCHANGED inserted
    /\ UNCHANGED <<threadVars, rows, lock, brep, committed, now, log, faults,
                   severed>>

\* The commit takes time: the clock has moved on when the caller knows.
CommitBusiness(q) ==
    /\ bpc[q] = "inserted"
    /\ bpc' = [bpc EXCEPT ![q] = "notify"]
    /\ rows' = rows \cup Batch(q)
    /\ now' = now + 1
    /\ committed' = [committed EXCEPT ![q] = now + 1]
    /\ UNCHANGED <<threadVars, lock, brep, inserted, log, faults, severed>>

\* The commit reports an error: the caller returns without notifying, and
\* the transaction may have been applied.
CommitBusinessError(q) ==
    /\ bpc[q] = "inserted"
    /\ faults < MaxFaults
    /\ faults' = faults + 1
    /\ now' = now + 1
    /\ \/ /\ bpc' = [bpc EXCEPT ![q] = "orphan"]
          /\ rows' = rows \cup Batch(q)
          /\ committed' = [committed EXCEPT ![q] = now + 1]
       \/ /\ bpc' = [bpc EXCEPT ![q] = "aborted"]
          /\ UNCHANGED <<rows, committed>>
    /\ UNCHANGED <<threadVars, lock, brep, inserted, log, severed>>

\* A later step of the business transaction fails.
RollbackBusiness(q) ==
    /\ bpc[q] = "inserted"
    /\ bpc' = [bpc EXCEPT ![q] = "aborted"]
    /\ UNCHANGED <<threadVars, rows, lock, brep, inserted, committed, now, log,
                   faults, severed>>

\* Mutant: an unbuffered channel, the send is lost unless the thread waits.
NotifyUnbuffered(q) ==
    /\ bpc[q] = "notify"
    /\ bpc' = [bpc EXCEPT ![q] = "done"]
    /\ pushChan' = [pushChan EXCEPT ![brep[q]] = @ \/ tpc[brep[q]] = "select"]
    /\ UNCHANGED <<tpc, cur, needTimer, registered, rows, lock, brep, inserted,
                   committed, now, log, faults, severed>>

\* The send is dropped when the channel already holds a token.
NotifyPushOutboxThread(q) ==
    /\ bpc[q] = "notify"
    /\ bpc' = [bpc EXCEPT ![q] = "done"]
    /\ pushChan' = [pushChan EXCEPT ![brep[q]] = TRUE]
    /\ UNCHANGED <<tpc, cur, needTimer, registered, rows, lock, brep, inserted,
                   committed, now, log, faults, severed>>

-----------------------------------------------------------------------------
(* The push thread.                                                        *)

WakeByNotify(r) ==
    /\ tpc[r] = "select"
    /\ pushChan[r]
    /\ pushChan' = [pushChan EXCEPT ![r] = FALSE]
    /\ tpc' = [tpc EXCEPT ![r] = "begin"]
    /\ UNCHANGED <<cur, needTimer, registered, rows, lock, bizVars, now, log,
                   faults, severed>>

WakeByTimer(r) ==
    /\ tpc[r] = "select"
    /\ needTimer[r]
    /\ tpc' = [tpc EXCEPT ![r] = "begin"]
    /\ UNCHANGED <<cur, needTimer, pushChan, registered, rows, lock, bizVars,
                   now, log, faults, severed>>

\* Mutant: a plain select, no "for update".
TakeNoLock(r) ==
    /\ tpc[r] = "begin"
    /\ lock' = r
    /\ tpc' = [tpc EXCEPT ![r] = "read"]
    /\ UNCHANGED <<cur, needTimer, pushChan, registered, rows, bizVars, now,
                   log, faults, severed>>

\* Begin, and select ... from t_outbox_lock ... for update
TakeLock(r) ==
    /\ tpc[r] = "begin"
    /\ lock = NoReplica
    /\ lock' = r
    /\ tpc' = [tpc EXCEPT ![r] = "read"]
    /\ UNCHANGED <<cur, needTimer, pushChan, registered, rows, bizVars, now,
                   log, faults, severed>>

\* Mutants: no "order by", and the order reversed.
AnyRow == rows
Newest == {m \in rows : \A n \in rows : CreateTime(m) >= CreateTime(n)}

\* order by f_create_time asc limit 1: rows of one time come in any order.
Oldest == {m \in rows : \A n \in rows : CreateTime(m) <= CreateTime(n)}

GetPushMessage(r) ==
    /\ tpc[r] = "read"
    /\ lock = r
    /\ \/ /\ rows = {}
          /\ cur' = [cur EXCEPT ![r] = NoMsg]
          /\ tpc' = [tpc EXCEPT ![r] = "commit"]
       \/ \E m \in Oldest :
             /\ cur' = [cur EXCEPT ![r] = m]
             /\ tpc' = [tpc EXCEPT ![r] = "handle"]
    /\ UNCHANGED <<needTimer, pushChan, registered, rows, lock, bizVars, now,
                   log, faults, severed>>

\* The handler publishes.  It does not use the transaction, so it runs even
\* when the database has already ended that transaction.
Handle(r) ==
    /\ tpc[r] = "handle"
    /\ TypeOf[cur[r]] \in registered[r]
    /\ log' = Append(log, cur[r])
    /\ tpc' = [tpc EXCEPT ![r] = "delete"]
    /\ UNCHANGED <<cur, needTimer, pushChan, registered, rows, lock, bizVars,
                   now, faults, severed>>

DeleteOutboxInfoByID(r) ==
    /\ tpc[r] = "delete"
    /\ lock = r
    /\ tpc' = [tpc EXCEPT ![r] = "commit"]
    /\ UNCHANGED <<cur, needTimer, pushChan, registered, rows, lock, bizVars,
                   now, log, faults, severed>>

\* Mutant: rows are deleted by f_create_time instead of f_id.
CommitPushByTime(r) ==
    /\ tpc[r] = "commit"
    /\ lock = r
    /\ rows' = {n \in rows : cur[r] # NoMsg => CreateTime(n) # CreateTime(cur[r])}
    /\ lock' = NoReplica
    /\ needTimer' = [needTimer EXCEPT ![r] = FALSE]
    /\ cur' = [cur EXCEPT ![r] = NoMsg]
    /\ tpc' = [tpc EXCEPT ![r] = IF cur[r] = NoMsg THEN "select" ELSE "begin"]
    /\ UNCHANGED <<pushChan, registered, bizVars, now, log, faults, severed>>

\* The deferred commit.  An empty table ends the loop (isAllFinished); after
\* a message the thread goes round again.
CommitPush(r) ==
    /\ tpc[r] = "commit"
    /\ lock = r
    /\ rows' = rows \ {cur[r]}
    /\ lock' = NoReplica
    /\ needTimer' = [needTimer EXCEPT ![r] = FALSE]
    /\ cur' = [cur EXCEPT ![r] = NoMsg]
    /\ tpc' = [tpc EXCEPT ![r] = IF cur[r] = NoMsg THEN "select" ELSE "begin"]
    /\ UNCHANGED <<pushChan, registered, bizVars, now, log, faults, severed>>

\* Every error path of push(): the deferred function rolls back, and the
\* thread waits for the ticker.  A rollback that does not reach the database
\* leaves the lock to a transaction without a client.
GiveUp(r) ==
    /\ needTimer' = [needTimer EXCEPT ![r] = TRUE]
    /\ cur' = [cur EXCEPT ![r] = NoMsg]
    /\ tpc' = [tpc EXCEPT ![r] = "select"]

\* Mutant: the missing handler is logged and err is left nil.
HandleUnregisteredSwallowed(r) ==
    /\ tpc[r] = "handle"
    /\ TypeOf[cur[r]] \notin registered[r]
    /\ tpc' = [tpc EXCEPT ![r] = "delete"]
    /\ UNCHANGED <<cur, needTimer, pushChan, registered, rows, lock, bizVars,
                   now, log, faults, severed>>

\* No handler for the type of the message: an error like any other.
HandleUnregistered(r) ==
    /\ tpc[r] = "handle"
    /\ TypeOf[cur[r]] \notin registered[r]
    /\ GiveUp(r)
    /\ lock' = IF lock = r THEN NoReplica ELSE lock
    /\ UNCHANGED <<pushChan, registered, rows, bizVars, now, log, faults,
                   severed>>

\* A statement in a transaction that the database has ended.
StatementFails(r) ==
    /\ tpc[r] \in {"read", "delete", "commit"}
    /\ lock # r
    /\ GiveUp(r)
    /\ UNCHANGED <<pushChan, registered, rows, lock, bizVars, now, log, faults,
                   severed>>

PushStep(r) ==
    \/ WakeByNotify(r) \/ WakeByTimer(r)
    \/ TakeLock(r) \/ GetPushMessage(r)
    \/ Handle(r) \/ HandleUnregistered(r)
    \/ DeleteOutboxInfoByID(r) \/ CommitPush(r) \/ StatementFails(r)

-----------------------------------------------------------------------------
(* Faults, bounded by MaxFaults.                                           *)

Fault == faults < MaxFaults /\ faults' = faults + 1

\* Begin, a query (a lock wait timeout included), the handler or the delete
\* returns an error.  A handler that fails may have published.  When the rows
\* of GetPushMessage end early the error is only logged, and push() takes the
\* outbox to be empty; but then its transaction is broken, so is its commit,
\* and that error makes the thread give up as the others do.
PushError(r) ==
    /\ Fault
    /\ tpc[r] \in {"begin", "read", "handle", "delete"}
    /\ GiveUp(r)
    /\ lock' \in IF lock = r THEN {NoReplica, Zombie} ELSE {lock}
    /\ \/ log' = log
       \/ /\ tpc[r] = "handle"
          /\ TypeOf[cur[r]] \in registered[r]
          /\ log' = Append(log, cur[r])
    /\ UNCHANGED <<pushChan, registered, rows, bizVars, now, severed>>

\* The commit of push() reports an error, and may have been applied.
CommitPushError(r) ==
    /\ Fault
    /\ tpc[r] = "commit"
    /\ lock = r
    /\ \/ rows' = rows \ {cur[r]} /\ lock' = NoReplica
       \/ rows' = rows /\ lock' \in {NoReplica, Zombie}
    /\ GiveUp(r)
    /\ UNCHANGED <<pushChan, registered, bizVars, now, log, severed>>

\* The database ends the transaction of a thread that goes on running.
ConnectionLost(r) ==
    /\ Fault
    /\ lock = r
    /\ lock' = NoReplica
    /\ severed' = TRUE
    /\ UNCHANGED <<threadVars, rows, bizVars, now, log>>

\* The process dies and its memory with it.  Its open business transactions are rolled back, and a
\* request that had committed never notifies.
Crash(r) ==
    /\ Fault
    /\ tpc[r] # "down"
    /\ tpc' = [tpc EXCEPT ![r] = "down"]
    /\ cur' = [cur EXCEPT ![r] = NoMsg]
    /\ needTimer' = [needTimer EXCEPT ![r] = FALSE]
    /\ pushChan' = [pushChan EXCEPT ![r] = FALSE]
    /\ registered' = [registered EXCEPT ![r] = {}]
    /\ lock' = IF lock = r THEN Zombie ELSE lock
    /\ bpc' = [q \in Request |->
                  IF brep[q] # r THEN bpc[q]
                  ELSE IF bpc[q] = "inserted" THEN "aborted"
                  ELSE IF bpc[q] = "notify" THEN "done"
                  ELSE bpc[q]]
    /\ UNCHANGED <<rows, brep, inserted, committed, now, log, severed>>

\* The database ends a transaction whose client is gone.
ReapTransaction ==
    /\ lock = Zombie
    /\ lock' = NoReplica
    /\ UNCHANGED <<threadVars, rows, bizVars, now, log, faults, severed>>

-----------------------------------------------------------------------------

Next ==
    \/ \E r \in Replica :
          \/ NewOutbox(r)
          \/ \E t \in OpType : RegisterHandlers(r, t)
          \/ PushStep(r)
          \/ PushError(r) \/ CommitPushError(r) \/ ConnectionLost(r)
          \/ Crash(r)
    \/ \E q \in Request :
          \/ AddOutboxInfos(q) \/ RollbackBusiness(q)
          \/ CommitBusiness(q) \/ CommitBusinessError(q)
          \/ NotifyPushOutboxThread(q)
    \/ ReapTransaction

\* A started goroutine keeps running, a dead pod is restarted and registers
\* its handlers, and the database ends transactions without a client.
Fairness ==
    /\ \A r \in Replica :
          /\ WF_vars(NewOutbox(r))
          /\ \A t \in OpType : WF_vars(RegisterHandlers(r, t))
          /\ WF_vars(PushStep(r))
    /\ \A q \in Request : WF_vars(NotifyPushOutboxThread(q))
    /\ WF_vars(ReapTransaction)

Spec == Init /\ [][Next]_vars

FairSpec == Spec /\ Fairness

-----------------------------------------------------------------------------
(* Properties.                                                             *)

\* The types of the tables, threads and requests.
TypeOK ==
    /\ tpc \in [Replica -> ThreadState]
    /\ cur \in [Replica -> Msg \cup {NoMsg}]
    /\ needTimer \in [Replica -> BOOLEAN]
    /\ pushChan \in [Replica -> BOOLEAN]
    /\ registered \in [Replica -> SUBSET OpType]
    /\ rows \subseteq Msg
    /\ lock \in Replica \cup {NoReplica, Zombie}
    /\ bpc \in [Request -> BizState]
    /\ brep \in [Request -> Replica]
    /\ inserted \in [Request -> Nat]
    /\ committed \in [Request -> Nat]
    /\ now \in Nat
    /\ log \in Seq(Msg)
    /\ faults \in 0..MaxFaults
    /\ severed \in BOOLEAN

\* No event is lost: a message whose business transaction took effect is in
\* t_outbox until a handler has published it, whatever fails in push().
NoLoss ==
    \A m \in Msg : Committed(ReqOf[m]) => m \in rows \/ m \in Published

\* No event without its change: what is published, or waits to be, belongs to
\* a business transaction that took effect.
NoSpurious ==
    \A m \in rows \cup Published : Committed(ReqOf[m])

\* What makes the two above inductive: a thread holds only messages of
\* transactions that took effect, and is past its handler only with a message
\* that was published.
ThreadInv ==
    \A r \in Replica :
        /\ cur[r] # NoMsg => Committed(ReqOf[cur[r]])
        /\ tpc[r] \in {"handle", "delete"} => cur[r] # NoMsg
        /\ tpc[r] \in {"delete", "commit"} /\ cur[r] # NoMsg
              => cur[r] \in Published

\* The row lock makes push() exactly-once as long as nothing fails, however
\* many replicas push at once.
NoDuplicateWithoutFault ==
    faults = 0 =>
        \A i, j \in 1..Len(log) : log[i] = log[j] => i = j

\* Request p was committed before q wrote its messages, by a replica whose
\* clock was not ahead of q's.
Precedes(p, q) ==
    /\ Committed(p) /\ Committed(q)
    /\ committed[p] <= inserted[q]
    /\ Skew[brep[p]] <= Skew[brep[q]]

\* Causal order: an event is published only after every event of a request
\* that was committed before this one was written, on any replica whose clock
\* is not ahead and under any fault.
CausalOrder ==
    \A i \in 1..Len(log), m \in Msg :
        Precedes(ReqOf[m], ReqOf[log[i]]) =>
            \E j \in 1..Len(log) : j < i /\ log[j] = m

\* A retry never takes a consumer back: between an event and its repetition
\* there is no newer event.  Only a thread that outlives its transaction can
\* break this, since push() holds the lock while it calls the handler.
NoStaleRepeat ==
    ~severed =>
        \A i, k, j \in 1..Len(log) :
            i < k /\ k < j /\ log[i] = log[j] =>
                CreateTime(log[k]) <= CreateTime(log[j])

\* The outbox implements EventDelivery: a committed message is accepted, and
\* it is settled when its row is gone.
Accepted == {m \in Msg : Committed(ReqOf[m])}
Delivery == INSTANCE EventDelivery WITH accepted <- Accepted,
                                        settled <- Accepted \ rows
ImplementsDelivery == Delivery!Spec

\* An event whose transaction reported success is eventually published and
\* its row removed, though notifications are dropped, replicas crash between
\* commit and notification, and handlers are registered late.
EventuallyPublished ==
    \A m \in Msg :
        bpc[ReqOf[m]] \in {"notify", "done"} ~> m \in Published /\ m \notin rows
=============================================================================
