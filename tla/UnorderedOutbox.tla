-------------------------- MODULE UnorderedOutbox ---------------------------
(***************************************************************************)
(* The unordered outbox that Authentication keeps for audit logs           *)
(* (logics/audit/audit_log_async_task.go, dbaccess/unordered_outbox.go).   *)
(*                                                                         *)
(* There is no lock: a push thread claims a row by an optimistic update of *)
(* f_status, publishes it, deletes it, and starts again.  While it works   *)
(* a second goroutine renews f_updated_at every ten seconds.  A claimed    *)
(* row that was not renewed for a minute is given back by any push thread, *)
(* and a starting replica gives back rows not renewed for 20 seconds.      *)
(* Neither the renewal nor the deletion asks whose claim the row is.       *)
(*                                                                         *)
(* Time passes in ticks of ten seconds; only the age of f_updated_at is    *)
(* kept, and a renewal that does not happen within its period is counted   *)
(* in missed.  External: the database and the broker.                      *)
(***************************************************************************)
EXTENDS Integers, Sequences, FiniteSets

CONSTANTS Replica,
          Msg,         \* the audit records
          Lease,       \* ticks after which push() gives a row back
          StartLease,  \* ticks after which a starting replica does
          Skew,        \* how far the clock of a replica is ahead, in ticks
          MaxSkew,     \* the largest difference of two clocks
          MaxFaults,   \* bound: crashes and failing calls
          MaxMissed,   \* bound: renewals that are late or fail
          NoMsg

ASSUME UnorderedOutboxAssumption ==
    /\ Lease \in Nat /\ StartLease \in Nat /\ StartLease <= Lease
    /\ Skew \in [Replica -> Int]
    /\ MaxSkew \in Nat
    /\ \A r, s \in Replica : Skew[r] - Skew[s] <= MaxSkew
    /\ MaxFaults \in Nat /\ MaxMissed \in Nat
    /\ NoMsg \notin Msg

VARIABLES
    \* a replica
    tpc,       \* where its push thread is
    cur,       \* auditLogAsyncInfo: the row it works on
    pushChan,  \* the one-place channel holds a token
    starting,  \* restartUnAsyncTask has not run yet
    renewing,  \* the rows its renewal goroutines look after
    due,       \* the ones whose ticker has fired
    \* t_outbox_unordered
    status,    \* f_status, "none" before and "gone" after the row's life
    age,       \* ticks since f_updated_at was written, up to MaxAge
    writer,    \* the replica whose clock was written
    \* the environment
    log,       \* what was published, in order
    faults, missed

threadVars == <<tpc, cur, pushChan, starting>>
rowVars    == <<status, age, writer>>
vars == <<tpc, cur, pushChan, starting, renewing, due, status, age, writer,
          log, faults, missed>>

ThreadState == {"down", "select", "restart", "get", "claim", "publish",
                "delete", "sleep"}
RowState    == {"none", "new", "busy", "gone"}
MaxAge      == Lease + MaxSkew + 1

Published == {log[i] : i \in 1..Len(log)}

Init ==
    /\ tpc = [r \in Replica |-> "down"]
    /\ cur = [r \in Replica |-> NoMsg]
    /\ pushChan = [r \in Replica |-> FALSE]
    /\ starting = [r \in Replica |-> FALSE]
    /\ renewing = [r \in Replica |-> {}]
    /\ due = [r \in Replica |-> {}]
    /\ status = [m \in Msg |-> "none"]
    /\ age = [m \in Msg |-> 0]
    /\ writer \in [Msg -> Replica]
    /\ log = <<>>
    /\ faults = 0
    /\ missed = 0

-----------------------------------------------------------------------------
(* Giving rows back.                                                       *)

\* The age of a row on the clock of r.
AgeFor(r, m) == age[m] + Skew[r] - Skew[writer[m]]

\* Mutant: no condition on f_updated_at.
RestartAll(r, limit) ==
    status' = [m \in Msg |-> IF status[m] = "busy" THEN "new" ELSE status[m]]

RestartUnorderedOutboxInfo(r, limit) ==
    status' = [m \in Msg |-> IF status[m] = "busy" /\ AgeFor(r, m) > limit
                             THEN "new" ELSE status[m]]

-----------------------------------------------------------------------------
(* A replica.                                                              *)

NewAuditLogAsyncTask(r) ==
    /\ tpc[r] = "down"
    /\ tpc' = [tpc EXCEPT ![r] = "select"]
    /\ starting' = [starting EXCEPT ![r] = TRUE]
    /\ UNCHANGED <<cur, pushChan, renewing, due, rowVars, log, faults, missed>>

\* The goroutine of the start; an error is logged and nothing is tried again.
restartUnAsyncTask(r) ==
    /\ starting[r]
    /\ starting' = [starting EXCEPT ![r] = FALSE]
    /\ RestartUnorderedOutboxInfo(r, StartLease)
    /\ UNCHANGED <<tpc, cur, pushChan, renewing, due, age, writer, log, faults,
                   missed>>

\* A row is inserted and the thread notified.  When the insertion reports an
\* error it returns before the notification, though the row may be there.
Log(r, m) ==
    /\ tpc[r] # "down"
    /\ status[m] = "none"
    /\ status' = [status EXCEPT ![m] = "new"]
    /\ age' = [age EXCEPT ![m] = 0]
    /\ writer' = [writer EXCEPT ![m] = r]
    /\ \/ pushChan' = [pushChan EXCEPT ![r] = TRUE]
       \/ UNCHANGED pushChan
    /\ UNCHANGED <<tpc, cur, starting, renewing, due, log, faults, missed>>

\* The select waits for a token or for the ticker, which always comes.
Wake(r) ==
    /\ tpc[r] = "select"
    /\ tpc' = [tpc EXCEPT ![r] = "restart"]
    /\ \/ pushChan[r] /\ pushChan' = [pushChan EXCEPT ![r] = FALSE]
       \/ UNCHANGED pushChan
    /\ UNCHANGED <<cur, starting, renewing, due, rowVars, log, faults, missed>>

\* Mutant: rows are given back at the start only.
PushNoRestart(r) ==
    /\ tpc[r] = "restart"
    /\ tpc' = [tpc EXCEPT ![r] = "get"]
    /\ UNCHANGED <<cur, pushChan, starting, renewing, due, rowVars, log, faults,
                   missed>>

PushRestart(r) ==
    /\ tpc[r] = "restart"
    /\ tpc' = [tpc EXCEPT ![r] = "get"]
    /\ RestartUnorderedOutboxInfo(r, Lease)
    /\ UNCHANGED <<cur, pushChan, starting, renewing, due, age, writer, log,
                   faults, missed>>

\* GetUnorderedOutboxInfo, the select: any row with status 0.
SelectRow(r) ==
    /\ tpc[r] = "get"
    /\ \/ /\ \A m \in Msg : status[m] # "new"
          /\ tpc' = [tpc EXCEPT ![r] = "select"]
          /\ UNCHANGED cur
       \/ \E m \in Msg :
             /\ status[m] = "new"
             /\ tpc' = [tpc EXCEPT ![r] = "claim"]
             /\ cur' = [cur EXCEPT ![r] = m]
    /\ UNCHANGED <<pushChan, starting, renewing, due, rowVars, log, faults, missed>>

Claimed(r) ==
    /\ status' = [status EXCEPT ![cur[r]] = "busy"]
    /\ age' = [age EXCEPT ![cur[r]] = 0]
    /\ writer' = [writer EXCEPT ![cur[r]] = r]

\* The update: one row affected is a claim, none means another was faster.
ClaimRow(r) ==
    /\ tpc[r] = "claim"
    /\ \/ /\ status[cur[r]] = "new"
          /\ Claimed(r)
          /\ tpc' = [tpc EXCEPT ![r] = "publish"]
          /\ renewing' = [renewing EXCEPT ![r] = @ \cup {cur[r]}]
          /\ UNCHANGED cur
       \/ /\ status[cur[r]] # "new"
          /\ tpc' = [tpc EXCEPT ![r] = "get"]
          /\ cur' = [cur EXCEPT ![r] = NoMsg]
          /\ UNCHANGED <<rowVars, renewing>>
    /\ UNCHANGED <<pushChan, starting, due, log, faults, missed>>

Publish(r) ==
    /\ tpc[r] = "publish"
    /\ log' = Append(log, cur[r])
    /\ tpc' = [tpc EXCEPT ![r] = "delete"]
    /\ UNCHANGED <<cur, pushChan, starting, renewing, due, rowVars, faults, missed>>

\* The deletion asks for status 1; that no row was affected is no error.
Deleted(m) == [status EXCEPT ![m] = IF @ = "busy" THEN "gone" ELSE @]

\* The context of the renewal is cancelled with the deletion, and push() is
\* called again.
DeleteUnorderedOutboxInfoByID(r) ==
    /\ tpc[r] = "delete"
    /\ status' = Deleted(cur[r])
    /\ tpc' = [tpc EXCEPT ![r] = "restart"]
    /\ cur' = [cur EXCEPT ![r] = NoMsg]
    /\ UNCHANGED <<pushChan, starting, renewing, due, age, writer, log, faults,
                   missed>>

\* Mutant: a failed deletion is tried again without publishing, and a failed
\* publication too.
RetryDelete(r) ==
    /\ tpc[r] = "sleep"
    /\ tpc' = [tpc EXCEPT ![r] = "delete"]
    /\ UNCHANGED <<cur, pushChan, starting, renewing, due, rowVars, log, faults,
                   missed>>

\* After an error and a pause, all of it again: publish, then delete.
Retry(r) ==
    /\ tpc[r] = "sleep"
    /\ tpc' = [tpc EXCEPT ![r] = "publish"]
    /\ UNCHANGED <<cur, pushChan, starting, renewing, due, rowVars, log, faults,
                   missed>>

PushStep(r) ==
    \/ Wake(r) \/ PushRestart(r) \/ SelectRow(r) \/ ClaimRow(r)
    \/ Publish(r) \/ DeleteUnorderedOutboxInfoByID(r) \/ Retry(r)

-----------------------------------------------------------------------------
(* The renewal goroutine and time.                                         *)

\* One that finds no row with status 1 ends.
autoRenewal(r, m) ==
    /\ m \in due[r]
    /\ due' = [due EXCEPT ![r] = @ \ {m}]
    /\ \/ /\ status[m] = "busy"
          /\ age' = [age EXCEPT ![m] = 0]
          /\ writer' = [writer EXCEPT ![m] = r]
          /\ UNCHANGED renewing
       \/ /\ status[m] # "busy"
          /\ renewing' = [renewing EXCEPT ![r] = @ \ {m}]
          /\ UNCHANGED <<age, writer>>
    /\ UNCHANGED <<threadVars, status, log, faults, missed>>

\* The goroutine sees that its context is cancelled.
StopRenewal(r, m) ==
    /\ m \in renewing[r]
    /\ m # cur[r]
    /\ renewing' = [renewing EXCEPT ![r] = @ \ {m}]
    /\ due' = [due EXCEPT ![r] = @ \ {m}]
    /\ UNCHANGED <<threadVars, rowVars, log, faults, missed>>

\* The update fails, or the goroutine does not get to it in time.
MissRenewal(r, m) ==
    /\ m \in due[r]
    /\ missed < MaxMissed
    /\ missed' = missed + 1
    /\ due' = [due EXCEPT ![r] = @ \ {m}]
    /\ UNCHANGED <<threadVars, renewing, rowVars, log, faults>>

\* f_updated_at is only read while the status is 1.
Tick ==
    /\ \A r \in Replica : due[r] = {}
    /\ age' = [m \in Msg |-> IF status[m] = "busy" /\ age[m] < MaxAge
                             THEN age[m] + 1 ELSE age[m]]
    /\ due' = renewing
    /\ UNCHANGED <<threadVars, renewing, status, writer, log, faults, missed>>

-----------------------------------------------------------------------------
(* Faults, bounded by MaxFaults.                                           *)

Fault == faults < MaxFaults /\ faults' = faults + 1

\* An error of the start's update.
StartError(r) ==
    /\ Fault
    /\ starting[r]
    /\ starting' = [starting EXCEPT ![r] = FALSE]
    /\ UNCHANGED <<tpc, cur, pushChan, renewing, due, rowVars, log, missed>>

\* An error before the row is claimed: push() is called again at once.  A
\* failed claim may have been applied, and then nobody works on the row.
GetError(r) ==
    /\ Fault
    /\ tpc[r] \in {"restart", "get", "claim"}
    /\ tpc' = [tpc EXCEPT ![r] = "restart"]
    /\ cur' = [cur EXCEPT ![r] = NoMsg]
    /\ \/ tpc[r] = "claim" /\ status[cur[r]] = "new" /\ Claimed(r)
       \/ UNCHANGED rowVars
    /\ UNCHANGED <<pushChan, starting, renewing, due, log, missed>>

\* An error of Publish or of the deletion, which may have taken effect.
WorkError(r) ==
    /\ Fault
    /\ tpc[r] \in {"publish", "delete"}
    /\ tpc' = [tpc EXCEPT ![r] = "sleep"]
    /\ log' \in IF tpc[r] = "publish" THEN {log, Append(log, cur[r])} ELSE {log}
    /\ status' \in IF tpc[r] = "delete" THEN {status, Deleted(cur[r])} ELSE {status}
    /\ UNCHANGED <<cur, pushChan, starting, renewing, due, age, writer, missed>>

Crash(r) ==
    /\ Fault
    /\ tpc[r] # "down"
    /\ tpc' = [tpc EXCEPT ![r] = "down"]
    /\ cur' = [cur EXCEPT ![r] = NoMsg]
    /\ pushChan' = [pushChan EXCEPT ![r] = FALSE]
    /\ starting' = [starting EXCEPT ![r] = FALSE]
    /\ renewing' = [renewing EXCEPT ![r] = {}]
    /\ due' = [due EXCEPT ![r] = {}]
    /\ UNCHANGED <<rowVars, log, missed>>

-----------------------------------------------------------------------------

Next ==
    \/ \E r \in Replica :
          \/ NewAuditLogAsyncTask(r) \/ restartUnAsyncTask(r)
          \/ PushStep(r)
          \/ StartError(r) \/ GetError(r) \/ WorkError(r) \/ Crash(r)
          \/ \E m \in Msg :
                \/ Log(r, m)
                \/ autoRenewal(r, m) \/ StopRenewal(r, m) \/ MissRenewal(r, m)
    \/ Tick

\* Goroutines keep running, dead replicas are restarted, time passes.
Fairness ==
    /\ \A r \in Replica :
          /\ WF_vars(NewAuditLogAsyncTask(r))
          /\ WF_vars(restartUnAsyncTask(r))
          /\ WF_vars(PushStep(r))
          /\ \A m \in Msg : WF_vars(autoRenewal(r, m)) /\ WF_vars(StopRenewal(r, m))
    /\ WF_vars(Tick)

Spec == Init /\ [][Next]_vars

FairSpec == Spec /\ Fairness

-----------------------------------------------------------------------------
(* Properties.                                                             *)

\* The types of the rows, threads and renewal goroutines.
TypeOK ==
    /\ tpc \in [Replica -> ThreadState]
    /\ cur \in [Replica -> Msg \cup {NoMsg}]
    /\ pushChan \in [Replica -> BOOLEAN]
    /\ starting \in [Replica -> BOOLEAN]
    /\ renewing \in [Replica -> SUBSET Msg]
    /\ due \in [Replica -> SUBSET Msg]
    /\ status \in [Msg -> RowState]
    /\ age \in [Msg -> 0..MaxAge]
    /\ writer \in [Msg -> Replica]
    /\ log \in Seq(Msg)
    /\ faults \in 0..MaxFaults
    /\ missed \in 0..MaxMissed

\* No record is lost: a row disappears only after its record was published,
\* though the deletion does not ask whose claim it ends.
NoLoss == \A m \in Msg : status[m] = "gone" => m \in Published

\* What makes NoLoss inductive: the work of a thread.
WorkInv ==
    \A r \in Replica :
        /\ tpc[r] \in {"claim", "publish", "delete", "sleep"} =>
              cur[r] \in Msg /\ status[cur[r]] # "none"
        /\ tpc[r] = "delete" => cur[r] \in Published

\* Claimed at most once at a time: while no call fails and no replica dies,
\* no record is published twice, however replicas race for a row, even when
\* some renewals are late.  How many may be is what the shorter of the two
\* limits leaves after one period and the difference of the clocks.
NoDuplicateWithoutFault ==
    faults = 0 /\ missed + MaxSkew + 1 <= StartLease =>
        \A i, j \in 1..Len(log) : log[i] = log[j] => i = j

\* The unordered outbox implements EventDelivery too.
Delivery == INSTANCE EventDelivery
    WITH accepted <- {m \in Msg : status[m] # "none"},
         settled <- {m \in Msg : status[m] = "gone"}
ImplementsDelivery == Delivery!Spec

\* Every record is eventually published and its row removed: a claim whose
\* owner died or never knew of it is given back, however the owners of old
\* claims go on renewing.
EventuallyPublished ==
    \A m \in Msg :
        status[m] # "none" ~> status[m] = "gone" /\ m \in Published
=============================================================================
