----------------------- MODULE UnorderedOutboxProofs ------------------------
(***************************************************************************)
(* Proofs about UnorderedOutbox, for any number of replicas and records,   *)
(* any clocks within MaxSkew and any bounds.                               *)
(***************************************************************************)
EXTENDS UnorderedOutbox, TLAPS

USE DEF ThreadState, RowState

\* Appending to a log adds exactly the appended record to what was published.
LEMMA AppendPublished ==
    ASSUME NEW S, NEW s \in Seq(S), NEW m \in S
    PROVE  {Append(s, m)[i] : i \in 1..Len(Append(s, m))}
             = {s[i] : i \in 1..Len(s)} \cup {m}
  OBVIOUS

\* Publishing a record adds exactly that record to what was published.
LEMMA LogPublishes ==
    ASSUME TypeOK, NEW m \in Msg, log' = Append(log, m)
    PROVE  Published' = Published \cup {m}
<1>1. log \in Seq(Msg)
  BY DEF TypeOK
<1>2. {Append(log, m)[i] : i \in 1..Len(Append(log, m))}
        = {log[i] : i \in 1..Len(log)} \cup {m}
  BY <1>1, AppendPublished
<1>3. Published' = {Append(log, m)[i] : i \in 1..Len(Append(log, m))}
  BY DEF Published
<1> QED BY <1>2, <1>3 DEF Published

-----------------------------------------------------------------------------
(* Types, and what a thread works on.                                      *)

\* Every initial state is well typed.
LEMMA InitTypeOK == Init => TypeOK
<1> SUFFICES ASSUME Init PROVE TypeOK
  OBVIOUS
<1>1. pushChan \in [Replica -> BOOLEAN] /\ starting \in [Replica -> BOOLEAN]
  BY Zenon DEF Init
<1>2. /\ tpc \in [Replica -> ThreadState]
      /\ cur \in [Replica -> Msg \cup {NoMsg}]
      /\ renewing \in [Replica -> SUBSET Msg]
      /\ due \in [Replica -> SUBSET Msg]
      /\ status \in [Msg -> RowState]
      /\ writer \in [Msg -> Replica]
      /\ log \in Seq(Msg)
  BY DEF Init
<1>3. age \in [Msg -> 0..MaxAge] /\ faults \in 0..MaxFaults /\ missed \in 0..MaxMissed
  BY UnorderedOutboxAssumption DEF Init, MaxAge
<1> QED
  BY <1>1, <1>2, <1>3 DEF TypeOK

\* Claimed and Deleted keep the table well typed.
LEMMA RowTypes ==
    ASSUME TypeOK, NEW r \in Replica, cur[r] \in Msg
    PROVE  /\ Claimed(r) => /\ status' \in [Msg -> RowState]
                            /\ age' \in [Msg -> 0..MaxAge]
                            /\ writer' \in [Msg -> Replica]
           /\ Deleted(cur[r]) \in [Msg -> RowState]
<1>1. 0 \in 0..MaxAge
  BY UnorderedOutboxAssumption DEF MaxAge
<1>2. ASSUME Claimed(r)
      PROVE  /\ status' \in [Msg -> RowState]
             /\ age' \in [Msg -> 0..MaxAge]
             /\ writer' \in [Msg -> Replica]
  BY <1>1, <1>2 DEF TypeOK, Claimed
<1>3. Deleted(cur[r]) \in [Msg -> RowState]
  <2>1. CASE status[cur[r]] = "busy"
    BY <2>1 DEF TypeOK, Deleted
  <2>2. CASE status[cur[r]] # "busy"
    BY <2>2 DEF TypeOK, Deleted
  <2> QED BY <2>1, <2>2
<1> QED
  BY <1>2, <1>3

\* Every step keeps the state well typed.
LEMMA NextTypeOK ==
    ASSUME TypeOK, WorkInv, [Next]_vars
    PROVE  TypeOK'
<1> USE UnorderedOutboxAssumption
<1>0. 0 \in 0..MaxAge
  BY DEF MaxAge
<1>1. ASSUME NEW r \in Replica, NewAuditLogAsyncTask(r) PROVE TypeOK'
  <2>1. starting' \in [Replica -> BOOLEAN]
    BY <1>1, Zenon DEF TypeOK, NewAuditLogAsyncTask
  <2> QED BY <1>1, <2>1 DEF TypeOK, NewAuditLogAsyncTask, rowVars
<1>2. ASSUME NEW r \in Replica, restartUnAsyncTask(r) PROVE TypeOK'
  <2>1. starting' \in [Replica -> BOOLEAN]
    BY <1>2, Zenon DEF TypeOK, restartUnAsyncTask
  <2> QED BY <1>2, <2>1 DEF TypeOK, restartUnAsyncTask, RestartUnorderedOutboxInfo
<1>3. ASSUME NEW r \in Replica, PushStep(r) PROVE TypeOK'
  <2>1. CASE Wake(r)
    <3>1. pushChan' \in [Replica -> BOOLEAN]
      <4>1. CASE pushChan' = [pushChan EXCEPT ![r] = FALSE]
        BY <4>1, Zenon DEF TypeOK
      <4>2. CASE UNCHANGED pushChan
        BY <4>2 DEF TypeOK
      <4> QED BY <2>1, <4>1, <4>2 DEF Wake
    <3> QED BY <2>1, <3>1 DEF TypeOK, Wake, rowVars
  <2>2. CASE PushRestart(r)
    BY <2>2 DEF TypeOK, PushRestart, RestartUnorderedOutboxInfo
  <2>3. CASE SelectRow(r)
    <3>1. tpc' \in [Replica -> ThreadState] /\ cur' \in [Replica -> Msg \cup {NoMsg}]
      <4>1. CASE tpc' = [tpc EXCEPT ![r] = "select"] /\ UNCHANGED cur
        BY <4>1 DEF TypeOK
      <4>2. ASSUME NEW m \in Msg, tpc' = [tpc EXCEPT ![r] = "claim"],
                   cur' = [cur EXCEPT ![r] = m]
            PROVE  /\ tpc' \in [Replica -> ThreadState]
                   /\ cur' \in [Replica -> Msg \cup {NoMsg}]
        BY <4>2 DEF TypeOK
      <4> QED BY <2>3, <4>1, <4>2 DEF SelectRow
    <3> QED BY <2>3, <3>1 DEF TypeOK, SelectRow, rowVars
  <2>4. CASE ClaimRow(r)
    <3>1. cur[r] \in Msg
      BY <2>4 DEF ClaimRow, WorkInv
    <3>2. CASE status[cur[r]] = "new"
      <4>1. status' \in [Msg -> RowState] /\ age' \in [Msg -> 0..MaxAge]
            /\ writer' \in [Msg -> Replica]
        BY <2>4, <3>1, <3>2, RowTypes DEF ClaimRow
      <4>2. /\ tpc' = [tpc EXCEPT ![r] = "publish"]
            /\ renewing' = [renewing EXCEPT ![r] = @ \cup {cur[r]}]
            /\ UNCHANGED <<cur, pushChan, starting, due, log, faults, missed>>
        BY <2>4, <3>2 DEF ClaimRow
      <4> QED BY <3>1, <4>1, <4>2 DEF TypeOK
    <3>3. CASE status[cur[r]] # "new"
      BY <2>4, <3>3 DEF TypeOK, ClaimRow, rowVars
    <3> QED BY <3>2, <3>3
  <2>5. CASE Publish(r)
    <3>1. cur[r] \in Msg
      BY <2>5 DEF Publish, WorkInv
    <3> QED BY <2>5, <3>1 DEF TypeOK, Publish, rowVars
  <2>6. CASE DeleteUnorderedOutboxInfoByID(r)
    <3>1. status' \in [Msg -> RowState]
      BY <2>6, RowTypes DEF DeleteUnorderedOutboxInfoByID, WorkInv
    <3> QED BY <2>6, <3>1 DEF TypeOK, DeleteUnorderedOutboxInfoByID
  <2>7. CASE Retry(r)
    BY <2>7 DEF TypeOK, Retry, rowVars
  <2> QED
    BY <1>3, <2>1, <2>2, <2>3, <2>4, <2>5, <2>6, <2>7 DEF PushStep
<1>4. ASSUME NEW r \in Replica, StartError(r) PROVE TypeOK'
  <2>1. starting' \in [Replica -> BOOLEAN]
    BY <1>4, Zenon DEF TypeOK, StartError
  <2> QED BY <1>4, <2>1 DEF TypeOK, StartError, Fault, rowVars
<1>5. ASSUME NEW r \in Replica, GetError(r) PROVE TypeOK'
  <2>1. /\ status' \in [Msg -> RowState] /\ age' \in [Msg -> 0..MaxAge]
        /\ writer' \in [Msg -> Replica]
    <3>1. CASE tpc[r] = "claim" /\ Claimed(r)
      BY <3>1, RowTypes DEF WorkInv
    <3>2. CASE UNCHANGED rowVars
      BY <3>2 DEF TypeOK, rowVars
    <3> QED BY <1>5, <3>1, <3>2 DEF GetError
  <2> QED BY <1>5, <2>1 DEF TypeOK, GetError, Fault
<1>6. ASSUME NEW r \in Replica, WorkError(r) PROVE TypeOK'
  <2>1. cur[r] \in Msg
    BY <1>6 DEF WorkError, WorkInv
  <2>2. status' \in [Msg -> RowState] /\ log' \in Seq(Msg)
    <3>1. Deleted(cur[r]) \in [Msg -> RowState] /\ Append(log, cur[r]) \in Seq(Msg)
      BY <2>1, RowTypes DEF TypeOK
    <3>2. status' \in {status, Deleted(cur[r])} /\ log' \in {log, Append(log, cur[r])}
      BY <1>6 DEF WorkError
    <3> QED BY <3>1, <3>2 DEF TypeOK
  <2>3. /\ tpc' = [tpc EXCEPT ![r] = "sleep"]
        /\ faults' \in 0..MaxFaults
        /\ UNCHANGED <<cur, pushChan, starting, renewing, due, age, writer, missed>>
    BY <1>6 DEF WorkError, Fault, TypeOK
  <2> QED BY <2>2, <2>3 DEF TypeOK
<1>7. ASSUME NEW r \in Replica, Crash(r) PROVE TypeOK'
  <2>1. starting' \in [Replica -> BOOLEAN] /\ pushChan' \in [Replica -> BOOLEAN]
    BY <1>7, Zenon DEF TypeOK, Crash
  <2> QED BY <1>7, <2>1 DEF TypeOK, Crash, Fault, rowVars
<1>8. ASSUME NEW r \in Replica, NEW m \in Msg, Log(r, m) PROVE TypeOK'
  <2>1. pushChan' \in [Replica -> BOOLEAN]
    BY <1>8, Zenon DEF TypeOK, Log
  <2> QED BY <1>0, <1>8, <2>1 DEF TypeOK, Log
<1>9. ASSUME NEW r \in Replica, NEW m \in Msg, autoRenewal(r, m) PROVE TypeOK'
  <2>1. CASE status[m] = "busy"
    <3>1. /\ due' = [due EXCEPT ![r] = @ \ {m}]
          /\ age' = [age EXCEPT ![m] = 0] /\ writer' = [writer EXCEPT ![m] = r]
          /\ UNCHANGED <<tpc, cur, pushChan, starting, renewing, status, log, faults,
                         missed>>
      BY <1>9, <2>1 DEF autoRenewal, threadVars
    <3>2. age' \in [Msg -> 0..MaxAge]
      BY <1>0, <3>1 DEF TypeOK
    <3> QED BY <3>1, <3>2 DEF TypeOK
  <2>2. CASE status[m] # "busy"
    <3>1. /\ due' = [due EXCEPT ![r] = @ \ {m}]
          /\ renewing' = [renewing EXCEPT ![r] = @ \ {m}]
          /\ UNCHANGED <<tpc, cur, pushChan, starting, status, age, writer, log,
                         faults, missed>>
      BY <1>9, <2>2 DEF autoRenewal, threadVars
    <3> QED BY <3>1 DEF TypeOK
  <2> QED BY <2>1, <2>2
<1>10. ASSUME NEW r \in Replica, NEW m \in Msg, StopRenewal(r, m) PROVE TypeOK'
  BY <1>10 DEF TypeOK, StopRenewal, threadVars, rowVars
<1>11. ASSUME NEW r \in Replica, NEW m \in Msg, MissRenewal(r, m) PROVE TypeOK'
  BY <1>11 DEF TypeOK, MissRenewal, threadVars, rowVars
<1>12. ASSUME Tick PROVE TypeOK'
  <2>1. age' \in [Msg -> 0..MaxAge]
    BY <1>12 DEF TypeOK, Tick, MaxAge
  <2> QED BY <1>12, <2>1 DEF TypeOK, Tick, threadVars
<1>13. ASSUME UNCHANGED vars PROVE TypeOK'
  BY <1>13 DEF TypeOK, vars
<1> QED
  BY <1>1, <1>2, <1>3, <1>4, <1>5, <1>6, <1>7, <1>8, <1>9, <1>10, <1>11, <1>12,
     <1>13 DEF Next

-----------------------------------------------------------------------------
(* No record is lost.                                                      *)

\* What was published stays published.
LEMMA PublishedGrows ==
    ASSUME TypeOK, WorkInv, [Next]_vars
    PROVE  Published \subseteq Published'
<1>1. CASE log' = log
  BY <1>1 DEF Published
<1>2. ASSUME NEW r \in Replica, cur[r] \in Msg, log' = Append(log, cur[r])
      PROVE  Published \subseteq Published'
  BY <1>2, LogPublishes
<1>3. ASSUME NEW r \in Replica, Publish(r) \/ WorkError(r)
      PROVE  log' = log \/ (cur[r] \in Msg /\ log' = Append(log, cur[r]))
  BY <1>3 DEF Publish, WorkError, WorkInv
<1>4. log' = log \/ \E r \in Replica : Publish(r) \/ WorkError(r)
  BY DEF Next, vars, NewAuditLogAsyncTask, restartUnAsyncTask, PushStep, Wake,
         PushRestart, SelectRow, ClaimRow, DeleteUnorderedOutboxInfoByID, Retry,
         StartError, GetError, Crash, Log, autoRenewal, StopRenewal, MissRenewal,
         Tick
<1> QED
  BY <1>1, <1>2, <1>3, <1>4

\* A row is created once and never comes back.
LEMMA RowLife ==
    ASSUME TypeOK, WorkInv, [Next]_vars, NEW m \in Msg
    PROVE  /\ status[m] # "none" => status'[m] # "none"
           /\ status'[m] = "gone" => status[m] = "gone" \/ m \in Published
<1>1. ASSUME NEW r \in Replica, NEW limit, RestartUnorderedOutboxInfo(r, limit)
      PROVE  /\ status[m] # "none" => status'[m] # "none"
             /\ status'[m] = "gone" => status[m] = "gone"
  BY <1>1 DEF RestartUnorderedOutboxInfo
<1>2. ASSUME NEW r \in Replica, cur[r] \in Msg, Claimed(r)
      PROVE  /\ status[m] # "none" => status'[m] # "none"
             /\ status'[m] = "gone" => status[m] = "gone"
  BY <1>2 DEF Claimed, TypeOK
<1>3. ASSUME NEW r \in Replica, tpc[r] = "delete", status' = Deleted(cur[r])
      PROVE  /\ status[m] # "none" => status'[m] # "none"
             /\ status'[m] = "gone" => status[m] = "gone" \/ m \in Published
  <2>1. cur[r] \in Msg /\ cur[r] \in Published
    BY <1>3 DEF WorkInv
  <2>2. CASE m = cur[r]
    BY <1>3, <2>1, <2>2 DEF Deleted, TypeOK
  <2>3. CASE m # cur[r]
    BY <1>3, <2>1, <2>3 DEF Deleted, TypeOK
  <2> QED BY <2>2, <2>3
<1>4. ASSUME NEW r \in Replica, NEW n \in Msg, Log(r, n)
      PROVE  /\ status[m] # "none" => status'[m] # "none"
             /\ status'[m] = "gone" => status[m] = "gone"
  BY <1>4 DEF Log, TypeOK
<1>5. ASSUME NEW r \in Replica, ClaimRow(r) \/ GetError(r)
      PROVE  status' = status \/ (cur[r] \in Msg /\ Claimed(r))
  BY <1>5 DEF ClaimRow, GetError, WorkInv, rowVars
<1>6. ASSUME NEW r \in Replica, DeleteUnorderedOutboxInfoByID(r) \/ WorkError(r)
      PROVE  status' = status \/ (tpc[r] = "delete" /\ status' = Deleted(cur[r]))
  BY <1>6 DEF DeleteUnorderedOutboxInfoByID, WorkError
<1>7. \/ status' = status
      \/ \E r \in Replica :
            \/ ClaimRow(r) \/ GetError(r)
            \/ DeleteUnorderedOutboxInfoByID(r) \/ WorkError(r)
            \/ RestartUnorderedOutboxInfo(r, Lease)
            \/ RestartUnorderedOutboxInfo(r, StartLease)
            \/ \E n \in Msg : Log(r, n)
  BY DEF Next, vars, rowVars, NewAuditLogAsyncTask, restartUnAsyncTask, PushStep,
         Wake, PushRestart, SelectRow, Publish, Retry, StartError, Crash,
         autoRenewal, StopRenewal, MissRenewal, Tick
<1> QED
  BY <1>1, <1>2, <1>3, <1>4, <1>5, <1>6, <1>7

\* A thread goes on with the row it has, or begins with one it has read.
LEMMA NextWorkInv ==
    ASSUME TypeOK, WorkInv, [Next]_vars
    PROVE  WorkInv'
<1> SUFFICES ASSUME NEW r \in Replica
             PROVE  /\ tpc'[r] \in {"claim", "publish", "delete", "sleep"} =>
                          cur'[r] \in Msg /\ status'[cur'[r]] # "none"
                    /\ tpc'[r] = "delete" => cur'[r] \in Published'
  BY DEF WorkInv
<1>1. CASE tpc'[r] = tpc[r] /\ cur'[r] = cur[r]
  BY <1>1, RowLife, PublishedGrows DEF WorkInv
<1>2. ASSUME PushStep(r)
      PROVE  /\ tpc'[r] \in {"claim", "publish", "delete", "sleep"} =>
                   cur'[r] \in Msg /\ status'[cur'[r]] # "none"
             /\ tpc'[r] = "delete" => cur'[r] \in Published'
  <2>1. CASE Wake(r) \/ PushRestart(r)
    BY <2>1 DEF Wake, PushRestart, TypeOK
  <2>2. CASE SelectRow(r)
    BY <2>2 DEF SelectRow, TypeOK, rowVars
  <2>3. CASE ClaimRow(r)
    <3>1. cur[r] \in Msg /\ status[cur[r]] # "none"
      BY <2>3 DEF ClaimRow, WorkInv
    <3>2. tpc'[r] = "get" \/ (tpc'[r] = "publish" /\ cur' = cur)
      BY <2>3 DEF ClaimRow, TypeOK
    <3> QED BY <3>1, <3>2, RowLife
  <2>4. CASE Publish(r)
    <3>1. cur[r] \in Msg /\ status[cur[r]] # "none"
      BY <2>4 DEF Publish, WorkInv
    <3>2. /\ tpc'[r] = "delete" /\ cur' = cur /\ status' = status
          /\ log' = Append(log, cur[r])
      BY <2>4 DEF Publish, TypeOK, rowVars
    <3>3. cur[r] \in Published'
      BY <3>1, <3>2, LogPublishes
    <3> QED BY <3>1, <3>2, <3>3
  <2>5. CASE DeleteUnorderedOutboxInfoByID(r)
    BY <2>5 DEF DeleteUnorderedOutboxInfoByID, TypeOK
  <2>6. CASE Retry(r)
    BY <2>6 DEF Retry, TypeOK, WorkInv, rowVars
  <2> QED BY <1>2, <2>1, <2>2, <2>3, <2>4, <2>5, <2>6 DEF PushStep
<1>3. CASE NewAuditLogAsyncTask(r) \/ GetError(r) \/ Crash(r)
  BY <1>3 DEF NewAuditLogAsyncTask, GetError, Crash, TypeOK
<1>4. CASE WorkError(r)
  <2>1. cur[r] \in Msg /\ status[cur[r]] # "none"
    BY <1>4 DEF WorkError, WorkInv
  <2>2. tpc'[r] = "sleep" /\ cur' = cur
    BY <1>4 DEF WorkError, TypeOK
  <2> QED BY <2>1, <2>2, RowLife
<1>5. \/ tpc'[r] = tpc[r] /\ cur'[r] = cur[r]
      \/ PushStep(r) \/ NewAuditLogAsyncTask(r) \/ GetError(r) \/ Crash(r) \/ WorkError(r)
  <2>1. CASE tpc' = tpc /\ cur' = cur
    BY <2>1
  <2>2. ASSUME NEW s \in Replica, s # r,
               PushStep(s) \/ NewAuditLogAsyncTask(s) \/ GetError(s) \/ Crash(s)
                  \/ WorkError(s)
        PROVE  tpc'[r] = tpc[r] /\ cur'[r] = cur[r]
    BY <2>2 DEF TypeOK, PushStep, NewAuditLogAsyncTask, GetError, Crash, WorkError,
           Wake, PushRestart, SelectRow, ClaimRow, Publish,
           DeleteUnorderedOutboxInfoByID, Retry
  <2>3. \/ tpc' = tpc /\ cur' = cur
        \/ \E s \in Replica : PushStep(s) \/ NewAuditLogAsyncTask(s) \/ GetError(s)
                                 \/ Crash(s) \/ WorkError(s)
    BY DEF Next, vars, restartUnAsyncTask, StartError, Log, autoRenewal, StopRenewal,
           MissRenewal, Tick, threadVars
  <2> QED BY <2>1, <2>2, <2>3
<1> QED
  BY <1>1, <1>2, <1>3, <1>4, <1>5

\* The table and the threads agree in every reachable state.
LEMMA Safe == Spec => [](TypeOK /\ WorkInv /\ NoLoss)
<1>1. Init => TypeOK /\ WorkInv /\ NoLoss
  BY InitTypeOK DEF Init, WorkInv, NoLoss
<1>2. TypeOK /\ WorkInv /\ NoLoss /\ [Next]_vars => (TypeOK /\ WorkInv /\ NoLoss)'
  <2> SUFFICES ASSUME TypeOK, WorkInv, NoLoss, [Next]_vars
               PROVE  (TypeOK /\ WorkInv /\ NoLoss)'
    OBVIOUS
  <2>1. NoLoss'
    BY RowLife, PublishedGrows DEF NoLoss
  <2> QED BY <2>1, NextTypeOK, NextWorkInv
<1> QED
  BY <1>1, <1>2, PTL DEF Spec

\* A row leaves t_outbox_unordered only after its record was published, under
\* any faults, any lateness of renewals and any clocks.
THEOREM NoRecordLost == Spec => [](TypeOK /\ NoLoss)
BY Safe, PTL

-----------------------------------------------------------------------------
(* No record is published twice while nothing fails.  A claimed row has    *)
(* exactly one thread that works on it, and that thread's renewals keep    *)
(* the row younger than every limit: its age is at most the renewals       *)
(* missed so far, and one more while a renewal is due.                     *)

Calm == faults = 0 /\ missed + MaxSkew + 1 <= StartLease

Working(r) == tpc[r] \in {"publish", "delete"}

Fresh(r) ==
    /\ status[cur[r]] = "busy"
    /\ cur[r] \in renewing[r]
    /\ age[cur[r]] <= missed + 1
    /\ cur[r] \notin due[r] => age[cur[r]] <= missed

NoSleep == \A r \in Replica : tpc[r] # "sleep"
ClaimsFresh == \A r \in Replica : Working(r) => Fresh(r)
OneWorker ==
    \A r, s \in Replica : Working(r) /\ Working(s) /\ cur[r] = cur[s] => r = s
Unpublished ==
    /\ \A r \in Replica : tpc[r] = "publish" => cur[r] \notin Published
    /\ \A m \in Msg : status[m] \in {"none", "new"} => m \notin Published
BusyHasWorker ==
    \A m \in Msg : status[m] = "busy" => \E r \in Replica : Working(r) /\ cur[r] = m
Once == \A i, j \in 1..Len(log) : log[i] = log[j] => i = j

CalmInv == NoSleep /\ ClaimsFresh /\ OneWorker /\ Unpublished /\ BusyHasWorker /\ Once

\* A row that is worked on is never given back.
LEMMA RestartCalm ==
    ASSUME TypeOK, Calm, CalmInv, NEW r \in Replica, NEW limit \in Nat,
           StartLease <= limit, RestartUnorderedOutboxInfo(r, limit)
    PROVE  status' = status
<1> SUFFICES ASSUME NEW m \in Msg PROVE ~(status[m] = "busy" /\ AgeFor(r, m) > limit)
  BY DEF RestartUnorderedOutboxInfo, TypeOK
<1> SUFFICES ASSUME status[m] = "busy" PROVE AgeFor(r, m) <= limit
  BY UnorderedOutboxAssumption DEF AgeFor, TypeOK, MaxAge
<1>1. age[m] <= missed + 1
  BY DEF CalmInv, BusyHasWorker, ClaimsFresh, Fresh
<1>2. writer[m] \in Replica /\ age[m] \in Int /\ missed \in Int
  BY UnorderedOutboxAssumption DEF TypeOK, MaxAge
<1>3. Skew[r] - Skew[writer[m]] <= MaxSkew /\ Skew[r] \in Int /\ Skew[writer[m]] \in Int
  BY <1>2, UnorderedOutboxAssumption
<1> QED
  BY <1>1, <1>2, <1>3, UnorderedOutboxAssumption DEF AgeFor, Calm

\* Steps that leave the rows, the renewals and the log alone, and move a
\* thread only between states in which it works on nothing.
LEMMA IdleStep ==
    ASSUME TypeOK, CalmInv,
           UNCHANGED <<status, age, renewing, due, log, missed>>,
           \A r \in Replica : \/ tpc'[r] = tpc[r] /\ cur'[r] = cur[r]
                              \/ /\ ~Working(r)
                                 /\ tpc'[r] \notin {"publish", "delete", "sleep"}
    PROVE  CalmInv'
<1>1. \A r \in Replica : /\ Working(r)' <=> Working(r)
                         /\ Working(r) => cur'[r] = cur[r] /\ tpc'[r] = tpc[r]
  BY DEF Working
<1>2. Published' = Published
  BY DEF Published
<1>3. NoSleep'
  BY DEF CalmInv, NoSleep
<1>4. ClaimsFresh'
  BY <1>1 DEF CalmInv, ClaimsFresh, Fresh
<1>5. OneWorker'
  BY <1>1 DEF CalmInv, OneWorker
<1>6. Unpublished'
  BY <1>1, <1>2 DEF CalmInv, Unpublished, Working
<1>7. BusyHasWorker'
  BY <1>1 DEF CalmInv, BusyHasWorker
<1>8. Once'
  BY DEF CalmInv, Once
<1> QED
  BY <1>3, <1>4, <1>5, <1>6, <1>7, <1>8 DEF CalmInv

\* Steps of the clock, of renewals and of new records: the threads and the
\* log stay as they are.
LEMMA TimeStep ==
    ASSUME TypeOK, CalmInv, UNCHANGED <<tpc, cur, log>>,
           \A m \in Msg : \/ status'[m] = status[m]
                          \/ status[m] = "none" /\ status'[m] = "new",
           \A r \in Replica : Working(r) => Fresh(r)'
    PROVE  CalmInv'
<1>1. \A r \in Replica : Working(r)' <=> Working(r)
  BY DEF Working
<1>2. Published' = Published
  BY DEF Published
<1>3. NoSleep' /\ Once'
  BY DEF CalmInv, NoSleep, Once
<1>4. ClaimsFresh'
  BY <1>1 DEF ClaimsFresh
<1>5. OneWorker'
  BY <1>1 DEF CalmInv, OneWorker
<1>6. Unpublished'
  BY <1>2 DEF CalmInv, Unpublished
<1>7. BusyHasWorker'
  BY <1>1 DEF CalmInv, BusyHasWorker
<1> QED
  BY <1>3, <1>4, <1>5, <1>6, <1>7 DEF CalmInv

\* A claim, the publication and the deletion.
LEMMA WorkStep ==
    ASSUME TypeOK, WorkInv, CalmInv, NEW r \in Replica,
           ClaimRow(r) \/ Publish(r) \/ DeleteUnorderedOutboxInfoByID(r)
    PROVE  CalmInv'
<1>1. CASE ClaimRow(r) /\ status[cur[r]] # "new"
  <2>1. /\ tpc' = [tpc EXCEPT ![r] = "get"] /\ cur' = [cur EXCEPT ![r] = NoMsg]
        /\ tpc[r] = "claim"
        /\ UNCHANGED <<status, age, renewing, due, log, missed>>
    BY <1>1 DEF ClaimRow, rowVars
  <2> QED BY <2>1, IdleStep DEF TypeOK, Working
<1>2. CASE ClaimRow(r) /\ status[cur[r]] = "new"
  <2> DEFINE m == cur[r]
  <2>1. m \in Msg /\ tpc[r] = "claim"
    BY <1>2 DEF ClaimRow, WorkInv
  <2>2. /\ status' = [status EXCEPT ![m] = "busy"] /\ age' = [age EXCEPT ![m] = 0]
        /\ tpc' = [tpc EXCEPT ![r] = "publish"]
        /\ renewing' = [renewing EXCEPT ![r] = @ \cup {m}]
        /\ cur' = cur /\ due' = due /\ log' = log /\ missed' = missed
    BY <1>2 DEF ClaimRow, Claimed
  <2>3. Published' = Published /\ missed \in Nat
    BY <2>2, UnorderedOutboxAssumption DEF Published, TypeOK
  <2>4. \A s \in Replica : Working(s) => cur[s] # m /\ s # r
    BY <1>2, <2>1 DEF CalmInv, ClaimsFresh, Fresh, Working
  <2>5. \A s \in Replica : Working(s)' <=> s = r \/ Working(s)
    BY <2>2 DEF Working, TypeOK
  <2>6. NoSleep' /\ Once'
    BY <2>2 DEF CalmInv, NoSleep, Once, TypeOK
  <2>7. ClaimsFresh'
    <3>1. Fresh(r)'
      BY <2>1, <2>2, <2>3 DEF Fresh, TypeOK
    <3>2. ASSUME NEW s \in Replica, s # r, Working(s) PROVE Fresh(s)'
      <4>1. Fresh(s) /\ cur[s] \in Msg /\ cur[s] # m
        BY <2>4, <3>2 DEF CalmInv, ClaimsFresh, WorkInv, Working
      <4> QED BY <2>1, <2>2, <3>2, <4>1 DEF Fresh, TypeOK
    <3> QED BY <2>5, <3>1, <3>2 DEF ClaimsFresh
  <2>8. OneWorker'
    BY <2>2, <2>4, <2>5 DEF CalmInv, OneWorker
  <2>9. Unpublished'
    <3>1. m \notin Published
      BY <1>2, <2>1 DEF CalmInv, Unpublished
    <3> QED BY <2>1, <2>2, <2>3, <3>1 DEF CalmInv, Unpublished, TypeOK
  <2>10. BusyHasWorker'
    BY <2>1, <2>2, <2>5 DEF CalmInv, BusyHasWorker, TypeOK
  <2> QED
    BY <2>6, <2>7, <2>8, <2>9, <2>10 DEF CalmInv
<1>3. CASE Publish(r)
  <2> DEFINE m == cur[r]
  <2>1. m \in Msg /\ tpc[r] = "publish"
    BY <1>3 DEF Publish, WorkInv
  <2>2. /\ log' = Append(log, m) /\ tpc' = [tpc EXCEPT ![r] = "delete"]
        /\ UNCHANGED <<cur, renewing, due, status, age, missed>>
    BY <1>3 DEF Publish, rowVars
  <2>3. m \notin Published /\ status[m] = "busy"
    BY <2>1 DEF CalmInv, Unpublished, ClaimsFresh, Fresh, Working
  <2>4. Published' = Published \cup {m}
    <3> HIDE DEF m
    <3> QED BY <2>1, <2>2, LogPublishes
  <2>5. \A s \in Replica : Working(s)' <=> Working(s)
    BY <2>1, <2>2 DEF Working, TypeOK
  <2>6. NoSleep'
    BY <2>2 DEF CalmInv, NoSleep, TypeOK
  <2>7. ClaimsFresh'
    BY <2>2, <2>5 DEF CalmInv, ClaimsFresh, Fresh
  <2>8. OneWorker'
    BY <2>2, <2>5 DEF CalmInv, OneWorker
  <2>9. Unpublished'
    <3>1. ASSUME NEW s \in Replica, tpc'[s] = "publish"
          PROVE  cur'[s] \notin Published'
      <4>1. s # r /\ tpc[s] = "publish"
        BY <2>2, <3>1 DEF TypeOK
      <4>2. cur[s] # m
        BY <2>1, <4>1 DEF CalmInv, OneWorker, Working
      <4> QED BY <2>2, <2>4, <4>1, <4>2 DEF CalmInv, Unpublished
    <3>2. ASSUME NEW n \in Msg, status'[n] \in {"none", "new"}
          PROVE  n \notin Published'
      BY <2>2, <2>3, <2>4, <3>2 DEF CalmInv, Unpublished
    <3> QED BY <3>1, <3>2 DEF Unpublished
  <2>10. BusyHasWorker'
    BY <2>2, <2>5 DEF CalmInv, BusyHasWorker
  <2>11. Once'
    <3>1. Len(log') = Len(log) + 1 /\ Len(log) \in Nat
      BY <2>1, <2>2 DEF TypeOK
    <3>2. \A i \in 1..Len(log) : log'[i] = log[i] /\ log[i] # m
      BY <2>1, <2>2, <2>3 DEF TypeOK, Published
    <3>3. log'[Len(log) + 1] = m
      BY <2>1, <2>2 DEF TypeOK
    <3> QED BY <3>1, <3>2, <3>3 DEF CalmInv, Once
  <2> QED
    BY <2>6, <2>7, <2>8, <2>9, <2>10, <2>11 DEF CalmInv
<1>4. CASE DeleteUnorderedOutboxInfoByID(r)
  <2> DEFINE m == cur[r]
  <2>1. m \in Msg /\ tpc[r] = "delete" /\ status[m] = "busy"
    BY <1>4 DEF DeleteUnorderedOutboxInfoByID, WorkInv, CalmInv, ClaimsFresh, Fresh,
                Working
  <2>2. /\ status' = [status EXCEPT ![m] = "gone"]
        /\ tpc' = [tpc EXCEPT ![r] = "restart"] /\ cur' = [cur EXCEPT ![r] = NoMsg]
        /\ UNCHANGED <<renewing, due, age, log, missed>>
    BY <1>4, <2>1 DEF DeleteUnorderedOutboxInfoByID, Deleted
  <2>3. Published' = Published
    BY <2>2 DEF Published
  <2>4. \A s \in Replica : /\ Working(s)' <=> s # r /\ Working(s)
                           /\ s # r => cur'[s] = cur[s] /\ tpc'[s] = tpc[s]
    BY <2>2 DEF Working, TypeOK
  <2>5. \A s \in Replica : Working(s) /\ s # r => cur[s] # m /\ cur[s] \in Msg
    BY <2>1 DEF CalmInv, OneWorker, Working, WorkInv
  <2>6. NoSleep' /\ Once'
    BY <2>2 DEF CalmInv, NoSleep, Once, TypeOK
  <2>7. ClaimsFresh'
    BY <2>1, <2>2, <2>4, <2>5 DEF CalmInv, ClaimsFresh, Fresh, TypeOK
  <2>8. OneWorker'
    BY <2>4 DEF CalmInv, OneWorker
  <2>9. Unpublished'
    BY <2>1, <2>2, <2>3, <2>4 DEF CalmInv, Unpublished, TypeOK
  <2>10. BusyHasWorker'
    BY <2>1, <2>2, <2>4 DEF CalmInv, BusyHasWorker, TypeOK
  <2> QED
    BY <2>6, <2>7, <2>8, <2>9, <2>10 DEF CalmInv
<1> QED
  BY <1>1, <1>2, <1>3, <1>4

\* Nothing makes a run calm again.
LEMMA CalmBefore ==
    ASSUME missed \in Nat, missed' \in {missed, missed + 1}, faults' = faults,
           Calm'
    PROVE  Calm
<1>1. MaxSkew \in Nat /\ StartLease \in Nat
  BY UnorderedOutboxAssumption
<1>2. faults = 0 /\ missed' + MaxSkew + 1 <= StartLease
  BY DEF Calm
<1>3. CASE missed' = missed
  BY <1>2, <1>3 DEF Calm
<1>4. CASE missed' = missed + 1
  <2>1. (missed + 1) + MaxSkew + 1 <= StartLease
    BY <1>2, <1>4
  <2> QED BY <1>1, <1>2, <2>1 DEF Calm
<1> QED
  BY <1>3, <1>4

\* Every step keeps CalmInv as long as the run stays calm.
LEMMA NextCalm ==
    ASSUME TypeOK, WorkInv, Calm => CalmInv, [Next]_vars
    PROVE  (Calm => CalmInv)'
<1> SUFFICES ASSUME Calm' PROVE CalmInv'
  OBVIOUS
<1>1. ASSUME faults' = faults + 1 PROVE FALSE
  BY <1>1 DEF Calm, TypeOK
<1>2. ASSUME missed' \in {missed, missed + 1}, faults' = faults
      PROVE  Calm /\ CalmInv
  <2>1. missed \in Nat
    BY UnorderedOutboxAssumption DEF TypeOK
  <2>2. Calm
    BY <1>2, <2>1, CalmBefore
  <2> QED BY <2>2
<1>3. missed \in Nat
  BY UnorderedOutboxAssumption DEF TypeOK
<1>4. ASSUME NEW r \in Replica, NewAuditLogAsyncTask(r) \/ Wake(r) \/ SelectRow(r)
      PROVE  CalmInv'
  <2>1. /\ CalmInv
        /\ UNCHANGED <<status, age, renewing, due, log, missed>>
    BY <1>2, <1>3, <1>4 DEF NewAuditLogAsyncTask, Wake, SelectRow, rowVars
  <2>2. ~Working(r) /\ tpc'[r] \notin {"publish", "delete", "sleep"}
    BY <1>4 DEF NewAuditLogAsyncTask, Wake, SelectRow, Working, TypeOK
  <2>3. \A s \in Replica \ {r} : tpc'[s] = tpc[s] /\ cur'[s] = cur[s]
    BY <1>4 DEF NewAuditLogAsyncTask, Wake, SelectRow, TypeOK
  <2> QED BY <2>1, <2>2, <2>3, IdleStep
<1>5. ASSUME NEW r \in Replica, restartUnAsyncTask(r) \/ PushRestart(r)
      PROVE  CalmInv'
  <2>1. CalmInv /\ Calm /\ UNCHANGED <<age, renewing, due, log, missed>>
    BY <1>2, <1>3, <1>5 DEF restartUnAsyncTask, PushRestart
  <2>2. status' = status
    BY <1>5, <2>1, RestartCalm, UnorderedOutboxAssumption
       DEF restartUnAsyncTask, PushRestart
  <2>3. \A s \in Replica : \/ tpc'[s] = tpc[s] /\ cur'[s] = cur[s]
                           \/ /\ ~Working(s)
                              /\ tpc'[s] \notin {"publish", "delete", "sleep"}
    BY <1>5 DEF restartUnAsyncTask, PushRestart, TypeOK, Working
  <2> QED BY <2>1, <2>2, <2>3, IdleStep
<1>6. ASSUME NEW r \in Replica,
             ClaimRow(r) \/ Publish(r) \/ DeleteUnorderedOutboxInfoByID(r)
      PROVE  CalmInv'
  <2>1. missed' = missed /\ faults' = faults
    BY <1>6 DEF ClaimRow, Publish, DeleteUnorderedOutboxInfoByID
  <2> QED BY <1>2, <1>3, <1>6, <2>1, WorkStep
<1>7. ASSUME NEW r \in Replica, Retry(r) PROVE FALSE
  <2>1. missed' = missed /\ faults' = faults /\ tpc[r] = "sleep"
    BY <1>7 DEF Retry
  <2> QED BY <1>2, <1>3, <2>1 DEF CalmInv, NoSleep
<1>8. ASSUME NEW r \in Replica,
             StartError(r) \/ GetError(r) \/ WorkError(r) \/ Crash(r)
      PROVE  FALSE
  BY <1>1, <1>8 DEF StartError, GetError, WorkError, Crash, Fault
<1>9. ASSUME NEW r \in Replica, NEW m \in Msg, Log(r, m) PROVE CalmInv'
  <2>1. /\ CalmInv
        /\ UNCHANGED <<tpc, cur, renewing, due, log, missed>>
        /\ status[m] = "none" /\ status' = [status EXCEPT ![m] = "new"]
        /\ age' = [age EXCEPT ![m] = 0]
    BY <1>2, <1>3, <1>9 DEF Log
  <2>2. \A n \in Msg : \/ status'[n] = status[n]
                       \/ status[n] = "none" /\ status'[n] = "new"
    BY <2>1 DEF TypeOK
  <2>3. ASSUME NEW s \in Replica, Working(s) PROVE Fresh(s)'
    <3>1. cur[s] \in Msg /\ Fresh(s) /\ cur[s] # m
      BY <2>1, <2>3 DEF Working, WorkInv, CalmInv, ClaimsFresh, Fresh
    <3> QED BY <2>1, <3>1 DEF Fresh, TypeOK
  <2> QED BY <2>1, <2>2, <2>3, TimeStep
<1>10. ASSUME NEW r \in Replica, NEW m \in Msg, autoRenewal(r, m) PROVE CalmInv'
  <2>1. /\ CalmInv
        /\ UNCHANGED <<tpc, cur, status, log, missed>>
        /\ due' = [due EXCEPT ![r] = @ \ {m}]
    BY <1>2, <1>3, <1>10 DEF autoRenewal, threadVars
  <2>2. ASSUME NEW s \in Replica, Working(s) PROVE Fresh(s)'
    <3>1. cur[s] \in Msg /\ Fresh(s)
      BY <2>1, <2>2 DEF Working, WorkInv, CalmInv, ClaimsFresh
    <3>2. CASE status[m] = "busy"
      <4>1. age' = [age EXCEPT ![m] = 0] /\ renewing' = renewing
        BY <1>10, <3>2 DEF autoRenewal
      <4>2. CASE cur[s] = m
        BY <1>3, <2>1, <3>1, <4>1, <4>2 DEF Fresh, TypeOK
      <4>3. CASE cur[s] # m
        BY <2>1, <3>1, <4>1, <4>3 DEF Fresh, TypeOK
      <4> QED BY <4>2, <4>3
    <3>3. CASE status[m] # "busy"
      <4>1. age' = age /\ renewing' = [renewing EXCEPT ![r] = @ \ {m}]
        BY <1>10, <3>3 DEF autoRenewal
      <4>2. cur[s] # m
        BY <3>1, <3>3 DEF Fresh
      <4> QED BY <2>1, <3>1, <4>1, <4>2 DEF Fresh, TypeOK
    <3> QED BY <3>2, <3>3
  <2> QED BY <2>1, <2>2, TimeStep
<1>11. ASSUME NEW r \in Replica, NEW m \in Msg, StopRenewal(r, m) PROVE CalmInv'
  <2>1. /\ CalmInv
        /\ UNCHANGED <<tpc, cur, status, age, log, missed>>
        /\ m # cur[r]
        /\ due' = [due EXCEPT ![r] = @ \ {m}]
        /\ renewing' = [renewing EXCEPT ![r] = @ \ {m}]
    BY <1>2, <1>3, <1>11 DEF StopRenewal, threadVars, rowVars
  <2>2. ASSUME NEW s \in Replica, Working(s) PROVE Fresh(s)'
    <3>1. Fresh(s)
      BY <2>1, <2>2 DEF CalmInv, ClaimsFresh
    <3> QED BY <2>1, <3>1 DEF Fresh, TypeOK
  <2> QED BY <2>1, <2>2, TimeStep
<1>12. ASSUME NEW r \in Replica, NEW m \in Msg, MissRenewal(r, m) PROVE CalmInv'
  <2>1. /\ CalmInv
        /\ UNCHANGED <<tpc, cur, status, age, renewing, log>>
        /\ missed' = missed + 1
    BY <1>2, <1>3, <1>12 DEF MissRenewal, threadVars, rowVars
  <2>2. ASSUME NEW s \in Replica, Working(s) PROVE Fresh(s)'
    <3>1. Fresh(s) /\ cur[s] \in Msg
      BY <2>1, <2>2 DEF CalmInv, ClaimsFresh, Working, WorkInv
    <3>2. age[cur[s]] \in Int
      BY <3>1, UnorderedOutboxAssumption DEF TypeOK, MaxAge
    <3> QED BY <1>3, <2>1, <3>1, <3>2 DEF Fresh
  <2> QED BY <2>1, <2>2, TimeStep
<1>13. ASSUME Tick PROVE CalmInv'
  <2>1. /\ CalmInv
        /\ UNCHANGED <<tpc, cur, status, renewing, log, missed>>
        /\ due' = renewing
        /\ \A r \in Replica : due[r] = {}
    BY <1>2, <1>3, <1>13 DEF Tick, threadVars
  <2>2. ASSUME NEW s \in Replica, Working(s) PROVE Fresh(s)'
    <3>1. Fresh(s) /\ cur[s] \in Msg
      BY <2>1, <2>2 DEF CalmInv, ClaimsFresh, Working, WorkInv
    <3>2. age[cur[s]] \in Int /\ age[cur[s]] <= missed
      BY <2>1, <3>1, UnorderedOutboxAssumption DEF TypeOK, MaxAge, Fresh
    <3>3. age'[cur[s]] \in {age[cur[s]], age[cur[s]] + 1}
      BY <1>13, <3>1 DEF Tick
    <3> QED BY <1>3, <2>1, <3>1, <3>2, <3>3 DEF Fresh
  <2> QED BY <2>1, <2>2, TimeStep
<1>14. ASSUME UNCHANGED vars PROVE CalmInv'
  <2>1. CalmInv
    BY <1>2, <1>3, <1>14 DEF vars
  <2> QED BY <1>14, <2>1, IdleStep DEF vars
<1> QED
  BY <1>4, <1>5, <1>6, <1>7, <1>8, <1>9, <1>10, <1>11, <1>12, <1>13, <1>14
  DEF Next, PushStep

\* While no call fails and no replica dies, every record is published at most
\* once, by any number of replicas that race for the rows: as many renewals may
\* be missed as the shorter limit leaves room for.
THEOREM PublishedOnce == Spec => []NoDuplicateWithoutFault
<1>1. Init => (Calm => CalmInv)
  BY DEF Init, CalmInv, NoSleep, ClaimsFresh, OneWorker, Unpublished, BusyHasWorker,
         Once, Working, Published
<1>2. TypeOK /\ WorkInv /\ (Calm => CalmInv) /\ [Next]_vars => (Calm => CalmInv)'
  BY NextCalm
<1>3. (Calm => CalmInv) => NoDuplicateWithoutFault
  BY DEF Calm, CalmInv, Once, NoDuplicateWithoutFault
<1> QED
  BY <1>1, <1>2, <1>3, Safe, PTL DEF Spec

-----------------------------------------------------------------------------
(* Refinement of EventDelivery.                                            *)

\* Claims and rows given back are invisible.
LEMMA RefinesStutter ==
    ASSUME log' = log,
           \A m \in Msg : /\ status'[m] = "none" <=> status[m] = "none"
                          /\ status'[m] = "gone" <=> status[m] = "gone"
    PROVE  UNCHANGED Delivery!vars
BY DEF Delivery!vars

\* Publishing is a Publish step.
LEMMA RefinesPublish ==
    ASSUME WorkInv, NEW r \in Replica,
           tpc[r] = "publish", log' = Append(log, cur[r]), status' = status
    PROVE  Delivery!Next
<1>1. cur[r] \in Msg /\ status[cur[r]] # "none"
  BY DEF WorkInv
<1>2. Delivery!Publish(cur[r])
  BY <1>1 DEF Delivery!Publish
<1> QED
  BY <1>1, <1>2 DEF Delivery!Next

\* A deletion is a Settle step, or affects no row.
LEMMA RefinesSettle ==
    ASSUME TypeOK, WorkInv, NEW r \in Replica,
           tpc[r] = "delete", log' = log, status' = Deleted(cur[r])
    PROVE  [Delivery!Next]_(Delivery!vars)
<1>1. cur[r] \in Msg /\ cur[r] \in Published
  BY DEF WorkInv
<1>2. CASE status[cur[r]] = "busy"
  <2>1. status' = [status EXCEPT ![cur[r]] = "gone"]
    BY <1>2 DEF Deleted
  <2>2. {m \in Msg : status'[m] = "gone"}
           = {m \in Msg : status[m] = "gone"} \cup {cur[r]}
    BY <1>1, <2>1 DEF TypeOK
  <2>3. {m \in Msg : status'[m] # "none"} = {m \in Msg : status[m] # "none"}
    BY <1>1, <1>2, <2>1 DEF TypeOK
  <2>4. PICK n \in Msg : n = cur[r]
    BY <1>1
  <2>5. Delivery!Settle(n)
    BY <1>1, <1>2, <2>2, <2>3, <2>4
       DEF Delivery!Settle, Delivery!Published, Published
  <2> QED BY <2>5 DEF Delivery!Next
<1>3. CASE status[cur[r]] # "busy"
  <2>1. status' = status
    BY <1>1, <1>3 DEF Deleted, TypeOK
  <2> QED BY <2>1, RefinesStutter
<1> QED
  BY <1>2, <1>3

\* A new record is an Accept step.
LEMMA RefinesAccept ==
    ASSUME TypeOK, NEW r \in Replica, NEW m \in Msg, Log(r, m)
    PROVE  Delivery!Next
<1>1. /\ status[m] = "none" /\ status' = [status EXCEPT ![m] = "new"] /\ log' = log
  BY DEF Log
<1>2. {n \in Msg : status'[n] # "none"} = {n \in Msg : status[n] # "none"} \cup {m}
  BY <1>1 DEF TypeOK
<1>3. {n \in Msg : status'[n] = "gone"} = {n \in Msg : status[n] = "gone"}
  BY <1>1 DEF TypeOK
<1>4. Delivery!Accept({m})
  BY <1>1, <1>2, <1>3 DEF Delivery!Accept
<1> QED
  BY <1>4 DEF Delivery!Next

\* Every step is a step of EventDelivery or leaves it unchanged.
LEMMA RefinesStep ==
    ASSUME TypeOK, WorkInv, [Next]_vars
    PROVE  [Delivery!Next]_(Delivery!vars)
<1>1. ASSUME NEW r \in Replica, Publish(r) \/ WorkError(r)
            \/ DeleteUnorderedOutboxInfoByID(r)
      PROVE  \/ log' = log /\ status' = status
             \/ tpc[r] = "publish" /\ log' = Append(log, cur[r]) /\ status' = status
             \/ tpc[r] = "delete" /\ log' = log /\ status' = Deleted(cur[r])
  BY <1>1 DEF Publish, WorkError, DeleteUnorderedOutboxInfoByID, rowVars
<1>2. ASSUME NEW r \in Replica, ClaimRow(r) \/ GetError(r)
      PROVE  UNCHANGED Delivery!vars
  <2>1. /\ log' = log
        /\ \/ status' = status
           \/ /\ cur[r] \in Msg /\ status[cur[r]] = "new"
              /\ status' = [status EXCEPT ![cur[r]] = "busy"]
    BY <1>2 DEF ClaimRow, GetError, Claimed, WorkInv, rowVars
  <2>2. CASE status' = status
    BY <2>1, <2>2, RefinesStutter
  <2>3. CASE status' # status
    BY <2>1, <2>3, RefinesStutter DEF TypeOK
  <2> QED BY <2>2, <2>3
<1>3. ASSUME NEW r \in Replica, NEW limit, log' = log,
             RestartUnorderedOutboxInfo(r, limit)
      PROVE  UNCHANGED Delivery!vars
  BY <1>3, RefinesStutter DEF RestartUnorderedOutboxInfo
<1>4. CASE log' = log /\ status' = status
  BY <1>4, RefinesStutter
<1>5. \/ log' = log /\ status' = status
      \/ \E r \in Replica :
            \/ Publish(r) \/ WorkError(r) \/ DeleteUnorderedOutboxInfoByID(r)
            \/ ClaimRow(r) \/ GetError(r)
            \/ log' = log /\ RestartUnorderedOutboxInfo(r, Lease)
            \/ log' = log /\ RestartUnorderedOutboxInfo(r, StartLease)
            \/ \E m \in Msg : Log(r, m)
  BY DEF Next, vars, rowVars, NewAuditLogAsyncTask, restartUnAsyncTask, PushStep,
         Wake, PushRestart, SelectRow, Retry, StartError, Crash,
         autoRenewal, StopRenewal, MissRenewal, Tick
<1> QED
  BY <1>1, <1>2, <1>3, <1>4, <1>5, RefinesPublish, RefinesSettle, RefinesAccept

\* The unordered outbox implements the at-least-once event log that the ordered
\* outbox implements, under any faults and any lateness.
THEOREM UnorderedOutboxImplementsDelivery == Spec => ImplementsDelivery
<1>1. Init => Delivery!Init
  BY DEF Init, Delivery!Init
<1>2. TypeOK /\ WorkInv /\ [Next]_vars => [Delivery!Next]_(Delivery!vars)
  BY RefinesStep
<1> QED
  BY <1>1, <1>2, Safe, PTL DEF Spec, ImplementsDelivery, Delivery!Spec
=============================================================================
