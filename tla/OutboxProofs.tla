---------------------------- MODULE OutboxProofs ----------------------------
(***************************************************************************)
(* Proofs about Outbox, for any number of replicas, requests, messages and *)
(* faults.                                                                 *)
(***************************************************************************)
EXTENDS Outbox, TLAPS

USE DEF ThreadState, BizState

\* Appending to a log adds exactly the appended message to what was published.
LEMMA AppendPublished ==
    ASSUME NEW S, NEW s \in Seq(S), NEW m \in S
    PROVE  {Append(s, m)[i] : i \in 1..Len(Append(s, m))}
             = {s[i] : i \in 1..Len(s)} \cup {m}
  OBVIOUS

-----------------------------------------------------------------------------
(* Type correctness.  ThreadInv is needed: a thread that calls a handler   *)
(* has read a message.                                                     *)

\* Every initial state is well typed.
LEMMA InitTypeOK == Init => TypeOK
  <1> SUFFICES ASSUME Init PROVE TypeOK
    OBVIOUS
  <1>1. /\ needTimer \in [Replica -> BOOLEAN]
        /\ pushChan \in [Replica -> BOOLEAN]
        /\ severed \in BOOLEAN
    BY Zenon DEF Init
  <1>2. /\ tpc \in [Replica -> ThreadState]
        /\ cur \in [Replica -> Msg \cup {NoMsg}]
        /\ registered \in [Replica -> SUBSET OpType]
        /\ rows \subseteq Msg
        /\ lock \in Replica \cup {NoReplica, Zombie}
        /\ bpc \in [Request -> BizState]
        /\ brep \in [Request -> Replica]
        /\ inserted \in [Request -> Nat]
        /\ committed \in [Request -> Nat]
        /\ now \in Nat
        /\ log \in Seq(Msg)
        /\ faults \in 0..MaxFaults
    BY OutboxAssumption DEF Init
  <1> QED BY <1>1, <1>2 DEF TypeOK

\* Every step keeps the state well typed.
LEMMA NextTypeOK ==
    ASSUME TypeOK, ThreadInv, [Next]_vars
    PROVE  TypeOK'
  <1> USE OutboxAssumption
  <1>1. ASSUME NEW r \in Replica, NewOutbox(r) PROVE TypeOK'
    BY <1>1 DEF TypeOK, NewOutbox, bizVars
  <1>2. ASSUME NEW r \in Replica, NEW t \in OpType, RegisterHandlers(r, t)
        PROVE  TypeOK'
    BY <1>2 DEF TypeOK, RegisterHandlers, bizVars
  <1>3. ASSUME NEW r \in Replica, PushStep(r) PROVE TypeOK'
    <2>1. CASE WakeByNotify(r)
      BY <2>1 DEF TypeOK, WakeByNotify, bizVars
    <2>2. CASE WakeByTimer(r)
      BY <2>2 DEF TypeOK, WakeByTimer, bizVars
    <2>3. CASE TakeLock(r)
      BY <2>3 DEF TypeOK, TakeLock, bizVars
    <2>4. CASE GetPushMessage(r)
      BY <2>4, ZenonT(60) DEF TypeOK, GetPushMessage, Oldest, bizVars
    <2>5. CASE Handle(r)
      <3>1. cur[r] \in Msg
        BY <1>3, <2>5 DEF TypeOK, Handle, ThreadInv
      <3> QED BY <2>5, <3>1 DEF TypeOK, Handle, bizVars
    <2>6. CASE HandleUnregistered(r)
      BY <2>6 DEF TypeOK, HandleUnregistered, GiveUp, bizVars
    <2>7. CASE DeleteOutboxInfoByID(r)
      BY <2>7 DEF TypeOK, DeleteOutboxInfoByID, bizVars
    <2>8. CASE CommitPush(r)
      BY <2>8 DEF TypeOK, CommitPush, bizVars
    <2>9. CASE StatementFails(r)
      BY <2>9 DEF TypeOK, StatementFails, GiveUp, bizVars
    <2> QED
      BY <1>3, <2>1, <2>2, <2>3, <2>4, <2>5, <2>6, <2>7, <2>8, <2>9
      DEF PushStep
  <1>4. ASSUME NEW r \in Replica, PushError(r) PROVE TypeOK'
    <2>1. log' \in Seq(Msg)
      <3>1. CASE log' = log
        BY <3>1 DEF TypeOK
      <3>2. CASE tpc[r] = "handle" /\ log' = Append(log, cur[r])
        <4>1. cur[r] \in Msg
          BY <3>2 DEF TypeOK, ThreadInv
        <4> QED BY <3>2, <4>1 DEF TypeOK
      <3> QED BY <1>4, <3>1, <3>2 DEF PushError
    <2> QED BY <1>4, <2>1 DEF TypeOK, PushError, Fault, GiveUp, bizVars
  <1>5. ASSUME NEW r \in Replica, CommitPushError(r) PROVE TypeOK'
    BY <1>5 DEF TypeOK, CommitPushError, Fault, GiveUp, bizVars
  <1>6. ASSUME NEW r \in Replica, ConnectionLost(r) PROVE TypeOK'
    BY <1>6 DEF TypeOK, ConnectionLost, Fault, threadVars, bizVars
  <1>7. ASSUME NEW r \in Replica, Crash(r) PROVE TypeOK'
    <2>1. faults' \in 0..MaxFaults
      BY <1>7 DEF TypeOK, Crash, Fault
    <2>2. bpc' \in [Request -> BizState]
      BY <1>7 DEF TypeOK, Crash
    <2> QED BY <1>7, <2>1, <2>2 DEF TypeOK, Crash
  <1>8. ASSUME NEW q \in Request, AddOutboxInfos(q) PROVE TypeOK'
    <2>1. bpc' \in [Request -> BizState] /\ inserted' \in [Request -> Nat]
      <3>1. CASE /\ bpc' = [bpc EXCEPT ![q] = "inserted"]
                 /\ inserted' = [inserted EXCEPT ![q] = now]
        BY <3>1 DEF TypeOK
      <3>2. CASE bpc' = [bpc EXCEPT ![q] = "aborted"] /\ UNCHANGED inserted
        BY <3>2 DEF TypeOK
      <3> QED BY <1>8, <3>1, <3>2 DEF AddOutboxInfos
    <2> QED BY <1>8, <2>1 DEF TypeOK, AddOutboxInfos, threadVars
  <1>9. ASSUME NEW q \in Request, RollbackBusiness(q) PROVE TypeOK'
    BY <1>9 DEF TypeOK, RollbackBusiness, threadVars
  <1>10. ASSUME NEW q \in Request, CommitBusiness(q) PROVE TypeOK'
    <2>1. now' \in Nat /\ committed' \in [Request -> Nat]
      BY <1>10 DEF TypeOK, CommitBusiness
    <2> QED BY <1>10, <2>1 DEF TypeOK, CommitBusiness, Batch, threadVars
  <1>11. ASSUME NEW q \in Request, CommitBusinessError(q) PROVE TypeOK'
    <2>1. /\ bpc' \in [Request -> BizState]
          /\ rows' \subseteq Msg
      BY <1>11 DEF TypeOK, CommitBusinessError, Batch
    <2>2. /\ now' \in Nat
          /\ faults' \in 0..MaxFaults
      BY <1>11 DEF TypeOK, CommitBusinessError
    <2>3. committed' \in [Request -> Nat]
      <3>1. CASE committed' = [committed EXCEPT ![q] = now + 1]
        BY <3>1 DEF TypeOK
      <3>2. CASE committed' = committed
        BY <3>2 DEF TypeOK
      <3> QED BY <1>11, <3>1, <3>2 DEF CommitBusinessError
    <2> QED BY <1>11, <2>1, <2>2, <2>3 DEF TypeOK, CommitBusinessError, threadVars
  <1>12. ASSUME NEW q \in Request, NotifyPushOutboxThread(q) PROVE TypeOK'
    BY <1>12 DEF TypeOK, NotifyPushOutboxThread
  <1>13. CASE ReapTransaction
    BY <1>13 DEF TypeOK, ReapTransaction, threadVars, bizVars
  <1>14. CASE UNCHANGED vars
    BY <1>14 DEF TypeOK, vars
  <1> QED
    BY <1>1, <1>2, <1>3, <1>4, <1>5, <1>6, <1>7, <1>8, <1>9, <1>10, <1>11,
       <1>12, <1>13, <1>14 DEF Next

-----------------------------------------------------------------------------
(* No loss, nothing spurious.                                              *)

\* A step that leaves the table, the log and the requests alone keeps both
\* delivery invariants.
LEMMA DeliveryUnchanged ==
    ASSUME NoLoss, NoSpurious, UNCHANGED <<rows, log, bpc>>
    PROVE  NoLoss' /\ NoSpurious'
  BY DEF NoLoss, NoSpurious, Published, Committed

\* The handler of a thread publishes a message of a committed transaction.
LEMMA PublishDelivery ==
    ASSUME TypeOK, NoLoss, NoSpurious, ThreadInv, NEW r \in Replica,
           tpc[r] = "handle", log' = Append(log, cur[r]),
           UNCHANGED <<rows, bpc>>
    PROVE  /\ NoLoss' /\ NoSpurious'
           /\ Published' = Published \cup {cur[r]}
  <1>1. cur[r] \in Msg /\ Committed(ReqOf[cur[r]])
    BY OutboxAssumption DEF TypeOK, ThreadInv
  <1>2. Published' = Published \cup {cur[r]}
    BY <1>1, AppendPublished DEF TypeOK, Published
  <1>3. NoLoss'
    BY <1>2 DEF NoLoss, Committed
  <1>4. NoSpurious'
    BY <1>1, <1>2 DEF NoSpurious, Committed
  <1> QED BY <1>2, <1>3, <1>4

\* Removing the row of a published message loses nothing.
LEMMA RemoveDelivery ==
    ASSUME TypeOK, NoLoss, NoSpurious, ThreadInv, NEW r \in Replica,
           tpc[r] = "commit", rows' = rows \ {cur[r]},
           UNCHANGED <<log, bpc>>
    PROVE  NoLoss' /\ NoSpurious'
  <1>1. cur[r] # NoMsg => cur[r] \in Published
    BY DEF ThreadInv
  <1>2. Published' = Published
    BY DEF Published
  <1> QED
    BY <1>1, <1>2, OutboxAssumption DEF NoLoss, NoSpurious, Committed

\* The initial states satisfy the delivery invariants.
LEMMA InitDelivery == Init => NoLoss /\ NoSpurious /\ ThreadInv
  BY OutboxAssumption
  DEF Init, NoLoss, NoSpurious, ThreadInv, Committed, Published

\* Every step keeps the delivery invariants.
LEMMA NextDelivery ==
    ASSUME TypeOK, NoLoss, NoSpurious, ThreadInv, [Next]_vars
    PROVE  NoLoss' /\ NoSpurious' /\ ThreadInv'
  <1> USE OutboxAssumption
  <1>1. ASSUME NEW r \in Replica, NewOutbox(r)
        PROVE  NoLoss' /\ NoSpurious' /\ ThreadInv'
    BY <1>1, DeliveryUnchanged
    DEF TypeOK, NewOutbox, bizVars, ThreadInv, Committed, Published
  <1>2. ASSUME NEW r \in Replica, NEW t \in OpType, RegisterHandlers(r, t)
        PROVE  NoLoss' /\ NoSpurious' /\ ThreadInv'
    BY <1>2, DeliveryUnchanged
    DEF TypeOK, RegisterHandlers, bizVars, ThreadInv, Committed, Published
  <1>3. ASSUME NEW r \in Replica, PushStep(r)
        PROVE  NoLoss' /\ NoSpurious' /\ ThreadInv'
    <2>1. CASE WakeByNotify(r)
      BY <2>1, DeliveryUnchanged
      DEF TypeOK, WakeByNotify, bizVars, ThreadInv, Committed, Published
    <2>2. CASE WakeByTimer(r)
      BY <2>2, DeliveryUnchanged
      DEF TypeOK, WakeByTimer, bizVars, ThreadInv, Committed, Published
    <2>3. CASE TakeLock(r)
      BY <2>3, DeliveryUnchanged
      DEF TypeOK, TakeLock, bizVars, ThreadInv, Committed, Published
    <2>4. CASE GetPushMessage(r)
      <3>1. NoLoss' /\ NoSpurious'
        BY <2>4, DeliveryUnchanged DEF GetPushMessage, bizVars
      <3>2. UNCHANGED <<bpc, log>>
        BY <2>4 DEF GetPushMessage, bizVars
      <3>3. CASE /\ cur' = [cur EXCEPT ![r] = NoMsg]
                 /\ tpc' = [tpc EXCEPT ![r] = "commit"]
        BY <3>1, <3>2, <3>3 DEF TypeOK, ThreadInv, Committed, Published
      <3>4. ASSUME NEW m \in Oldest,
                   cur' = [cur EXCEPT ![r] = m],
                   tpc' = [tpc EXCEPT ![r] = "handle"]
            PROVE  ThreadInv'
        <4>1. m \in Msg /\ Committed(ReqOf[m])
          BY DEF TypeOK, Oldest, NoSpurious
        <4> QED
          BY <3>2, <3>4, <4>1 DEF TypeOK, ThreadInv, Committed, Published
      <3> QED BY <2>4, <3>1, <3>3, <3>4 DEF GetPushMessage
    <2>5. CASE Handle(r)
      <3>1. NoLoss' /\ NoSpurious' /\ Published' = Published \cup {cur[r]}
        BY <2>5, PublishDelivery DEF Handle, bizVars
      <3> QED
        BY <2>5, <3>1 DEF TypeOK, Handle, bizVars, ThreadInv, Committed
    <2>6. CASE HandleUnregistered(r)
      BY <2>6, DeliveryUnchanged
      DEF TypeOK, HandleUnregistered, GiveUp, bizVars, ThreadInv, Committed,
          Published
    <2>7. CASE DeleteOutboxInfoByID(r)
      BY <2>7, DeliveryUnchanged, SMTT(40)
      DEF TypeOK, DeleteOutboxInfoByID, bizVars, ThreadInv, Committed,
          Published
    <2>8. CASE CommitPush(r)
      <3>1. NoLoss' /\ NoSpurious'
        BY <2>8, RemoveDelivery DEF CommitPush, bizVars
      <3> QED
        BY <2>8, <3>1
        DEF TypeOK, CommitPush, bizVars, ThreadInv, Committed, Published
    <2>9. CASE StatementFails(r)
      BY <2>9, DeliveryUnchanged
      DEF TypeOK, StatementFails, GiveUp, bizVars, ThreadInv, Committed,
          Published
    <2> QED
      BY <1>3, <2>1, <2>2, <2>3, <2>4, <2>5, <2>6, <2>7, <2>8, <2>9
      DEF PushStep
  <1>4. ASSUME NEW r \in Replica, PushError(r)
        PROVE  NoLoss' /\ NoSpurious' /\ ThreadInv'
    <2>1. CASE log' = log
      BY <1>4, <2>1, DeliveryUnchanged
      DEF TypeOK, PushError, GiveUp, bizVars, ThreadInv, Committed, Published
    <2>2. CASE tpc[r] = "handle" /\ log' = Append(log, cur[r])
      <3>1. NoLoss' /\ NoSpurious' /\ Published' = Published \cup {cur[r]}
        BY <1>4, <2>2, PublishDelivery DEF PushError, bizVars
      <3> QED
        BY <1>4, <3>1
        DEF TypeOK, PushError, GiveUp, bizVars, ThreadInv, Committed
    <2> QED BY <1>4, <2>1, <2>2 DEF PushError
  <1>5. ASSUME NEW r \in Replica, CommitPushError(r)
        PROVE  NoLoss' /\ NoSpurious' /\ ThreadInv'
    <2>1. NoLoss' /\ NoSpurious'
      BY <1>5, RemoveDelivery, DeliveryUnchanged DEF CommitPushError, bizVars
    <2> QED
      BY <1>5, <2>1
      DEF TypeOK, CommitPushError, GiveUp, bizVars, ThreadInv, Committed,
          Published
  <1>6. ASSUME NEW r \in Replica, ConnectionLost(r)
        PROVE  NoLoss' /\ NoSpurious' /\ ThreadInv'
    BY <1>6, DeliveryUnchanged
    DEF ConnectionLost, threadVars, bizVars, ThreadInv, Committed, Published
  <1>7. ASSUME NEW r \in Replica, Crash(r)
        PROVE  NoLoss' /\ NoSpurious' /\ ThreadInv'
    <2>1. \A q \in Request : Committed(q)' <=> Committed(q)
      BY <1>7 DEF TypeOK, Crash, Committed
    <2>2. Published' = Published /\ rows' = rows
      BY <1>7 DEF Crash, Published
    <2>3. \A m \in Msg : ReqOf[m] \in Request
      OBVIOUS
    <2>4. rows \subseteq Msg /\ Published \subseteq Msg
      BY DEF TypeOK, Published
    <2>5. NoLoss' /\ NoSpurious'
      BY <2>1, <2>2, <2>3, <2>4 DEF NoLoss, NoSpurious
    <2> QED BY <1>7, <2>1, <2>2, <2>3, <2>5 DEF TypeOK, Crash, ThreadInv
  <1>8. ASSUME NEW q \in Request,
               \/ AddOutboxInfos(q) \/ RollbackBusiness(q)
               \/ CommitBusiness(q) \/ CommitBusinessError(q)
               \/ NotifyPushOutboxThread(q)
        PROVE  NoLoss' /\ NoSpurious' /\ ThreadInv'
    <2>1. /\ Published' = Published
          /\ tpc' = tpc /\ cur' = cur
      BY <1>8
      DEF AddOutboxInfos, RollbackBusiness, CommitBusiness,
          CommitBusinessError, NotifyPushOutboxThread, threadVars, Published
    <2>2. \/ /\ rows' = rows
             /\ \A p \in Request : Committed(p)' <=> Committed(p)
          \/ /\ rows' = rows \cup Batch(q)
             /\ \A p \in Request : Committed(p)' <=> Committed(p) \/ p = q
      BY <1>8, SMTT(30)
      DEF TypeOK, AddOutboxInfos, RollbackBusiness, CommitBusiness,
          CommitBusinessError, NotifyPushOutboxThread, threadVars, Committed
    <2>3. \A m \in Msg : ReqOf[m] \in Request
      OBVIOUS
    <2>4. rows \subseteq Msg /\ Published \subseteq Msg
      BY DEF TypeOK, Published
    <2>5. NoLoss' /\ NoSpurious'
      BY <2>1, <2>2, <2>3, <2>4 DEF NoLoss, NoSpurious, Batch
    <2> QED BY <2>1, <2>2, <2>3, <2>5 DEF TypeOK, ThreadInv
  <1>9. CASE ReapTransaction
    BY <1>9, DeliveryUnchanged
    DEF ReapTransaction, threadVars, bizVars, ThreadInv, Committed, Published
  <1>10. CASE UNCHANGED vars
    BY <1>10, DeliveryUnchanged DEF vars, ThreadInv, Committed, Published
  <1> QED
    BY <1>1, <1>2, <1>3, <1>4, <1>5, <1>6, <1>7, <1>8, <1>9, <1>10 DEF Next

\* Type correctness, the absence of loss and of spurious events, for every
\* instance of the outbox: any number of replicas, requests, messages and
\* faults.
THEOREM OutboxDelivers == Spec => [](TypeOK /\ NoLoss /\ NoSpurious)
  <1> DEFINE IInv == TypeOK /\ NoLoss /\ NoSpurious /\ ThreadInv
  <1>1. Init => IInv
    BY InitTypeOK, InitDelivery
  <1>2. IInv /\ [Next]_vars => IInv'
    BY NextTypeOK, NextDelivery
  <1> QED BY <1>1, <1>2, PTL DEF Spec

-----------------------------------------------------------------------------
(* Refinement.                                                             *)

\* A step that leaves the log, the table and the set of committed requests
\* alone is a stuttering step of EventDelivery.
LEMMA RefinesStutter ==
    ASSUME UNCHANGED <<rows, log>>,
           \A q \in Request : Committed(q)' <=> Committed(q)
    PROVE  UNCHANGED Delivery!vars
  <1>1. Accepted' = Accepted
    BY OutboxAssumption DEF Accepted
  <1> QED BY <1>1 DEF Delivery!vars

\* A handler call is a Publish step.
LEMMA RefinesPublish ==
    ASSUME TypeOK, ThreadInv, NEW r \in Replica, tpc[r] = "handle",
           log' = Append(log, cur[r]), UNCHANGED <<rows, bpc>>
    PROVE  Delivery!Next
  <1>1. cur[r] \in Msg /\ Committed(ReqOf[cur[r]])
    BY OutboxAssumption DEF TypeOK, ThreadInv
  <1>2. Accepted' = Accepted
    BY DEF Accepted, Committed
  <1>3. Delivery!Publish(cur[r])
    BY <1>1, <1>2 DEF Delivery!Publish, Accepted
  <1> QED BY <1>1, <1>3 DEF Delivery!Next

\* Removing a row is a Settle step, or none when the row was already gone.
LEMMA RefinesSettle ==
    ASSUME TypeOK, ThreadInv, NEW r \in Replica, tpc[r] = "commit",
           rows' = rows \ {cur[r]}, UNCHANGED <<log, bpc>>
    PROVE  [Delivery!Next]_(Delivery!vars)
  <1>1. Accepted' = Accepted
    BY DEF Accepted, Committed
  <1>2. CASE cur[r] \notin rows
    BY <1>1, <1>2 DEF Delivery!vars
  <1>3. CASE cur[r] \in rows
    <2>1. cur[r] \in Msg /\ cur[r] \in Published
      BY <1>3, OutboxAssumption DEF TypeOK, ThreadInv
    <2>2. Committed(ReqOf[cur[r]])
      BY <2>1, OutboxAssumption DEF ThreadInv
    <2>3. Delivery!Settle(cur[r]) \/ Accepted' \ rows' = Accepted \ rows
      BY <1>1, <1>3, <2>1, <2>2
      DEF Delivery!Settle, Delivery!Published, Published, Accepted
    <2> QED BY <1>1, <2>1, <2>3 DEF Delivery!Next, Delivery!vars
  <1> QED BY <1>2, <1>3

\* A business commit is an Accept step.
LEMMA RefinesAccept ==
    ASSUME TypeOK, NEW q \in Request, ~Committed(q),
           rows' = rows \cup Batch(q), log' = log,
           \A p \in Request : Committed(p)' <=> Committed(p) \/ p = q
    PROVE  [Delivery!Next]_(Delivery!vars)
  <1>1. Accepted' = Accepted \cup Batch(q)
    BY OutboxAssumption DEF Accepted, Batch
  <1>2. Batch(q) \cap Accepted = {} /\ Batch(q) \subseteq Msg
    BY DEF Accepted, Batch
  <1>3. Accepted' \ rows' = Accepted \ rows
    BY <1>1, <1>2
  <1>4. CASE Batch(q) = {}
    BY <1>1, <1>3, <1>4 DEF Delivery!vars
  <1>5. CASE Batch(q) # {}
    <2>1. Delivery!Accept(Batch(q))
      BY <1>1, <1>2, <1>3, <1>5 DEF Delivery!Accept
    <2> QED BY <1>2, <2>1 DEF Delivery!Next
  <1> QED BY <1>4, <1>5

\* The outbox implements EventDelivery: whatever the interleaving and the
\* faults, what it does to its table, its log and its requests is a behaviour
\* of an at-least-once event log.
THEOREM OutboxImplementsDelivery == Spec => ImplementsDelivery
  <1> USE OutboxAssumption
  <1> DEFINE IInv == TypeOK /\ NoLoss /\ NoSpurious /\ ThreadInv
  <1>1. Init => IInv
    BY InitTypeOK, InitDelivery
  <1>2. IInv /\ [Next]_vars => IInv'
    BY NextTypeOK, NextDelivery
  <1>3. Init => Delivery!Init
    BY DEF Init, Delivery!Init, Accepted, Committed
  <1>4. ASSUME IInv, [Next]_vars
        PROVE  [Delivery!Next]_(Delivery!vars)
    <2>1. ASSUME NEW r \in Replica, Handle(r) PROVE Delivery!Next
      BY <1>4, <2>1, RefinesPublish DEF Handle, bizVars
    <2>2. ASSUME NEW r \in Replica, PushError(r)
          PROVE  [Delivery!Next]_(Delivery!vars)
      <3>1. CASE log' = log
        BY <2>2, <3>1, RefinesStutter DEF PushError, bizVars, Committed
      <3>2. CASE tpc[r] = "handle" /\ log' = Append(log, cur[r])
        BY <1>4, <2>2, <3>2, RefinesPublish DEF PushError, bizVars
      <3> QED BY <2>2, <3>1, <3>2 DEF PushError
    <2>3. ASSUME NEW r \in Replica, CommitPush(r)
          PROVE  [Delivery!Next]_(Delivery!vars)
      BY <1>4, <2>3, RefinesSettle DEF CommitPush, bizVars
    <2>4. ASSUME NEW r \in Replica, CommitPushError(r)
          PROVE  [Delivery!Next]_(Delivery!vars)
      <3>1. CASE rows' = rows
        BY <2>4, <3>1, RefinesStutter DEF CommitPushError, bizVars, Committed
      <3>2. CASE rows' = rows \ {cur[r]}
        BY <1>4, <2>4, <3>2, RefinesSettle DEF CommitPushError, bizVars
      <3> QED BY <2>4, <3>1, <3>2 DEF CommitPushError
    <2>5. ASSUME NEW r \in Replica,
                 \/ NewOutbox(r) \/ \E t \in OpType : RegisterHandlers(r, t)
                 \/ WakeByNotify(r) \/ WakeByTimer(r)
                 \/ TakeLock(r) \/ GetPushMessage(r) \/ HandleUnregistered(r)
                 \/ DeleteOutboxInfoByID(r) \/ StatementFails(r)
                 \/ ConnectionLost(r)
          PROVE  UNCHANGED Delivery!vars
      <3>1. UNCHANGED <<rows, log, bpc>>
        BY <2>5
        DEF NewOutbox, RegisterHandlers, WakeByNotify, WakeByTimer,
            TakeLock, GetPushMessage, HandleUnregistered,
            DeleteOutboxInfoByID, StatementFails, ConnectionLost, bizVars
      <3> QED BY <3>1, RefinesStutter DEF Committed
    <2>6. ASSUME NEW r \in Replica, Crash(r) PROVE UNCHANGED Delivery!vars
      <3>1. \A q \in Request : Committed(q)' <=> Committed(q)
        BY <1>4, <2>6 DEF TypeOK, Crash, Committed
      <3> QED BY <2>6, <3>1, RefinesStutter DEF Crash
    <2>7. ASSUME NEW q \in Request,
                 \/ AddOutboxInfos(q) \/ RollbackBusiness(q)
                 \/ CommitBusiness(q) \/ CommitBusinessError(q)
                 \/ NotifyPushOutboxThread(q)
          PROVE  [Delivery!Next]_(Delivery!vars)
      <3>1. log' = log
        BY <2>7
        DEF AddOutboxInfos, RollbackBusiness, CommitBusiness,
            CommitBusinessError, NotifyPushOutboxThread
      <3>2. \/ /\ rows' = rows
               /\ \A p \in Request : Committed(p)' <=> Committed(p)
            \/ /\ ~Committed(q)
               /\ rows' = rows \cup Batch(q)
               /\ \A p \in Request : Committed(p)' <=> Committed(p) \/ p = q
        BY <1>4, <2>7
        DEF TypeOK, AddOutboxInfos, RollbackBusiness, CommitBusiness,
            CommitBusinessError, NotifyPushOutboxThread, Committed
      <3> QED BY <1>4, <3>1, <3>2, RefinesStutter, RefinesAccept
    <2>8. CASE ReapTransaction
      BY <2>8, RefinesStutter DEF ReapTransaction, bizVars, Committed
    <2>9. CASE UNCHANGED vars
      BY <2>9, RefinesStutter DEF vars, Committed
    <2> QED
      BY <1>4, <2>1, <2>2, <2>3, <2>4, <2>5, <2>6, <2>7, <2>8, <2>9
      DEF Next, PushStep
  <1> QED
    BY <1>1, <1>2, <1>3, <1>4, PTL DEF Spec, ImplementsDelivery, Delivery!Spec

-----------------------------------------------------------------------------
(* Mutual exclusion, and what follows from it for the log.                 *)

Critical(r) == tpc[r] \in {"read", "handle", "delete", "commit"}

\* A thread in the middle of push() holds the lock, unless the database has
\* ended a transaction under a live thread, which is a fault.
Mutex ==
    /\ severed => faults # 0
    /\ ~severed => \A r \in Replica : Critical(r) => lock = r

\* Every step keeps mutual exclusion.
LEMMA NextMutex ==
    ASSUME TypeOK, Mutex, [Next]_vars
    PROVE  Mutex'
  <1> USE OutboxAssumption DEF Mutex, Critical, TypeOK
  <1>1. ASSUME NEW r \in Replica,
               \/ NewOutbox(r) \/ \E t \in OpType : RegisterHandlers(r, t)
               \/ WakeByNotify(r) \/ WakeByTimer(r)
        PROVE  Mutex'
    BY <1>1 DEF NewOutbox, RegisterHandlers, WakeByNotify, WakeByTimer
  <1>2. ASSUME NEW r \in Replica, TakeLock(r) PROVE Mutex'
    BY <1>2 DEF TakeLock
  <1>3. ASSUME NEW r \in Replica, GetPushMessage(r) PROVE Mutex'
    BY <1>3 DEF GetPushMessage
  <1>4. ASSUME NEW r \in Replica,
               \/ Handle(r) \/ HandleUnregistered(r)
               \/ DeleteOutboxInfoByID(r) \/ CommitPush(r) \/ StatementFails(r)
        PROVE  Mutex'
    BY <1>4
    DEF Handle, HandleUnregistered, DeleteOutboxInfoByID, CommitPush,
        StatementFails, GiveUp
  <1>5. ASSUME NEW r \in Replica, PushError(r) \/ CommitPushError(r)
        PROVE  Mutex'
    BY <1>5 DEF PushError, CommitPushError, GiveUp, Fault
  <1>6. ASSUME NEW r \in Replica, ConnectionLost(r) PROVE Mutex'
    BY <1>6 DEF ConnectionLost, Fault
  <1>7. ASSUME NEW r \in Replica, Crash(r) PROVE Mutex'
    BY <1>7 DEF Crash, Fault
  <1>8. ASSUME NEW q \in Request,
               \/ AddOutboxInfos(q) \/ RollbackBusiness(q)
               \/ CommitBusiness(q) \/ CommitBusinessError(q)
               \/ NotifyPushOutboxThread(q)
        PROVE  Mutex'
    BY <1>8
    DEF AddOutboxInfos, RollbackBusiness, CommitBusiness,
        CommitBusinessError, NotifyPushOutboxThread, threadVars
  <1>9. CASE ReapTransaction
    BY <1>9 DEF ReapTransaction, threadVars
  <1>10. CASE UNCHANGED vars
    BY <1>10 DEF vars
  <1> QED
    BY <1>1, <1>2, <1>3, <1>4, <1>5, <1>6, <1>7, <1>8, <1>9, <1>10
    DEF Next, PushStep

\* While nothing has failed: no message is in the log twice, a row that was
\* published belongs to the thread that is about to delete it, and a handler
\* is called with a message nobody has published.
OnceInv ==
    faults = 0 =>
        /\ \A i, j \in 1..Len(log) : log[i] = log[j] => i = j
        /\ \A m \in rows \cap Published :
              \E r \in Replica : tpc[r] \in {"delete", "commit"} /\ cur[r] = m
        /\ \A r \in Replica : tpc[r] = "handle" => cur[r] \notin Published

\* Steps that leave the log, the rows and the threads past the read alone.
LEMMA OnceUnchanged ==
    ASSUME OnceInv, UNCHANGED <<log, rows>>, faults' = 0 => faults = 0,
           \A r \in Replica : tpc[r] \in {"delete", "commit"} =>
               tpc'[r] \in {"delete", "commit"} /\ cur'[r] = cur[r],
           \A r \in Replica : tpc'[r] = "handle" =>
               tpc[r] = "handle" /\ cur'[r] = cur[r]
    PROVE  OnceInv'
  <1>1. Published' = Published
    BY DEF Published
  <1> QED BY <1>1 DEF OnceInv

\* Every step keeps the log free of repetitions while nothing fails.
LEMMA NextOnce ==
    ASSUME TypeOK, NoSpurious, ThreadInv, Mutex, OnceInv, [Next]_vars
    PROVE  OnceInv'
  <1> USE OutboxAssumption
  <1>0. faults \in Nat /\ (faults = 0 => ~severed)
    BY DEF TypeOK, Mutex
  <1>1. ASSUME NEW r \in Replica,
               \/ NewOutbox(r) \/ \E t \in OpType : RegisterHandlers(r, t)
               \/ WakeByNotify(r) \/ WakeByTimer(r)
               \/ TakeLock(r) \/ DeleteOutboxInfoByID(r)
        PROVE  OnceInv'
    BY <1>1, OnceUnchanged
    DEF NewOutbox, RegisterHandlers, WakeByNotify, WakeByTimer, TakeLock,
        DeleteOutboxInfoByID, TypeOK
  <1>2. ASSUME NEW r \in Replica, GetPushMessage(r) PROVE OnceInv'
    <2>1. CASE rows = {}
      <3>1. Published' = Published /\ rows' = {} /\ log' = log /\ faults' = faults
        BY <1>2, <2>1 DEF GetPushMessage, Published
      <3>2. \A s \in Replica : tpc'[s] = "handle" => tpc[s] = "handle" /\ cur'[s] = cur[s]
        BY <1>2, <2>1 DEF GetPushMessage, Oldest, TypeOK
      <3> QED BY <3>1, <3>2 DEF OnceInv
    <2>2. ASSUME NEW m \in Oldest, faults = 0,
                 cur' = [cur EXCEPT ![r] = m], tpc' = [tpc EXCEPT ![r] = "handle"]
          PROVE  OnceInv'
      <3>1. Published' = Published /\ rows' = rows /\ log' = log
        BY <1>2 DEF GetPushMessage, Published
      <3>2. m \in rows /\ lock = r /\ tpc[r] = "read"
        BY <1>2 DEF GetPushMessage, Oldest
      <3>3. m \notin Published
        BY <1>0, <2>2, <3>2 DEF OnceInv, Mutex, Critical
      <3>4. \A s \in Replica : tpc[s] \in {"delete", "commit"} =>
                tpc'[s] = tpc[s] /\ cur'[s] = cur[s]
        BY <2>2, <3>2 DEF TypeOK
      <3>5. \A s \in Replica : tpc'[s] = "handle" => cur'[s] \notin Published
        BY <2>2, <3>3 DEF TypeOK, OnceInv
      <3> QED BY <2>2, <3>1, <3>4, <3>5 DEF OnceInv
    <2> QED BY <1>2, <2>1, <2>2 DEF GetPushMessage, OnceInv
  <1>3. ASSUME NEW r \in Replica, Handle(r) PROVE OnceInv'
    <2> SUFFICES ASSUME faults = 0 PROVE OnceInv'
      BY <1>3 DEF Handle, OnceInv
    <2>1. cur[r] \in Msg /\ cur[r] \notin Published /\ tpc[r] = "handle"
      BY <1>3 DEF Handle, ThreadInv, OnceInv, TypeOK
    <2>2. log \in Seq(Msg) /\ log' = Append(log, cur[r])
      BY <1>3 DEF Handle, TypeOK
    <2>3. Published' = Published \cup {cur[r]}
      BY <2>1, <2>2, AppendPublished DEF Published
    <2>4. \A i, j \in 1..Len(log') : log'[i] = log'[j] => i = j
      BY <2>1, <2>2 DEF OnceInv, Published
    <2>5. tpc' = [tpc EXCEPT ![r] = "delete"] /\ cur' = cur /\ rows' = rows
      BY <1>3 DEF Handle
    <2>6. \A m \in rows \cap Published' :
             \E s \in Replica : tpc'[s] \in {"delete", "commit"} /\ cur'[s] = m
      BY <2>1, <2>3, <2>5 DEF OnceInv, TypeOK
    <2>7. \A s \in Replica : tpc'[s] # "handle"
      BY <1>0, <2>1, <2>5 DEF Mutex, Critical, TypeOK
    <2> QED BY <2>4, <2>5, <2>6, <2>7 DEF OnceInv
  <1>4. ASSUME NEW r \in Replica, HandleUnregistered(r) PROVE OnceInv'
    BY <1>4, OnceUnchanged DEF HandleUnregistered, GiveUp, TypeOK
  <1>5. ASSUME NEW r \in Replica, CommitPush(r) PROVE OnceInv'
    <2> SUFFICES ASSUME faults = 0 PROVE OnceInv'
      BY <1>5 DEF CommitPush, OnceInv
    <2>1. Published' = Published /\ log' = log /\ rows' = rows \ {cur[r]}
      BY <1>5 DEF CommitPush, Published
    <2>2. \A s \in Replica : s # r => tpc'[s] = tpc[s] /\ ~Critical(s)
      BY <1>0, <1>5 DEF CommitPush, Mutex, Critical, TypeOK
    <2>3. tpc'[r] # "handle"
      BY <1>5 DEF CommitPush, TypeOK
    <2>4. rows' \cap Published = {}
      BY <2>1, <2>2 DEF OnceInv, Critical
    <2> QED BY <2>1, <2>2, <2>3, <2>4 DEF OnceInv, Critical
  <1>6. ASSUME NEW r \in Replica, StatementFails(r) PROVE OnceInv'
    <2>1. faults # 0 /\ faults' = faults
      BY <1>0, <1>6 DEF StatementFails, Mutex, Critical
    <2> QED BY <2>1 DEF OnceInv
  <1>7. ASSUME faults' # 0 PROVE OnceInv'
    BY <1>7 DEF OnceInv
  <1>8. ASSUME NEW q \in Request, CommitBusiness(q) PROVE OnceInv'
    <2>1. /\ Published' = Published /\ log' = log /\ tpc' = tpc /\ cur' = cur
          /\ rows' = rows \cup Batch(q) /\ faults' = faults /\ ~Committed(q)
      BY <1>8 DEF CommitBusiness, threadVars, Published, Committed
    <2>2. Batch(q) \cap Published = {}
      BY <2>1 DEF NoSpurious, Batch
    <2> QED BY <2>1, <2>2 DEF OnceInv
  <1>9. ASSUME NEW q \in Request,
               AddOutboxInfos(q) \/ RollbackBusiness(q) \/ NotifyPushOutboxThread(q)
        PROVE  OnceInv'
    BY <1>9, OnceUnchanged
    DEF AddOutboxInfos, RollbackBusiness, NotifyPushOutboxThread, threadVars
  <1>10. CASE ReapTransaction \/ UNCHANGED vars
    BY <1>10, OnceUnchanged DEF ReapTransaction, threadVars, vars
  <1>11. ASSUME NEW r \in Replica,
                \/ PushError(r) \/ CommitPushError(r) \/ ConnectionLost(r)
                \/ Crash(r)
         PROVE  OnceInv'
    <2>1. faults' # 0
      BY <1>0, <1>11
      DEF PushError, CommitPushError, ConnectionLost, Crash, Fault
    <2> QED BY <1>7, <2>1
  <1>12. \A q \in Request : CommitBusinessError(q) => OnceInv'
    <2> SUFFICES ASSUME NEW q \in Request, CommitBusinessError(q) PROVE faults' # 0
      BY <1>7
    <2> QED BY <1>0 DEF CommitBusinessError
  <1> QED
    BY <1>1, <1>2, <1>3, <1>4, <1>5, <1>6, <1>8, <1>9, <1>10, <1>11, <1>12
    DEF Next, PushStep

\* The row lock makes push() exactly-once while nothing fails, for any number
\* of replicas that push at once.
THEOREM PublishedOnce == Spec => []NoDuplicateWithoutFault
  <1> DEFINE IInv == /\ TypeOK /\ NoLoss /\ NoSpurious /\ ThreadInv
                     /\ Mutex /\ OnceInv
  <1>1. Init => IInv
    <2>1. Init => Mutex /\ OnceInv
      BY DEF Init, Mutex, Critical, OnceInv, Published
    <2> QED BY <2>1, InitTypeOK, InitDelivery
  <1>2. IInv /\ [Next]_vars => IInv'
    BY NextTypeOK, NextDelivery, NextMutex, NextOnce
  <1>3. IInv => NoDuplicateWithoutFault
    BY DEF OnceInv, NoDuplicateWithoutFault
  <1> QED BY <1>1, <1>2, <1>3, PTL DEF Spec
-----------------------------------------------------------------------------
(* Causal order.  It needs no lock: it follows from the order in which the *)
(* rows are read, from NoLoss, and from the times of the requests.         *)

\* A request writes its messages before it is committed, and neither lies in
\* the future.
TimeInv ==
    \A q \in Request :
        /\ inserted[q] <= now
        /\ Committed(q) => inserted[q] < committed[q]

\* What a thread is about to publish has no unpublished predecessor.
CausalInv ==
    /\ CausalOrder
    /\ \A r \in Replica : cur[r] # NoMsg =>
          \A m \in Msg : Precedes(ReqOf[m], ReqOf[cur[r]]) => m \in Published

\* What a step does to the requests: those that took effect stay as they are,
\* and one that takes effect does so after everything inserted so far.
LEMMA RequestStep ==
    ASSUME TypeOK, TimeInv, [Next]_vars
    PROVE  /\ TimeInv'
           /\ brep' = brep
           /\ \A q \in Request : Committed(q) =>
                 Committed(q)' /\ inserted'[q] = inserted[q]
                               /\ committed'[q] = committed[q]
           /\ \A q \in Request : Committed(q)' /\ ~Committed(q) =>
                 committed'[q] = now + 1
  <1> DEFINE P == /\ TimeInv'
                  /\ brep' = brep
                  /\ \A q \in Request : Committed(q) =>
                        Committed(q)' /\ inserted'[q] = inserted[q]
                                      /\ committed'[q] = committed[q]
                  /\ \A q \in Request : Committed(q)' /\ ~Committed(q) =>
                        committed'[q] = now + 1
  <1>0. /\ bpc \in [Request -> BizState] /\ now \in Nat
        /\ inserted \in [Request -> Nat] /\ committed \in [Request -> Nat]
    BY DEF TypeOK
  <1>1. ASSUME UNCHANGED <<bpc, brep, inserted, committed, now>> PROVE P
    BY <1>1 DEF TimeInv, Committed
  <1>2. ASSUME NEW r \in Replica,
               \/ NewOutbox(r) \/ \E t \in OpType : RegisterHandlers(r, t)
               \/ PushStep(r) \/ PushError(r) \/ CommitPushError(r)
               \/ ConnectionLost(r)
        PROVE  P
    BY <1>1, <1>2
    DEF NewOutbox, RegisterHandlers, PushStep, WakeByNotify, WakeByTimer,
        TakeLock, GetPushMessage, Handle, HandleUnregistered,
        DeleteOutboxInfoByID, CommitPush, StatementFails, PushError,
        CommitPushError, ConnectionLost, bizVars
  <1>3. ASSUME NEW r \in Replica, Crash(r) PROVE P
    BY <1>0, <1>3 DEF Crash, TimeInv, Committed
  <1>4. ASSUME NEW p \in Request, AddOutboxInfos(p) PROVE P
    <2>1. /\ ~Committed(p) /\ ~Committed(p)' /\ inserted'[p] <= now
          /\ UNCHANGED <<brep, committed, now>>
          /\ \A q \in Request : q # p => bpc'[q] = bpc[q] /\ inserted'[q] = inserted[q]
      BY <1>0, <1>4 DEF AddOutboxInfos, TimeInv, Committed
    <2> QED BY <2>1 DEF TimeInv, Committed
  <1>5. ASSUME NEW p \in Request, CommitBusiness(p) PROVE P
    BY <1>0, <1>5 DEF CommitBusiness, TimeInv, Committed
  <1>6. ASSUME NEW p \in Request, CommitBusinessError(p) PROVE P
    <2>1. /\ ~Committed(p) /\ (Committed(p)' => committed'[p] = now + 1)
          /\ UNCHANGED <<brep, inserted>> /\ now' = now + 1
          /\ \A q \in Request : q # p => bpc'[q] = bpc[q] /\ committed'[q] = committed[q]
      BY <1>0, <1>6 DEF CommitBusinessError, Committed
    <2> QED BY <1>0, <2>1 DEF TimeInv, Committed
  <1>7. ASSUME NEW p \in Request, RollbackBusiness(p) \/ NotifyPushOutboxThread(p)
        PROVE  P
    BY <1>0, <1>7 DEF RollbackBusiness, NotifyPushOutboxThread, TimeInv, Committed
  <1>8. CASE ReapTransaction \/ UNCHANGED vars
    BY <1>1, <1>8 DEF ReapTransaction, vars, bizVars
  <1> QED BY <1>2, <1>3, <1>4, <1>5, <1>6, <1>7, <1>8 DEF Next

\* A request that took effect gains no predecessor.
LEMMA PrecedesStable ==
    ASSUME TypeOK, TimeInv, [Next]_vars,
           NEW p \in Request, NEW q \in Request, Committed(q), Precedes(p, q)'
    PROVE  Precedes(p, q)
  <1>1. inserted[q] <= now /\ inserted[q] \in Nat /\ now \in Nat
    BY DEF TimeInv, TypeOK
  <1>2. inserted'[q] = inserted[q] /\ brep' = brep
    BY RequestStep
  <1>3. Committed(p)' /\ committed'[p] <= inserted[q]
    BY <1>2 DEF Precedes
  <1>4. Committed(p)
    BY <1>1, <1>3, RequestStep
  <1> QED BY <1>2, <1>4, RequestStep DEF Precedes

\* A step that publishes nothing, and after which every thread holds what it
\* held or nothing.
LEMMA CausalQuiet ==
    ASSUME TypeOK, NoSpurious, ThreadInv, TimeInv, CausalInv, [Next]_vars,
           log' = log,
           \A r \in Replica : cur'[r] \in {cur[r], NoMsg}
    PROVE  CausalInv'
  <1> USE OutboxAssumption
  <1>1. Published' = Published
    BY DEF Published
  <1>2. \A i \in 1..Len(log) : log[i] \in Msg /\ log[i] \in Published
                                             /\ Committed(ReqOf[log[i]])
    <2>1. \A i \in 1..Len(log) : log[i] \in Msg /\ log[i] \in Published
      BY DEF TypeOK, Published
    <2> QED BY <2>1 DEF NoSpurious
  <1>3. \A i \in 1..Len(log), m \in Msg :
           Precedes(ReqOf[m], ReqOf[log[i]])' => Precedes(ReqOf[m], ReqOf[log[i]])
    BY <1>2, PrecedesStable
  <1>4. CausalOrder'
    BY <1>3 DEF CausalInv, CausalOrder
  <1>5. ASSUME NEW r \in Replica, cur'[r] # NoMsg, NEW m \in Msg,
               Precedes(ReqOf[m], ReqOf[cur[r]])'
        PROVE  m \in Published
    <2>1. cur'[r] = cur[r] /\ cur[r] \in Msg /\ Committed(ReqOf[cur[r]])
      BY <1>5 DEF ThreadInv, TypeOK
    <2>2. Precedes(ReqOf[m], ReqOf[cur[r]])
      BY <1>5, <2>1, PrecedesStable
    <2> QED BY <2>1, <2>2 DEF CausalInv
  <1> QED BY <1>1, <1>4, <1>5 DEF CausalInv

\* A thread that publishes what it holds.
LEMMA CausalPublish ==
    ASSUME TypeOK, CausalInv, UNCHANGED bizVars,
           NEW r \in Replica, cur[r] # NoMsg, log' = Append(log, cur[r]),
           \A s \in Replica : cur'[s] \in {cur[s], NoMsg}
    PROVE  CausalInv'
  <1> USE OutboxAssumption
  <1>1. cur[r] \in Msg /\ log \in Seq(Msg)
    BY DEF TypeOK
  <1>2. Published' = Published \cup {cur[r]}
    <2>1. PICK m \in Msg : m = cur[r]
      BY <1>1
    <2>2. {Append(log, m)[i] : i \in 1..Len(Append(log, m))}
             = {log[i] : i \in 1..Len(log)} \cup {m}
      BY <1>1, AppendPublished
    <2>3. log' = Append(log, m)
      BY <2>1
    <2> QED BY <2>1, <2>2, <2>3 DEF Published
  <1>3. \A p, q \in Request : Precedes(p, q)' <=> Precedes(p, q)
    BY DEF Precedes, Committed, bizVars
  <1>4. /\ Len(log') = Len(log) + 1 /\ log'[Len(log) + 1] = cur[r]
        /\ \A i \in 1..Len(log) : log'[i] = log[i] /\ log[i] \in Msg
    BY <1>1
  <1>5. ASSUME NEW i \in 1..Len(log'), NEW m \in Msg,
               Precedes(ReqOf[m], ReqOf[log'[i]])
        PROVE  \E j \in 1..Len(log') : j < i /\ log'[j] = m
    <2>1. CASE i \in 1..Len(log)
      <3>1. PICK j \in 1..Len(log) : j < i /\ log[j] = m
        BY <1>4, <1>5, <2>1 DEF CausalInv, CausalOrder
      <3> QED BY <1>1, <1>4, <3>1
    <2>2. CASE i = Len(log) + 1
      <3>1. m \in Published
        BY <1>4, <1>5, <2>2 DEF CausalInv
      <3>2. PICK j \in 1..Len(log) : log[j] = m
        BY <3>1 DEF Published
      <3> QED BY <1>1, <1>4, <2>2, <3>2
    <2> QED BY <1>1, <1>4, <2>1, <2>2
  <1>6. \A i \in 1..Len(log') : log'[i] \in Msg
    BY <1>1
  <1>7. CausalOrder'
    <2> SUFFICES ASSUME NEW i \in 1..Len(log'), NEW m \in Msg,
                        Precedes(ReqOf[m], ReqOf[log[i]])'
                 PROVE  \E j \in 1..Len(log') : j < i /\ log'[j] = m
      BY DEF CausalOrder
    <2>1. PICK p \in Request, q \in Request : p = ReqOf[m] /\ q = ReqOf[log'[i]]
      BY <1>6 DEF OutboxAssumption
    <2>2. Precedes(p, q)'
      BY <2>1 DEF Precedes, Committed
    <2>3. Precedes(p, q)
      BY <1>3, <2>2
    <2> QED BY <1>5, <2>1, <2>3
  <1>8. \A s \in Replica : cur'[s] # NoMsg => cur'[s] = cur[s] /\ cur[s] \in Msg
    BY DEF TypeOK
  <1> QED BY <1>2, <1>3, <1>7, <1>8, ZenonT(60) DEF CausalInv, Precedes, Committed

\* The oldest row has no predecessor among the rows, so NoLoss says that all
\* its predecessors are published.
LEMMA OldestHasNoPredecessor ==
    ASSUME TypeOK, NoLoss, TimeInv, NEW n \in Oldest,
           NEW m \in Msg, Precedes(ReqOf[m], ReqOf[n])
    PROVE  m \in Published
  <1> USE OutboxAssumption
  <1>1. n \in Msg /\ ReqOf[n] \in Request /\ ReqOf[m] \in Request
    BY DEF Oldest, TypeOK
  <1> DEFINE p == ReqOf[m]
             q == ReqOf[n]
  <1>2. /\ inserted[p] \in Nat /\ inserted[q] \in Nat /\ committed[p] \in Nat
        /\ Skew[brep[p]] \in Nat /\ Skew[brep[q]] \in Nat
    BY <1>1 DEF TypeOK
  <1>3. /\ Committed(p) /\ inserted[p] < committed[p]
        /\ committed[p] <= inserted[q] /\ Skew[brep[p]] <= Skew[brep[q]]
    BY <1>1 DEF Precedes, TimeInv
  <1>4. CreateTime(m) < CreateTime(n)
    BY <1>2, <1>3 DEF CreateTime
  <1>5. CreateTime(m) \in Nat /\ CreateTime(n) \in Nat
    BY <1>2 DEF CreateTime
  <1>6. m \notin rows
    BY <1>4, <1>5 DEF Oldest
  <1> QED BY <1>3, <1>6 DEF NoLoss

\* Every step keeps the causal order.
LEMMA NextCausal ==
    ASSUME TypeOK, NoLoss, NoSpurious, ThreadInv, TimeInv, CausalInv, [Next]_vars
    PROVE  CausalInv'
  <1> USE OutboxAssumption
  <1>1. ASSUME NEW r \in Replica,
               \/ NewOutbox(r) \/ \E t \in OpType : RegisterHandlers(r, t)
               \/ WakeByNotify(r) \/ WakeByTimer(r) \/ TakeLock(r)
               \/ DeleteOutboxInfoByID(r) \/ ConnectionLost(r)
        PROVE  CausalInv'
    BY <1>1, CausalQuiet
    DEF NewOutbox, RegisterHandlers, WakeByNotify, WakeByTimer, TakeLock,
        DeleteOutboxInfoByID, ConnectionLost, threadVars
  <1>2. ASSUME NEW r \in Replica, GetPushMessage(r) PROVE CausalInv'
    <2>1. CASE cur' = [cur EXCEPT ![r] = NoMsg] /\ log' = log
      BY <2>1, CausalQuiet DEF TypeOK
    <2>2. ASSUME NEW n \in Oldest, cur' = [cur EXCEPT ![r] = n] PROVE CausalInv'
      <3>1. UNCHANGED <<log, bizVars>> /\ Published' = Published
        BY <1>2 DEF GetPushMessage, Published
      <3>2. \A p, q \in Request : Precedes(p, q)' <=> Precedes(p, q)
        BY <3>1 DEF Precedes, Committed, bizVars
      <3>3. \A i \in 1..Len(log) : log[i] \in Msg
        BY DEF TypeOK
      <3>4. CausalOrder'
        BY <3>1, <3>2, <3>3 DEF CausalInv, CausalOrder, Precedes, Committed
      <3>5. n \in Msg /\ \A m \in Msg : Precedes(ReqOf[m], ReqOf[n]) => m \in Published
        BY <2>2, OldestHasNoPredecessor DEF Oldest, TypeOK
      <3>6. \A s \in Replica : cur'[s] = IF s = r THEN n ELSE cur[s]
        BY <2>2 DEF TypeOK
      <3>7. ASSUME NEW s \in Replica, cur'[s] # NoMsg, NEW m \in Msg,
                   Precedes(ReqOf[m], ReqOf[cur'[s]])
            PROVE  m \in Published
        BY <3>5, <3>6, <3>7 DEF CausalInv
      <3>8. \A s \in Replica : cur'[s] # NoMsg => cur'[s] \in Msg
        BY <3>5, <3>6 DEF TypeOK
      <3> QED BY <3>1, <3>2, <3>4, <3>7, <3>8 DEF CausalInv, Precedes, Committed
    <2> QED BY <1>2, <2>1, <2>2 DEF GetPushMessage
  <1>3. ASSUME NEW r \in Replica, Handle(r) PROVE CausalInv'
    BY <1>3, CausalPublish DEF Handle, ThreadInv
  <1>4. ASSUME NEW r \in Replica,
               \/ HandleUnregistered(r) \/ StatementFails(r)
               \/ CommitPush(r) \/ CommitPushError(r) \/ Crash(r)
        PROVE  CausalInv'
    <2>1. log' = log /\ cur' = [cur EXCEPT ![r] = NoMsg]
      BY <1>4 DEF HandleUnregistered, StatementFails, CommitPush,
                  CommitPushError, Crash, GiveUp
    <2> QED BY <2>1, CausalQuiet DEF TypeOK
  <1>5. ASSUME NEW r \in Replica, PushError(r) PROVE CausalInv'
    <2>1. /\ cur' = [cur EXCEPT ![r] = NoMsg] /\ UNCHANGED bizVars
          /\ \/ log' = log
             \/ tpc[r] = "handle" /\ log' = Append(log, cur[r])
      BY <1>5 DEF PushError, GiveUp
    <2>2. \A s \in Replica : cur'[s] \in {cur[s], NoMsg}
      BY <2>1 DEF TypeOK
    <2>3. CASE log' = log
      BY <2>2, <2>3, CausalQuiet
    <2>4. CASE tpc[r] = "handle" /\ log' = Append(log, cur[r])
      BY <2>1, <2>2, <2>4, CausalPublish DEF ThreadInv
    <2> QED BY <2>1, <2>3, <2>4
  <1>6. ASSUME NEW q \in Request,
               \/ AddOutboxInfos(q) \/ RollbackBusiness(q)
               \/ CommitBusiness(q) \/ CommitBusinessError(q)
               \/ NotifyPushOutboxThread(q)
        PROVE  CausalInv'
    BY <1>6, CausalQuiet
    DEF AddOutboxInfos, RollbackBusiness, CommitBusiness,
        CommitBusinessError, NotifyPushOutboxThread, threadVars
  <1>7. CASE ReapTransaction \/ UNCHANGED vars
    BY <1>7, CausalQuiet DEF ReapTransaction, vars, threadVars
  <1> QED BY <1>1, <1>2, <1>3, <1>4, <1>5, <1>6, <1>7 DEF Next, PushStep

\* An event is published only after every event of a request that was
\* committed before this one was written by a replica whose clock is not ahead,
\* whatever fails in push().
THEOREM PublishedInCausalOrder == Spec => []CausalOrder
  <1> DEFINE IInv == /\ TypeOK /\ NoLoss /\ NoSpurious /\ ThreadInv
                     /\ TimeInv /\ CausalInv
  <1>1. Init => IInv
    <2>1. Init => TimeInv /\ CausalInv
      BY DEF Init, TimeInv, CausalInv, CausalOrder, Committed
    <2> QED BY <2>1, InitTypeOK, InitDelivery
  <1>2. IInv /\ [Next]_vars => IInv'
    BY NextTypeOK, NextDelivery, RequestStep, NextCausal
  <1>3. IInv => CausalOrder
    BY DEF CausalInv
  <1> QED BY <1>1, <1>2, <1>3, PTL DEF Spec
-----------------------------------------------------------------------------
(* Repetitions.                                                            *)

\* While the lock protects the thread that holds it: a row that was already
\* published was published last among the messages that are newer than it,
\* and a handler is called with a row that is no newer than those.
StaleInv ==
    ~severed =>
        /\ NoStaleRepeat
        /\ \A m \in rows : \A i, k \in 1..Len(log) :
              i < k /\ log[i] = m => CreateTime(log[k]) <= CreateTime(m)
        /\ \A r \in Replica : tpc[r] = "handle" =>
              /\ cur[r] \in rows
              /\ \A n \in rows \cap Published : CreateTime(cur[r]) <= CreateTime(n)

\* A step that publishes nothing, adds no published row, and lets no thread
\* start to call a handler.
LEMMA StaleQuiet ==
    ASSUME TypeOK, NoSpurious, TimeInv, StaleInv, [Next]_vars,
           log' = log, severed => severed', rows' \cap Published \subseteq rows,
           \A r \in Replica : tpc'[r] = "handle" =>
               tpc[r] = "handle" /\ cur'[r] = cur[r] /\ (cur[r] \in rows => cur[r] \in rows')
    PROVE  StaleInv'
  <1> USE OutboxAssumption
  <1> SUFFICES ASSUME ~severed, ~severed' PROVE StaleInv'
    BY DEF StaleInv
  <1>1. Published' = Published
    BY DEF Published
  <1>2. \A i \in 1..Len(log) : log[i] \in Msg /\ log[i] \in Published
    BY DEF TypeOK, Published
  <1>3. \A m \in rows \cup Published :
           m \in Msg /\ inserted'[ReqOf[m]] = inserted[ReqOf[m]] /\ brep' = brep
    <2>1. \A m \in rows \cup Published : m \in Msg
      BY <1>2 DEF TypeOK, Published
    <2> QED BY <2>1, RequestStep DEF NoSpurious
  <1>4. NoStaleRepeat'
    BY <1>2, <1>3 DEF StaleInv, NoStaleRepeat, CreateTime
  <1>5. ASSUME NEW m \in rows', NEW i \in 1..Len(log), NEW k \in 1..Len(log),
               i < k, log[i] = m
        PROVE  CreateTime(log[k])' <= CreateTime(m)'
    <2>1. m \in rows
      BY <1>2, <1>5
    <2> QED BY <1>2, <1>3, <1>5, <2>1 DEF StaleInv, CreateTime
  <1>6. ASSUME NEW r \in Replica, tpc'[r] = "handle"
        PROVE  /\ cur'[r] \in rows'
               /\ \A n \in rows' \cap Published : CreateTime(cur[r])' <= CreateTime(n)'
    <2>1. cur'[r] = cur[r] /\ cur[r] \in rows /\ cur[r] \in rows'
      BY <1>6 DEF StaleInv
    <2> QED BY <1>3, <1>6, <2>1 DEF StaleInv, CreateTime
  <1> QED BY <1>1, <1>4, <1>5, <1>6 DEF StaleInv

\* A thread that publishes what it holds, under the lock.
LEMMA StalePublish ==
    ASSUME TypeOK, Mutex, StaleInv, UNCHANGED <<bizVars, rows, severed>>,
           NEW r \in Replica, tpc[r] = "handle", cur[r] # NoMsg,
           log' = Append(log, cur[r]),
           \A s \in Replica : tpc'[s] = "handle" => s # r /\ tpc[s] = "handle"
    PROVE  StaleInv'
  <1> USE OutboxAssumption
  <1> SUFFICES ASSUME ~severed PROVE StaleInv'
    BY DEF StaleInv
  <1>1. cur[r] \in Msg /\ log \in Seq(Msg) /\ cur[r] \in rows
    BY DEF TypeOK, StaleInv
  <1>2. \A s \in Replica : tpc'[s] # "handle"
    BY DEF Mutex, Critical
  <1>3. /\ Len(log) \in Nat /\ Len(log') = Len(log) + 1
        /\ log'[Len(log) + 1] = cur[r]
        /\ \A i \in 1..Len(log) : log'[i] = log[i] /\ log[i] \in Published
    BY <1>1 DEF Published
  <1>4. ASSUME NEW i \in 1..Len(log'), NEW k \in 1..Len(log'), NEW j \in 1..Len(log'),
               i < k, k < j, log'[i] = log'[j]
        PROVE  CreateTime(log'[k]) <= CreateTime(log'[j])
    <2>1. i \in 1..Len(log) /\ k \in 1..Len(log)
      BY <1>3, <1>4
    <2>2. CASE j \in 1..Len(log)
      BY <1>3, <1>4, <2>1, <2>2 DEF StaleInv, NoStaleRepeat
    <2>3. CASE j = Len(log) + 1
      BY <1>1, <1>3, <1>4, <2>1, <2>3 DEF StaleInv
    <2> QED BY <1>3, <2>2, <2>3
  <1>5. ASSUME NEW m \in rows, NEW i \in 1..Len(log'), NEW k \in 1..Len(log'),
               i < k, log'[i] = m
        PROVE  CreateTime(log'[k]) <= CreateTime(m)
    <2>1. i \in 1..Len(log)
      BY <1>3, <1>5
    <2>2. CASE k \in 1..Len(log)
      BY <1>3, <1>5, <2>1, <2>2 DEF StaleInv
    <2>3. CASE k = Len(log) + 1
      BY <1>3, <1>5, <2>1, <2>3 DEF StaleInv
    <2> QED BY <1>3, <2>2, <2>3
  <1>6. inserted' = inserted /\ brep' = brep
    BY DEF bizVars
  <1>7. NoStaleRepeat'
    <2> SUFFICES ASSUME NEW i \in 1..Len(log'), NEW k \in 1..Len(log'),
                        NEW j \in 1..Len(log'), i < k, k < j, log'[i] = log'[j]
                 PROVE  (CreateTime(log[k]) <= CreateTime(log[j]))'
      BY DEF NoStaleRepeat
    <2>1. CreateTime(log'[k]) <= CreateTime(log'[j])
      BY <1>4
    <2> QED BY <1>6, <2>1 DEF CreateTime
  <1> QED BY <1>2, <1>5, <1>6, <1>7 DEF StaleInv, CreateTime

\* Every step keeps StaleInv.
LEMMA NextStale ==
    ASSUME TypeOK, NoSpurious, ThreadInv, Mutex, TimeInv, StaleInv, [Next]_vars
    PROVE  StaleInv'
  <1> USE OutboxAssumption
  <1>1. ASSUME NEW r \in Replica,
               \/ NewOutbox(r) \/ \E t \in OpType : RegisterHandlers(r, t)
               \/ WakeByNotify(r) \/ WakeByTimer(r) \/ TakeLock(r)
               \/ DeleteOutboxInfoByID(r)
        PROVE  StaleInv'
    BY <1>1, StaleQuiet
    DEF NewOutbox, RegisterHandlers, WakeByNotify, WakeByTimer, TakeLock,
        DeleteOutboxInfoByID, TypeOK
  <1>2. ASSUME NEW r \in Replica, GetPushMessage(r) PROVE StaleInv'
    <2>1. CASE rows = {}
      <3>1. /\ tpc' = [tpc EXCEPT ![r] = "commit"]
            /\ cur' = [cur EXCEPT ![r] = NoMsg] /\ UNCHANGED <<log, rows, severed>>
        BY <1>2, <2>1 DEF GetPushMessage, Oldest
      <3> QED BY <3>1, StaleQuiet DEF TypeOK
    <2>2. ASSUME NEW m \in Oldest,
                 cur' = [cur EXCEPT ![r] = m], tpc' = [tpc EXCEPT ![r] = "handle"]
          PROVE  StaleInv'
      <3>1. UNCHANGED <<log, rows, severed, inserted, brep>> /\ Published' = Published
        BY <1>2 DEF GetPushMessage, Published, bizVars
      <3>2. NoStaleRepeat' <=> NoStaleRepeat
        BY <3>1 DEF NoStaleRepeat, CreateTime
      <3>3. \A s \in Replica : tpc'[s] = "handle" =>
               \/ s = r /\ cur'[s] = m
               \/ tpc[s] = "handle" /\ cur'[s] = cur[s]
        BY <2>2 DEF TypeOK
      <3>4. m \in rows /\ \A n \in rows \cap Published : CreateTime(m) <= CreateTime(n)
        BY DEF Oldest
      <3> QED BY <3>1, <3>2, <3>3, <3>4 DEF StaleInv, CreateTime
    <2> QED BY <1>2, <2>1, <2>2 DEF GetPushMessage
  <1>3. ASSUME NEW r \in Replica, Handle(r) PROVE StaleInv'
    BY <1>3, StalePublish DEF Handle, ThreadInv, TypeOK
  <1>4. ASSUME NEW r \in Replica,
               HandleUnregistered(r) \/ StatementFails(r) \/ Crash(r)
        PROVE  StaleInv'
    <2>1. /\ UNCHANGED <<log, rows, severed>>
          /\ \/ tpc' = [tpc EXCEPT ![r] = "select"]
             \/ tpc' = [tpc EXCEPT ![r] = "down"]
          /\ cur' = [cur EXCEPT ![r] = NoMsg]
      BY <1>4 DEF HandleUnregistered, StatementFails, Crash, GiveUp
    <2> QED BY <2>1, StaleQuiet DEF TypeOK
  <1>5. ASSUME NEW r \in Replica, CommitPush(r) \/ CommitPushError(r)
        PROVE  StaleInv'
    <2> SUFFICES ASSUME ~severed PROVE StaleInv'
      BY <1>5 DEF StaleInv, CommitPush, CommitPushError
    <2>1. /\ log' = log /\ severed' = severed /\ rows' \subseteq rows
          /\ lock = r /\ tpc[r] = "commit"
      BY <1>5 DEF CommitPush, CommitPushError
    <2>2. \A s \in Replica : tpc[s] # "handle"
      BY <2>1 DEF Mutex, Critical
    <2>3. \A s \in Replica : tpc'[s] # "handle"
      BY <1>5, <2>2 DEF CommitPush, CommitPushError, GiveUp, TypeOK
    <2> QED BY <2>1, <2>3, StaleQuiet
  <1>6. ASSUME NEW r \in Replica, PushError(r) PROVE StaleInv'
    <2>1. /\ UNCHANGED <<rows, bizVars, severed>>
          /\ tpc' = [tpc EXCEPT ![r] = "select"] /\ cur' = [cur EXCEPT ![r] = NoMsg]
          /\ \/ log' = log
             \/ tpc[r] = "handle" /\ log' = Append(log, cur[r])
      BY <1>6 DEF PushError, GiveUp
    <2>2. \A s \in Replica : tpc'[s] = "handle" =>
             s # r /\ tpc[s] = "handle" /\ cur'[s] = cur[s]
      BY <2>1 DEF TypeOK
    <2>3. CASE log' = log
      BY <2>1, <2>2, <2>3, StaleQuiet
    <2>4. CASE tpc[r] = "handle" /\ log' = Append(log, cur[r])
      BY <2>1, <2>2, <2>4, StalePublish DEF ThreadInv
    <2> QED BY <2>1, <2>3, <2>4
  <1>7. ASSUME NEW r \in Replica, ConnectionLost(r) PROVE StaleInv'
    BY <1>7 DEF ConnectionLost, StaleInv
  <1>8. ASSUME NEW q \in Request,
               \/ AddOutboxInfos(q) \/ RollbackBusiness(q)
               \/ CommitBusiness(q) \/ CommitBusinessError(q)
               \/ NotifyPushOutboxThread(q)
        PROVE  StaleInv'
    <2>1. /\ UNCHANGED <<log, tpc, cur, severed>>
          /\ rows' = rows \/ (rows' = rows \cup Batch(q) /\ ~Committed(q))
      BY <1>8
      DEF AddOutboxInfos, RollbackBusiness, CommitBusiness,
          CommitBusinessError, NotifyPushOutboxThread, threadVars, Committed
    <2>2. rows' \cap Published \subseteq rows
      BY <2>1 DEF NoSpurious, Batch
    <2> QED BY <2>1, <2>2, StaleQuiet
  <1>9. CASE ReapTransaction \/ UNCHANGED vars
    BY <1>9, StaleQuiet DEF ReapTransaction, vars, threadVars
  <1> QED
    BY <1>1, <1>2, <1>3, <1>4, <1>5, <1>6, <1>7, <1>8, <1>9 DEF Next, PushStep

\* While no transaction was ended under a live thread, a repeated event has
\* nothing newer between itself and its repetition.
THEOREM RepeatsAreNotStale == Spec => []NoStaleRepeat
  <1> DEFINE IInv == /\ TypeOK /\ NoLoss /\ NoSpurious /\ ThreadInv
                     /\ Mutex /\ TimeInv /\ StaleInv
  <1>1. Init => IInv
    <2>1. Init => Mutex /\ TimeInv /\ StaleInv
      BY DEF Init, Mutex, Critical, TimeInv, StaleInv, NoStaleRepeat, Committed
    <2> QED BY <2>1, InitTypeOK, InitDelivery
  <1>2. IInv /\ [Next]_vars => IInv'
    BY NextTypeOK, NextDelivery, NextMutex, RequestStep, NextStale
  <1>3. IInv => NoStaleRepeat
    BY DEF StaleInv, NoStaleRepeat
  <1> QED BY <1>1, <1>2, <1>3, PTL DEF Spec
=============================================================================
