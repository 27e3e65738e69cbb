# Verification of the Information Security Fabric

ISF is a set of services for accounts, authentication, authorisation and audit.
This directory holds TLA+ models of the parts in which several processes,
replicas or requests meet on shared tables, the TLC runs that check them on
small instances, and TLAPS proofs for all instances.

Every module translates the code it names; `PROJECT.json` maps definitions to
lines. To check a run: `tlc -config Outbox_faults.cfg MCOutbox`; to check the
proofs: `tlapm OutboxProofs.tla`.

## The system

| Part | State it keeps | Operations | What is hard |
| --- | --- | --- | --- |
| Ordered outbox (`logics/outbox.go`, `dbaccess/outbox.go`; one copy in UserManagement, Authentication, PolicyManagement and Auditlog) | `t_outbox`, `t_outbox_lock`, a channel and a thread per replica, a map of handlers | add a batch inside a business transaction, notify, push one message, register a handler | replicas push at once; the handler acts outside the transaction that deletes the row; dropped notifications; crash between commit and notification; clocks of several replicas order the rows |
| Unordered outbox (Authentication, audit records) | `t_outbox_unordered`, a thread per replica, a renewal goroutine per claim | log, claim, publish, delete, renew, give back | optimistic claims, leases on different clocks, renewals and deletions that do not ask for the owner, claims that fail after they were applied |
| Policy evaluation (Authorization `policy_calc.go`) | none; reads `t_policy`, `t_obligation` | Check, ResourceFilter, GetResourceOperation, GetResourceList, GetResourceTypeOperation | five endpoints with their own queries and loops over one set of policies; conditions evaluated on different data per layer |
| Department deletion (UserManagement `department.go`) | `t_department`, `t_department_relation`, `t_ou_department`, `t_user_department_relation`, `t_ou_user`, `t_department_responsible_person` | checks, four queries, one transaction, three kinds of events | everything is read before the transaction and not read again; several deletions overlap; the consumer of one event removes rows another deletion reads |
| Event consumers (`event.go`, `mq_handler.go` of each service) | handlers registered in order | run the handlers of a message | a handler fails after others have succeeded; redelivery; errors of the 400 series are swallowed |
| Policy store (Authorization `policy.go`) | `t_policy` | grant, change, revoke, install at start, expire, remove with an accessor or resource | read, merge, write without a transaction over both; no unique key |
| Roles, resource types, obligations (Authorization) | one table each | create, update, delete, clean up after events | check then write |
| Groups (UserManagement `group.go`) | `t_group`, `t_group_member` | create with the members of other groups, rename, delete, add and remove members, remove deleted members | every statement commits by itself; messages and audit records are sent by goroutines after the answer |
| Users, apps, internal groups (UserManagement) | one or two tables each | create, update, delete | check then write |
| Login, tickets, SMS codes (Authentication) | counters and tables | | credential handling |
| Product licences (PolicyManagement `license.go`) | `t_product_relation`, a cache of licences per replica | assign products, messages of created, enabled, disabled and deleted users | counts and rows are read before the transaction; three topics without a common order; redelivery |
| Decision data (PolicyManagement `policy_decision.go`, `utils/gocommon/v2/outbox`) | a copy in the memory of each replica with two prepared queries on it, an outbox table, Redis channels | load, reload, patch, compare, announce, dispatch | three threads that read for a while and replace the store and the queries by three assignments, one that patches the store; announcements outside the transaction; Redis forgets; reads whose errors nobody looks at |
| Network and general policies (PolicyManagement) | tables | validation and single transactions | |
| Audit log (Auditlog) | log tables, dump job | consume, query, dump | dump while records arrive |
| ShareMgnt (Python), ShareServer (C++) | the same organisation tables | legacy user and department operations | statement by statement, without a transaction |
| ISFWeb, oauth2-ui, Hydra fork | | | user interface and third-party code |

How they interact: a request handler of any service writes its change and the
events about it in one transaction (ordered outbox); the push thread hands them
to the broker; consumers in the other services run a list of handlers that
remove or update what they keep about the object. Authorization asks
UserManagement for the groups and departments of an accessor at each check.
ShareMgnt writes the organisation tables directly.

Not every deletion is announced so. UserManagement publishes that of a group in
a goroutine after the answer, ShareMgnt that of a user after its last statement,
and Authorization deletes the policies of a role in the request that has deleted
the role: what breaks off in between is not done again, since a second request
finds nothing to delete. `License`, `PolicyStore` and `Groups` have these steps one
by one, and their properties name what is then left behind.

Many queries only log the error with which a result ends early (`rows.Err`), and
return what they have as if it were all. Where a decision depends on such a
result the module has a step for it (`Misread`, `ChangeMisreads`, `Truncated`).

What makes each part correct:

- outbox: at least once, never for a change that was rolled back, in causal
  order, exactly once while nothing fails, and eventually;
- policy evaluation: the nearest configured layer decides and, in it, a deny;
  the endpoints agree; the obligations are those of the strongest accessor;
- department deletion: nobody is left without a place, nothing of the subtree
  is left in a table, everybody concerned is told;
- consumers: what concerns a deleted object is gone in the end;
- policy store: one row per accessor and resource, grants add and take effect,
  denials survive, nothing is left of a deleted accessor;
- licences: within the quota, no product twice, nothing for a deleted user, an
  audit row that tells the truth;
- groups: distinct names, members once, no rows without a group, no deleted
  members, everybody told;
- decision data: the answers of a replica are those of the database, at once
  when nothing fails and in the end whatever fails.

## The modules

### Outbox

State: per replica the place of the push thread (`tpc`), the row it has read,
`needTimer`, the channel token and the registered types; `t_outbox` (`rows`) and
the owner of the row of `t_outbox_lock`; per request its transaction. `log` is
what the handlers have published. `now` and `Skew` give `f_create_time`, taken
from the clock of the writing replica before the commit.

Actions: `NewOutbox`, `RegisterHandlers`; `AddOutboxInfos`, `CommitBusiness`,
`RollbackBusiness`, `NotifyPushOutboxThread` for a request; `WakeByNotify`,
`WakeByTimer`, `TakeLock`, `GetPushMessage`, `Handle`, `HandleUnregistered`,
`DeleteOutboxInfoByID`, `CommitPush`, `StatementFails` for a thread. The row is
removed when the transaction commits, so the deletion itself changes nothing
that others see. Faults, bounded by `MaxFaults`: `PushError` (any call of
`push()` fails; a handler may have published), `CommitPushError` and
`CommitBusinessError` (unknown outcome), `ConnectionLost` (the database ends a
transaction under a live thread, which goes on to its handler), `Crash`. A result
of `GetPushMessage` that ends early looks like an empty outbox, but the commit of
the broken transaction fails (`outbox.go:138`) and brings the timer back, which is
what `PushError` does. A crashed or unreachable client leaves the lock to a `Zombie` until the database
ends its transaction. The external parts are the database and the broker.

`EventDelivery` is the abstract specification: a log of messages that are
accepted, published at least once, and settled only after that.

### UnorderedOutbox

Actions follow `audit_log_async_task.go`: the select and the conditional update
of `GetUnorderedOutboxInfo` are two steps, publish and delete are two more, the
renewal goroutine has its own. Time is counted in ticks of ten seconds, the
renewal period; a row carries the ticks since `f_updated_at` was written and
whose clock was written. A renewal that does not happen in its period is
counted in `missed`. `Lease` is 6 (push) and `StartLease` 2 (start). It
implements `EventDelivery` too.

### PolicyCalc

One accessor, one resource. Layers: the resource, its ancestors, `*`. A row of
`t_policy` is flattened to entries (layer, operation, effect, condition,
priority of the accessor, obligation). `VisitLayer` is one round of the loop in
`calcResourceInheritedOperation` for all five endpoints at once: they do not
interact, and doing them in step lets their results be compared. `DataOf` and
`Visits` hold the differences: which data the conditions of a layer are evaluated
with, and which layers the query finds. `Answer` evaluates the obligations and
the operations asked for. A condition is a Boolean for the data of the instance
and one for an empty map; on nil data nothing holds. `Permitted` is the
reference: the rule of the comments, stated without a loop.

### DepartmentDelete

A forest of departments given by `Above`; per request the place in
`DeleteDepart` and what it has read. The checks, the four queries and the
transaction are one action each, and `Fail` ends a request before its commit.
`Misread` is one of the four queries with a list that lacks rows, on which the
request goes on. `push` is the push thread with the messages of a request; of
the outbox only "at least once" is used. A request that finds no departments,
because another deletion overtook it, gets nil from
`GetAllOrgManagerIDsByDepartIDs` (`NullList`); it is written as null, and the type
assertion of `sendOrgManagerChanged` panics: the thread is `stopped`, and every
process that starts meets the same message again. `DeptDeleted(d, n)` is one
delivery of the event in which the first n of the four handlers succeed. `raced`
is a history variable: a deletion took a row of a user whom another request had
already looked up, or went by a truncated list; `misread` remembers who did.

### License

A worker is a goroutine that serves a message about a user or a request of an
administrator. What it does is cut where it calls the database, the licence
server or the service of the users: `GetUserInfos`, `GetLicenses` (with the cache
of the replica), `GetAuthorizedProducts`, `GetProductsAuthorizedCount` product by
product, then `Write` or `Decline`; `userDeleteAllProducts` for a disabled or
deleted user. `t_product_relation` counts rows, since nothing in the table keeps
a pair from being there twice, and `Total` adds them up as the size of a set of
rows. `Committed` includes the commit whose answer is
lost, after which the message comes again. `Misread` is a list of rows or a count
that ends early. ShareMgnt changes a user (`UserCreated` to `UserDeleted`) and
publishes later (`pub_nsq_msg`); `LoseMessage` is what happens in between: the
message is never sent, or a creation is taken back, though its message may have
gone out. The history variables record the overlaps and losses that the
properties have to allow: `moved` and `counted` (what a worker has read was
changed by another, or was not all), `crossed` (an older message took effect
last), `outlived` (a request found a user who was deleted and dealt with since),
`untold` (nobody is told of the end of the user).

### PolicyStore

The rows of one resource: the operations never relate two resources. A policy
has rules, each a condition, an operation and an obligation, and an end.
`mergeNewPolicy`, `mergeNewPolicyWithCondition`, `Overwrite` and `Strip` are the
four ways in which a row changes. `Create` and `InitPolicy` read (`Read`, which may
pick any of several rows), work out rows and write later (`Write`); `Update` and
`Delete` read at once and write later; `Misread` reads a part of the rows.
`DeleteByEndTime`, `DeleteByResourceIDs` and `deletePolicyByAccessorID` are single
statements. `stale` records that another step changed what a worker has read, or
that it did not read all. An accessor is deleted first (`DeleteAccessor`). Then a
role takes its policies with it in the same request (`RoleDeleted`, from
`role.go:222`), the others are announced (`Publish`): departments and applications
from an outbox, users and groups (`Untied`) by a call that is made once.
`NotAskedAgain` is a deletion of a role, user or group that breaks off here.

### DecisionData

A replica has a store and four threads on it: the load at start, the handler of
the init channel and the timer read call by call (`Begin`, `GetOPAData`), replace
the store (`Install`) and then, one assignment after the other, the two prepared
queries (`Assign`); the handler of the update channel reads
(`ChangeHandler`, `OpenPatch`) and patches the store in place (`CommitPatch`). A
patch whose store was replaced meanwhile is lost, or stops the process
(`LosePatch`, `OrphanPanics`). `Patch` and `PatchUser` translate the incremental
update with its cases, among them two that leave the store behind: a family
whose last department went while the other family has some, and a user without
an entry. `Answers` is what the decision depends on (`allow.rego` and the client
restriction); `MayDiffer` is there because the lists compared by the timer come
out of Go maps. An announcement is owed after the change (the code says
"FIXME 同一个事务", the same transaction), sent to the outbox table, dispatched under a row lock and given
to whoever is subscribed. The outbox implements `EventDelivery`. `behind` holds
the data of a query that does not read `p.opaStore`: for a moment while a thread
is between its assignments, and for good when two threads interleave theirs, in
which case the timer, which compares the store alone, sees no difference.
`ChangeMisreads` is a read of the update handler whose error nobody looks at
(`policy_decision.go:327`, `348`, `358`), and `LoseMessage` a message that a
subscription loses when its connection is made anew. `excuse` records what may
have left a replica behind. One user is followed; the timer's reading of the
store is one step.

### Groups

Requests are sequences of statements, each committed by itself. `AddGroup` is
`AddGroup`, `CheckInitial`, `getGroupMembers`, `AddGroupMembersOfNew`, `CommitGroup`:
the member rows go through the connection pool and not through the transaction.
`DeleteGroup` deletes members and group by two statements. `ModifyGroup` looks for
the name and updates later. `AddGroupMembers` looks for every member and inserts
him by another statement. `Answer` starts the goroutines in `tail` that publish or
write the audit record; their errors are dropped. Users disappear by the two
statements of ShareMgnt's `delete_user`, departments by a message that the broker
repeats until the handler succeeds. A look-up of a name or of a member may end
early and find it free (`Truncated`). The history variables mark the pairs and names for which an
overlap or a fault was seen, and are cleared when the rows go.

## The runs

| Run | Checks | Instance | Shows |
| --- | --- | --- | --- |
| `outbox_faults` | NoLoss, NoDuplicateWithoutFault, CausalOrder, NoStaleRepeat | 2 replicas, clocks apart, 2 requests, one with a batch of 2 messages, 1 fault | holds |
| `outbox_liveness` | ImplementsDelivery, EventuallyPublished | 2 replicas, a batch of 2 messages, 2 faults, with fairness | holds |
| `unordered_skew` | NoLoss, NoDuplicateWithoutFault, ImplementsDelivery, EventuallyPublished | clocks a renewal period apart, 1 row, 2 faults, 2 missed renewals, with fairness | holds |
| `policy_answers` | NearestLayerDecides, EndpointsAgree, ObligationsOfGrantsOnly, StrongestObligation | all sets of 12 entries on 3 layers, 3 obligations | holds |
| `department_races` | PlacedUnlessRaced, DeletionComplete, ManagersInformed | 2 organisations, a department in one of them, 2 users, 2 requests, 1 truncated list | holds |
| `department_events` | RefsRemoved | a department in another, 2 requests, with fairness | holds |
| `department_shared` | EveryoneSomewhere | 2 organisations, 2 nested departments, 2 users, 2 requests | violated: overlapping deletions lose a user |
| `license_races` | TypeOK, OneRowUnlessOverlap, QuotaUnlessOverlap, DeletedUserHoldsNothing, AuditTells | 2 workers on 1 replica, 2 users, 2 products, 2 messages, 1 request, 1 change of the licence, 2 faults | holds |
| `policy_store_races` | TypeOK, OnePolicyUnlessOverlap, DeletedAccessorHasNoPolicy, GrantInForce, CreateMerges, ConditionsKept | 2 workers, a user and a role, 3 rows, 3 requests, 2 ticks of time, 1 fault | holds |
| `decision_fresh` | TypeOK, FreshWhenSettled, ImplementsDelivery | 1 replica, 2 departments, 2 families, 2 changes, or 1 change and 1 fault | holds |
| `decision_repair` | EventuallyFresh | 1 replica, 1 change, 2 faults, with fairness | holds |
| `group_races` | TypeOK, NamesDifferUnlessOverlap, MemberOnceUnlessOverlap, OrphanRowsExplained, DeletedMemberLeaves, DeletionAnnounced, NameTold | 2 workers, 2 groups, 2 names, a user, a department, 3 requests, 2 faults | holds |

A property whose name ends in `UnlessOverlap`, `UnlessRaced` or the like says that
the only way to break what the code intends is the race it names: its excuse is
set in the step of that race, or of the truncated read or lost message the property
names, and nowhere else; so that a sequence of operations that do not overlap, a
redelivery, or a call that reports its failure never does it. A call that does not
report it may: several functions of `dbaccess` only log `rows.Err` and return a
truncated result with a nil error. `TypeOK` of `Outbox`,
`UnorderedOutbox`, `PolicyCalc` and `DepartmentDelete` is proved and not run again.

Bounds. Two replicas or workers are what a race for a lock, a claim or a row
needs; two requests or rows what an order or a shared user needs. Two faults
allow a failure and a failure of its repair (an error after publishing, then a
crash; a claim applied but reported as failed, then the death of its finder);
`outbox_faults` has one and three messages instead, enough for a repetition with a
newer event in between. `MaxMissed` reaches past the margin of the start lease in
`unordered_skew`. Three layers have one of each kind: instance, ancestor, `*`. Two
users, an organisation with a department, and a second organisation are the
least in which subtrees nest, a user has a place outside, and organisations
differ; `department_shared` has a department in the department, too. One truncated
list meets one deletion that is whole, on which it may have an effect. In `license_races` two messages are a creation and its
deletion, or messages of two users that compete for the only seat; the requests
give a seat, move it, and name a product twice. Two faults are a message that is lost and
a truncated read or a crash on the way of another. In `policy_store_races` three
requests are two that overlap and one before them whose row they meet, and time
reaches past the end of a grant; the user is of the kind whose message may be lost,
the role of the kind that has none. In `decision_fresh` two changes are a move and a
move back, or a change of the settings and a move; replicas do not interact but
through the outbox, whose other replicas the faults stand for. `MaxEvents` bounds
changes and faults together: one of each, or two of a kind, at any point of any
interleaving of three reading threads, their assignments and the update handler
(909,482 states). Two changes and a fault have some eleven million states, most
of them repetitions of rolled back dispatches, and are left to the proof, which
has no bound. In
`group_races` three requests are the creation of a group and two that race on it.
Requests, rows and workers are exchanged by symmetry where nothing tells them
apart, in runs without liveness only. Deadlock is not checked where the
system may stop: all requests done, or nothing to push.

Fairness. `Outbox`: a goroutine that can run does (`PushStep`, the notification
after a commit), a dead pod is started again and registers its handlers, the
database ends transactions of clients that are gone. Faults have no fairness and
are bounded: the property says what happens once they stop.
`EventuallyPublished` speaks of requests whose commit reported success; a commit that was
applied but reported as an error is not notified and waits for the next
notification. `UnorderedOutbox`: threads and renewal goroutines run, time
passes. `DepartmentDelete`: the push thread runs unless a message kills it, and the
broker delivers until the four handlers have
succeeded once in a row and the acknowledgement has arrived. `DecisionData`: a
stopped replica is started again, its threads go on, the ticker of the timer
fires, an owed announcement is sent, the dispatcher runs. Subscriptions have no
fairness, since one that fails is not tried again, nor have administrators: that
the timer alone repairs the store is what `EventuallyFresh` shows. It says the
same of the answers unless threads have mixed their assignments (`Mixed`).

## The proofs

All theorems hold for every value of the constants that the `ASSUME` of the
module admits, for any number of processes, and without the bounds of TLC. The
assumptions are types, that the special values differ from the ordinary ones,
and that what a table can hold is finite: the users of `License`, the entries of
`PolicyCalc`, one request and the installed policies of `PolicyStore`. Between them
the theorems state every safety invariant, action property and refinement that a
passing run checks.

- `OutboxProofs`: `OutboxDelivers` (types, NoLoss, NoSpurious) and
  `OutboxImplementsDelivery`. NoLoss alone is not inductive: a commit removes the
  row the thread remembers. `ThreadInv` adds that a thread holds only messages of
  transactions that took effect, and that past its handler its message was
  published. The refinement maps a commit of a request to `Accept` of its batch,
  a handler to `Publish`, the commit of `push()` to `Settle`, all else to a
  stutter. `PublishedOnce` and `RepeatsAreNotStale` rest on `Mutex`: a thread inside
  `push()` holds the row lock, unless the database ended its transaction. From it
  `OnceInv` says that a published row belongs to the thread about to delete it,
  and `StaleInv` that a published row was the last one published among those newer
  than it. `PublishedInCausalOrder` needs no lock: `CausalInv` says that what a
  thread is about to publish has no unpublished predecessor, which follows from
  the order in which rows are read, from NoLoss, and from the times of requests.
- `UnorderedOutboxProofs`: `NoRecordLost` from `WorkInv` in the same way;
  `UnorderedOutboxImplementsDelivery`; and `PublishedOnce`, from `CalmInv`: while
  nothing has failed and the missed renewals stay within the margin, a claimed
  row is younger than its misses plus one period, has exactly one worker, and
  is unpublished until that worker has published it; so nobody gives it back.
- `PolicyCalcProofs`: `CheckIsNearest` by a loop invariant that says of every
  operation what the visited layers say of it; its third part, that an operation
  in neither map is configured by no visited layer, makes it inductive.
  `ObligationsFollowGrants` and `EndpointsDoAgree` (all five endpoints) need in addition that the two
  maps of an endpoint are disjoint and that the endpoints go in step.
  `StrongestReturned` adds `CollectInv`: the entries collected are exactly those of
  the visited layers that allow an operation allowed in the end, so that the
  strongest of a finite set of rivals is among them.
- `DepartmentDeleteProofs`: `DeletionAnnounced` and `ManagersTold` from
  `AnnounceInv`: what a request has read of departments stays a superset of what is
  there, because departments only disappear, and a manager whose row the consumer
  has removed was named by the event it consumed; a request that went by a
  truncated list is excepted. A null list comes only from a request that another
  deletion preceded, since the department was there when the request was checked. `UsersPlaced` from `SnapInv`:
  while nobody was overtaken, a request's lists of users to move are what it would
  compute now; a department and everything below it have one root.
- `GroupsProofs`: every property of `Groups`. `JobInv` says which operation a
  request is by the place it has reached, and that it holds a group that was
  committed or an identifier of its own. On top of it, what was checked before a
  write holds until the write or marks the request: the name is free (`NameInv`,
  for `NamesDiffer`), the member has no row (`RowInv`, for `MemberOnce`), the rows of
  a group about to go came late (`LateInv`, for `OrphansExplained`), a member that
  is gone is known to whoever holds it (`OldInv`, for `DeletedMembersLeave`).
  `MessageInv` is about the goroutines that run or are about to be started, and
  gives `GroupDeletionTold` and `GroupNameTold`.
- `PolicyStoreProofs`: every property of `PolicyStore`, from lemmas on what the two
  merges, `Overwrite` and `Strip` do to rules, and `PlanInv`: a row that is to be
  overwritten keeps its accessor and its rules with a condition (`UpdFits`), one
  that is to be inserted is the first of its accessor (`NewFits`), and every policy
  asked of Create is inserted, merged, or already said by a row (`CreateFits`), each
  unless the view is outdated. The three action properties hold of the step that
  writes. `DeletedAccessorForgotten` follows a deletion through its stages
  (`AccInv`: an accessor is there, its policies are owed, announced, taken, or
  forsaken): only a deletion that broke off forsakes policies, which that of a
  department or an application never does.
- `DecisionDataProofs`: `AnnouncementsDelivered`, since one dispatcher at a time
  holds a row and marks it only when it was sent; and `FreshOnceSettled`, for all
  settings and any number of replicas. `ReplicaInv` says of a replica without an
  excuse that its store is what the database says but for departments about which
  a message is on its way, and that what a reading thread holds will be right, or
  the thread is known to be late, or a message that repairs it waits. This is the
  argument why torn reads, repeated messages and messages in another order do no
  harm. `QueriesInv` takes this from the store to the answers: a query that does
  not read the store is about to be assigned by a thread that is between its
  assignments, or the replica has an excuse.
- `LicenseProofs`: every property of `License`. `WorkerInv` says that what a worker
  has read of a user is still there unless it was told otherwise, which gives
  `NoSecondRow` and `AuditIsTrue`; `DeletedInv` that the last message about a deleted
  user is that of its deletion and leaves nothing, or is owed or under way, or was
  lost (`untold`), or it is known why.
  `QuotaRespected` needs `HighInv` (no table of licences in a cache or a worker
  exceeds the largest quota there ever was) and `RoomInv` (what a worker counted
  still has room, but for products changed since). Rows are counted as the size
  of a set, so that a sum over all users changes by theorems on finite sets
  instead of an induction.

The proof of `AuditIsTrue` found a mistake in the model: with two requests at
once, the history variable `settled` kept a user about whom a request wrote an
audit row from an outdated view without changing the rows of that user. `Write`
now takes every user it names out; the run, which has one request, could not
have met it.

Only model-checked: liveness under fairness (`EventuallyPublished` of both outboxes,
`RefsRemoved`, `EventuallyFresh`), which is beyond this prover.

## Disagreements seen while modelling

`department_shared` is checked. These were met while reading the code next to its comments and
are modelled as the code has them:

- `policy_calc.go:330` of Authorization evaluates the conditions of ancestors with
  an empty map in `ResourceFilter`, where `Check` uses the data of the request; the
  rule for both is in the comment at 538.
  The query at `dbaccess/policy_calc.go:46`, used by `GetResourceList`, does not select `f_ancestors`.
  `EndpointsAgree` says where the endpoints agree all the same.
- `audit_log_async_task.go:204` says one minute; the next line has 20 seconds.
- `department.go:1184` of UserManagement lets a manager delete the department he
  is assigned to, which the comment at 1181 excludes.
- `group_member.go:94` inserts through `g.db` although it is given a transaction;
  `group.go:979` looks at `err` where the call above it sets `err1`, and the
  `defer` at 860 decides by an `err` that later calls set.
- `mq_handler.go:101` and `165` of PolicyManagement: the licence handlers return
  every error, though `needReTry` is there to leave out errors of the caller.
- A grant that is merged into a row whose end has passed and that the daily
  clean-up has not removed yet keeps the old end (`policy.go:492`) and never takes
  effect; `GrantInForce` excludes this case.
- The incremental update of the decision data leaves a family behind
  (`policy_decision.go:385`); the timer repairs it within five minutes. It also
  takes a failed `First` for "no network" (`327`, `358`), with the same end.
- `initOPA` assigns the store and two queries without a lock (`140`). When the init
  handler and the timer interleave here, a query may be left on the store of the
  other one; that store is patched by nobody, and the timer compares `p.opaStore`
  only (`188`), so that the mixture stays until the store changes again.
- A deletion of a department that another deletion overtakes writes `"ids": null`
  (`dbaccess/department.go:1089`), and `logics/department.go:1209` asserts an array:
  a panic in the push thread, which nothing recovers, ends the process. The
  message is still the oldest when the next process starts and is notified at
  `outbox.go:45`. `RefsRemoved` excludes what comes after.
- The deletion of a role deletes the role first (`role.go:224`) and its policies
  last (`234`). When a call in between fails, a second request finds no role and
  does nothing, and the policies stay.
- `delete_user` of ShareMgnt publishes after its statements (`user_manage.py:1364`);
  when it breaks off before, a second call finds no user (`1282`), and the products
  and policies of the user stay. The message of a deleted group is lost when
  `Publish` fails (`group.go:543`).
- `rows.Err` is only logged, or not looked at, in `dbaccess/department.go:782`,
  `1018`, `1103`, `user.go:1154` and `group.go:74` of UserManagement,
  `dbaccess/policy.go:205` of Authorization and `dbaccess/license.go:88`, `244` of
  PolicyManagement; the callers commit what they made of a part.

## What is not modelled

The database is a set of committed rows with a row lock and transactions that
take effect at the commit; isolation anomalies inside the write transaction of
`DeleteDepart` are left out, since it only deletes and inserts by key or path.
The contents of messages, names, paging, translation and logging are left out,
and so are queries and the checks that a visitor may do what he asks for.
`getAccessorIDs` of Authorization is left out: `entries` are the policies of the
accessor's IDs at one moment, although roles, groups and policies are read by
separate calls (`policy_calc.go:679`). JsonLogic is external. The map of handlers
of the outbox (`outbox.go:52`) and the three fields of the decision engine
(`policy_decision.go:140`) are not synchronised in the code. That the three fields
are assigned one by one is modelled; a read that tears one of them, a struct of
several words, is not. ShareMgnt's statements on one user are one step of
`License` and `PolicyStore`, followed by the publication. A message that can never be handled blocks its business type
(`outbox.go:173`); `EventuallyPublished` assumes that handlers succeed when faults
stop. Errors of the 400 series are acknowledged in `mq_handler.go:426`; the four
handlers modelled return none.

Left out as components: credential handling (login, tickets, SMS codes), for
which no model is planned; internal groups, roles, resource types, obligations,
users and apps, stores with the check-then-write pattern of `Groups` and
`PolicyStore`; ShareMgnt's writes to the department tables
(`department_manage.py:1876`), which are statement by statement and would only
widen the race of `department_shared`; the dump job and the queries of Auditlog;
ShareServer, the web front ends and the fork of Hydra; generated code (Thrift
bindings, mocks), which is most of the repository by lines.

## Plan

Modelled: the outboxes, policy evaluation, department deletion, licences, policy
store, decision data and groups. Proved: all that the runs check of them, but for
liveness. What would come next:

1. `FreshWhenSettled` allows a list of excuses; a proof that the timer removes each
   of them needs the fairness that `EventuallyFresh` has, and stays with TLC.
2. A module that composes `DepartmentDelete` with `Outbox` in place of the
   at-least-once set `pending`.
3. Roles, obligations and internal groups, which repeat the pattern of `Groups`
   and `PolicyStore`.
