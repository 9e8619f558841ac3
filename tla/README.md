# euclid in TLA+

euclid runs the services an application usually takes from a cloud - queues,
topics, object storage, a key/value store, secrets, identity, an API gateway -
as one supervised process tree. This directory holds TLA+ models of the parts
of it whose correctness rests on the order in which threads and processes do
things, the TLC configurations that check them on small instances, and TLAPS
proofs of the properties that matter most for every instance.

`PROJECT.json` is the index: components, runs, the source lines every
definition stands for, hazards, findings, theorems and the mutants that show
each property can fail.

    cd tla
    tlc -workers 2 -config EqsRewrites.cfg MCEqsMessages     # one run
    tlapm EqsMessagesProofs.tla                              # one proof module

## 1. The system

### Processes

`euclid-mgr` (`src/main`) is the gateway and the supervisor. It authenticates a
request and forwards it over a Unix socket to the module that owns the service;
`Controller` starts, restarts and scales the module processes and the users'
applications. Each module (`src/modules/<name>`) is a server on
`Core::HttpActionServer` with a pool of worker threads, and may run as several
*instances*. All instances of all modules share one document store - MongoDB, or
the in-memory store held by the module EMD - through `Database::Collection`.
That store updates one document atomically and nothing larger. No module keeps
authoritative state in memory; what it keeps are caches, waiters, pending
counter changes and timers. Worker nodes (`src/worker`) run applications on
other machines under a lease.

So there are three layers at which steps interleave: threads of one process
(mutexes, condition variables, state used after an unlock), instances over the
shared collection (read, decide, write later), and machines.

### Inventory

| Component | State | Operations | Hard because | Correct when |
|---|---|---|---|---|
| EQS messages (`MongoEqsRepository`, `EqsServer`) | one document per message: queue, status, receipt handle, receive count, visibility, delay, origin | send, receive, delete, purge, set-visibility, set-message-attribute, redrive, sweep, retention | a receive is a find, a bulk claim, a read-back and two updates; the sweep and the rewrites act on what they read earlier; every instance does all of it | one consumer at a time has a message; a handle names one message; receives are limited; leases and delays end; what is deleted stays so |
| Row caches (`Core::TtlCache`, `queueConfig()`) | a map of entries with a time, a generation | get, erase, clear, evict | the row is loaded outside the lock; other processes write it | a change made here is visible here at once, one made elsewhere within the TTL; the map is bounded |
| Long polling (`ChangeWaiters`, `LongPollSlots`) | per key a count of waiters and a generation; slots in use | enroll, wait, wake, release; take and return a slot | a message arrives between the look and the sleep; the stream breaks; all threads wait | no wake-up is lost; every poll ends; a thread is left |
| EQS counters (`adjustQueueCounters()` and below) | per-queue counters in the row, pending deltas in memory | adjust, flush, recount, whole-row upsert | deltas taken out before they are written; recount beside pending deltas | counters converge on the documents |
| EQS priority shares (`PriorityWeights`) | none | share places over tiers | rounding, zero weights, spill-over | never more than asked, no place wasted, no tier starved |
| Event bus (`EventBus`, stop and start of an ESM bucket) | one envelope per event and target, its claim token and lease; the dead letter collection; the bucket's flag | publish, claim, handle, settle, acknowledge, reap, dead-letter, hold, release, discard | at least once over crashes; settling and releasing by `_id` after the lease; a flag read long before it is used | a delivery is handled at least once, or dead lettered, and does not come back; a stopped source delivers nothing new |
| Periodic claims (`PeriodicClaim`) | one document per job | try to claim, seed | several instances, dying holders | at most one instance per period |
| Scheduler (`Core::Scheduler`) | a queue of entries by due time, firings in flight | schedule, cancel, fire, start, stop | detached overlapping firings; a stop that meets the timer between its look and its sleep | a stop is a barrier and ends; what is cancelled stays quiet; nothing due is slept through |
| Background work | a count of detached work, as reported | begin, end, report | reports in the wrong order | the manager does not stop an instance that works |
| Worker nodes (`src/worker`, EAP, `Controller`) | slots with a node and a lease, node records, the worker's assignment, deadline and processes | register, renew, reconcile, place, withdraw, take back, drain, delete | partitions, late answers, decisions from records read earlier, clocks | a worker stops by its own clock; a slot is given away only after that |
| Controller | processes, limits | start, restart, scale | crash loops, timers | within limits, restarted |
| ENS, EES | topics, subscriptions | publish, fan out, subscribe, poll | composition of event bus and queues | a published event reaches each subscriber |
| EAM, ESM, EKV, ESS, EKM, EAG, ETS, EMO, EMM, EAD, gateway, HTTP, CLI | their own rows, files and protocols | CRUD, cryptography, I/O | mostly single-document or I/O | see `PROJECT.json` for why each is left out |

Interactions: EQS receives use a queue's configuration through the
configuration cache, wait through `ChangeWaiters` on a slot from
`LongPollSlots`, and are woken by sends of the same process, by its sweep, or by
the collection's change stream; the `Scheduler` fires the sweep, the counter
flush and the recount in every instance; ENS delivers to EQS queues through the
event bus; EES long-polls like EQS and claims external envelopes; ESM publishes
an object's events on the event bus, held while its bucket is stopped; a worker
node's loop talks to EAP, whose records the manager's two passes read and write.

### Modules of this project

| Module | Models | Proofs | TLC instance |
|---|---|---|---|
| `EqsMessages` | message documents and everything that writes them | `EqsMessagesProofs` | `MCEqsMessages` |
| `TtlCache` | both caches in front of database rows | `TtlCacheProofs` | `MCTtlCache` |
| `ReceiveWait` | long polling in one EQS process | `ReceiveWaitProofs` | `MCReceiveWait` |
| `QueueCounters` | the counters on a queue's row | `QueueCountersProofs` | `MCQueueCounters` |
| `EventBus` | envelopes of the event bus and the stopping of their source | `EventBusProofs` | `MCEventBus` |
| `Mailbox` | what the event bus promises, the specification `EventBus` implements | | (through `EventBus`) |
| `Scheduler` | the timer of one process | `SchedulerProofs` | `MCScheduler` |
| `NodeLease` | worker nodes, slots and leases | `NodeLeaseProofs` | `MCNodeLease` |

The first three meet at their edges. `EqsMessages` lets every receive see any
visibility the queue was ever given, which is what a stale `queueConfig()`
(`TtlCache`) can return, and lets a receive wait and look again at any moment
(`ReceiveWait`, the action); the module `ReceiveWait` says when it does, and
reduces a message to whether it can be received. `QueueCounters` takes the
operations of `EqsMessages` at the grain the counters see: a document's queue,
status and claim. `EqsMessages` and `QueueCounters` let sweeps, flushes and
recounts overlap as the detached firings of `Scheduler` do. What
`subscribersOf()` in the event bus caches follows `TtlCache`.

## 2. EqsMessages

**State.** `doc[m]` is the document of message `m` (the fields of
`Entity::EQS::Message` that decide anything), `stored` the messages that have
one. `oid[m]` counts the documents ever inserted under that message id: claims
and sweeps address a document by its `_id`, and a document inserted again has
another one. `call[c]` is a `receiveMessages()` in progress, `sweep[s]` a
`resetExpiredMessages()` in progress, `snap[w]` the copy a rewrite has read.
`mint`, `leaseAge`, `delivered`, `deliveries`, `removed` are history: which
message a handle was made for, how long ago its claim was, what was handed out,
how often, and what a caller removed. They appear in no guard except where
the caller of the service must have been given a handle before it can use it.

**Time.** A document's `sinceReceived` is `now - lastReceived` and its
`delayLeft` is `delayUntil - now`, both capped at the point where nothing
compares them any more, so time can pass for ever in a finite model and
liveness can be checked.

**Actions and code.** One action is one document write or one query:

| Code | Actions |
|---|---|
| `sendMessage()`, `sendMessages()` | `SendMessage` |
| `receiveMessages()`: configuration; find and mint; each update of the bulk claim; read-back; dead letter move; lease update; end of pass; return; wait; exception; death of the process | `ReceiveStart`; `FindCandidates`, `StopLooking`; `Claim`; `ReadBack`; `MoveToDeadLetter`; `SetLease`; `PassEnd`; `ReceiveReturn`; `ReceiveWait`; `ReceiveFail`; `ReceiveCrash` |
| `deleteMessage()`, `deleteMessageById()`, `purgeQueue()`, the TTL index | `DeleteMessage`, `DeleteMessageById`, `PurgeQueue`, `RetentionExpires` |
| `handleSetVisibility()`, `handleSetMessageAttribute()` through `upsertMessage()` | `RewriteRead`, then `SetVisibility` or `SetMessageAttribute` |
| `redriveMessages()` | `Redrive` per document |
| `resetExpiredMessages()` | `SweepRead`, `SweepReset`, `SweepRelease`, `SweepFail` |

**Abstractions.**
- Bodies and attributes are left out, so `updateMessageBody()`, which changes
  only those, has no action.
- Priorities are left out: a pass may take any non-empty part of what is
  available, at most what is still wanted.
- `purgeQueue()` is one step although its `delete_many` is not; a purge that is
  half done is a sequence of `DeleteMessageById` steps, which the model has.
- The sweep's two cursors are read at once. Whether a document is due is decided
  against the time the sweep began, so this is the most a sweep can find.
- A queue's delay, receive limit and dead letter queue are constants; its
  visibility may change at any time.
- A lease with visibility 0 expires at once; the code's comparison of
  timestamps makes it expire at the next clock reading.
- Wake-ups are not part of this module (`ReceiveWait`), nor are counters
  (`QueueCounters`).

**Runs.**

| Run | Instance | Shows |
|---|---|---|
| `EqsRewrites` | 2 messages, queue and dead letter queue, batch of 2, a sweep, a writer of stale copies, re-insertion | `TypeOK`, `HandleNamesOneMessage`, `HandleExactlyInFlight`, `OriginOnlyInDeadLetter` |
| `EqsDeadLetter` | 1 message, 2 consumers, 2 overlapping sweeps, visibilities 0 and 1, receive limit 1 | `DeliveriesBounded`, `ToldIsEnforced` |
| `EqsLeases` | 1 message, delay 1, visibility 2, 2 consumers, 1 sweep, 1 fault, fairness | `LeaseExclusive`, `DeletedStaysDeleted`, `LeaseEnds`, `DelayEnds` |
| `EqsResurrect` | 1 message, 1 consumer, 1 writer | finding: `DeletedStaysDeleted` fails |
| `EqsPoolLease` | 1 message, 1 consumer, 2 sweeps | finding: `LeaseExclusive` fails |

**Why the bounds suffice.** Interference is between calls over one document, so
one message with two consumers and two sweeps has every pairwise order; two
messages are there where the property relates messages (a handle on two
documents) or a batch splits into dead and live ones. Three handles are three
claims of one message: delivered, expired and delivered again, dead lettered,
redriven and claimed once more. `EqsRewrites` sets visibility and ages to 0: a
lease may expire at once, which allows more interleavings of sweeps than any
longer one. `MaxInserts = 2` lets a deleted message be inserted again once.
`MaxFaults` is 0 where failing calls only stop early, which the interleavings
already contain as a call that takes no further step, and 1 where liveness has
to survive it. The views leave out history that no property of the run reads;
symmetry is used only in runs without liveness.

**What the runs do not claim.** `DeliveriesBounded` and `ToldIsEnforced` are
checked without writers: set-visibility changes the lease a consumer was told
on purpose, and a rewrite puts an old receive count back. `LeaseExclusive` is
checked with one sweep at a time; with two it fails, which is a finding, as is
`DeletedStaysDeleted` with writers. The
proofs (section 9) carry the same restrictions as hypotheses, and section 9 says
what breaks without each.

**Fairness** (`EqsLeases`): time passes; a sweep starts when there is something
to sweep, since the scheduler fires one every thirty seconds in every instance;
and each of its writes happens, since each is a finite database call. A sweep
may still fail (`SweepFail`) and consumers need do nothing.

## 3. TtlCache

**State.** `row[k]` is the database row as a version number and whether it
exists. `held` and `entry` are the map, an entry's age counting from the moment
its lookup read the clock; `generation` is `_generation`. `reader[r]` is a
`get()` in progress: it leaves the lock to load the row, so `Lookup`, `Load`,
`Store` and `Return` are separate steps. `writer[w]` is a change made by this
process, the row first and the forgetting after (`Upsert`, then `ForgetAfter`),
or for a deletion by ERN forgetting on both sides (`DeleteStart`, `ForgetFirst`,
`DeleteRow`, `ForgetAfter`). `RemoteWrite` is a change by another process.
`forgotten` and `gone` are history. `Generational = FALSE` is the map behind
`queueConfig()`, which has no generation.

**Abstractions.** A row's content is its version. `removeQueueByName()` deletes
and then forgets: the same steps without the first forgetting. Versions are
bounded by `MaxWrites`, ages by `MaxAge`; neither bound is in the way of an
order of steps, they end the run.

**Runs.** `TtlCache`: two readers, a writer here and writers elsewhere, two
keys competing for one entry, TTL 1 - `TypeOK`, `ForgetIsFinal`,
`StaleBounded`, `WithinBound`. Two keys and one place make eviction happen with
and without an expired entry; two readers make one load finish between another's
load and store. The run is of the generational cache. With `Generational = FALSE`,
the map behind `queueConfig()`, TLC refutes `ForgetIsFinal`; `StaleBounded` is
proved for both. See the observations.

## 4. ReceiveWait

**State.** One queue. `message[m]` says whether a message can be received,
`report[m]` who is going to report it: the sending thread, this process's sweep,
the change stream, nobody, or that it is done. `generation` is the entry's
generation in `ChangeWaiters`, which exists while somebody is enrolled and
starts at 0 when the entry is made anew. `inUse` is `LongPollSlots::_inUse`.
`thread[t]` is a worker thread: idle, sending, or at one of the points of a
receive - take a slot, enroll, read the generation, count tier by tier, find,
claim, and then park, sleep or leave.

**Abstractions.** A receive asks for one message. With one place and the default
weights the highest tier that counted a message gets it. The waiter and the slot
are given back in one step: they are released one after the other with nothing
in between that depends on either. Lost reports (`StreamLoses`,
`RemoteEndsLease`) are part of the model; the code's answer to them is the
fallback interval (`TimesOut`). Nothing arrives any more once the generation is
`MaxGeneration`.

**Run.** `ReceiveWait`: two threads, two tiers and a message of the first, two
passes, generations up to 3, fairness - `TypeOK`, `NoLostWakeup`, `ThreadLeft`,
`PollEnds`. Two threads are a receive and the send, or the sibling receive, that
interferes with it; arrivals from outside need no thread. With generations up to
3 a report arrives while a receive looks, another while it waits, and the entry
is remade in between. The proofs lift the bounds of the three invariants.

**Fairness**: a thread that can run does, `wait_until()` returns when its time is
over, and the deadline passes. Nothing has to arrive and nothing has to be
reported.

## 5. QueueCounters

**State.** `msg[m]` is a message's queue, status and the instance that claimed
it, `oid[m]` tells its document from one inserted later under the same message
id. `row[q]` holds the counters of the queue's row. `call[i]` is an operation of
instance `i` from its read to the adjustment it owes, `pending[i]` its
`_pendingCounters`, `flush[i]` a `flushPendingCounters()` with the deltas it took
and the clamps it still has to do, and the `purgeQueue()` around it. `save` is a
whole-row write with the copy it read, `edit` the copy of a message that
set-visibility or set-message-attribute is about to write back, `recount` a
`recountQueues()`. `exact` is history: nothing has happened yet that no delta
tells. What ends it:

- a TTL expiry, the delete of a purge, a process that died, deltas whose write
  failed, a receive that failed between claim and read-back;
- a claim, or a sweep's reset, of a message that has gone to another queue since
  it was found (both match `_id` and status, and count for the queue they asked);
- a read-back that does not find the claim, a dead letter move of a message that
  was deleted or is another claim's by then;
- a redrive of messages that are not available;
- an `upsertMessage()` that puts back another queue or status, or inserts a
  deleted message again;
- a clamp, a whole-row write or a recount that changes a value the deltas still
  count on.

**Actions and code.**

| Code | Actions |
|---|---|
| `sendMessage()`, `receiveMessages()`, `deleteMessage()`, `resetExpiredMessages()`, `redriveMessages()`, the TTL index | `Send`; `Find`, `Claim`, `ReadBack`, `MoveToDeadLetter`, `ReceiveFails`; `Delete`; `SweepRead`, `SweepReset`; `Redrive`; `RetentionExpires` |
| `handleSetVisibility()`, `handleSetMessageAttribute()` through `upsertMessage()` | `RewriteRead`, `RewriteWrite`, `RewriteFails` |
| `adjustQueueCounters()` | `Adjust`, queue by queue |
| `flushPendingCounters()`, `writeCounters()` | `Flush`, `WriteCounters`, `Clamp`, `WriteFails`, `ClampFails` |
| `purgeQueue()` | `Purge`, the flush, `PurgeDelete`, `PurgeZero`, `PurgeFails` |
| `upsertQueue()` after a read | `SaveRead`, `SaveWrite` |
| `recountQueues()` | `GroupCount`, `SetCounts`, `RecountFails` |
| a process dies | `Dies` |

**Abstractions.** The byte total moves with the same writes and is left out, and
so is `deleteQueue()`. The aggregation is one step. An instance does one
operation at a time; operations of different instances interleave. A sweep that
fails after a reset loses its adjustment, as `Dies` does. One rewrite of a
message is under way at a time. A messageId is sent once. A recount writes the
rows in one order, that of its cursor, whichever it is; recounts do not
overlap: `ClaimPeriodicRun()` grants one per 300 s. A process that holds nothing
dies without a trace.

**Run.** `QueueCounters`: two instances, a queue and its dead letter queue, one
message that is nowhere or in either at first, two operations, one fault -
`TypeOK`, `Conserved`, `CountersSettle`; 385,594 states. Two operations of two
instances are the pairs whose deltas cross (a send and a delete, a claim and a
redrive, a rewrite or a purge beside anything); one fault is a lost write or a dead process
at any point of them. Drift adds up, so one lost delta is enough.

**What they say.** `Conserved`: while `exact`, row plus deltas on their way
(`Owed`, summed over the instances) is the truth, in every counter. `CountersSettle`: once nobody operates any more, the
rows become right and stay so. It needs the recount after the last flush, and
would fail if the recount left out queues the grouping does not mention (the
mutant).

**Fairness.** `WF(Work)`: calls that have begun go on and the flush timer, 1 s,
fires; every step of `Work` takes some call nearer its end, so one fairness
condition for all of them is enough. `WF(RecountStep)`: the recount timer fires
in every instance and one of them is granted the claim (`EqsServer.cpp`
2008-2038).

## 6. EventBus and Mailbox

**State.** `doc[e]` is an envelope: status, attempts, `left` (`visibleAt - now`,
as far as anything compares it), whether a stopped source holds it and whether
it expires. `stored` and `dlq` are the two collections, `token[e]` the call whose
claim token the document carries. `call[k]` is a `pollOnce()` of an instance, or
a `ClaimEvents()` and what the client does after it; `op[o]` a stop-bucket or
start-bucket; `pub[e]` how far the publishing has come, since the bucket is read
long before the envelope is inserted. `handled`, `dropped` and `stale` are
history; an envelope is `stale` when it was published on a flag that had changed
by then, until a stop's hold or a start's look has come by. An event is a delivery
of a source, a domain event or an external subscriber's.

**Actions and code.** `PublishRead`, `Publish`; `Find`, `Claim` (one document of
the `update_many`), `ReadBack`; `HandlerSucceeds`, `HandlerFails`, `DlqInsert`,
`DlqDelete`, `DlqFails`, `SettleAcked`, `SettleRequeue` (`pollOnce()`,
`moveToDlq()`); `AckEvent`, `Forget` (clients); `Reap`; `Remove` (discarding,
unsubscribing, expiry); `StopFlag`, `HoldDeliveries`, `StartFlag`, `ReleaseFind`,
`ReleaseHeld`, `OperatorFails`; `CallDies`; `Tick`.

**Abstractions.** An envelope without a handler is handled by nobody and
settled: the same steps as `HandlerSucceeds`. Pages of 1000 in a release are one
page. `More` saturates where nothing compares attempts any more. Failing
publishers are out: an envelope exists once it is inserted. A deleted document
has the fields of a new one (`Erase`), and `left` stands at 0 while the document
is not claimed: nothing compares them there.

**Mailbox** is what a subscriber is told: what is put in stays until it was
processed, buried or thrown away on purpose, and does not come back. `EventBus`
implements it with `put <- {e : pub[e] = "done"}, kept <- stored, dead <- dlq`.

**Run.** `EventBus`: one event of any kind, two instances, two clients, one
operator, two attempts, visibility 2, claims at most one tick behind their
reading of the clock, two failures; 215,538 states. `TypeOK`, `NothingLost`,
`LeaseExclusive`, `BucketObeyed`, `PendingEnds`, `IsMailbox`. Envelopes do not
interact except in a batch, whose documents are claimed and settled one by one,
so one event meets every race over a document; the proofs are for any number. Two
failures are as many as there are attempts: every attempt at a delivery may end
with the death of its process.

**What `PendingEnds` says.** A delivery to a module ends - it is removed or dead
lettered - or is held, through that many deaths. It does not end in two cases,
both stated with it: a move to the dead letters cut between its insert and its
delete leaves the original behind its copy (`LeftBehind`), and a delivery that
kills its process every time, for ever, is given back for ever, since `reap()`
compares no attempts. See the observations.

**Fairness.** Every instance polls while there is something to poll and its
handlers come back; the reaper runs; time passes. `PendingEnds` needs claims
that are not older than the visibility when they are made (`MaxLag`).

## 7. Scheduler

**State.** `entry[t]` is a task's entry: kind, `left` (`nextRun - now`; once it is
past only its phase matters, so time can go on for ever), whether it is listed,
queued and cancelled; `unsaid` are the tasks whose `schedule()` has given the
mutex back and has yet to notify. `running` is `_running`. `timer` is the timer thread with
the time it sleeps to. `firing[t]` counts the task's threads that were launched
and that are inside its function, `inFlight[t]` is the map `_inFlight`; `leaving`
says that a thread has counted itself down while `Stop()` drains, and has yet to
notify `_inFlightCv`; nobody else waits there, so other threads' notifications,
and this one once `Start()` is called again, are not told apart.
`owner` is the thread that starts and stops. `missed` (the notification of a
`Stop()` met a timer about to sleep) and `quiet` (tasks cancelled while none of
their firings was in the function) are history.

**Locking.** What is done under `_mutex` in one piece is one step. The timer's
look at the condition of a wait (`NothingDue`, `Wakes`) and its falling asleep
(`FallsAsleep`) are two, with the mutex held in between: callers of
`Schedule...()` and `Cancel()` cannot get there, `Stop()` can. `schedule()` and a
firing's end notify after they have unlocked, so `ScheduleNotify` and `ThreadEnds`
are steps of their own: the timer may look, sleep, or fire the new entry before
the first, and `Stop()` may have returned before the second. A firing that has
passed its look at the cancel mark counts as inside the function.

**Abstractions.** Due entries are taken in any order. A cron expression gives
any later time. Names are ids. `Start()` and `Stop()` are called by one thread,
in turn, as the servers do. Time does not pass while the scheduler runs and
`MaxFirings` firings of a task hang.

**Run.** `Scheduler`: two tasks of any kind and delay, interval 2, grace 1, two
firings of a task at once; 512,587 states. `TypeOK`, `StopIsBarrier`,
`CancelledStaysQuiet`, `NoOversleep`, `StopEnds`. Two tasks are the one slept for
and the one scheduled meanwhile; two firings overlap.

**What they say.** `StopIsBarrier`: after a `Stop()` within its grace period no
thread is in a task's function or may yet enter it; a thread may still be on its
way to notify. `CancelledStaysQuiet`: a task cancelled at any moment up to its
thread's look at the mark - queued, taken, counted or launched - does not run.
`NoOversleep`: the timer's deadline is no later than any entry it was notified
of. `StopEnds`: `Stop()` returns, but for the lost notification over an empty
queue.

**Fairness.** The timer and the stopping thread run, time passes. A task may
hang, and a caller may stay between its unlock and its notification: there is no
fairness for either.

## 8. NodeLease

**State.** `slot[s]` is an instance record (not made yet, kept, gone; its node;
the ticks left of its lease), `node[n]` a node record, `target` what the
application should have. `mgr` is the manager's pass in progress with what it
read, `req[n]` a renewal EAP is handling, `wrk[n]` the worker's loop: assignment,
deadline, what it is about to stop and to start. `run[n]` are the processes.
`taken` is history: slots taken from a node on request or before their lease was
over; so is `unsaved[n]`: slots whose lease the node's last renewal should have
extended and did not, because a write failed.

**Actions and code.**

| Code | Actions |
|---|---|
| `reconcileApplications()`, `reconcileNodeApplication()`, `rebalanceNodeApplication()` | `AppsRead`, `DropSlot`, `Withdraw`, `Place` |
| `reconcileNodeLeases()` | `LeasesRead`, `Replace`, `NowhereToPlace` |
| an exception in either | `PassFails` |
| `handleRenewNode()`, `renewInstanceLeases()` | `RenewSend`, `RenewWrite`, `RenewAnswer`; what they log and go on after: `RenewWriteFails`, `RenewAnswerEmpty` |
| the worker's loop, `Decide()`, `Apply()` | `RenewSucceeds`, `RenewFails`, `RenewUnknown`; `Stop`, `Start`, `StartFails` |
| `Reap()` and the restart delay, the host | `ProcessExits`, `HoldOver`, `NodeDown`, `NodeUp` |
| operators and the autoscaler | `SetTarget`, `AssignByHand`, `DrainNode`, `DeleteNode` |

**Time.** `InTime` bounds how long a turn of the worker's loop (`Period`), its
stops (`Grace`) and a call or a pass at the master (`Slow`) may take; no clock
ticks beyond. `Skew` is a node's clock against the master's.

**Abstractions.** Placement is any accepting node. Labels, memory, revisions, jobs
and the give-up after out-of-memory kills are left out or are a free choice. The
master handles one renewal of a node at a time. A worker's death takes its
processes along. A pass is over with the last thing it does (`Ongoing`), and a
renewal the worker has given up with the last thing it writes (`Unheard`): what
follows changes nothing.

**Runs.** `NodeLease`: two nodes, one slot, lease 2, margin 1, everything slow by
at most 1, one event; 1,376,435 states - `TypeOK`, `StopsOnItsOwn`,
`LostOnlyOverdue`. `NodeLeaseStale`: margin 3, no events, finding:
`SlotExclusive` fails. Two nodes are the old and the new holder; a slot is
independent of the others but for the counting of a pass.

**What they say.** `StopsOnItsOwn`: no process outlives the deadline its worker
knows by more than a turn and a stop. `LostOnlyOverdue`: a process on a slot that
its node has lost belongs to a worker past its deadline by `Margin - Slow`, or
that is stopping it. Together they say how large the margin must be for
exclusion by leases; that exclusion fails even then is the finding. Slots in
`unsaved` are left out of `LostOnlyOverdue`: the worker was told a deadline its
record does not have. With them the property fails, TLC's shortest trace being a
renewal whose write fails, its answer, a start, and the manager's taking the slot
from a worker well inside its deadline.

## 9. Proofs

All are for arbitrary constants under the named assumptions of the modules
(`ConstantsAssumption`, `CacheAssumption`, `WaitAssumption`, `CounterAssumption`,
`BusAssumption`, `SchedulerAssumption`, `LeaseAssumption`). They state types; that
the "none" values are not members; that no queue of `EqsMessages` is its own dead
letter queue and that the timeouts in use are within the age cap; that there is
at least one thread, tier, pass, cache entry, attempt, place in a batch, firing
and slot; that what is counted (`Cardinality`, sums) is finite: events, slots,
messages and instances; and, of leases, that two slow calls fit into one, that a
stop's grace is no longer than a turn of the loop, and that ages are counted far
enough for what is compared with them. TLC evaluates each of them in a run.

Six theorems have a hypothesis about who takes part, because the code gives no
more:

| Hypothesis | Of | What TLC finds without it |
|---|---|---|
| `NoWriters` (nobody rewrites a document whole) | `LimitHeld`, `LeaseTold`, `LeaseHeld`, `DeletedForGood` | a stale copy puts back an old receive count, an old lease, or the deleted document (`EqsResurrect`) |
| `OneSweeper` (one instance sweeps at a time) | `LeaseHeld` | `EqsPoolLease` |
| `NoDeadLetters` | `LeaseHeld` | a redrive or a dead letter move makes a message available while a sweep, or a consumer, still holds it |
| `OneVisibility` (the queue's visibility is never changed) | `LeaseHeld` | a receive claims under the old visibility and the sweep judges the document before the lease update |
| `OneOperator` (stop-bucket and start-bucket one at a time) | `ExternalLeases`, `BucketFlag` | two releases find the same held envelope; the later one releases it from under the claim that was made in between, or after the bucket was stopped again |

Each hypothesis is satisfied by the run that checks the property, and by an
installation that does without the feature.

| Theorem | Statement | Inductive invariant, and why |
|---|---|---|
| `EqsMessagesProofs!TypeCorrect` | `Spec => []TypeOK` | `TypeInv` adds that a call in progress has a queue: without it a dead letter move has no target |
| `HandleInFlight`, `OriginRecorded` | `[]HandleExactlyInFlight`, `[]OriginOnlyInDeadLetter` | `WellFormedInv` says it of the copies writers hold as well, because a copy is written back whole; every document operation preserves it (`WellFormedLemma`) |
| `HandleUnique` | `[]HandleNamesOneMessage` | `OwnershipInv`: wherever a handle is - document, copy, candidate, result, delivery - it is with the message it was minted for |
| `TtlCacheProofs!TypeCorrect` | `Spec => []TypeOK` | `TypeInv` adds that lookups and writes in progress have a key |
| `ForgetFinal` | `Spec => []ForgetIsFinal`, assuming `Generational` | `ForgetInv`: no entry, and no loaded answer whose generation is still current, is older than what was forgotten |
| `Staleness` | `[]StaleBounded` | `StaleInv`: the row moved past what was loaded no longer ago than the lookup's age |
| `Bounded` | `[]WithinBound` | `BoundInv`: the map is finite and within the bound |
| `ReceiveWaitProofs!TypeCorrect` | `Spec => []TypeOK` | `Shape`, and `SlotInv` for the counter |
| `OneThreadLeft` | `[]ThreadLeft` | `SlotInv`: the counter is the number of holders, at most the limit, and only holders sleep |
| `WakeupsKept` | `[]NoLostWakeup` | `WakeInv`: the generation a looking thread read is not ahead of the entry's, and while they agree no message of a tier it counted as empty has been reported since - which is what makes counting tier by tier safe |
| `EventBusProofs!TypeCorrect` | `Spec => []TypeOK` | `TypeOK` itself is inductive |
| `NothingIsLost` | `[]NothingLost` | `Backed`: what is stored or held by a call was published, what a call has acknowledged was handled, what it moves has its copy, so what settling deletes is accounted for |
| `MailboxImplemented` | `Spec => IsMailbox` | the same invariant; each action is a step of `Mailbox` or changes nothing it sees - settling a batch is `TakeOut`, which is why it may only hold what was handled |
| `EqsMessagesProofs!LimitHeld` | `NoWriters => (Spec => []DeliveriesBounded)` | `CallInv` follows a receive through its phases: `Shape` (what a call holds in each), `Custody` (a handle is in the hands of one pass or has been handed on, never both), `Identity` (the `_id` a query returned stays the message's). `LimitInv`: a document's receive count is at least its deliveries, and greater while a claim on it is not yet read back - the count goes up before anything is handed out, which is why a call that fails costs a delivery and never adds one |
| `LeaseTold` | `NoWriters => (Spec => []ToldIsEnforced)` | `ToldInv`: what a pass has won is enforced already, or is among the leases it has still to set; it hands out only after that |
| `LeaseHeld` | `Undisturbed => (Spec => []LeaseExclusive)`, the four hypotheses above | `LeaseInv`: document and handle have the same age; what a sweep is about to reset is as expired as when it was read; a live lease is the one on the document, and alone |
| `DeletedForGood` | `NoWriters => (Spec => []DeletedStaysDeleted)` | `CallInv`: a claim addresses a document by `_id` and inserts nothing |
| `EventBusProofs!ExternalLeases` | `OneOperator => (Spec => []LeaseExclusive)` | `Tracked` (what is claimed has attempts, what is held has a holder, a token is that of a call the event is for), `ToRelease` (what start-bucket has found stays held), `Leased` (document and call agree on what is left) |
| `BucketFlag` | `OneOperator => (Spec => []BucketObeyed)` | `Sides`: the flag is set before the documents are touched, and what is on the wrong side of it is exactly what the call has still to write, or was published on an old flag since |
| `SchedulerProofs!TypeCorrect`, `Barrier`, `Quiet`, `NeverOversleeps` | `[]TypeOK`, `[]StopIsBarrier`, `[]CancelledStaysQuiet`, `[]NoOversleep` | one `IInv`: `Accounted` (`_inFlight` counts the threads, and one more between the count and the launch: counting first is what makes a drained stop a barrier), `Joined`, `CleanStop`, `AtRest` (the mark stays, whatever the timer had begun), `Carries`, `DeadlineFits` (over every entry from the decision to wait to the sleep, since nobody gets in between, and over the entries that were notified of while asleep), and `FullIsNotDue` for the bound on firings |
| `NodeLeaseProofs!TypeCorrect`, `OwnClock`, `LostSlots` | `[]TypeOK`, `[]StopsOnItsOwn`, `[]LostOnlyOverdue` | one `IInv`: `Timely` (how far a worker is behind, by phase), `WritesFresh`, `RenewalCovered`, `AnswerCovered`, `WorkerCovered` (at every stage of a renewal, each slot of the list is either still the node's with a lease that covers the deadline the worker has or will get, or lost in a way the property excuses, and a failed write puts a slot among the excused until a later one succeeds), `ExpiredOrRenewed` (what the manager found expired still is, or was renewed since it read) |
| `QueueCountersProofs!TypeCorrect` | `Spec => []TypeOK` | `TypeInv` adds what a call or a flush holds at each step (a claim owes exactly `Claimed`, a purge that deletes has nothing due) |
| `EveryChangeCounted` | `Spec => []Conserved` | `Mine` (while `exact`, a message that carries a receive's claim is where the receive found it, and invisible, and so is a copy of it that may be written back: what makes the delta of a dead letter move right) and `Zeroing` (counters are zeroed only after an uncounted delete). Every action is shown to balance in the one instance it takes place in (`Balances`); `BalanceLemma` lifts that to the sum |

**Sums and counts.** `Conserved` sums over the instances. That a sum changes by as
much as one of its terms (`SumChange`) is proved of the community modules'
`SumFunction` itself: the recursion behind it exists (`SumsExist`) and its
properties hold of every subset of a finite set, each by the smallest
counterexample, since no induction schema can be instantiated here. Counting
messages is `FiniteSetTheorems`.

**Only model-checked.** Liveness (`LeaseEnds`, `DelayEnds`, `PollEnds`,
`PendingEnds`, `CountersSettle`, `StopEnds`), which is out of the prover's reach.
Every invariant a passing run checks is a theorem; so is the refinement
`IsMailbox`. `SlotExclusive`, `DeletedStaysDeleted` with writers and
`LeaseExclusive` with two sweeps are false (section 10).

## 10. Findings

Each is a run that TLC refutes; `PROJECT.json` quotes the lines the code
disagrees with.

1. **A deleted message comes back** (`EqsResurrect`). set-visibility and
   set-message-attribute write the copy they read back with an upsert by message
   id; when the message was deleted in between, the upsert inserts it again.
2. **A sweep ends a lease that is not over** (`EqsPoolLease`). Each instance
   sweeps. A sweep that read an expired lease resets the document later by `_id`
   and status; if another instance's sweep freed the message and a consumer
   received it meanwhile, the new lease is ended and the message is handed out
   twice at once.
3. **A slot is taken from a node that has just renewed it** (`NodeLeaseStale`).
   `reconcileNodeLeases()` decides from leases it read and assigns by instanceId
   alone. A node that comes back and renews in between starts the slot, which is
   then given to another node; both run it until the first one's next renewal,
   however large the margin.

### Observations

Met while modelling, each outside what a run checks or an exception a property
states.

- *Scheduler.* `Stop()` clears `_running` and notifies without `_mutex`
  (`Scheduler.cpp:43`). When the timer has looked at `_running` and not yet
  fallen asleep, the notification is lost: the join waits until the next entry
  is due - longer than the five seconds the manager allows, if it is - and for
  ever when nothing is queued, although `Scheduler.h:87` calls `Stop()` bounded.
  `StopEnds` states exactly this exception (without it TLC shows the wait).
  `Cancel()` leaves the entry in the queue until it is due. A firing's thread
  calls `_inFlightCv.notify_all()` after its count is down and the mutex free
  (`Scheduler.cpp:167-173`), when `Stop()` may have returned: it still uses the
  scheduler object, though no task, after the barrier.
- *Event bus.* A publisher that read its bucket as stopped and inserts after
  start-bucket released what it found leaves an envelope that nothing releases
  until somebody starts the running bucket again; the comments at
  `EsmServer.cpp:740` and `:2071` say otherwise. `BucketObeyed` excludes it until
  the next stop or start (`stale`). The copy in the dead letter collection keeps the `_id`, so after a
  crash between insert and delete every later move is refused as a duplicate and
  the original stays until it expires. `reap()` never compares attempts, although
  `EventBus.h:111-113` says that after `kMaxAttempts` failed or timed-out attempts
  a delivery is dead lettered "instead of retried forever": only `pollOnce()`
  compares, after a handler that came back, so a delivery that kills its process
  every time is retried for ever. A requeue
  by `_id` after the lease can release a held envelope or end another instance's
  claim. A stop does not hold retries of claimed deliveries. A stop and a start
  by two operators can overlap and release what is stopped; the run has one.
- *Worker nodes.* Registering writes the whole node record, so a worker's
  restart undoes drain-node. The deadline is looked at once per turn: 10 s plus a
  call, downloads and a stop's grace of 20 s, against a margin of 10 s by
  default, so leases can overlap by lag alone (`StopsOnItsOwn`,
  `LostOnlyOverdue` say by how much). `renewInstanceLeases()` extends whoever has
  the slot by then. It logs a failed write and leaves the remaining slots
  (`MongoEmmRepository.cpp:667`), and `handleRenewNode()` answers the new deadline
  whatever was written (`EapServer.cpp:3231`, `3320-3324`): the worker goes on
  inside a deadline its slots do not have, and the manager takes them from it
  (`unsaved`). A failing `findAll()` answers an empty assignment, on which a
  worker stops everything. A withdrawn slot is placed again under a new id while its old
  process runs until the next renewal. A deleted application leaves its slots.
- *EQS.* A message redriven between a receive's find and its claim is claimed
  where it went, and returned as if from the queue that was asked (the claim is
  by `_id` and status). When the tier that got the place turns out to be empty a
  receive waits although another tier holds a message. The configuration map has
  no generation, which the comment in `upsertQueue()` (593-596) relies on: with
  `Generational = FALSE`, `ForgetIsFinal` fails, and a changed queue is served from
  the old configuration for the map's period. `LoadPriorityWeights()` reads
  `.medium` twice where its comment honours `.middle`.
- *Counters.* `IEqsRepository.h:482-485` names TTL expiry and process death as the
  ways counters drift; whole-row writes of stale copies, a recount beside pending
  deltas, a delete between claim and read-back, a redrive of messages in flight,
  a claim counted for the queue that was asked after a redrive or a dead letter
  move has taken the message elsewhere, an `upsertMessage()` that puts back an old
  status or queue or a deleted message, and flushes that arrive in the wrong order at the clamp (whose comment says "a
  negative can only mean something was counted twice") are others. `exact` lists
  them. A negative copied by a whole-row write stays until the recount.

## 11. Plan

1. Proofs: an abstract queue (waiting, held until, gone) and the refinement from
   `EqsMessages`, without writers and with one sweep; action properties of a
   receipt handle's life; what of `LeaseHeld` is left with a dead letter queue,
   when nothing is redriven.
2. `PeriodicClaim`: one document per job, claims at most once per interval,
   seeding, dying holders, the gap between two runs when the timer of `Scheduler`
   fires a little early.
3. `PriorityShare`: `ComputeReceiveCounts()` against a reference definition.
4. ENS fan-out and EES polling composed with `EventBus`; background work and the
   scaling decisions that read its count.

## 12. Not modelled

Protocol and file I/O (gateway, HTTP, EAG, ETS, ESM bodies), cryptography (ESS,
EKM, signing), reporting (EMO, EAD) and the command line have little state of
their own that several actors change, or state that is one document under one
atomic update; `PROJECT.json` gives the reason under each component. Of the
controller only the passes over node applications are modelled, of EAP the
actions of nodes, of ESM the stopping of buckets and publishing.
