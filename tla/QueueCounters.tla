--------------------------- MODULE QueueCounters ---------------------------
(***************************************************************************)
(* What a queue reports about its messages: the counters on its row, which *)
(* every instance of EQS adjusts by deltas it collects and writes out now  *)
(* and then (adjustQueueCounters() and below it, MongoEqsRepository.cpp),  *)
(* which whole-row writes overwrite, and which a recount puts right.  The  *)
(* recount runs in whichever instance claims it (PeriodicClaim.cpp), one   *)
(* at a time: claims are 300 s apart, longer than a recount takes.         *)
(*                                                                         *)
(* Messages are what EqsMessages makes of them, cut down to the queue they *)
(* are in, their status and the claim on them.  A message counts in one    *)
(* counter, that of its status; the byte total moves with the same writes  *)
(* and is left out.  A message is known by its messageId; its document has *)
(* another _id each time it is inserted.                                   *)
(***************************************************************************)
EXTENDS Integers, FiniteSets, Functions

CONSTANTS
  Messages,
  Queues,
  Addressed,     \* bound: the queues clients send to, purge and change
  DeadLetterOf,  \* the dead letter queue of a queue, or None
  Instances,     \* processes of EQS
  None,
  MaxOps,        \* bound: operations on messages and queues
  MaxFaults      \* bound: processes that die and writes that fail

ASSUME CounterAssumption ==
  /\ IsFiniteSet(Messages) /\ IsFiniteSet(Instances)
  /\ Addressed \subseteq Queues
  /\ DeadLetterOf \in [Queues -> Queues \union {None}]
  /\ None \notin Messages \union Queues \union Instances
  /\ MaxOps \in Nat /\ MaxFaults \in Nat

VARIABLES
  msg,      \* the document of a message
  oid,      \* its _id, told apart by how often it was inserted; 0 before that
  row,      \* the counters on a queue's row
  pending,  \* _pendingCounters of an instance
  call,     \* an operation of an instance, from its read to its adjustment
  flush,    \* flushPendingCounters() of an instance, and the purge around it
  save,     \* a change to a queue: its row, read and to be written back
  edit,     \* a change to a message: its document, read and to be written back
  recount,  \* recountQueues(), in the instance that claimed it
  exact,    \* history: nothing has happened yet that the deltas do not tell
  ops, faults

vars == <<msg, oid, row, pending, call, flush, save, edit, recount, exact, ops, faults>>

Statuses == {"AVAILABLE", "INVISIBLE", "DELAYED"}
Counts == [Statuses -> Int]
Deltas == [Queues -> Counts]

NoCounts == [s \in Statuses |-> 0]
Zero == [q \in Queues |-> NoCounts]
One(q, s, n) == [p \in Queues |-> [t \in Statuses |-> IF p = q /\ t = s THEN n ELSE 0]]
Plus(d, e) == [q \in Queues |-> [s \in Statuses |-> d[q][s] + e[q][s]]]

Docs == [at : Queues \union {None}, status : Statuses, by : Instances \union {None}]

Gone == [at |-> None, status |-> "AVAILABLE", by |-> None]

\* What the messages really are.
Counted == [q \in Queues |-> [s \in Statuses |->
  Cardinality({m \in Messages : msg[m].at = q /\ msg[m].status = s})]]

NoCall ==
  [pc |-> "idle", m |-> None, id |-> 0, at |-> None, was |-> "AVAILABLE", delta |-> Zero]

NoFlush == [pc |-> "idle", due |-> Zero, clamp |-> {}, purge |-> None]

NoRecount == [counted |-> Zero, todo |-> {}]

NoSave == [at |-> None, counts |-> NoCounts]

NoEdit == [m |-> None, doc |-> Gone]

Operation ==
  /\ ops < MaxOps
  /\ ops' = ops + 1
  /\ UNCHANGED faults

Fault ==
  /\ faults < MaxFaults
  /\ faults' = faults + 1
  /\ UNCHANGED ops

Bounds == <<ops, faults>>

Counting == <<pending, flush, save, recount>>

Documents == <<oid, edit>>

-----------------------------------------------------------------------------
\* Operations on messages: the write, then the adjustment it owes

Owes(i, delta) == call' = [call EXCEPT ![i] = [NoCall EXCEPT !.pc = "adjust", !.delta = delta]]

\* A message an operation has read, to be written by its _id.
Read(i, pc, m) ==
  call' = [call EXCEPT ![i] =
    [NoCall EXCEPT !.pc = pc, !.m = m, !.id = oid[m], !.at = msg[m].at, !.was = msg[m].status]]

\* The document with the _id the operation read is still there.
Matched(i) == msg[call[i].m].at # None /\ oid[call[i].m] = call[i].id

\* Into a queue with a delay, or without; the messageId is new.
Send(i, m, q) ==
  /\ Operation
  /\ call[i].pc = "idle" /\ msg[m].at = None /\ oid[m] = 0
  /\ \E s \in {"AVAILABLE", "DELAYED"} :
       /\ msg' = [msg EXCEPT ![m] = [at |-> q, status |-> s, by |-> None]]
       /\ Owes(i, One(q, s, 1))
  /\ oid' = [oid EXCEPT ![m] = @ + 1]
  /\ UNCHANGED <<row, edit, exact, Counting>>

\* A receive looks for what its queue has available.
Find(i, m) ==
  /\ Operation
  /\ call[i].pc = "idle" /\ msg[m].at # None /\ msg[m].status = "AVAILABLE"
  /\ Read(i, "found", m)
  /\ UNCHANGED <<msg, row, exact, Documents, Counting>>

\* A receive makes a message invisible and is the call that counts it.
Claimed(q) == Plus(One(q, "AVAILABLE", -1), One(q, "INVISIBLE", 1))

\* The handle is new: what a copy still has of an earlier claim is not it.
Forget(i, doc) == IF doc.by = i THEN [doc EXCEPT !.by = None] ELSE doc

\* By _id and status; what it counts, it counts for the queue that was asked.
Claim(i) ==
  /\ call[i].pc = "found"
  /\ LET m == call[i].m IN
     IF Matched(i) /\ msg[m].status = "AVAILABLE"
       THEN /\ msg' = [msg EXCEPT ![m].status = "INVISIBLE", ![m].by = i]
            /\ edit' = [edit EXCEPT !.doc = Forget(i, @)]
            /\ call' = [call EXCEPT ![i].pc = "claimed", ![i].delta = Claimed(call[i].at)]
            /\ exact' = (exact /\ msg[m].at = call[i].at)
       ELSE /\ call' = [call EXCEPT ![i] = NoCall]
            /\ UNCHANGED <<msg, edit, exact>>
  /\ UNCHANGED <<oid, row, Bounds, Counting>>

\* What has been deleted, reset or redriven meanwhile is not read back, and not
\* counted; the rest is handed out, or dead lettered.
ReadBack(i) ==
  /\ call[i].pc = "claimed"
  /\ IF Matched(i) /\ msg[call[i].m].by = i
       THEN /\ \E pc \in IF DeadLetterOf[call[i].at] = None THEN {"adjust"} ELSE {"adjust", "move"} :
                 call' = [call EXCEPT ![i].pc = pc]
            /\ exact' = exact
       ELSE /\ call' = [call EXCEPT ![i] = NoCall]
            /\ exact' = FALSE
  /\ UNCHANGED <<msg, row, Bounds, Documents, Counting>>

\* The move is by _id: it is counted whatever has become of the message.
MoveToDeadLetter(i) ==
  /\ call[i].pc = "move"
  /\ LET m == call[i].m
         q == call[i].at
         d == DeadLetterOf[q] IN
     /\ msg' = IF ~Matched(i) THEN msg
               ELSE [msg EXCEPT ![m] = [at |-> d, status |-> "AVAILABLE", by |-> None]]
     /\ Owes(i, Plus(One(q, "AVAILABLE", -1), One(d, "AVAILABLE", 1)))
     /\ exact' = (exact /\ Matched(i) /\ msg[m].by = i)
  /\ UNCHANGED <<row, Bounds, Documents, Counting>>

\* An exception: what was read back is counted, what was only claimed is not.
ReceiveFails(i) ==
  /\ Fault
  /\ \/ /\ call[i].pc \in {"found", "claimed"}
        /\ call' = [call EXCEPT ![i] = NoCall]
        /\ exact' = (exact /\ call[i].pc = "found")
     \/ /\ call[i].pc = "move"
        /\ call' = [call EXCEPT ![i].pc = "adjust"]
        /\ UNCHANGED exact
  /\ UNCHANGED <<msg, row, Documents, Counting>>

\* Mutant: a delete is taken out of "available" whatever the status was.
MutForDeleted(d) == One(d.at, "AVAILABLE", -1)

\* adjustForDeleted(): out of the counter that held it.
ForDeleted(d) == One(d.at, d.status, -1)

Delete(i, m) ==
  /\ Operation
  /\ call[i].pc = "idle" /\ msg[m].at # None
  /\ msg' = [msg EXCEPT ![m] = Gone]
  /\ Owes(i, ForDeleted(msg[m]))
  /\ UNCHANGED <<row, exact, Documents, Counting>>

\* The sweep of leases and delays: what its cursor read, and the reset.
SweepRead(i, m) ==
  /\ Operation
  /\ call[i].pc = "idle" /\ msg[m].at # None /\ msg[m].status # "AVAILABLE"
  /\ Read(i, "sweep", m)
  /\ UNCHANGED <<msg, row, exact, Documents, Counting>>

\* By _id and status; the queue it counts for is the one the cursor read.
SweepReset(i) ==
  /\ call[i].pc = "sweep"
  /\ LET c == call[i] IN
     IF Matched(i) /\ msg[c.m].status = c.was
       THEN /\ msg' = [msg EXCEPT ![c.m].status = "AVAILABLE", ![c.m].by = None]
            /\ Owes(i, Plus(One(c.at, c.was, -1), One(c.at, "AVAILABLE", 1)))
            /\ exact' = (exact /\ msg[c.m].at = c.at)
       ELSE /\ call' = [call EXCEPT ![i] = NoCall]
            /\ UNCHANGED <<msg, exact>>
  /\ UNCHANGED <<row, Bounds, Documents, Counting>>

\* Everything in a dead letter queue, counted as if all of it were available.
Redrive(i, q) ==
  /\ Operation
  /\ call[i].pc = "idle"
  /\ LET d == DeadLetterOf[q]
         moved == {m \in Messages : msg[m].at = d} IN
     /\ d # None /\ moved # {}
     /\ msg' = [m \in Messages |->
          IF m \in moved THEN [at |-> q, status |-> "AVAILABLE", by |-> None] ELSE msg[m]]
     /\ Owes(i, Plus(One(d, "AVAILABLE", 0 - Cardinality(moved)),
                     One(q, "AVAILABLE", Cardinality(moved))))
     /\ exact' = (exact /\ \A m \in moved : msg[m].status = "AVAILABLE")
  /\ UNCHANGED <<row, Documents, Counting>>

\* The TTL index on expiresAt tells nobody.
RetentionExpires(m) ==
  /\ Operation
  /\ msg[m].at # None
  /\ msg' = [msg EXCEPT ![m] = Gone]
  /\ exact' = FALSE
  /\ UNCHANGED <<row, call, Documents, Counting>>

\* set-visibility and set-message-attribute: the document is read,
RewriteRead(m) ==
  /\ Operation
  /\ edit = NoEdit /\ msg[m].at # None
  /\ edit' = [m |-> m, doc |-> msg[m]]
  /\ UNCHANGED <<msg, oid, row, call, exact, Counting>>

\* and upsertMessage() writes all of it back by messageId, queue and status
\* included, or inserts it again; no counter is told.
RewriteWrite ==
  /\ edit # NoEdit
  /\ LET m == edit.m IN
     /\ msg' = [msg EXCEPT ![m] = edit.doc]
     /\ oid' = IF msg[m].at = None THEN [oid EXCEPT ![m] = @ + 1] ELSE oid
     /\ exact' = (exact /\ msg[m].at = edit.doc.at /\ msg[m].status = edit.doc.status)
  /\ edit' = NoEdit
  /\ UNCHANGED <<row, call, Bounds, Counting>>

\* The exception is logged.
RewriteFails ==
  /\ Fault
  /\ edit # NoEdit
  /\ edit' = NoEdit
  /\ UNCHANGED <<msg, oid, row, call, exact, Counting>>

\* adjustQueueCounters(), for one queue; a receive may come to it only when its
\* wait is over.
Adjust(i, q) ==
  /\ call[i].pc = "adjust"
  /\ call[i].delta[q] # NoCounts
  /\ pending' = [pending EXCEPT ![i][q] = [s \in Statuses |-> @[s] + call[i].delta[q][s]]]
  /\ LET rest == [call[i].delta EXCEPT ![q] = NoCounts] IN
     call' = [call EXCEPT ![i] = IF rest = Zero THEN NoCall ELSE [@ EXCEPT !.delta = rest]]
  /\ UNCHANGED <<msg, row, flush, save, recount, exact, Bounds, Documents>>

-----------------------------------------------------------------------------
\* Writing the deltas out: flushPendingCounters(), writeCounters(), purgeQueue()

Messaging == <<msg, oid, call, save, edit, recount>>

\* Taken out of the map under its lock, written outside it.
Flush(i) ==
  /\ flush[i].pc = "idle" /\ pending[i] # Zero
  /\ flush' = [flush EXCEPT ![i] = [NoFlush EXCEPT !.pc = "write", !.due = pending[i]]]
  /\ pending' = [pending EXCEPT ![i] = Zero]
  /\ UNCHANGED <<row, exact, Bounds, Messaging>>

\* Mutant: the loop ends with the first queue.
MutOnward(f) == [f EXCEPT !.pc = IF f.purge = None THEN "idle" ELSE "delete"]

\* What is left to do once one queue has been written.
Onward(f) ==
  IF f.due # Zero \/ f.clamp # {} THEN f
  ELSE IF f.purge = None THEN NoFlush ELSE [f EXCEPT !.pc = "delete"]

\* One $inc for a queue; the database does the addition.
WriteCounters(i, q) ==
  /\ flush[i].pc = "write" /\ flush[i].clamp = {}
  /\ flush[i].due[q] # NoCounts
  /\ row' = [row EXCEPT ![q] = [s \in Statuses |-> @[s] + flush[i].due[q][s]]]
  /\ flush' = [flush EXCEPT ![i] = Onward([@ EXCEPT
       !.due = [flush[i].due EXCEPT ![q] = NoCounts],
       !.clamp = {<<q, s>> : s \in {t \in Statuses : flush[i].due[q][t] < 0}}])]
  /\ UNCHANGED <<pending, exact, Bounds, Messaging>>

\* Then a conditional update for each counter that was subtracted from; they
\* are updates of different fields, and one step here.
Clamp(i) ==
  /\ flush[i].clamp # {}
  /\ row' = [q \in Queues |-> [s \in Statuses |->
       IF <<q, s>> \in flush[i].clamp /\ row[q][s] < 0 THEN 0 ELSE row[q][s]]]
  /\ exact' = (exact /\ row' = row)
  /\ flush' = [flush EXCEPT ![i] = Onward([@ EXCEPT !.clamp = {}])]
  /\ UNCHANGED <<pending, Bounds, Messaging>>

\* The exception is logged and the deltas, or the clamps, are gone; the other
\* queues follow.
WriteFails(i, q) ==
  /\ Fault
  /\ flush[i].pc = "write" /\ flush[i].clamp = {}
  /\ flush[i].due[q] # NoCounts
  /\ flush' = [flush EXCEPT ![i] = Onward([@ EXCEPT !.due = [flush[i].due EXCEPT ![q] = NoCounts]])]
  /\ exact' = FALSE
  /\ UNCHANGED <<row, pending, Messaging>>

ClampFails(i) ==
  /\ Fault
  /\ flush[i].clamp # {}
  /\ flush' = [flush EXCEPT ![i] = Onward([@ EXCEPT !.clamp = {}])]
  /\ UNCHANGED <<row, pending, exact, Messaging>>

\* A purge flushes first, then deletes, then sets the counters to zero.
Purge(i, q) ==
  /\ Operation
  /\ flush[i].pc = "idle"
  /\ flush' = [flush EXCEPT ![i] =
       Onward([NoFlush EXCEPT !.pc = "write", !.due = pending[i], !.purge = q])]
  /\ pending' = [pending EXCEPT ![i] = Zero]
  /\ UNCHANGED <<row, exact, Messaging>>

PurgeDelete(i) ==
  /\ flush[i].pc = "delete"
  /\ msg' = [m \in Messages |-> IF msg[m].at = flush[i].purge THEN Gone ELSE msg[m]]
  /\ exact' = FALSE
  /\ flush' = [flush EXCEPT ![i].pc = "zero"]
  /\ UNCHANGED <<row, pending, call, save, recount, Bounds, Documents>>

PurgeZero(i) ==
  /\ flush[i].pc = "zero"
  /\ row' = [row EXCEPT ![flush[i].purge] = NoCounts]
  /\ flush' = [flush EXCEPT ![i] = NoFlush]
  /\ UNCHANGED <<pending, exact, Bounds, Messaging>>

\* Either write fails: what comes after it is left out.
PurgeFails(i) ==
  /\ Fault
  /\ flush[i].pc \in {"delete", "zero"}
  /\ flush' = [flush EXCEPT ![i] = NoFlush]
  /\ UNCHANGED <<row, pending, exact, Messaging>>

-----------------------------------------------------------------------------
\* Whole-row writes: tags, visibility, stop and start of a queue

Rows == <<msg, oid, pending, call, flush, edit, recount>>

SaveRead(q) ==
  /\ Operation
  /\ save = NoSave
  /\ save' = [at |-> q, counts |-> row[q]]
  /\ UNCHANGED <<row, exact, Rows>>

\* upsertQueue() writes the copy back, counters included.
SaveWrite ==
  /\ save # NoSave
  /\ row' = [row EXCEPT ![save.at] = save.counts]
  /\ exact' = (exact /\ row[save.at] = save.counts)
  /\ save' = NoSave
  /\ UNCHANGED <<Bounds, Rows>>

-----------------------------------------------------------------------------
\* The recount: recountQueues()

Others == <<msg, oid, pending, call, flush, save, edit>>

\* One aggregation over all messages.
GroupCount ==
  /\ recount = NoRecount
  /\ recount' = [counted |-> Counted, todo |-> Queues]
  /\ UNCHANGED <<row, exact, Bounds, Others>>

\* Mutant: a queue the grouping does not mention is left as it is.
MutRecounted(q) == IF recount.counted[q] = NoCounts THEN row[q] ELSE recount.counted[q]

Recounted(q) == recount.counted[q]

\* Every queue is written, in the order of the collection, whatever has been
\* written since the grouping.
SetCounts(q) ==
  /\ recount.todo # {} /\ q = CHOOSE p \in recount.todo : TRUE
  /\ row' = [row EXCEPT ![q] = Recounted(q)]
  /\ exact' = (exact /\ row'[q] = row[q])
  /\ recount' = IF recount.todo = {q} THEN NoRecount
                ELSE [recount EXCEPT !.todo = recount.todo \ {q}]
  /\ UNCHANGED <<Bounds, Others>>

\* An exception, or the end of the process: the rest is left to the next recount.
RecountFails ==
  /\ Fault
  /\ recount # NoRecount
  /\ recount' = NoRecount
  /\ UNCHANGED <<row, exact, Others>>

\* The process dies, with what it holds; another is started.
Dies(i) ==
  /\ Fault
  /\ pending[i] # Zero \/ call[i].pc # "idle" \/ flush[i].pc # "idle"
  /\ pending' = [pending EXCEPT ![i] = Zero]
  /\ call' = [call EXCEPT ![i] = NoCall]
  /\ flush' = [flush EXCEPT ![i] = NoFlush]
  /\ exact' = FALSE
  /\ UNCHANGED <<msg, row, save, recount, Documents>>

-----------------------------------------------------------------------------
\* Rows that are right, of queues at rest.
Init ==
  /\ msg \in [Messages -> {Gone} \union [at : Queues, status : {"AVAILABLE"}, by : {None}]]
  /\ oid = [m \in Messages |-> IF msg[m] = Gone THEN 0 ELSE 1]
  /\ row = Counted
  /\ pending = [i \in Instances |-> Zero]
  /\ call = [i \in Instances |-> NoCall]
  /\ flush = [i \in Instances |-> NoFlush]
  /\ save = NoSave
  /\ edit = NoEdit
  /\ recount = NoRecount
  /\ exact = TRUE
  /\ ops = 0
  /\ faults = 0

Begin(i) ==
  \/ \E m \in Messages : Find(i, m) \/ Delete(i, m) \/ SweepRead(i, m)
  \/ \E q \in Addressed : Redrive(i, q) \/ Purge(i, q) \/ \E m \in Messages : Send(i, m, q)

Finish(i) ==
  \/ Claim(i) \/ ReadBack(i) \/ MoveToDeadLetter(i) \/ SweepReset(i)
  \/ \E q \in Queues : Adjust(i, q)

FlushStep(i) ==
  \/ Flush(i) \/ Clamp(i) \/ PurgeDelete(i) \/ PurgeZero(i)
  \/ \E q \in Queues : WriteCounters(i, q)

RecountStep ==
  \/ GroupCount
  \/ \E q \in Queues : SetCounts(q)

Fails(i) ==
  \/ ReceiveFails(i) \/ ClampFails(i) \/ PurgeFails(i) \/ Dies(i)
  \/ \E q \in Queues : WriteFails(i, q)

\* What has begun is gone on with.
Work == SaveWrite \/ RewriteWrite \/ \E i \in Instances : Finish(i) \/ FlushStep(i)

Next ==
  \/ Work
  \/ \E i \in Instances : Begin(i) \/ Fails(i)
  \/ \E m \in Messages : RetentionExpires(m) \/ RewriteRead(m)
  \/ RewriteFails
  \/ \E q \in Addressed : SaveRead(q)
  \/ RecountStep
  \/ RecountFails

Spec == Init /\ [][Next]_vars

\* Calls come to an end, and the timers of the flush and of the recount fire: the
\* weakest way to say so, for every step of Work takes some call nearer its end.
Fairness == WF_vars(Work) /\ WF_vars(RecountStep)

FairSpec == Spec /\ Fairness

-----------------------------------------------------------------------------
\* Every field has its type, and nothing is left of a call that is over.
TypeOK ==
  /\ msg \in [Messages -> Docs]
  /\ oid \in [Messages -> Nat]
  /\ row \in Deltas
  /\ pending \in [Instances -> Deltas]
  /\ \A i \in Instances :
       /\ call[i].pc \in {"idle", "found", "claimed", "move", "sweep", "adjust"}
       /\ call[i].delta \in Deltas
       /\ flush[i].pc \in {"idle", "write", "delete", "zero"}
       /\ flush[i].due \in Deltas
       /\ call[i].pc = "idle" => call[i] = NoCall
       /\ flush[i].pc = "idle" => flush[i] = NoFlush
  /\ save.counts \in Counts
  /\ edit.doc \in Docs
  /\ recount.counted \in Deltas /\ recount.todo \subseteq Queues
  /\ exact \in BOOLEAN
  /\ ops \in 0 .. MaxOps
  /\ faults \in 0 .. MaxFaults

\* The deltas on their way to a counter, instance by instance.
Owed(q, s) ==
  [i \in Instances |-> call[i].delta[q][s] + pending[i][q][s] + flush[i].due[q][s]]

\* Every send, receive, delete, reset and redrive is counted once: the row and
\* the deltas on their way to it add up to the messages there are, through any
\* number of instances, as long as nothing has happened that no delta tells
\* (adjustQueueCounters()).  What ends that: a message that is gone by itself or
\* purged; a claim, reset or dead letter move of a message that is in another
\* queue, or another claim's, by then; a redrive of what is not available; a
\* rewrite that puts back another queue or status; a row overwritten or clamped
\* with another count; a write of deltas, a receive or a process that fails.
Conserved ==
  exact => \A q \in Queues, s \in Statuses :
    row[q][s] + SumFunction(Owed(q, s)) = Counted[q][s]

\* Whatever has been lost, counted twice or overwritten: once nobody changes
\* messages or queues any more, every queue comes to report the messages it
\* has, and goes on doing so.
CountersSettle == <>[](row = Counted)
=============================================================================
