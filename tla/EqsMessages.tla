---------------------------- MODULE EqsMessages ----------------------------
(***************************************************************************)
(* The message documents of EQS, euclid's queue service, and everything    *)
(* that writes them: sends, the claiming receive, deletes, the in-place    *)
(* rewrites behind set-visibility and set-message-attribute, the sweep     *)
(* that ends expired leases, dead lettering and its reverse, purges and    *)
(* the retention index (database/src/repository/eqs/MongoEqsRepository.cpp *)
(* and modules/eqs/src/EqsServer.cpp).                                     *)
(*                                                                         *)
(* EQS runs as a pool of processes over one document collection.  The      *)
(* database makes one document's update atomic and nothing larger, so one  *)
(* step here is one document write or one query; a receive, a sweep and a  *)
(* rewrite are several steps, and steps of different calls interleave.     *)
(*                                                                         *)
(* Time is modelled by how long ago something happened: a document's       *)
(* sinceReceived is now - lastReceived and its delayLeft is delayUntil -   *)
(* now, both capped, so that time never runs out.                          *)
(***************************************************************************)
EXTENDS Naturals, FiniteSets

CONSTANTS
    Messages,        \* message ids, each sent at most once
    Queues,          \* queue ERNs
    NoQueue,         \* the empty ERN
    Handles,         \* the receipt handles (UUIDs) that can be minted
    NoHandle,        \* the empty receipt handle
    NoMessage,       \* not a message
    Consumers,       \* threads serving receive-messages, over all instances
    Sweepers,        \* running resetExpiredMessages() tasks, over all instances
    Writers,         \* threads serving set-visibility / set-message-attribute
    DeadLetterOf,    \* deadLetterQueueErn of each queue, NoQueue for none
    MaxReceiveCount, \* maxReceiveCount of each queue
    Delay,           \* delivery delay of each queue
    Visibilities,    \* the visibility timeouts a queue is given
    Timeouts,        \* the timeouts set-visibility asks for
    BatchSize,       \* maxCount of a receive
    MaxAge,          \* where sinceReceived stops counting
    MaxFaults,       \* bound on failed or crashed calls
    MaxInserts       \* bound on the documents inserted for one message id

ASSUME ConstantsAssumption ==
    /\ NoQueue \notin Queues
    /\ NoHandle \notin Handles
    /\ NoMessage \notin Messages
    /\ DeadLetterOf \in [Queues -> Queues \cup {NoQueue}]
    /\ \A q \in Queues : DeadLetterOf[q] # q
    /\ MaxReceiveCount \in [Queues -> Nat]
    /\ Delay \in [Queues -> Nat]
    /\ Visibilities \subseteq Nat /\ Timeouts \subseteq Nat
    /\ BatchSize \in Nat /\ MaxAge \in Nat /\ MaxFaults \in Nat /\ MaxInserts \in Nat
    /\ \A v \in Visibilities \cup Timeouts : v <= MaxAge

VARIABLES
    sent,       \* message ids used by a send
    stored,     \* message ids that have a document
    doc,        \* the document of each message id, Blank when there is none
    oid,        \* how many documents were inserted for an id; the last is stored
    mint,       \* the message each receipt handle was minted for
    leaseAge,   \* time since each handle's claim
    call,       \* the receive call each consumer thread is in
    sweep,      \* what each running sweep has read and not yet written
    snap,       \* the document each writer has read and not yet written back
    delivered,  \* messages handed to consumers
    deliveries, \* times the queue a message is in has handed it out
    removed,    \* messages deleted or purged by a caller
    faults      \* failed or crashed calls so far

vars == <<sent, stored, doc, oid, mint, leaseAge, call, sweep, snap,
          delivered, deliveries, removed, faults>>

-----------------------------------------------------------------------------
(***************************************************************************)
(* Documents.                                                              *)
(***************************************************************************)
Statuses == {"AVAILABLE", "INVISIBLE", "DELAYED"}

\* Entity::EQS::Message as stored: the fields control depends on.
Document ==
    [queueErn          : Queues \cup {NoQueue},
     sourceQueueErn    : Queues \cup {NoQueue},
     status            : Statuses,
     receiptHandle     : Handles \cup {NoHandle},
     receivedCount     : Nat,
     visibilityTimeout : Nat,
     visibilityPinned  : BOOLEAN,
     sinceReceived     : Nat,
     delayLeft         : Nat]

Blank ==
    [queueErn |-> NoQueue, sourceQueueErn |-> NoQueue, status |-> "AVAILABLE",
     receiptHandle |-> NoHandle, receivedCount |-> 0, visibilityTimeout |-> 0,
     visibilityPinned |-> FALSE, sinceReceived |-> 0, delayLeft |-> 0]

\* sendMessage(): the document built from the queue's cached configuration.
NewDocument(q, v) ==
    [Blank EXCEPT !.queueErn = q,
                  !.status = IF Delay[q] > 0 THEN "DELAYED" ELSE "AVAILABLE",
                  !.visibilityTimeout = v,
                  !.delayLeft = Delay[q]]

\* Mutant of Claimed: the status the interface's comment speaks of.
MutClaimed(d, h) ==
    [d EXCEPT !.status = "BUSY", !.receiptHandle = h,
              !.receivedCount = @ + 1, !.sinceReceived = 0]

\* The claim of receiveMessages(): invisible, a fresh handle, one more receive,
\* lastReceived set to now.
Claimed(d, h) ==
    [d EXCEPT !.status = "INVISIBLE", !.receiptHandle = h,
              !.receivedCount = @ + 1, !.sinceReceived = 0]

\* The move of receiveMessages() into the dead letter queue of q.
DeadLettered(d, q) ==
    [d EXCEPT !.queueErn = DeadLetterOf[q], !.sourceQueueErn = q,
              !.status = "AVAILABLE", !.receivedCount = 0, !.receiptHandle = NoHandle]

\* Mutant of Redriven: the origin is left on the message.
MutRedriven(d, q) ==
    [d EXCEPT !.queueErn = q, !.status = "AVAILABLE", !.receivedCount = 0,
              !.receiptHandle = NoHandle]

\* redriveMessages(): back to a source queue as though new.
Redriven(d, q) ==
    [d EXCEPT !.queueErn = q, !.sourceQueueErn = NoQueue,
              !.status = "AVAILABLE", !.receivedCount = 0, !.receiptHandle = NoHandle]

\* Mutant of Reset: the receipt handle is left on the message.
MutReset(d) == [d EXCEPT !.status = "AVAILABLE", !.sinceReceived = 0]

\* resetExpiredMessages(): the lease is over.
Reset(d) ==
    [d EXCEPT !.status = "AVAILABLE", !.receiptHandle = NoHandle, !.sinceReceived = 0]

\* handleSetVisibility(): restart the window of a message in flight, pin the
\* timeout of one that is not.
WithVisibility(d, v) ==
    IF d.status = "INVISIBLE"
    THEN [d EXCEPT !.visibilityTimeout = v, !.sinceReceived = 0]
    ELSE [d EXCEPT !.visibilityTimeout = v, !.visibilityPinned = TRUE]

\* One unit of time later.  lastReceived is read only of an INVISIBLE document
\* and delayUntil only of a DELAYED one.
Older(d) ==
    [d EXCEPT !.sinceReceived = IF d.status = "INVISIBLE" /\ @ < MaxAge THEN @ + 1 ELSE @,
              !.delayLeft = IF @ > 0 THEN @ - 1 ELSE 0]

LeaseExpired(d) == d.status = "INVISIBLE" /\ d.sinceReceived >= d.visibilityTimeout

\* Mutant of DelayOver: the filter of the first cursor used for the second.
MutDelayOver(d) == d.status = "INVISIBLE" /\ d.delayLeft = 0

DelayOver(d) == d.status = "DELAYED" /\ d.delayLeft = 0

\* The document with this _id: the current one of the message, if it is stored.
Matches(x) == x.msg \in stored /\ oid[x.msg] = x.oid

-----------------------------------------------------------------------------
(***************************************************************************)
(* Calls in progress.                                                      *)
(***************************************************************************)
\* A document as a query returned it: the message and the document's _id.
Refs == [msg : Messages, oid : Nat]

\* A candidate of a receive and the handle minted for it.
Candidates == [msg : Messages, oid : Nat, handle : Handles]

\* A message a receive hands out: told is the visibility timeout it reports.
Deliveries == [msg : Messages, handle : Handles, told : Nat]

\* receiveMessages() between two round trips: "look" before a find, "claim" from
\* the find to the read-back, "won" while what was won is moved or leased,
\* "settle" after the last tier.
Phases == {"idle", "look", "claim", "won", "settle"}

Calls ==
    [pc         : Phases,
     queue      : Queues \cup {NoQueue},
     visibility : Nat,                   \* the queue's visibility, as cached
     batch      : SUBSET Candidates,     \* this pass's candidates
     todo       : SUBSET Candidates,     \* those this phase has still to write
     dead       : SUBSET Candidates,     \* won, and over the receive limit
     stale      : SUBSET Candidates,     \* won, with another timeout than the queue's
     won        : SUBSET Deliveries,     \* won, to be delivered
     result     : SUBSET Deliveries]     \* to be returned

Idle ==
    [pc |-> "idle", queue |-> NoQueue, visibility |-> 0, batch |-> {}, todo |-> {},
     dead |-> {}, stale |-> {}, won |-> {}, result |-> {}]

NoSweep == [expired |-> {}, due |-> {}]
NoSnap == [msg |-> NoMessage, doc |-> Blank]

\* Mutant of Fresh: handles that are not unique.
MutFresh == Handles

\* A receipt handle nobody has: CreateRandomUuid().
Fresh == {h \in Handles : mint[h] = NoMessage}

Init ==
    /\ sent = {} /\ stored = {} /\ removed = {} /\ delivered = {} /\ faults = 0
    /\ doc = [m \in Messages |-> Blank]
    /\ oid = [m \in Messages |-> 0]
    /\ mint = [h \in Handles |-> NoMessage]
    /\ leaseAge = [h \in Handles |-> 0]
    /\ call = [c \in Consumers |-> Idle]
    /\ sweep = [s \in Sweepers |-> NoSweep]
    /\ snap = [w \in Writers |-> NoSnap]
    /\ deliveries = [m \in Messages |-> 0]

-----------------------------------------------------------------------------
(***************************************************************************)
(* Send.  A batch send inserts its documents unordered, one by one: several*)
(* of these steps.                                                         *)
(***************************************************************************)
SendMessage(m, q) ==
    /\ m \notin sent
    /\ \E v \in Visibilities : doc' = [doc EXCEPT ![m] = NewDocument(q, v)]
    /\ sent' = sent \cup {m}
    /\ stored' = stored \cup {m}
    /\ oid' = [oid EXCEPT ![m] = @ + 1]
    /\ UNCHANGED <<mint, leaseAge, call, sweep, snap, delivered, deliveries, removed, faults>>

-----------------------------------------------------------------------------
(***************************************************************************)
(* Receive.                                                                *)
(***************************************************************************)
\* The queue's configuration is read once per call, from a cache that may hold
\* any visibility the queue was given.
ReceiveStart(c, q) ==
    /\ call[c].pc = "idle"
    /\ \E v \in Visibilities :
          call' = [call EXCEPT ![c] = [Idle EXCEPT !.pc = "look", !.queue = q, !.visibility = v]]
    /\ UNCHANGED <<sent, stored, doc, oid, mint, leaseAge, sweep, snap, delivered,
                   deliveries, removed, faults>>

Available(q) ==
    {m \in stored : doc[m].queueErn = q /\ doc[m].status = "AVAILABLE"}

\* Step 1 of a pass: what is waiting, no more than is still wanted, and a handle
\* minted for each.  How many of them one tier may take is a separate matter:
\* any non-empty part is possible.
FindCandidates(c) ==
    /\ call[c].pc = "look"
    /\ \E S \in SUBSET Available(call[c].queue) :
          /\ S # {}
          /\ Cardinality(S) + Cardinality(call[c].result) <= BatchSize
          /\ \E f \in [S -> Fresh] :
                /\ \A m, n \in S : f[m] = f[n] => m = n
                /\ LET found == {[msg |-> m, oid |-> oid[m], handle |-> f[m]] : m \in S} IN
                   call' = [call EXCEPT ![c].pc = "claim", ![c].batch = found, ![c].todo = found]
                /\ mint' = [h \in Handles |->
                              IF \E m \in S : f[m] = h THEN CHOOSE m \in S : f[m] = h ELSE mint[h]]
    /\ UNCHANGED <<sent, stored, doc, oid, leaseAge, sweep, snap, delivered, deliveries,
                   removed, faults>>

\* The tiers are served: targets met, passes used up or nothing found.
StopLooking(c) ==
    /\ call[c].pc = "look"
    /\ call' = [call EXCEPT ![c].pc = "settle"]
    /\ UNCHANGED <<sent, stored, doc, oid, mint, leaseAge, sweep, snap, delivered,
                   deliveries, removed, faults>>

\* Mutant of ClaimMatches: the claim is not conditional on the status.
MutClaimMatches(x) == Matches(x)

\* Step 2: one update of the unordered bulk claim.  It matches the document only
\* while it is AVAILABLE.
ClaimMatches(x) == Matches(x) /\ doc[x.msg].status = "AVAILABLE"

Claim(c, x) ==
    /\ call[c].pc = "claim" /\ x \in call[c].todo
    /\ IF ClaimMatches(x)
       THEN /\ doc' = [doc EXCEPT ![x.msg] = Claimed(@, x.handle)]
            /\ leaseAge' = [leaseAge EXCEPT ![x.handle] = 0]
       ELSE UNCHANGED <<doc, leaseAge>>
    /\ call' = [call EXCEPT ![c].todo = @ \ {x}]
    /\ UNCHANGED <<sent, stored, oid, mint, sweep, snap, delivered, deliveries, removed, faults>>

\* Step 3: what was won, by _id and handle, and which of it is over the limit.
Won(c) == {x \in call[c].batch : Matches(x) /\ doc[x.msg].receiptHandle = x.handle}

\* Mutant of OverLimit: one receive too many.
MutOverLimit(q, d) ==
    DeadLetterOf[q] # NoQueue /\ d.receivedCount > MaxReceiveCount[q] + 1

OverLimit(q, d) ==
    DeadLetterOf[q] # NoQueue /\ d.receivedCount > MaxReceiveCount[q]

Dead(c) == {x \in Won(c) : OverLimit(call[c].queue, doc[x.msg])}

\* The messages whose lease has to be brought to the queue's visibility.
TakesQueueVisibility(d, v) ==
    ~d.visibilityPinned /\ v > 0 /\ d.visibilityTimeout # v

ReadBack(c) ==
    LET live == Won(c) \ Dead(c)
        v == call[c].visibility
        stale == {x \in live : TakesQueueVisibility(doc[x.msg], v)} IN
    /\ call[c].pc = "claim" /\ call[c].todo = {}
    /\ call' = [call EXCEPT
          ![c].pc = "won", ![c].dead = Dead(c), ![c].stale = stale,
          ![c].won = {[msg |-> x.msg, handle |-> x.handle,
                       told |-> IF x \in stale THEN v ELSE doc[x.msg].visibilityTimeout] :
                         x \in live}]
    /\ deliveries' = [m \in Messages |->
          IF \E x \in live : x.msg = m /\ doc[m].queueErn = call[c].queue
          THEN deliveries[m] + 1 ELSE deliveries[m]]
    /\ UNCHANGED <<sent, stored, doc, oid, mint, leaseAge, sweep, snap, delivered,
                   removed, faults>>

\* Step 4: one document of the update that moves the dead messages.  It matches
\* by _id alone.
MoveToDeadLetter(c, x) ==
    /\ call[c].pc = "won" /\ x \in call[c].dead
    /\ IF Matches(x)
       THEN /\ doc' = [doc EXCEPT ![x.msg] = DeadLettered(@, call[c].queue)]
            /\ deliveries' = [deliveries EXCEPT ![x.msg] = 0]
       ELSE UNCHANGED <<doc, deliveries>>
    /\ call' = [call EXCEPT ![c].dead = @ \ {x}]
    /\ UNCHANGED <<sent, stored, oid, mint, leaseAge, sweep, snap, delivered, removed, faults>>

\* Mutant of SetLease: the timeout is reported and not written.
MutSetLease(c, x) ==
    /\ call[c].pc = "won" /\ call[c].dead = {} /\ x \in call[c].stale
    /\ call' = [call EXCEPT ![c].stale = @ \ {x}]
    /\ UNCHANGED <<sent, stored, doc, oid, mint, leaseAge, sweep, snap, delivered,
                   deliveries, removed, faults>>

\* Step 5: one document of the update that gives the queue's visibility, which
\* matches by _id and handle.
SetLease(c, x) ==
    /\ call[c].pc = "won" /\ call[c].dead = {} /\ x \in call[c].stale
    /\ doc' = IF Matches(x) /\ doc[x.msg].receiptHandle = x.handle
              THEN [doc EXCEPT ![x.msg].visibilityTimeout = call[c].visibility] ELSE doc
    /\ call' = [call EXCEPT ![c].stale = @ \ {x}]
    /\ UNCHANGED <<sent, stored, oid, mint, leaseAge, sweep, snap, delivered, deliveries,
                   removed, faults>>

\* The end of a pass: what was won joins the result.
PassEnd(c) ==
    /\ call[c].pc = "won" /\ call[c].dead = {} /\ call[c].stale = {}
    /\ call' = [call EXCEPT ![c].pc = "look", ![c].result = @ \cup call[c].won,
                            ![c].won = {}, ![c].batch = {}]
    /\ UNCHANGED <<sent, stored, doc, oid, mint, leaseAge, sweep, snap, delivered,
                   deliveries, removed, faults>>

\* The call returns what it has, or nothing once the deadline is over...
ReceiveReturn(c) ==
    /\ call[c].pc = "settle"
    /\ delivered' = delivered \cup call[c].result
    /\ call' = [call EXCEPT ![c] = Idle]
    /\ UNCHANGED <<sent, stored, doc, oid, mint, leaseAge, sweep, snap, deliveries,
                   removed, faults>>

\* ... and with nothing to return before it is, waits and looks again.
ReceiveWait(c) ==
    /\ call[c].pc = "settle" /\ call[c].result = {}
    /\ call' = [call EXCEPT ![c].pc = "look"]
    /\ UNCHANGED <<sent, stored, doc, oid, mint, leaseAge, sweep, snap, delivered,
                   deliveries, removed, faults>>

\* An exception ends the call: what earlier passes won is returned.
ReceiveFail(c) ==
    /\ call[c].pc # "idle" /\ faults < MaxFaults
    /\ delivered' = delivered \cup call[c].result
    /\ call' = [call EXCEPT ![c] = Idle]
    /\ faults' = faults + 1
    /\ UNCHANGED <<sent, stored, doc, oid, mint, leaseAge, sweep, snap, deliveries, removed>>

\* The process dies, or its answer is lost: nothing is returned.
ReceiveCrash(c) ==
    /\ call[c].pc # "idle" /\ faults < MaxFaults
    /\ call' = [call EXCEPT ![c] = Idle]
    /\ faults' = faults + 1
    /\ UNCHANGED <<sent, stored, doc, oid, mint, leaseAge, sweep, snap, delivered,
                   deliveries, removed>>

-----------------------------------------------------------------------------
(***************************************************************************)
(* Removal.                                                                *)
(***************************************************************************)
Remove(S) ==
    /\ stored' = stored \ S
    /\ doc' = [m \in Messages |-> IF m \in S THEN Blank ELSE doc[m]]

\* deleteMessage(): one document carrying the handle a consumer was given.
DeleteMessage(d, m) ==
    /\ d \in delivered
    /\ m \in stored /\ doc[m].receiptHandle = d.handle
    /\ Remove({m})
    /\ removed' = removed \cup {m}
    /\ UNCHANGED <<sent, oid, mint, leaseAge, call, sweep, snap, delivered, deliveries, faults>>

\* deleteMessageById(), whatever the message's status.
DeleteMessageById(m) ==
    /\ m \in stored
    /\ Remove({m})
    /\ removed' = removed \cup {m}
    /\ UNCHANGED <<sent, oid, mint, leaseAge, call, sweep, snap, delivered, deliveries, faults>>

\* purgeQueue().
PurgeQueue(q) ==
    LET S == {m \in stored : doc[m].queueErn = q} IN
    /\ S # {}
    /\ Remove(S)
    /\ removed' = removed \cup S
    /\ UNCHANGED <<sent, oid, mint, leaseAge, call, sweep, snap, delivered, deliveries, faults>>

\* The database's TTL index on expiresAt.
RetentionExpires(m) ==
    /\ m \in stored
    /\ Remove({m})
    /\ UNCHANGED <<sent, oid, mint, leaseAge, call, sweep, snap, delivered, deliveries,
                   removed, faults>>

-----------------------------------------------------------------------------
(***************************************************************************)
(* Redrive: one document of the update.  With one source, or a named       *)
(* target, everything in the dead letter queue goes there; with several    *)
(* sources and no target each message goes back where it came from.        *)
(***************************************************************************)
SourceQueues(d) == {q \in Queues : DeadLetterOf[q] = d}

Redrive(m, d, q) ==
    /\ m \in stored /\ doc[m].queueErn = d
    /\ q \in SourceQueues(d)
    /\ doc' = [doc EXCEPT ![m] = Redriven(@, q)]
    /\ deliveries' = [deliveries EXCEPT ![m] = 0]
    /\ UNCHANGED <<sent, stored, oid, mint, leaseAge, call, sweep, snap, delivered,
                   removed, faults>>

-----------------------------------------------------------------------------
(***************************************************************************)
(* Rewrites: findMessageByName(), a change in memory, upsertMessage() of   *)
(* the whole document.                                                     *)
(***************************************************************************)
RewriteRead(w, m) ==
    /\ snap[w].msg = NoMessage /\ m \in stored
    /\ snap' = [snap EXCEPT ![w] = [msg |-> m, doc |-> doc[m]]]
    /\ UNCHANGED <<sent, stored, doc, oid, mint, leaseAge, call, sweep, delivered,
                   deliveries, removed, faults>>

\* upsertMessage(): $set of every field by messageId, inserting when no document
\* has it.
Upsert(m, d) ==
    /\ m \notin stored => oid[m] < MaxInserts
    /\ doc' = [doc EXCEPT ![m] = d]
    /\ stored' = stored \cup {m}
    /\ oid' = IF m \in stored THEN oid ELSE [oid EXCEPT ![m] = @ + 1]

SetVisibility(w, v) ==
    /\ snap[w].msg # NoMessage
    /\ Upsert(snap[w].msg, WithVisibility(snap[w].doc, v))
    /\ snap' = [snap EXCEPT ![w] = NoSnap]
    /\ UNCHANGED <<sent, mint, leaseAge, call, sweep, delivered, deliveries, removed, faults>>

SetMessageAttribute(w) ==
    /\ snap[w].msg # NoMessage
    /\ Upsert(snap[w].msg, snap[w].doc)
    /\ snap' = [snap EXCEPT ![w] = NoSnap]
    /\ UNCHANGED <<sent, mint, leaseAge, call, sweep, delivered, deliveries, removed, faults>>

-----------------------------------------------------------------------------
(***************************************************************************)
(* The sweep, resetExpiredMessages().  Whether a message is due is decided *)
(* against the time the sweep started, so reading both sets at once is the *)
(* most it can find; each is written later, under a condition on its       *)
(* status alone.                                                           *)
(***************************************************************************)
Ref(m) == [msg |-> m, oid |-> oid[m]]

SweepRead(s) ==
    LET found == [expired |-> {Ref(m) : m \in {n \in stored : LeaseExpired(doc[n])}},
                  due |-> {Ref(m) : m \in {n \in stored : DelayOver(doc[n])}}] IN
    /\ sweep[s] = NoSweep /\ found # NoSweep
    /\ sweep' = [sweep EXCEPT ![s] = found]
    /\ UNCHANGED <<sent, stored, doc, oid, mint, leaseAge, call, snap, delivered,
                   deliveries, removed, faults>>

\* Mutant of SweepReset: the write filters on the status it is about to set.
MutSweepReset(s, x) ==
    /\ x \in sweep[s].expired
    /\ doc' = IF Matches(x) /\ doc[x.msg].status = "AVAILABLE"
              THEN [doc EXCEPT ![x.msg] = Reset(@)] ELSE doc
    /\ sweep' = [sweep EXCEPT ![s].expired = @ \ {x}]
    /\ UNCHANGED <<sent, stored, oid, mint, leaseAge, call, snap, delivered, deliveries,
                   removed, faults>>

\* Mutant of SweepReset: the write inserts the document it does not find.
MutSweepUpsert(s, x) ==
    /\ x \in sweep[s].expired
    /\ Upsert(x.msg, Reset(doc[x.msg]))
    /\ sweep' = [sweep EXCEPT ![s].expired = @ \ {x}]
    /\ UNCHANGED <<sent, mint, leaseAge, call, snap, delivered, deliveries, removed, faults>>

SweepReset(s, x) ==
    /\ x \in sweep[s].expired
    /\ doc' = IF Matches(x) /\ doc[x.msg].status = "INVISIBLE"
              THEN [doc EXCEPT ![x.msg] = Reset(@)] ELSE doc
    /\ sweep' = [sweep EXCEPT ![s].expired = @ \ {x}]
    /\ UNCHANGED <<sent, stored, oid, mint, leaseAge, call, snap, delivered, deliveries,
                   removed, faults>>

SweepRelease(s, x) ==
    /\ sweep[s].expired = {} /\ x \in sweep[s].due
    /\ doc' = IF Matches(x) /\ doc[x.msg].status = "DELAYED"
              THEN [doc EXCEPT ![x.msg].status = "AVAILABLE"] ELSE doc
    /\ sweep' = [sweep EXCEPT ![s].due = @ \ {x}]
    /\ UNCHANGED <<sent, stored, oid, mint, leaseAge, call, snap, delivered, deliveries,
                   removed, faults>>

\* An exception or the process's death ends the sweep.
SweepFail(s) ==
    /\ sweep[s] # NoSweep /\ faults < MaxFaults
    /\ sweep' = [sweep EXCEPT ![s] = NoSweep]
    /\ faults' = faults + 1
    /\ UNCHANGED <<sent, stored, doc, oid, mint, leaseAge, call, snap, delivered,
                   deliveries, removed>>

-----------------------------------------------------------------------------
Tick ==
    /\ doc' = [m \in Messages |-> Older(doc[m])]
    /\ snap' = [w \in Writers |-> [snap[w] EXCEPT !.doc = Older(@)]]
    /\ leaseAge' = [h \in Handles |->
          IF mint[h] # NoMessage /\ leaseAge[h] < MaxAge THEN leaseAge[h] + 1 ELSE leaseAge[h]]
    /\ UNCHANGED <<sent, stored, oid, mint, call, sweep, delivered, deliveries,
                   removed, faults>>

Receive(c) ==
    \/ \E q \in Queues : ReceiveStart(c, q)
    \/ FindCandidates(c)
    \/ StopLooking(c)
    \/ \E x \in call[c].todo : Claim(c, x)
    \/ ReadBack(c)
    \/ \E x \in call[c].dead : MoveToDeadLetter(c, x)
    \/ \E x \in call[c].stale : SetLease(c, x)
    \/ PassEnd(c)
    \/ ReceiveReturn(c)
    \/ ReceiveWait(c)
    \/ ReceiveFail(c)
    \/ ReceiveCrash(c)

Delete ==
    \/ \E d \in delivered, m \in Messages : DeleteMessage(d, m)
    \/ \E m \in Messages : DeleteMessageById(m)
    \/ \E q \in Queues : PurgeQueue(q)
    \/ \E m \in Messages : RetentionExpires(m)

Rewrite(w) ==
    \/ \E m \in Messages : RewriteRead(w, m)
    \/ \E v \in Timeouts : SetVisibility(w, v)
    \/ SetMessageAttribute(w)

Sweep(s) ==
    \/ SweepRead(s)
    \/ \E x \in sweep[s].expired : SweepReset(s, x)
    \/ \E x \in sweep[s].due : SweepRelease(s, x)
    \/ SweepFail(s)

Next ==
    \/ \E m \in Messages, q \in Queues : SendMessage(m, q)
    \/ \E c \in Consumers : Receive(c)
    \/ Delete
    \/ \E m \in Messages, d, q \in Queues : Redrive(m, d, q)
    \/ \E w \in Writers : Rewrite(w)
    \/ \E s \in Sweepers : Sweep(s)
    \/ Tick

Spec == Init /\ [][Next]_vars

\* Time passes, and a scheduled sweep runs to its end: it is started every
\* thirty seconds in every instance, and each of its writes is a finite call.
Fairness ==
    /\ WF_vars(Tick)
    /\ \A s \in Sweepers :
          /\ WF_vars(SweepRead(s))
          /\ WF_vars(\E x \in sweep[s].expired : SweepReset(s, x))
          /\ WF_vars(\E x \in sweep[s].due : SweepRelease(s, x))

FairSpec == Spec /\ Fairness

-----------------------------------------------------------------------------
(***************************************************************************)
(* Properties.                                                             *)
(***************************************************************************)
\* Every variable has its type: documents, calls in progress and the records of
\* what was handed out stay well formed through every write of the repository.
TypeOK ==
    /\ sent \subseteq Messages /\ stored \subseteq Messages /\ removed \subseteq Messages
    /\ doc \in [Messages -> Document]
    /\ oid \in [Messages -> Nat]
    /\ mint \in [Handles -> Messages \cup {NoMessage}]
    /\ leaseAge \in [Handles -> Nat]
    /\ call \in [Consumers -> Calls]
    /\ sweep \in [Sweepers -> [expired : SUBSET Refs, due : SUBSET Refs]]
    /\ snap \in [Writers -> [msg : Messages \cup {NoMessage}, doc : Document]]
    /\ delivered \subseteq Deliveries
    /\ deliveries \in [Messages -> Nat]
    /\ faults \in Nat

\* "A receipt handle names one message" (deleteMessage() relies on it to delete
\* with find_one_and_delete): no two stored documents carry the same handle, and
\* a handle a consumer was given is only ever on the message it came with.
HandleNamesOneMessage ==
    /\ \A m, n \in stored :
          doc[m].receiptHandle = doc[n].receiptHandle /\ doc[m].receiptHandle # NoHandle
             => m = n
    /\ \A d \in delivered, m \in stored : doc[m].receiptHandle = d.handle => d.msg = m

\* A document carries a receipt handle exactly while it is in flight: every path
\* that makes a message available again (sweep, dead letter move, redrive, a
\* rewrite of a stale copy) takes the handle with it, so an expired handle can
\* never delete a message that is waiting.
HandleExactlyInFlight ==
    \A m \in stored : doc[m].status = "INVISIBLE" <=> doc[m].receiptHandle # NoHandle

\* The origin recorded for a redrive (sourceQueueErn, set by receiveMessages() and
\* cleared by redriveMessages()) is on a message only while it is in that
\* queue's dead letter queue.
OriginOnlyInDeadLetter ==
    \A m \in stored :
        doc[m].sourceQueueErn # NoQueue => doc[m].queueErn = DeadLetterOf[doc[m].sourceQueueErn]

\* maxReceiveCount: a queue with a dead letter queue hands a message out at most
\* that often before it moves it, however receives, expiries, failures and
\* sweeps interleave.
DeliveriesBounded ==
    \A m \in stored :
        DeadLetterOf[doc[m].queueErn] # NoQueue =>
            deliveries[m] <= MaxReceiveCount[doc[m].queueErn]

\* The lease a consumer was told is the lease the sweep enforces: while a
\* delivery's handle is on its document, the document's visibility timeout is the
\* one the receive reported (receiveMessages() changes both in its step 5).
ToldIsEnforced ==
    \A d \in delivered :
        d.msg \in stored /\ doc[d.msg].receiptHandle = d.handle
            => doc[d.msg].visibilityTimeout = d.told

Live(d) == leaseAge[d.handle] < d.told

\* Messages are claimed "so that concurrent receivers don't get the same message"
\* (IEqsRepository::receiveMessages): while the visibility timeout a consumer was
\* told runs, nobody else is given the message.
LeaseExclusive ==
    \A d, e \in delivered : d.msg = e.msg /\ Live(d) /\ Live(e) => d = e

\* "Deletes a message from the repository" (IEqsRepository::deleteMessage): a
\* message that was deleted or purged does not come back.
DeletedStaysDeleted == removed \cap stored = {}

\* resetExpiredMessages(): a claimed message does not stay in flight for ever; it
\* is deleted, or some sweep makes it available again.
LeaseEnds ==
    \A m \in Messages :
        (m \in stored /\ doc[m].status = "INVISIBLE")
            ~> (m \notin stored \/ doc[m].status = "AVAILABLE")

\* A delayed message becomes receivable, unless it is removed first.
DelayEnds ==
    \A m \in Messages :
        (m \in stored /\ doc[m].status = "DELAYED")
            ~> (m \notin stored \/ doc[m].status # "DELAYED")

=============================================================================
