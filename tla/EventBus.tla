------------------------------ MODULE EventBus ------------------------------
(***************************************************************************)
(* Deliveries on the event bus (src/database/src/EventBus.cpp) and the     *)
(* stopping of their source (stop-bucket and start-bucket of ESM).         *)
(*                                                                         *)
(* An event is one envelope: one document of internal_events for one       *)
(* target.  A module's envelopes are claimed, handed to a handler and      *)
(* settled by pollOnce(); an external subscriber's are claimed by          *)
(* ClaimEvents() and removed by AckEvent().  reap() gives back what was    *)
(* claimed and never settled.  A call may be delayed between any two of    *)
(* its statements, may fail, and may outlive the lease it was given.       *)
(***************************************************************************)
EXTENDS Integers, FiniteSets

CONSTANTS
  Events,       \* envelopes
  Instances,    \* processes of the module, each with at most one pollOnce()
  Consumers,    \* clients of one external subscriber
  Operators,    \* callers of stop-bucket and start-bucket
  MaxAttempts,  \* kMaxAttempts
  Visibility,   \* ticks a claim holds
  MaxLag,       \* bound: ticks between a call's reading of the clock and its claim
  BatchSize,    \* most envelopes in one claim
  MaxFaults,    \* bound: calls that fail or die
  None          \* no call, no event

Callers == Instances \union Consumers

ASSUME BusAssumption ==
  /\ MaxAttempts \in Nat \ {0}
  /\ Visibility \in Nat
  /\ MaxLag \in 0 .. Visibility
  /\ BatchSize \in Nat \ {0}
  /\ MaxFaults \in Nat
  /\ IsFiniteSet(Events)
  /\ Instances \cap Consumers = {}
  /\ None \notin Events \union Callers

VARIABLES
  kind,     \* of an event: a delivery has a source, a domain event has none
  doc,      \* the document of an event
  stored,   \* events in internal_events
  dlq,      \* events with a copy in internal_events_dlq
  token,    \* the call whose claim token the document carries
  call,     \* pollOnce() of an instance, ClaimEvents() and after of a consumer
  op,       \* stop-bucket or start-bucket in progress
  stopped,  \* Bucket::stopped of the source
  pub,      \* how far the publishing of an event has come
  stale,    \* history: published on a flag that had changed by then, and not
            \* seen by a stop or a start since
  handled,  \* history: processed by a handler or by a consumer
  dropped,  \* history: discarded, unsubscribed or expired
  faults

vars == <<kind, doc, stored, dlq, token, call, op, stopped, pub, stale, handled,
          dropped, faults>>

Kinds == {"delivery", "domain", "external"}
Statuses == {"PENDING", "CLAIMED", "HELD"}

\* left is visibleAt - now while it is claimed, as far as anything still compares
\* it, and 0 when nothing does; expires says that expiresAt is set.
Envelope ==
  [status : Statuses, attempts : 0 .. MaxAttempts + 1, left : (0 - MaxLag) .. Visibility,
   heldBy : BOOLEAN, expires : BOOLEAN]

NewEnvelope(held) ==
  [status |-> IF held THEN "HELD" ELSE "PENDING", attempts |-> 0, left |-> 0,
   heldBy |-> held, expires |-> ~held]

\* age is the time since the call read the clock, while anything depends on it;
\* ids are claimed one document at a time; last may not fail again.
Calls ==
  [pc : {"idle", "claim", "handle", "move", "settle"}, age : 0 .. Visibility,
   ids : SUBSET Events, todo : SUBSET Events, last : SUBSET Events,
   acked : SUBSET Events, requeue : SUBSET Events, moving : Events \union {None}]

Idle ==
  [pc |-> "idle", age |-> 0, ids |-> {}, todo |-> {}, last |-> {}, acked |-> {},
   requeue |-> {}, moving |-> None]

Ops == [pc : {"idle", "failed", "hold", "release", "put"}, ids : SUBSET Events]

\* Documents are deleted; what they said means nothing any more.
Erase(S) ==
  /\ stored' = stored \ S
  /\ doc' = [e \in Events |-> IF e \in S THEN NewEnvelope(FALSE) ELSE doc[e]]
  /\ token' = [e \in Events |-> IF e \in S THEN None ELSE token[e]]

-----------------------------------------------------------------------------
\* The source

\* A publisher reads its bucket well before it publishes: an upload of any
\* length, and the write of the object, lie in between.
PublishRead(e) ==
  /\ pub[e] = "no"
  /\ pub' = [pub EXCEPT ![e] = IF stopped THEN "held" ELSE "free"]
  /\ UNCHANGED <<kind, doc, stored, dlq, token, call, op, stopped, stale, handled,
                 dropped, faults>>

Publish(e) ==
  /\ pub[e] \in {"held", "free"}
  /\ pub' = [pub EXCEPT ![e] = "done"]
  /\ doc' = [doc EXCEPT ![e] = NewEnvelope(pub[e] = "held")]
  /\ stored' = stored \union {e}
  /\ stale' = IF (pub[e] = "held") # stopped THEN stale \union {e} ELSE stale
  /\ UNCHANGED <<kind, dlq, token, call, op, stopped, handled, dropped, faults>>

StopFlag(o) ==
  /\ op[o].pc \in {"idle", "failed"}
  /\ stopped' = TRUE
  /\ op' = [op EXCEPT ![o] = [pc |-> "hold", ids |-> {}]]
  /\ UNCHANGED <<kind, doc, stored, dlq, token, call, pub, stale, handled, dropped, faults>>

\* Only what is waiting, and only envelopes that name their source.
Holdable(e) == e \in stored /\ kind[e] = "delivery" /\ doc[e].status = "PENDING"

HoldDeliveries(o) ==
  /\ op[o].pc = "hold"
  /\ doc' = [e \in Events |->
       IF Holdable(e)
         THEN [doc[e] EXCEPT !.status = "HELD", !.heldBy = TRUE, !.expires = FALSE]
         ELSE doc[e]]
  /\ op' = [op EXCEPT ![o].pc = "idle"]
  /\ stale' = {}
  /\ UNCHANGED <<kind, stored, dlq, token, call, stopped, pub, handled, dropped, faults>>

StartFlag(o) ==
  /\ op[o].pc \in {"idle", "failed"}
  /\ stopped' = FALSE
  /\ op' = [op EXCEPT ![o] = [pc |-> "release", ids |-> {}]]
  /\ UNCHANGED <<kind, doc, stored, dlq, token, call, pub, stale, handled, dropped, faults>>

\* Mutant: only the envelopes that name their source are looked for.
MutHeld == {e \in stored : kind[e] = "delivery" /\ doc[e].status = "HELD" /\ doc[e].heldBy}

Held == {e \in stored : doc[e].status = "HELD" /\ doc[e].heldBy}

ReleaseFind(o) ==
  /\ op[o].pc = "release"
  /\ op' = [op EXCEPT ![o] = [pc |-> IF Held = {} THEN "idle" ELSE "put", ids |-> Held]]
  /\ stale' = {}
  /\ UNCHANGED <<kind, doc, stored, dlq, token, call, stopped, pub, handled, dropped, faults>>

Released(d) ==
  [d EXCEPT !.status = "PENDING", !.left = 0, !.heldBy = FALSE, !.expires = TRUE]

\* By _id alone, whatever has become of the document since it was found.
ReleaseHeld(o, e) ==
  /\ op[o].pc = "put"
  /\ e \in op[o].ids
  /\ doc' = IF e \in stored THEN [doc EXCEPT ![e] = Released(@)] ELSE doc
  /\ op' = [op EXCEPT ![o] = [pc |-> IF @.ids = {e} THEN "idle" ELSE "put",
                              ids |-> @.ids \ {e}]]
  /\ UNCHANGED <<kind, stored, dlq, token, call, stopped, pub, stale, handled, dropped, faults>>

\* The caller is told to try again.
OperatorFails(o) ==
  /\ op[o].pc \in {"hold", "release", "put"}
  /\ faults < MaxFaults
  /\ faults' = faults + 1
  /\ op' = [op EXCEPT ![o] = [pc |-> "failed", ids |-> {}]]
  /\ UNCHANGED <<kind, doc, stored, dlq, token, call, stopped, pub, stale, handled, dropped>>

-----------------------------------------------------------------------------
\* Claiming: pollOnce() and ClaimEvents()

For(k, e) == (k \in Consumers) <=> (kind[e] = "external")

\* A module takes what is pending and leaves lapsed claims to reap(); an
\* external claim takes those as well, by the clock the call read.
Claimable(k, e, age) ==
  \/ doc[e].status = "PENDING"
  \/ k \in Consumers /\ doc[e].status = "CLAIMED" /\ doc[e].left <= 0 - age

Waiting(k) == {e \in stored : For(k, e) /\ Claimable(k, e, 0)}

\* The new claim token is the caller's; what carried its previous one carries
\* a token nobody looks for any more.
Find(k) ==
  /\ call[k].pc = "idle"
  /\ \E ids \in SUBSET Waiting(k) :
       /\ ids # {}
       /\ Cardinality(ids) = BatchSize \/ (Cardinality(ids) < BatchSize /\ ids = Waiting(k))
       /\ call' = [call EXCEPT ![k] = [Idle EXCEPT !.pc = "claim", !.ids = ids]]
  /\ token' = [e \in Events |-> IF token[e] = k THEN None ELSE token[e]]
  /\ UNCHANGED <<kind, doc, stored, dlq, op, stopped, pub, stale, handled, dropped, faults>>

\* Mutant: an increment that is never compared with kMaxAttempts.
MutMore(n) == n + 1

More(n) == IF n > MaxAttempts THEN n ELSE n + 1

Claimed(d, age) ==
  [d EXCEPT !.status = "CLAIMED", !.attempts = More(@), !.left = Visibility - age]

\* Mutant: the update repeats only the _ids it found.
MutClaimMatches(k, e) == e \in stored

\* Whether the claim's own filter still matches the document.
ClaimMatches(k, e) == e \in stored /\ Claimable(k, e, call[k].age)

\* One document of the update_many.
Claim(k, e) ==
  /\ call[k].pc = "claim"
  /\ e \in call[k].ids
  /\ call' = [call EXCEPT ![k].ids = @ \ {e}]
  /\ doc' = IF ClaimMatches(k, e)
              THEN [doc EXCEPT ![e] = Claimed(@, call[k].age)] ELSE doc
  /\ token' = IF ClaimMatches(k, e) THEN [token EXCEPT ![e] = k] ELSE token
  /\ UNCHANGED <<kind, stored, dlq, op, stopped, pub, stale, handled, dropped, faults>>

Mine(k) == {e \in stored : token[e] = k}

ReadBack(k) ==
  /\ call[k].pc = "claim"
  /\ call[k].ids = {}
  /\ call' = [call EXCEPT ![k] =
       IF Mine(k) = {} THEN Idle
       ELSE [@ EXCEPT !.pc = "handle", !.todo = Mine(k),
                      !.age = IF k \in Consumers THEN call[k].age ELSE 0,
                      !.last = {e \in Mine(k) : doc[e].attempts >= MaxAttempts}]]
  /\ UNCHANGED <<kind, doc, stored, dlq, token, op, stopped, pub, stale, handled,
                 dropped, faults>>

-----------------------------------------------------------------------------
\* Handling and settling: pollOnce()

HandlerSucceeds(p, e) ==
  /\ call[p].pc = "handle"
  /\ e \in call[p].todo
  /\ handled' = handled \union {e}
  /\ call' = [call EXCEPT ![p].todo = @ \ {e}, ![p].acked = @ \union {e}]
  /\ UNCHANGED <<kind, doc, stored, dlq, token, op, stopped, pub, stale, dropped, faults>>

HandlerFails(p, e) ==
  /\ call[p].pc = "handle"
  /\ e \in call[p].todo \ call[p].last
  /\ call' = [call EXCEPT ![p].todo = @ \ {e}, ![p].requeue = @ \union {e}]
  /\ UNCHANGED <<kind, doc, stored, dlq, token, op, stopped, pub, stale, handled,
                 dropped, faults>>

\* Mutant: the original is deleted before its copy is written.
MutDlqInsert(p, e) ==
  /\ call[p].pc = "handle"
  /\ e \in call[p].todo \cap call[p].last
  /\ stored' = stored \ {e}
  /\ call' = [call EXCEPT ![p].todo = @ \ {e}, ![p].pc = "move", ![p].moving = e]
  /\ UNCHANGED <<kind, doc, dlq, token, op, stopped, pub, stale, handled, dropped, faults>>

\* moveToDlq(): the copy keeps the _id, so a second copy is refused, and the
\* exception leaves the original where it is.
DlqInsert(p, e) ==
  /\ call[p].pc = "handle"
  /\ e \in call[p].todo \cap call[p].last
  /\ dlq' = dlq \union {e}
  /\ call' = [call EXCEPT ![p].todo = @ \ {e},
                          ![p].pc = IF e \in dlq THEN "handle" ELSE "move",
                          ![p].moving = IF e \in dlq THEN None ELSE e]
  /\ UNCHANGED <<kind, doc, stored, token, op, stopped, pub, stale, handled, dropped, faults>>

DlqDelete(p) ==
  /\ call[p].pc = "move"
  /\ Erase({call[p].moving})
  /\ call' = [call EXCEPT ![p].pc = "handle", ![p].moving = None]
  /\ UNCHANGED <<kind, dlq, op, stopped, pub, stale, handled, dropped, faults>>

\* An exception in moveToDlq() is logged and the batch goes on.
DlqFails(p) ==
  /\ call[p].pc = "move"
  /\ faults < MaxFaults
  /\ faults' = faults + 1
  /\ call' = [call EXCEPT ![p].pc = "handle", ![p].moving = None]
  /\ UNCHANGED <<kind, doc, stored, dlq, token, op, stopped, pub, stale, handled, dropped>>

\* By _id alone, both of them: the batch may have been reaped long ago.
SettleAcked(p) ==
  /\ p \in Instances
  /\ call[p].pc = "handle"
  /\ call[p].todo = {}
  /\ Erase(call[p].acked)
  /\ call' = [call EXCEPT ![p].pc = "settle"]
  /\ UNCHANGED <<kind, dlq, op, stopped, pub, stale, handled, dropped, faults>>

Requeued(d) == [d EXCEPT !.status = "PENDING", !.left = 0]

\* Mutant: an update that inserts what it does not find.
MutSettleRequeue(p) ==
  /\ call[p].pc = "settle"
  /\ doc' = [e \in Events |-> IF e \in call[p].requeue THEN Requeued(doc[e]) ELSE doc[e]]
  /\ stored' = stored \union call[p].requeue
  /\ call' = [call EXCEPT ![p] = Idle]
  /\ UNCHANGED <<kind, dlq, token, op, stopped, pub, stale, handled, dropped, faults>>

SettleRequeue(p) ==
  /\ call[p].pc = "settle"
  /\ doc' = [e \in Events |->
       IF e \in call[p].requeue \cap stored THEN Requeued(doc[e]) ELSE doc[e]]
  /\ call' = [call EXCEPT ![p] = Idle]
  /\ UNCHANGED <<kind, stored, dlq, token, op, stopped, pub, stale, handled, dropped, faults>>

\* An exception in pollOnce() or ClaimEvents(), or the death of the process.
CallDies(k) ==
  /\ call[k].pc # "idle"
  /\ faults < MaxFaults
  /\ faults' = faults + 1
  /\ call' = [call EXCEPT ![k] = Idle]
  /\ UNCHANGED <<kind, doc, stored, dlq, token, op, stopped, pub, stale, handled, dropped>>

-----------------------------------------------------------------------------
\* External consumers

\* By subscriber and event id: the claim may have lapsed.
AckEvent(c, e) ==
  /\ c \in Consumers
  /\ call[c].pc = "handle"
  /\ e \in call[c].todo
  /\ handled' = handled \union {e}
  /\ Erase({e})
  /\ call' = [call EXCEPT ![c] =
       IF @.todo = {e} THEN Idle ELSE [@ EXCEPT !.todo = call[c].todo \ {e}]]
  /\ UNCHANGED <<kind, dlq, op, stopped, pub, stale, dropped, faults>>

\* The client never acknowledges what it was given.
Forget(c) ==
  /\ c \in Consumers
  /\ call[c].pc = "handle"
  /\ call' = [call EXCEPT ![c] = Idle]
  /\ UNCHANGED <<kind, doc, stored, dlq, token, op, stopped, pub, stale, handled,
                 dropped, faults>>

-----------------------------------------------------------------------------
\* What happens to documents in the background

\* Mutant: what has used up its attempts is left alone.
MutReap(e) ==
  /\ e \in stored
  /\ doc[e].status = "CLAIMED"
  /\ doc[e].left <= 0
  /\ doc[e].attempts < MaxAttempts
  /\ doc' = [doc EXCEPT ![e].status = "PENDING"]
  /\ UNCHANGED <<kind, stored, dlq, token, call, op, stopped, pub, stale, handled,
                 dropped, faults>>

\* One document of reap()'s update_many.
Reap(e) ==
  /\ e \in stored
  /\ doc[e].status = "CLAIMED"
  /\ doc[e].left <= 0
  /\ doc' = [doc EXCEPT ![e] = Requeued(@)]
  /\ UNCHANGED <<kind, stored, dlq, token, call, op, stopped, pub, stale, handled,
                 dropped, faults>>

\* DiscardDeliveries(), UnsubscribeExternal(), or the TTL index on expiresAt.
Remove(e) ==
  /\ e \in stored
  /\ kind[e] # "domain" \/ doc[e].expires
  /\ Erase({e})
  /\ dropped' = dropped \union {e}
  /\ UNCHANGED <<kind, dlq, call, op, stopped, pub, stale, handled, faults>>

Later(n) == IF n > 0 - MaxLag THEN n - 1 ELSE n
Older(n) == IF n < Visibility THEN n + 1 ELSE n

Tick ==
  /\ \A k \in Callers : call[k].pc = "claim" => call[k].age < MaxLag
  /\ doc' = [e \in Events |->
       IF doc[e].status = "CLAIMED" THEN [doc[e] EXCEPT !.left = Later(@)] ELSE doc[e]]
  /\ call' = [k \in Callers |->
       IF call[k].pc = "claim" \/ (k \in Consumers /\ call[k].pc # "idle")
         THEN [call[k] EXCEPT !.age = Older(@)] ELSE call[k]]
  /\ UNCHANGED <<kind, stored, dlq, token, op, stopped, pub, stale, handled, dropped, faults>>

-----------------------------------------------------------------------------
Init ==
  /\ kind \in [Events -> Kinds]
  /\ doc = [e \in Events |-> NewEnvelope(FALSE)]
  /\ stored = {}
  /\ dlq = {}
  /\ token = [e \in Events |-> None]
  /\ call = [k \in Callers |-> Idle]
  /\ op = [o \in Operators |-> [pc |-> "idle", ids |-> {}]]
  /\ stopped = FALSE
  /\ pub = [e \in Events |-> "no"]
  /\ stale = {}
  /\ handled = {}
  /\ dropped = {}
  /\ faults = 0

ClaimStep(k) ==
  \/ Find(k)
  \/ \E e \in Events : Claim(k, e)
  \/ ReadBack(k)

SettleStep(p) ==
  \/ \E e \in Events : HandlerSucceeds(p, e) \/ HandlerFails(p, e) \/ DlqInsert(p, e)
  \/ DlqDelete(p)
  \/ SettleAcked(p)
  \/ SettleRequeue(p)

PollOnce(p) == ClaimStep(p) \/ SettleStep(p)

ConsumerStep(c) ==
  \/ ClaimStep(c)
  \/ \E e \in Events : AckEvent(c, e)
  \/ Forget(c)

SetBucketStopped(o) ==
  \/ StopFlag(o)
  \/ HoldDeliveries(o)
  \/ StartFlag(o)
  \/ ReleaseFind(o)
  \/ \E e \in Events : ReleaseHeld(o, e)
  \/ OperatorFails(o)

Next ==
  \/ \E e \in Events : PublishRead(e) \/ Publish(e) \/ Reap(e) \/ Remove(e)
  \/ \E p \in Instances : PollOnce(p) \/ DlqFails(p)
  \/ \E c \in Consumers : ConsumerStep(c)
  \/ \E k \in Callers : CallDies(k)
  \/ \E o \in Operators : SetBucketStopped(o)
  \/ Tick

Spec == Init /\ [][Next]_vars

\* Time passes, every instance polls while there is something to poll and
\* every handler comes back, and the reaper runs.
Fairness ==
  /\ \A p \in Instances : WF_vars(PollOnce(p))
  /\ \A e \in Events : WF_vars(Reap(e))
  /\ WF_vars(Tick)

FairSpec == Spec /\ Fairness

-----------------------------------------------------------------------------
\* Every field has its type.
TypeOK ==
  /\ kind \in [Events -> Kinds]
  /\ doc \in [Events -> Envelope]
  /\ stored \in SUBSET Events
  /\ dlq \in SUBSET Events
  /\ token \in [Events -> Callers \union {None}]
  /\ call \in [Callers -> Calls]
  /\ op \in [Operators -> Ops]
  /\ stopped \in BOOLEAN
  /\ pub \in [Events -> {"no", "held", "free", "done"}]
  /\ stale \in SUBSET Events
  /\ handled \in SUBSET Events
  /\ dropped \in SUBSET Events
  /\ faults \in 0 .. MaxFaults

\* At-least-once delivery, over timeouts, failing calls and dying processes: an
\* envelope that was stored is still there, or was processed, or has a copy in
\* the dead letter collection, or was removed on purpose (pollOnce(), reap(),
\* moveToDlq(), AckEvent()).
NothingLost ==
  \A e \in Events : pub[e] = "done" => e \in stored \union handled \union dlq \union dropped

\* The bus is a mailbox to its subscribers: at least once, and what has been
\* acknowledged, dead lettered or discarded does not come back, however late a
\* call of pollOnce() settles its batch or start-bucket releases what it found.
Box == INSTANCE Mailbox WITH
  put <- {e \in Events : pub[e] = "done"}, kept <- stored, dead <- dlq
IsMailbox == Box!Spec

\* An event ClaimEvents() handed out is invisible to every other claimer until
\* the lease it was handed out with has run out.
LeaseExclusive ==
  \A c, d \in Consumers : \A e \in call[c].todo \cap call[d].todo :
    c # d => call[c].age >= Visibility \/ call[d].age >= Visibility

\* stop-bucket and start-bucket set the flag before they touch the documents:
\* once one has returned, no envelope is on the wrong side of the flag, those
\* included that were published in the middle of it, or earlier on a flag that
\* had changed by then.  Apart are deliveries somebody had already claimed, and
\* what is published on an old flag after the hold, or after the release has
\* looked: that waits on the wrong side for the next stop or start.
BucketObeyed ==
  (\A o \in Operators : op[o].pc = "idle") =>
    \A e \in stored \ stale :
      IF stopped THEN kind[e] = "delivery" /\ doc[e].attempts = 0 => doc[e].status = "HELD"
                 ELSE doc[e].status # "HELD"

\* The copy is in the dead letter collection and nobody will delete the original:
\* the move was cut between the two.
LeftBehind(e) == e \in dlq /\ \A p \in Instances : call[p].moving # e

\* A module's envelope that is waiting does not wait for ever, whatever its
\* handler answers, and even when every one of its MaxAttempts attempts ends with
\* the death of the process: reap() gives it back, and pollOnce() takes it out as
\* processed or dead lettered.  It stays only when it is held, or was left behind
\* its copy.  (One that kills every process for ever is given back for ever:
\* reap() compares no attempts.)
PendingEnds ==
  \A e \in Events :
    (e \in stored /\ kind[e] # "external" /\ doc[e].status # "HELD")
      ~> (e \notin stored \/ doc[e].status = "HELD" \/ LeftBehind(e))
=============================================================================
