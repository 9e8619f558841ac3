--------------------------- MODULE EventBusProofs ---------------------------
(***************************************************************************)
(* Proofs about EventBus, for any number of envelopes, instances and       *)
(* consumers, any batch size, limit of attempts and visibility timeout.    *)
(***************************************************************************)
EXTENDS EventBus, TLAPS

-----------------------------------------------------------------------------
\* Types

\* A call that does nothing has the type of a call.
LEMMA IdleType == Idle \in Calls
BY BusAssumption DEF Idle, Calls

\* One call goes on, the others stay where they are.
LEMMA CallStep ==
  ASSUME TypeOK, NEW k \in Callers, NEW c \in Calls, call' = [call EXCEPT ![k] = c]
  PROVE  call' \in [Callers -> Calls]
BY DEF TypeOK

\* Whatever is written into one document is an envelope.
LEMMA DocStep ==
  ASSUME TypeOK, NEW e \in Events, NEW d \in Envelope, doc' = [doc EXCEPT ![e] = d]
  PROVE  doc' \in [Events -> Envelope]
BY DEF TypeOK

\* A published, released, claimed, requeued or reaped envelope is one.
LEMMA EnvelopeType ==
  /\ \A held \in BOOLEAN : NewEnvelope(held) \in Envelope
  /\ \A d \in Envelope :
       /\ Released(d) \in Envelope
       /\ Requeued(d) \in Envelope
       /\ [d EXCEPT !.status = "HELD", !.heldBy = TRUE, !.expires = FALSE] \in Envelope
       /\ [d EXCEPT !.left = Later(@)] \in Envelope
       /\ \A age \in 0 .. Visibility : Claimed(d, age) \in Envelope
<1>1. \A held \in BOOLEAN : NewEnvelope(held) \in Envelope
    BY BusAssumption DEF NewEnvelope, Envelope, Statuses
<1>2. ASSUME NEW d \in Envelope
      PROVE  /\ Released(d) \in Envelope
             /\ Requeued(d) \in Envelope
             /\ [d EXCEPT !.status = "HELD", !.heldBy = TRUE, !.expires = FALSE] \in Envelope
  <2>0. 0 \in (0 - MaxLag) .. Visibility
      BY BusAssumption
  <2>1. Requeued(d) \in Envelope
      BY <2>0 DEF Requeued, Envelope, Statuses
  <2>2. \A h, x \in BOOLEAN :
           /\ [d EXCEPT !.status = "PENDING", !.left = 0, !.heldBy = h, !.expires = x] \in Envelope
           /\ [d EXCEPT !.status = "HELD", !.heldBy = h, !.expires = x] \in Envelope
      BY <2>0 DEF Envelope, Statuses
  <2> QED
      BY <2>1, <2>2 DEF Released
<1>3. ASSUME NEW d \in Envelope
      PROVE  [d EXCEPT !.left = Later(@)] \in Envelope
  <2>1. d.left \in (0 - MaxLag) .. Visibility
      BY DEF Envelope
  <2>2. Later(d.left) \in (0 - MaxLag) .. Visibility
      BY <2>1, BusAssumption DEF Later
  <2> QED
      BY <2>2 DEF Envelope
<1>4. ASSUME NEW d \in Envelope, NEW age \in 0 .. Visibility
      PROVE  Claimed(d, age) \in Envelope
  <2>1. d.attempts \in 0 .. MaxAttempts + 1
      BY DEF Envelope
  <2>2. More(d.attempts) \in 0 .. MaxAttempts + 1
      BY <2>1, BusAssumption DEF More
  <2>3. Visibility - age \in (0 - MaxLag) .. Visibility
      BY BusAssumption
  <2> QED
      BY <2>2, <2>3 DEF Claimed, Envelope, Statuses
<1> QED
    BY <1>1, <1>2, <1>3, <1>4

\* A deleted document is gone, and its fields with it; the others stay.
LEMMA EraseEffect ==
  ASSUME TypeOK, NEW S, Erase(S)
  PROVE  /\ stored' = stored \ S
         /\ doc' \in [Events -> Envelope] /\ token' \in [Events -> Callers \union {None}]
         /\ \A e \in Events :
              \/ e \notin S /\ doc'[e] = doc[e] /\ token'[e] = token[e]
              \/ e \notin stored' /\ doc'[e] = NewEnvelope(FALSE) /\ token'[e] = None
<1>1. NewEnvelope(FALSE) \in Envelope
    BY EnvelopeType
<1>2. stored' = stored \ S
    BY DEF Erase
<1>3. /\ \A e \in Events : doc'[e] = IF e \in S THEN NewEnvelope(FALSE) ELSE doc[e]
      /\ \A e \in Events : token'[e] = IF e \in S THEN None ELSE token[e]
    BY DEF Erase
<1>4. doc' \in [Events -> Envelope]
    BY <1>1 DEF Erase, TypeOK
<1>5. token' \in [Events -> Callers \union {None}]
    BY DEF Erase, TypeOK
<1> QED
    BY <1>2, <1>3, <1>4, <1>5

\* The first state is typed.
LEMMA TypeInit == Init => TypeOK
<1> SUFFICES ASSUME Init PROVE TypeOK
    OBVIOUS
<1>1. NewEnvelope(FALSE) \in Envelope
    BY EnvelopeType
<1>2. doc \in [Events -> Envelope] /\ call \in [Callers -> Calls]
    BY <1>1, IdleType DEF Init
<1>3. op \in [Operators -> Ops]
    BY DEF Init, Ops
<1>4. faults \in 0 .. MaxFaults
    BY BusAssumption DEF Init
<1> QED
    BY <1>2, <1>3, <1>4 DEF Init, TypeOK

\* The source: publishing, stopping and starting.
LEMMA TypeSource ==
  ASSUME TypeOK,
         \/ \E e \in Events : PublishRead(e) \/ Publish(e) \/ Reap(e) \/ Remove(e)
         \/ \E o \in Operators : SetBucketStopped(o)
  PROVE  TypeOK'
<1>1. ASSUME NEW e \in Events, PublishRead(e)
      PROVE  TypeOK'
    BY <1>1 DEF TypeOK, PublishRead
<1>2. ASSUME NEW e \in Events, Publish(e)
      PROVE  TypeOK'
  <2>1. doc' \in [Events -> Envelope]
      BY <1>2, EnvelopeType, DocStep DEF Publish
  <2> QED
      BY <1>2, <2>1 DEF TypeOK, Publish
<1>3. ASSUME NEW e \in Events, Reap(e)
      PROVE  TypeOK'
  <2>1. doc' \in [Events -> Envelope]
    <3>1. doc[e] \in Envelope
        BY DEF TypeOK
    <3>2. doc' = [doc EXCEPT ![e] = Requeued(doc[e])]
        BY <1>3 DEF Reap
    <3> QED
        BY <3>1, <3>2, EnvelopeType, DocStep
  <2> QED
      BY <1>3, <2>1 DEF TypeOK, Reap
<1>4. ASSUME NEW e \in Events, Remove(e)
      PROVE  TypeOK'
  <2>1. Erase({e})
      BY <1>4 DEF Remove
  <2>2. /\ stored' \in SUBSET Events /\ doc' \in [Events -> Envelope]
        /\ token' \in [Events -> Callers \union {None}]
    <3>1. stored \in SUBSET Events
        BY DEF TypeOK
    <3> QED
        BY <2>1, <3>1, EraseEffect
  <2> QED
      BY <1>4, <2>2 DEF TypeOK, Remove
<1>5. ASSUME NEW o \in Operators, StopFlag(o) \/ StartFlag(o) \/ OperatorFails(o) \/ ReleaseFind(o)
      PROVE  TypeOK'
  <2>1. Held \subseteq Events
      BY DEF Held, TypeOK
  <2>2. /\ [pc |-> "hold", ids |-> {}] \in Ops
        /\ [pc |-> "release", ids |-> {}] \in Ops
        /\ [pc |-> "failed", ids |-> {}] \in Ops
        /\ [pc |-> IF Held = {} THEN "idle" ELSE "put", ids |-> Held] \in Ops
      BY <2>1 DEF Ops
  <2>3. op' \in [Operators -> Ops]
      BY <1>5, <2>2 DEF TypeOK, StopFlag, StartFlag, OperatorFails, ReleaseFind
  <2>4. stopped' \in BOOLEAN
      BY <1>5 DEF TypeOK, StopFlag, StartFlag, OperatorFails, ReleaseFind
  <2>5. faults' \in 0 .. MaxFaults
      BY <1>5, BusAssumption DEF TypeOK, StopFlag, StartFlag, OperatorFails, ReleaseFind
  <2> QED
      BY <1>5, <2>3, <2>4, <2>5 DEF TypeOK, StopFlag, StartFlag, OperatorFails, ReleaseFind
<1>6. ASSUME NEW o \in Operators, HoldDeliveries(o)
      PROVE  TypeOK'
  <2>1. doc' \in [Events -> Envelope]
      BY <1>6, EnvelopeType DEF TypeOK, HoldDeliveries
  <2> QED
      BY <1>6, <2>1 DEF TypeOK, HoldDeliveries, Ops
<1>7. ASSUME NEW o \in Operators, NEW e \in Events, ReleaseHeld(o, e)
      PROVE  TypeOK'
  <2>1. doc' \in [Events -> Envelope]
      BY <1>7, EnvelopeType, DocStep DEF TypeOK, ReleaseHeld
  <2>2. op' \in [Operators -> Ops]
      BY <1>7 DEF TypeOK, ReleaseHeld, Ops
  <2> QED
      BY <1>7, <2>1, <2>2 DEF TypeOK, ReleaseHeld
<1> QED
    BY <1>1, <1>2, <1>3, <1>4, <1>5, <1>6, <1>7 DEF SetBucketStopped

\* Claiming.
LEMMA TypeClaim ==
  ASSUME TypeOK, NEW k \in Callers, ClaimStep(k)
  PROVE  TypeOK'
<1>0. call[k] \in Calls
    BY DEF TypeOK
<1>1. ASSUME Find(k)
      PROVE  TypeOK'
  <2>1. PICK ids \in SUBSET Waiting(k) :
           call' = [call EXCEPT ![k] = [Idle EXCEPT !.pc = "claim", !.ids = ids]]
      BY <1>1 DEF Find
  <2>2. ids \subseteq Events
      BY DEF Waiting, TypeOK
  <2>3. [Idle EXCEPT !.pc = "claim", !.ids = ids] \in Calls
      BY <2>2, IdleType DEF Calls
  <2>4. call' \in [Callers -> Calls]
      BY <2>1, <2>3, CallStep
  <2> QED
      BY <1>1, <2>4 DEF TypeOK, Find
<1>2. ASSUME NEW e \in Events, Claim(k, e)
      PROVE  TypeOK'
  <2>1. call' \in [Callers -> Calls]
      BY <1>0, <1>2 DEF TypeOK, Claim, Calls
  <2>2. call[k].age \in 0 .. Visibility
      BY <1>0 DEF Calls
  <2>3. doc' \in [Events -> Envelope]
      BY <1>2, <2>2, EnvelopeType, DocStep DEF TypeOK, Claim
  <2>4. token' \in [Events -> Callers \union {None}]
      BY <1>2 DEF TypeOK, Claim
  <2> QED
      BY <1>2, <2>1, <2>3, <2>4 DEF TypeOK, Claim
<1>3. ASSUME ReadBack(k)
      PROVE  TypeOK'
  <2> DEFINE age == IF k \in Consumers THEN call[k].age ELSE 0
             last == {e \in Mine(k) : doc[e].attempts >= MaxAttempts}
             c == [call[k] EXCEPT !.pc = "handle", !.todo = Mine(k), !.age = age, !.last = last]
  <2>1. Mine(k) \subseteq Events /\ last \subseteq Events
      BY DEF Mine, TypeOK
  <2>2. age \in 0 .. Visibility
      BY <1>0, BusAssumption DEF Calls
  <2>3. \/ call' = [call EXCEPT ![k] = Idle]
        \/ call' = [call EXCEPT ![k] = c]
    <3>1. CASE Mine(k) = {}
        BY <1>3, <3>1 DEF ReadBack
    <3>2. CASE Mine(k) # {}
        BY <1>3, <3>2, Zenon DEF ReadBack
    <3> QED
        BY <3>1, <3>2
  <2> HIDE DEF age, last
  <2>4. c \in Calls
      BY <1>0, <2>1, <2>2 DEF Calls
  <2> HIDE DEF c
  <2>5. call' \in [Callers -> Calls]
      BY <2>3, <2>4, IdleType, CallStep
  <2> QED
      BY <1>3, <2>5 DEF TypeOK, ReadBack
<1> QED
    BY <1>1, <1>2, <1>3 DEF ClaimStep

\* Handling, settling, acknowledging and failing.
LEMMA TypeSettle ==
  ASSUME TypeOK, NEW k \in Callers,
         SettleStep(k) \/ DlqFails(k) \/ CallDies(k) \/ Forget(k) \/ \E e \in Events : AckEvent(k, e)
  PROVE  TypeOK'
<1>0. call[k] \in Calls
    BY DEF TypeOK
<1>1. ASSUME NEW e \in Events, HandlerSucceeds(k, e)
      PROVE  TypeOK'
  <2> DEFINE c == [call[k] EXCEPT !.todo = @ \ {e}, !.acked = @ \union {e}]
  <2>1. c \in Calls
      BY <1>0 DEF Calls
  <2>2. call' = [call EXCEPT ![k] = c]
      BY <1>0, <1>1 DEF TypeOK, HandlerSucceeds, Calls
  <2> HIDE DEF c
  <2>3. call' \in [Callers -> Calls]
      BY <2>1, <2>2, CallStep
  <2> QED
      BY <1>1, <2>3 DEF TypeOK, HandlerSucceeds
<1>2. ASSUME NEW e \in Events, HandlerFails(k, e)
      PROVE  TypeOK'
  <2> DEFINE c == [call[k] EXCEPT !.todo = @ \ {e}, !.requeue = @ \union {e}]
  <2>1. c \in Calls
      BY <1>0 DEF Calls
  <2>2. call' = [call EXCEPT ![k] = c]
      BY <1>0, <1>2 DEF TypeOK, HandlerFails, Calls
  <2> HIDE DEF c
  <2>3. call' \in [Callers -> Calls]
      BY <2>1, <2>2, CallStep
  <2> QED
      BY <1>2, <2>3 DEF TypeOK, HandlerFails
<1>3. ASSUME NEW e \in Events, DlqInsert(k, e)
      PROVE  TypeOK'
  <2> DEFINE c == [call[k] EXCEPT !.todo = @ \ {e},
                                      !.pc = IF e \in dlq THEN "handle" ELSE "move",
                                      !.moving = IF e \in dlq THEN None ELSE e]
  <2>1. c \in Calls
      BY <1>0 DEF Calls
  <2>2. call' = [call EXCEPT ![k] = c]
      BY <1>0, <1>3 DEF TypeOK, DlqInsert, Calls
  <2> HIDE DEF c
  <2>3. call' \in [Callers -> Calls]
      BY <2>1, <2>2, CallStep
  <2> QED
      BY <1>3, <2>3 DEF TypeOK, DlqInsert
<1>4. ASSUME DlqDelete(k) \/ DlqFails(k) \/ SettleAcked(k)
      PROVE  TypeOK'
  <2>1. /\ call' \in [Callers -> Calls]
        /\ UNCHANGED <<kind, dlq, op, stopped, pub, stale, handled, dropped>>
        /\ faults' \in 0 .. MaxFaults
      BY <1>0, <1>4, BusAssumption DEF TypeOK, DlqDelete, DlqFails, SettleAcked, Calls
  <2>2. /\ stored' \in SUBSET Events /\ doc' \in [Events -> Envelope]
        /\ token' \in [Events -> Callers \union {None}]
    <3>1. CASE Erase({call[k].moving}) \/ Erase(call[k].acked)
      <4>1. stored \in SUBSET Events
          BY DEF TypeOK
      <4> QED
          BY <3>1, <4>1, EraseEffect
    <3>2. CASE UNCHANGED <<stored, doc, token>>
        BY <3>2 DEF TypeOK
    <3> QED
        BY <1>4, <3>1, <3>2 DEF DlqDelete, DlqFails, SettleAcked
  <2> QED
      BY <2>1, <2>2 DEF TypeOK
<1>5. ASSUME SettleRequeue(k)
      PROVE  TypeOK'
  <2>1. doc' \in [Events -> Envelope]
      BY <1>5, EnvelopeType DEF TypeOK, SettleRequeue
  <2>2. call' \in [Callers -> Calls]
      BY <1>5, IdleType, CallStep DEF SettleRequeue
  <2> QED
      BY <1>5, <2>1, <2>2 DEF TypeOK, SettleRequeue
<1>6. ASSUME CallDies(k) \/ Forget(k)
      PROVE  TypeOK'
  <2>1. call' \in [Callers -> Calls]
      BY <1>6, IdleType, CallStep DEF CallDies, Forget
  <2> QED
      BY <1>6, <2>1, BusAssumption DEF TypeOK, CallDies, Forget
<1>7. ASSUME NEW e \in Events, AckEvent(k, e)
      PROVE  TypeOK'
  <2> DEFINE c == [call[k] EXCEPT !.todo = @ \ {e}]
  <2>1. c \in Calls
      BY <1>0 DEF Calls
  <2>2. \/ call' = [call EXCEPT ![k] = Idle]
        \/ call' = [call EXCEPT ![k] = c]
    <3>1. CASE call[k].todo = {e}
        BY <1>7, <3>1 DEF AckEvent
    <3>2. CASE call[k].todo # {e}
        BY <1>7, <3>2, Zenon DEF AckEvent
    <3> QED
        BY <3>1, <3>2
  <2> HIDE DEF c
  <2>3. call' \in [Callers -> Calls]
      BY <2>1, <2>2, IdleType, CallStep
  <2>4. Erase({e})
      BY <1>7 DEF AckEvent
  <2>5. /\ stored' \in SUBSET Events /\ doc' \in [Events -> Envelope]
        /\ token' \in [Events -> Callers \union {None}]
    <3>1. stored \in SUBSET Events
        BY DEF TypeOK
    <3> QED
        BY <2>4, <3>1, EraseEffect
  <2> QED
      BY <1>7, <2>3, <2>5 DEF TypeOK, AckEvent
<1> QED
    BY <1>1, <1>2, <1>3, <1>4, <1>5, <1>6, <1>7 DEF SettleStep

\* Time keeps the types: ages and leases saturate.
LEMMA TypeTick == ASSUME TypeOK, Tick PROVE TypeOK'
<1>1. doc' \in [Events -> Envelope]
    BY EnvelopeType DEF TypeOK, Tick
<1>2. \A k \in Callers : [call[k] EXCEPT !.age = Older(@)] \in Calls
  <2> TAKE k \in Callers
  <2>1. call[k] \in Calls /\ call[k].age \in 0 .. Visibility
      BY DEF TypeOK, Calls
  <2>2. Older(call[k].age) \in 0 .. Visibility
      BY <2>1, BusAssumption DEF Older
  <2> QED
      BY <2>1, <2>2 DEF Calls
<1>3. call' \in [Callers -> Calls]
    BY <1>2 DEF TypeOK, Tick
<1> QED
    BY <1>1, <1>3 DEF TypeOK, Tick

\* A step is one of the source's, of a claim, of a settlement, or of time.
LEMMA Steps ==
  ASSUME Next
  PROVE  \/ \E e \in Events : PublishRead(e) \/ Publish(e) \/ Reap(e) \/ Remove(e)
         \/ \E o \in Operators : SetBucketStopped(o)
         \/ \E k \in Callers : ClaimStep(k)
         \/ \E k \in Callers :
              \/ SettleStep(k) \/ DlqFails(k) \/ CallDies(k) \/ Forget(k)
              \/ \E e \in Events : AckEvent(k, e)
         \/ Tick
BY DEF Next, PollOnce, ConsumerStep, Callers

\* Every step keeps the types.
LEMMA TypeStep == TypeOK /\ [Next]_vars => TypeOK'
<1> SUFFICES ASSUME TypeOK, [Next]_vars PROVE TypeOK'
    OBVIOUS
<1>1. CASE Next
    BY <1>1, Steps, TypeSource, TypeClaim, TypeSettle, TypeTick
<1>2. CASE UNCHANGED vars
    BY <1>2 DEF vars, TypeOK
<1> QED
    BY <1>1, <1>2

\* Every document, call and operation of the bus keeps its type.
THEOREM TypeCorrect == Spec => []TypeOK
BY TypeInit, TypeStep, PTL DEF Spec

-----------------------------------------------------------------------------
\* The mailbox

\* What a call holds was published; what it will delete has been processed, or
\* has its copy in the dead letter collection.
CallBacked(c) ==
  /\ \A e \in c.todo : pub[e] = "done"
  /\ c.acked \subseteq handled
  /\ c.pc = "move" => c.moving \in dlq

Backed ==
  /\ \A e \in stored : pub[e] = "done"
  /\ \A k \in Callers : CallBacked(call[k])

BoxInv == TypeOK /\ Backed

\* The invariant of the mailbox holds at first: no call has begun.
LEMMA BoxInit == Init => BoxInv
BY TypeInit DEF BoxInv, Init, Backed, CallBacked, Idle

\* One call goes on and stays backed; what backs the others only grows.
LEMMA BackedStep ==
  ASSUME BoxInv, NEW k \in Callers, NEW c \in Calls, call' = [call EXCEPT ![k] = c],
         stored' \subseteq stored, pub' = pub, handled \subseteq handled', dlq \subseteq dlq',
         CallBacked(c)'
  PROVE  Backed'
<1>1. \A j \in Callers : j # k => CallBacked(call[j])'
    BY DEF BoxInv, TypeOK, Backed, CallBacked
<1>2. call'[k] = c
    BY DEF BoxInv, TypeOK
<1>3. CallBacked(call[k])'
    BY <1>2 DEF CallBacked
<1> QED
    BY <1>1, <1>3 DEF BoxInv, Backed

\* Publishing, reaping, removing and the bucket's calls take no call's backing away.
LEMMA BackedSource ==
  ASSUME BoxInv,
         \/ \E e \in Events : PublishRead(e) \/ Publish(e) \/ Reap(e) \/ Remove(e)
         \/ \E o \in Operators : SetBucketStopped(o)
         \/ Tick
         \/ UNCHANGED vars
  PROVE  Backed'
<1>1. \/ /\ stored' \subseteq stored
         /\ \A e \in Events : pub[e] = "done" => pub'[e] = "done"
      \/ \E e \in Events : Publish(e)
    BY DEF PublishRead, Reap, Remove, SetBucketStopped, StopFlag, HoldDeliveries, StartFlag,
           ReleaseFind, ReleaseHeld, OperatorFails, Tick, BoxInv, TypeOK, vars, Erase
<1>2. \A e \in Events : pub[e] = "done" => pub'[e] = "done"
    BY <1>1 DEF Publish, BoxInv, TypeOK
<1>3. \A e \in stored' : pub'[e] = "done"
    BY <1>1, <1>2 DEF Publish, BoxInv, TypeOK, Backed
<1>4. handled' = handled /\ dlq' = dlq
    BY DEF PublishRead, Publish, Reap, Remove, SetBucketStopped, StopFlag, HoldDeliveries,
           StartFlag, ReleaseFind, ReleaseHeld, OperatorFails, Tick, vars
<1>5. ASSUME NEW k \in Callers
      PROVE  CallBacked(call[k])'
  <2>1. /\ call'[k].todo = call[k].todo /\ call'[k].acked = call[k].acked
        /\ call'[k].pc = call[k].pc /\ call'[k].moving = call[k].moving
    <3>1. CASE Tick
      <4>1. call[k] \in Calls
          BY DEF BoxInv, TypeOK
      <4>2. \/ call'[k] = call[k]
            \/ call'[k] = [call[k] EXCEPT !.age = Older(call[k].age)]
          BY <3>1 DEF Tick
      <4> QED
          BY <4>1, <4>2 DEF Calls
    <3>2. CASE ~Tick
        BY <3>2 DEF PublishRead, Publish, Reap, Remove, SetBucketStopped, StopFlag,
           HoldDeliveries, StartFlag, ReleaseFind, ReleaseHeld, OperatorFails, vars
    <3> QED
        BY <3>1, <3>2
  <2>2. call[k].todo \subseteq Events
      BY DEF BoxInv, TypeOK, Calls
  <2> QED
      BY <1>2, <1>4, <2>1, <2>2 DEF BoxInv, Backed, CallBacked
<1> QED
    BY <1>3, <1>5 DEF Backed

\* Finding, claiming and reading back put published envelopes into a call.
LEMMA BackedClaim ==
  ASSUME BoxInv, NEW k \in Callers, ClaimStep(k)
  PROVE  Backed'
<1>0. call[k] \in Calls /\ CallBacked(call[k])
    BY DEF BoxInv, TypeOK, Backed
<1>1. stored' = stored /\ pub' = pub /\ handled' = handled /\ dlq' = dlq
    BY DEF ClaimStep, Find, Claim, ReadBack
<1>2. \E c \in Calls :
        /\ call' = [call EXCEPT ![k] = c]
        /\ c.todo \subseteq stored \union call[k].todo
        /\ c.acked \subseteq call[k].acked
        /\ c.pc # "move"
  <2>1. CASE Find(k)
    <3>1. PICK ids \in SUBSET Waiting(k) :
             call' = [call EXCEPT ![k] = [Idle EXCEPT !.pc = "claim", !.ids = ids]]
        BY <2>1 DEF Find
    <3>2. ids \subseteq Events
        BY DEF Waiting, BoxInv, TypeOK
    <3>3. [Idle EXCEPT !.pc = "claim", !.ids = ids] \in Calls
        BY <3>2, IdleType DEF Calls
    <3> QED
        BY <3>1, <3>3 DEF Idle
  <2>2. CASE \E e \in Events : Claim(k, e)
    <3>1. PICK e \in Events : Claim(k, e)
        BY <2>2
    <3> DEFINE c == [call[k] EXCEPT !.ids = @ \ {e}]
    <3>2. c \in Calls /\ c.todo = call[k].todo /\ c.acked = call[k].acked /\ c.pc = "claim"
        BY <1>0, <3>1 DEF Calls, Claim
    <3>3. call' = [call EXCEPT ![k] = c]
        BY <3>1 DEF Claim
    <3> QED
        BY <3>2, <3>3
  <2>3. CASE ReadBack(k)
    <3> DEFINE last == {e \in Mine(k) : doc[e].attempts >= MaxAttempts}
               age == IF k \in Consumers THEN call[k].age ELSE 0
               c == [call[k] EXCEPT !.pc = "handle", !.todo = Mine(k), !.age = age, !.last = last]
    <3>1. call' = [call EXCEPT ![k] = IF Mine(k) = {} THEN Idle ELSE c]
        BY <2>3 DEF ReadBack
    <3>2. Mine(k) \subseteq stored /\ Mine(k) \subseteq Events /\ last \subseteq Events
        BY DEF Mine, BoxInv, TypeOK
    <3>3. age \in 0 .. Visibility
        BY <1>0, BusAssumption DEF Calls
    <3> HIDE DEF last, age
    <3>4. c \in Calls /\ c.todo = Mine(k) /\ c.acked = call[k].acked /\ c.pc = "handle"
        BY <1>0, <3>2, <3>3 DEF Calls
    <3>5. Idle \in Calls /\ Idle.todo = {} /\ Idle.acked = {} /\ Idle.pc = "idle"
        BY IdleType DEF Idle
    <3> HIDE DEF c
    <3> QED
        BY <3>1, <3>2, <3>4, <3>5
  <2> QED
      BY <2>1, <2>2, <2>3 DEF ClaimStep
<1>3. PICK c \in Calls :
        /\ call' = [call EXCEPT ![k] = c]
        /\ c.todo \subseteq stored \union call[k].todo
        /\ c.acked \subseteq call[k].acked
        /\ c.pc # "move"
    BY <1>2
<1>4. CallBacked(c)'
    BY <1>0, <1>1, <1>3 DEF CallBacked, BoxInv, Backed
<1> QED
    BY <1>1, <1>3, <1>4, BackedStep

\* Handling and settling move an envelope on only with what backs it.
LEMMA BackedSettle ==
  ASSUME BoxInv, NEW k \in Callers,
         SettleStep(k) \/ DlqFails(k) \/ CallDies(k) \/ Forget(k) \/ \E e \in Events : AckEvent(k, e)
  PROVE  Backed'
<1>0. call[k] \in Calls /\ CallBacked(call[k])
    BY DEF BoxInv, TypeOK, Backed
<1>1. stored' \subseteq stored /\ pub' = pub /\ handled \subseteq handled' /\ dlq \subseteq dlq'
    BY DEF SettleStep, HandlerSucceeds, HandlerFails, DlqInsert, DlqDelete, SettleAcked,
           SettleRequeue, DlqFails, CallDies, Forget, AckEvent, Erase
<1>2. Idle \in Calls /\ CallBacked(Idle)'
    BY IdleType DEF Idle, CallBacked
<1>3. CASE call' = [call EXCEPT ![k] = Idle]
    BY <1>1, <1>2, <1>3, BackedStep
<1>4. ASSUME NEW e \in Events, HandlerSucceeds(k, e)
      PROVE  Backed'
  <2> DEFINE x == [call[k] EXCEPT !.todo = @ \ {e}, !.acked = @ \union {e}]
  <2>1. /\ x \in Calls /\ x.pc = "handle" /\ x.todo \subseteq call[k].todo
        /\ x.acked = call[k].acked \union {e}
      BY <1>0, <1>4 DEF Calls, HandlerSucceeds
  <2>2. call' = [call EXCEPT ![k] = x] /\ handled' = handled \union {e}
      BY <1>0, <1>4 DEF HandlerSucceeds, BoxInv, TypeOK, Calls
  <2>p. PICK c \in Calls : c = x
      BY <2>1
  <2> HIDE DEF x
  <2>3. CallBacked(c)'
      BY <2>p, <1>0, <1>1, <2>1, <2>2 DEF CallBacked
  <2> QED
      BY <2>p, <1>1, <2>1, <2>2, <2>3, BackedStep
<1>5. ASSUME NEW e \in Events, HandlerFails(k, e)
      PROVE  Backed'
  <2> DEFINE x == [call[k] EXCEPT !.todo = @ \ {e}, !.requeue = @ \union {e}]
  <2>1. x \in Calls /\ x.pc = "handle" /\ x.todo \subseteq call[k].todo /\ x.acked = call[k].acked
      BY <1>0, <1>5 DEF Calls, HandlerFails
  <2>2. call' = [call EXCEPT ![k] = x]
      BY <1>0, <1>5 DEF HandlerFails, BoxInv, TypeOK, Calls
  <2>p. PICK c \in Calls : c = x
      BY <2>1
  <2> HIDE DEF x
  <2>3. CallBacked(c)'
      BY <2>p, <1>0, <1>1, <2>1 DEF CallBacked
  <2> QED
      BY <2>p, <1>1, <2>1, <2>2, <2>3, BackedStep
<1>6. ASSUME NEW e \in Events, DlqInsert(k, e)
      PROVE  Backed'
  <2> DEFINE pc == IF e \in dlq THEN "handle" ELSE "move"
             moving == IF e \in dlq THEN None ELSE e
             x == [call[k] EXCEPT !.todo = @ \ {e}, !.pc = pc, !.moving = moving]
  <2>1. call' = [call EXCEPT ![k] = x] /\ dlq' = dlq \union {e}
      BY <1>0, <1>6 DEF DlqInsert, BoxInv, TypeOK, Calls
  <2>2. pc \in {"handle", "move"} /\ moving \in Events \union {None}
      OBVIOUS
  <2>3. pc = "move" => moving = e
      OBVIOUS
  <2> HIDE DEF pc, moving
  <2>4. /\ x \in Calls /\ x.pc = pc /\ x.moving = moving /\ x.todo \subseteq call[k].todo
        /\ x.acked = call[k].acked
      BY <1>0, <2>2 DEF Calls
  <2>p. PICK c \in Calls : c = x
      BY <2>4
  <2> HIDE DEF x
  <2>5. CallBacked(c)'
      BY <2>p, <1>0, <1>1, <2>1, <2>3, <2>4 DEF CallBacked
  <2> QED
      BY <2>p, <1>1, <2>1, <2>4, <2>5, BackedStep
<1>7. ASSUME DlqDelete(k) \/ DlqFails(k) \/ SettleAcked(k)
      PROVE  Backed'
  <2>1. \E c \in Calls :
          /\ call' = [call EXCEPT ![k] = c]
          /\ c.todo = call[k].todo /\ c.acked = call[k].acked /\ c.pc # "move"
    <3>1. /\ [call[k] EXCEPT !.pc = "handle", !.moving = None] \in Calls
          /\ [call[k] EXCEPT !.pc = "settle"] \in Calls
        BY <1>0 DEF Calls
    <3>2. \/ call' = [call EXCEPT ![k] = [call[k] EXCEPT !.pc = "handle", !.moving = None]]
          \/ call' = [call EXCEPT ![k] = [call[k] EXCEPT !.pc = "settle"]]
        BY <1>0, <1>7 DEF DlqDelete, DlqFails, SettleAcked, BoxInv, TypeOK, Calls
    <3> QED
        BY <1>0, <3>1, <3>2 DEF Calls
  <2>2. PICK c \in Calls :
          /\ call' = [call EXCEPT ![k] = c]
          /\ c.todo = call[k].todo /\ c.acked = call[k].acked /\ c.pc # "move"
      BY <2>1
  <2>3. CallBacked(c)'
      BY <1>0, <1>1, <2>2 DEF CallBacked
  <2> QED
      BY <1>1, <2>2, <2>3, BackedStep
<1>8. ASSUME NEW e \in Events, AckEvent(k, e)
      PROVE  Backed'
  <2> DEFINE x == [call[k] EXCEPT !.todo = call[k].todo \ {e}]
  <2>1. CASE call[k].todo = {e}
      BY <1>3, <1>8, <2>1 DEF AckEvent
  <2>2. CASE call[k].todo # {e}
    <3>1. call' = [call EXCEPT ![k] = x]
        BY <1>8, <2>2 DEF AckEvent
    <3>2. x \in Calls /\ x.pc = "handle" /\ x.todo \subseteq call[k].todo /\ x.acked = call[k].acked
        BY <1>0, <1>8 DEF Calls, AckEvent
      <3>p. PICK c \in Calls : c = x
        BY <3>2
    <3> HIDE DEF x
    <3>3. CallBacked(c)'
        BY <3>p, <1>0, <1>1, <3>2 DEF CallBacked
    <3> QED
        BY <3>p, <1>1, <3>1, <3>2, <3>3, BackedStep
  <2> QED
      BY <2>1, <2>2
<1>9. CASE SettleRequeue(k) \/ CallDies(k) \/ Forget(k)
    BY <1>3, <1>9 DEF SettleRequeue, CallDies, Forget
<1> QED
    BY <1>4, <1>5, <1>6, <1>7, <1>8, <1>9 DEF SettleStep

\* Every step keeps the invariant of the mailbox.
LEMMA BoxStep == BoxInv /\ [Next]_vars => BoxInv'
<1> SUFFICES ASSUME BoxInv, [Next]_vars PROVE BoxInv'
    OBVIOUS
<1>1. TypeOK'
    BY TypeStep DEF BoxInv
<1>2. Backed'
    BY Steps, BackedSource, BackedClaim, BackedSettle
<1> QED
    BY <1>1, <1>2 DEF BoxInv

Sent == {e \in Events : pub[e] = "done"}

\* Every step of the bus is a step of the mailbox or leaves it as it is.
LEMMA MailboxStep == BoxInv /\ [Next]_vars => [Box!Next]_(Box!box)
<1> SUFFICES ASSUME BoxInv, [Next]_vars PROVE [Box!Next]_(Box!box)
    OBVIOUS
<1> DEFINE Same == /\ Sent' = Sent /\ stored' = stored /\ handled' = handled
                   /\ dlq' = dlq /\ dropped' = dropped
<1>0. Same => UNCHANGED Box!box
    BY DEF Box!box, Sent
<1>1. ASSUME NEW e \in Events, Publish(e)
      PROVE  Box!Put(e)
  <2>1. e \notin Sent /\ Sent' = Sent \union {e}
      BY <1>1 DEF Publish, Sent, BoxInv, TypeOK
  <2> QED
      BY <1>1, <2>1 DEF Publish, Box!Put, Sent
<1>2. ASSUME NEW e \in Events, PublishRead(e)
      PROVE  Same
  <2>1. Sent' = Sent
      BY <1>2 DEF PublishRead, Sent, BoxInv, TypeOK
  <2> QED
      BY <1>2, <2>1 DEF PublishRead
<1>3. ASSUME NEW e \in Events, Remove(e)
      PROVE  Box!Drop(e)
    BY <1>3 DEF Remove, Erase, Box!Drop
<1>4. ASSUME NEW k \in Callers, NEW e \in Events, HandlerSucceeds(k, e) \/ AckEvent(k, e)
      PROVE  Box!Handle(e)
  <2>1. e \in call[k].todo /\ CallBacked(call[k])
      BY <1>4 DEF HandlerSucceeds, AckEvent, BoxInv, Backed
  <2>2. pub[e] = "done"
      BY <2>1 DEF CallBacked
  <2> QED
      BY <1>4, <2>2 DEF HandlerSucceeds, AckEvent, Erase, Box!Handle
<1>5. ASSUME NEW k \in Callers, NEW e \in Events, DlqInsert(k, e)
      PROVE  Box!Bury(e)
  <2>1. e \in call[k].todo /\ CallBacked(call[k])
      BY <1>5 DEF DlqInsert, BoxInv, Backed
  <2>2. pub[e] = "done"
      BY <2>1 DEF CallBacked
  <2> QED
      BY <1>5, <2>2 DEF DlqInsert, Box!Bury
<1>6. ASSUME NEW k \in Callers, SettleAcked(k)
      PROVE  \E es \in SUBSET Events : Box!TakeOut(es)
  <2>1. call[k].acked \subseteq handled /\ call[k].acked \in SUBSET Events
      BY DEF BoxInv, Backed, CallBacked, TypeOK, Calls
  <2>2. Box!TakeOut(call[k].acked)
      BY <1>6, <2>1 DEF SettleAcked, Erase, Box!TakeOut
  <2> QED
      BY <2>1, <2>2
<1>7. ASSUME NEW k \in Callers, DlqDelete(k)
      PROVE  \E es \in SUBSET Events : Box!TakeOut(es)
  <2>1. call[k].moving \in dlq /\ dlq \subseteq Events
      BY <1>7 DEF DlqDelete, BoxInv, Backed, CallBacked, TypeOK
  <2>2. Box!TakeOut({call[k].moving})
      BY <1>7, <2>1 DEF DlqDelete, Erase, Box!TakeOut
  <2> QED
      BY <2>1, <2>2
<1>8. ASSUME \/ \E e \in Events : Reap(e)
             \/ \E o \in Operators : SetBucketStopped(o)
             \/ \E k \in Callers : ClaimStep(k)
             \/ Tick
             \/ UNCHANGED vars
      PROVE  Same
    BY <1>8 DEF Reap, SetBucketStopped, StopFlag, HoldDeliveries, StartFlag, ReleaseFind,
                ReleaseHeld, OperatorFails, ClaimStep, Find, Claim, ReadBack, Tick, vars, Sent
<1>9. ASSUME NEW k \in Callers,
             \/ \E e \in Events : HandlerFails(k, e)
             \/ SettleRequeue(k) \/ DlqFails(k) \/ CallDies(k) \/ Forget(k)
      PROVE  Same
    BY <1>9 DEF HandlerFails, SettleRequeue, DlqFails, CallDies, Forget, Sent
<1> HIDE DEF Same
<1>10. CASE UNCHANGED vars
    BY <1>0, <1>8, <1>10
<1>11. CASE Next
    BY <1>0, <1>1, <1>2, <1>3, <1>4, <1>5, <1>6, <1>7, <1>8, <1>9, <1>11, Steps
       DEF Box!Next, SettleStep
<1> QED
    BY <1>10, <1>11

\* The first state is an empty mailbox.
LEMMA MailboxInit == Init => Box!Init
BY DEF Init, Box!Init

\* The invariant of the mailbox always holds.
LEMMA BoxAlways == Spec => []BoxInv
BY BoxInit, BoxStep, PTL DEF Spec

\* The bus implements the mailbox: whatever calls overlap, fail, die or outlive
\* their leases, an envelope leaves internal_events only when it was processed,
\* dead lettered or removed on purpose, and never comes back.
THEOREM MailboxImplemented == Spec => IsMailbox
<1>1. IsMailbox <=> Box!Init /\ [][Box!Next]_(Box!box)
    BY DEF IsMailbox, Box!Spec
<1> QED
    BY <1>1, BoxAlways, MailboxInit, MailboxStep, PTL DEF Spec

\* A mailbox loses nothing.
LEMMA LossStep == NothingLost /\ [Box!Next]_(Box!box) => NothingLost'
<1> SUFFICES ASSUME NothingLost, [Box!Next]_(Box!box) PROVE NothingLost'
    OBVIOUS
<1>0. NothingLost <=> Sent \subseteq stored \union handled \union dlq \union dropped
    BY DEF NothingLost, Sent
<1>1. NothingLost' <=> Sent' \subseteq stored' \union handled' \union dlq' \union dropped'
    BY DEF NothingLost, Sent
<1>2. CASE UNCHANGED Box!box
  <2>1. /\ Sent' = Sent /\ stored' = stored /\ handled' = handled /\ dlq' = dlq
        /\ dropped' = dropped
      BY <1>2 DEF Box!box, Sent
  <2> QED
      BY <1>0, <1>1, <2>1
<1>3. ASSUME NEW e \in Events, Box!Put(e) \/ Box!Handle(e) \/ Box!Bury(e) \/ Box!Drop(e)
      PROVE  NothingLost'
  <2>1. /\ Sent' \subseteq Sent \union {e}
        /\ stored \subseteq stored' \union {e}
        /\ handled \subseteq handled' /\ dlq \subseteq dlq' /\ dropped \subseteq dropped'
        /\ e \in stored' \union handled' \union dlq' \union dropped'
      BY <1>3 DEF Box!Put, Box!Handle, Box!Bury, Box!Drop, Sent
  <2> QED
      BY <1>0, <1>1, <2>1
<1>4. ASSUME NEW es \in SUBSET Events, Box!TakeOut(es)
      PROVE  NothingLost'
  <2>1. /\ Sent' = Sent /\ handled' = handled /\ dlq' = dlq /\ dropped' = dropped
        /\ stored' = stored \ es /\ es \subseteq handled \union dlq
      BY <1>4 DEF Box!TakeOut, Sent
  <2> QED
      BY <1>0, <1>1, <2>1
<1> QED
    BY <1>2, <1>3, <1>4 DEF Box!Next

\* At-least-once delivery: an envelope that was stored is still there, or was
\* processed, or is dead lettered, or was removed on purpose.
THEOREM NothingIsLost == Spec => []NothingLost
<1>1. Init => NothingLost
    BY DEF Init, NothingLost
<1>2. BoxInv /\ NothingLost /\ [Next]_vars => NothingLost'
    BY MailboxStep, LossStep
<1> QED
    BY <1>1, <1>2, BoxAlways, PTL DEF Spec

-----------------------------------------------------------------------------
\* What the steps do to documents and calls

\* The fields of an envelope after it was published, released, requeued,
\* reaped, held, claimed or aged.
LEMMA EnvelopeFields ==
  /\ \A held \in BOOLEAN :
       /\ NewEnvelope(held).status = IF held THEN "HELD" ELSE "PENDING"
       /\ NewEnvelope(held).heldBy = held
  /\ \A d \in Envelope :
       /\ Released(d).status = "PENDING" /\ Released(d).attempts = d.attempts
       /\ Requeued(d).status = "PENDING" /\ Requeued(d).attempts = d.attempts
       /\ \A age \in 0 .. Visibility :
            /\ Claimed(d, age).status = "CLAIMED" /\ Claimed(d, age).attempts >= 1
            /\ Claimed(d, age).left = Visibility - age
<1>1. ASSUME NEW held \in BOOLEAN
      PROVE  /\ NewEnvelope(held).status = IF held THEN "HELD" ELSE "PENDING"
             /\ NewEnvelope(held).heldBy = held
    BY DEF NewEnvelope
<1>2. ASSUME NEW d \in Envelope
      PROVE  /\ Released(d).status = "PENDING" /\ Released(d).attempts = d.attempts
             /\ Requeued(d).status = "PENDING" /\ Requeued(d).attempts = d.attempts
    BY DEF Envelope, Released, Requeued
<1>3. ASSUME NEW d \in Envelope, NEW age \in 0 .. Visibility
      PROVE  /\ Claimed(d, age).status = "CLAIMED" /\ Claimed(d, age).attempts >= 1
             /\ Claimed(d, age).left = Visibility - age
  <2>1. d.attempts \in 0 .. MaxAttempts + 1
      BY DEF Envelope
  <2>2. More(d.attempts) >= 1
      BY <2>1, BusAssumption DEF More
  <2>3. /\ Claimed(d, age).status = "CLAIMED" /\ Claimed(d, age).attempts = More(d.attempts)
        /\ Claimed(d, age).left = Visibility - age
      BY DEF Claimed, Envelope
  <2> QED
      BY <2>2, <2>3
<1> QED
    BY <1>1, <1>2, <1>3

\* What a call does with the batch it has claimed.
Settling(k) ==
  \/ k \in Instances /\ (SettleStep(k) \/ DlqFails(k))
  \/ CallDies(k) \/ Forget(k)
  \/ \E e \in Events : AckEvent(k, e)

\* Whose step it is: only an instance settles, only a consumer acknowledges.
LEMMA StepsOfWhom ==
  ASSUME Next
  PROVE  \/ \E e \in Events : PublishRead(e) \/ Publish(e) \/ Reap(e) \/ Remove(e)
         \/ \E o \in Operators : SetBucketStopped(o)
         \/ \E k \in Callers : Find(k) \/ ReadBack(k) \/ \E e \in Events : Claim(k, e)
         \/ \E k \in Callers : Settling(k)
         \/ Tick
BY DEF Next, PollOnce, ConsumerStep, ClaimStep, Callers, Settling

\* A find begins a call with envelopes that wait.
LEMMA FindEffect ==
  ASSUME TypeOK, NEW k \in Callers, Find(k)
  PROVE  /\ \A j \in Callers : j # k => call'[j] = call[j]
         /\ call'[k].pc = "claim" /\ call'[k].age = 0 /\ call'[k].ids \subseteq Waiting(k)
         /\ call'[k].todo = {} /\ call'[k].requeue = {}
         /\ \A e \in Events : token'[e] = IF token[e] = k THEN None ELSE token[e]
<1>1. PICK ids \in SUBSET Waiting(k) :
         call' = [call EXCEPT ![k] = [Idle EXCEPT !.pc = "claim", !.ids = ids]]
    BY DEF Find
<1> DEFINE c == [Idle EXCEPT !.pc = "claim", !.ids = ids]
<1>2. c.pc = "claim" /\ c.age = 0 /\ c.ids = ids /\ c.todo = {} /\ c.requeue = {}
    BY DEF Idle
<1> HIDE DEF c
<1>3. call' = [call EXCEPT ![k] = c]
    BY <1>1 DEF c
<1>4. call'[k] = c /\ \A j \in Callers : j # k => call'[j] = call[j]
    BY <1>3 DEF TypeOK
<1> QED
    BY <1>2, <1>4 DEF Find

\* A claim puts the call's token on a document that still matches.
LEMMA ClaimEffect ==
  ASSUME TypeOK, NEW k \in Callers, NEW e \in Events, Claim(k, e)
  PROVE  /\ \A j \in Callers : j # k => call'[j] = call[j]
         /\ call[k].pc = "claim" /\ e \in call[k].ids
         /\ call'[k].pc = "claim" /\ call'[k].age = call[k].age
         /\ call'[k].ids = call[k].ids \ {e}
         /\ call'[k].todo = call[k].todo /\ call'[k].requeue = call[k].requeue
         /\ \A d \in Events : d # e => doc'[d] = doc[d] /\ token'[d] = token[d]
         /\ \/ doc' = doc /\ token' = token
            \/ /\ e \in stored /\ Claimable(k, e, call[k].age)
               /\ doc'[e].status = "CLAIMED" /\ doc'[e].attempts >= 1
               /\ doc'[e].left = Visibility - call[k].age /\ token'[e] = k
<1>0. call[k] \in Calls /\ doc[e] \in Envelope /\ call[k].pc = "claim" /\ e \in call[k].ids
    BY DEF TypeOK, Claim
<1> DEFINE c == [call[k] EXCEPT !.ids = call[k].ids \ {e}]
<1>1. /\ c.pc = "claim" /\ c.age = call[k].age /\ c.ids = call[k].ids \ {e}
      /\ c.todo = call[k].todo /\ c.requeue = call[k].requeue
    BY <1>0 DEF Calls
<1>2. call' = [call EXCEPT ![k] = c]
    BY DEF Claim
<1> HIDE DEF c
<1>3. call'[k] = c /\ \A j \in Callers : j # k => call'[j] = call[j]
    BY <1>2 DEF TypeOK
<1>4. call[k].age \in 0 .. Visibility
    BY <1>0 DEF Calls
<1>5. /\ \A d \in Events : d # e => doc'[d] = doc[d] /\ token'[d] = token[d]
      /\ \/ doc' = doc /\ token' = token
         \/ /\ e \in stored /\ Claimable(k, e, call[k].age)
            /\ doc'[e] = Claimed(doc[e], call[k].age) /\ token'[e] = k
    BY DEF Claim, TypeOK, ClaimMatches
<1> QED
    BY <1>0, <1>1, <1>3, <1>4, <1>5, EnvelopeFields

\* What is read back is what carries the call's token.
LEMMA ReadBackEffect ==
  ASSUME TypeOK, NEW k \in Callers, ReadBack(k)
  PROVE  /\ \A j \in Callers : j # k => call'[j] = call[j]
         /\ call[k].pc = "claim" /\ call'[k].ids = {}
         /\ \/ call'[k].pc = "idle" /\ call'[k].todo = {} /\ call'[k].requeue = {}
            \/ /\ call'[k].pc = "handle" /\ call'[k].todo = Mine(k)
               /\ call'[k].requeue = call[k].requeue
               /\ k \in Consumers => call'[k].age = call[k].age
<1>0. call[k] \in Calls /\ call[k].pc = "claim" /\ call[k].ids = {}
    BY DEF TypeOK, ReadBack
<1> DEFINE last == {e \in Mine(k) : doc[e].attempts >= MaxAttempts}
           age == IF k \in Consumers THEN call[k].age ELSE 0
           c == [call[k] EXCEPT !.pc = "handle", !.todo = Mine(k), !.age = age, !.last = last]
<1>1. call' = [call EXCEPT ![k] = IF Mine(k) = {} THEN Idle ELSE c]
    BY DEF ReadBack
<1>2. k \in Consumers => age = call[k].age
    OBVIOUS
<1> HIDE DEF last, age
<1>3. /\ c.pc = "handle" /\ c.ids = call[k].ids /\ c.todo = Mine(k) /\ c.age = age
      /\ c.requeue = call[k].requeue
    BY <1>0 DEF Calls
<1>4. Idle.pc = "idle" /\ Idle.ids = {} /\ Idle.todo = {} /\ Idle.requeue = {}
    BY DEF Idle
<1> HIDE DEF c
<1>5. /\ call'[k] = IF Mine(k) = {} THEN Idle ELSE c
      /\ \A j \in Callers : j # k => call'[j] = call[j]
    BY <1>1 DEF TypeOK
<1>6. CASE Mine(k) = {}
    BY <1>0, <1>4, <1>5, <1>6
<1>7. CASE Mine(k) # {}
    BY <1>0, <1>2, <1>3, <1>5, <1>7
<1> QED
    BY <1>6, <1>7

\* A call that handles, settles, ends or dies takes on nothing new.
LEMMA SettlingEffect ==
  ASSUME TypeOK, NEW k \in Callers, Settling(k)
  PROVE  /\ \A j \in Callers : j # k => call'[j] = call[j]
         /\ call'[k].ids \subseteq call[k].ids /\ call'[k].todo \subseteq call[k].todo
         /\ call'[k].requeue \subseteq call[k].requeue \union call[k].todo
         /\ k \in Consumers =>
              \/ call'[k].pc = "idle" /\ call'[k].todo = {}
              \/ call'[k].pc = call[k].pc /\ call'[k].age = call[k].age
         /\ \A e \in Events :
              \/ doc'[e] = doc[e] /\ token'[e] = token[e]
              \/ /\ e \in call[k].requeue /\ e \in stored
                 /\ doc'[e] = Requeued(doc[e]) /\ token'[e] = token[e]
              \/ e \notin stored' /\ doc'[e] = NewEnvelope(FALSE) /\ token'[e] = None
         /\ stored' \subseteq stored
<1>0. call[k] \in Calls
    BY DEF TypeOK
<1>d. /\ \A e \in Events :
           \/ doc'[e] = doc[e] /\ token'[e] = token[e]
           \/ /\ e \in call[k].requeue /\ e \in stored
              /\ doc'[e] = Requeued(doc[e]) /\ token'[e] = token[e]
           \/ e \notin stored' /\ doc'[e] = NewEnvelope(FALSE) /\ token'[e] = None
      /\ stored' \subseteq stored
  <2>1. CASE SettleRequeue(k)
      BY <2>1 DEF SettleRequeue
  <2>2. CASE UNCHANGED <<doc, token, stored>>
      BY <2>2
  <2>3. ASSUME NEW S, Erase(S)
        PROVE  /\ \A e \in Events :
                    \/ doc'[e] = doc[e] /\ token'[e] = token[e]
                    \/ e \notin stored' /\ doc'[e] = NewEnvelope(FALSE) /\ token'[e] = None
               /\ stored' \subseteq stored
      BY <2>3, EraseEffect
  <2>4. \/ SettleRequeue(k) \/ UNCHANGED <<doc, token, stored>>
        \/ Erase({call[k].moving}) \/ Erase(call[k].acked) \/ \E e \in Events : Erase({e})
      BY DEF Settling, SettleStep, HandlerSucceeds, HandlerFails, DlqInsert, DlqDelete, SettleAcked,
             DlqFails, CallDies, Forget, AckEvent
  <2>5. CASE Erase({call[k].moving}) \/ Erase(call[k].acked) \/ \E e \in Events : Erase({e})
      BY <2>3, <2>5
  <2> QED
      BY <2>1, <2>2, <2>4, <2>5
<1>1. ASSUME NEW c, call' = [call EXCEPT ![k] = c]
      PROVE  call'[k] = c /\ \A j \in Callers : j # k => call'[j] = call[j]
    BY <1>1 DEF TypeOK
<1>2. CASE call' = [call EXCEPT ![k] = Idle]
  <2>1. Idle.pc = "idle" /\ Idle.ids = {} /\ Idle.todo = {} /\ Idle.requeue = {}
      BY DEF Idle
  <2>2. call'[k] = Idle /\ \A j \in Callers : j # k => call'[j] = call[j]
      BY <1>2 DEF TypeOK
  <2> QED
      BY <1>d, <2>1, <2>2
<1>3. ASSUME NEW e \in Events, HandlerSucceeds(k, e) \/ HandlerFails(k, e) \/ DlqInsert(k, e)
      PROVE  /\ \A j \in Callers : j # k => call'[j] = call[j]
             /\ call'[k].ids = call[k].ids /\ call'[k].todo \subseteq call[k].todo
             /\ call'[k].requeue \subseteq call[k].requeue \union call[k].todo
  <2>1. CASE HandlerSucceeds(k, e)
      BY <1>0, <2>1 DEF HandlerSucceeds, TypeOK, Calls
  <2>2. CASE HandlerFails(k, e)
      BY <1>0, <2>2 DEF HandlerFails, TypeOK, Calls
  <2>3. CASE DlqInsert(k, e)
      BY <1>0, <2>3 DEF DlqInsert, TypeOK, Calls
  <2> QED
      BY <1>3, <2>1, <2>2, <2>3
<1>4. ASSUME k \in Instances, DlqDelete(k) \/ DlqFails(k) \/ SettleAcked(k)
      PROVE  /\ \A j \in Callers : j # k => call'[j] = call[j]
             /\ call'[k].ids = call[k].ids /\ call'[k].todo = call[k].todo
             /\ call'[k].requeue = call[k].requeue
    BY <1>0, <1>4 DEF DlqDelete, DlqFails, SettleAcked, TypeOK, Calls
<1>5. ASSUME NEW e \in Events, AckEvent(k, e), call[k].todo # {e}
      PROVE  /\ \A j \in Callers : j # k => call'[j] = call[j]
             /\ call'[k].ids = call[k].ids /\ call'[k].todo \subseteq call[k].todo
             /\ call'[k].requeue = call[k].requeue
             /\ call'[k].pc = call[k].pc /\ call'[k].age = call[k].age
  <2>1. call' = [call EXCEPT ![k] = [call[k] EXCEPT !.todo = call[k].todo \ {e}]]
      BY <1>5 DEF AckEvent
  <2> QED
      BY <1>0, <2>1 DEF TypeOK, Calls
<1>6. k \in Instances => k \notin Consumers
    BY BusAssumption
<1>7. ASSUME NEW e \in Events, AckEvent(k, e), call[k].todo = {e}
      PROVE  call' = [call EXCEPT ![k] = Idle]
    BY <1>7 DEF AckEvent
<1>8. CASE SettleRequeue(k) \/ CallDies(k) \/ Forget(k)
    BY <1>2, <1>8 DEF SettleRequeue, CallDies, Forget
<1>9. CASE k \in Instances /\ (SettleStep(k) \/ DlqFails(k))
    BY <1>3, <1>4, <1>6, <1>8, <1>9, <1>d DEF SettleStep
<1>10. CASE \E e \in Events : AckEvent(k, e)
    BY <1>2, <1>5, <1>7, <1>10, <1>d
<1> QED
    BY <1>8, <1>9, <1>10 DEF Settling

\* Time changes ages and what is left of leases, nothing else.
LEMMA AgeingEffect ==
  ASSUME TypeOK, Tick
  PROVE  /\ \A e \in Events :
              /\ doc'[e].status = doc[e].status /\ doc'[e].attempts = doc[e].attempts
              /\ doc'[e].heldBy = doc[e].heldBy
              /\ doc[e].status = "CLAIMED" => doc'[e].left = Later(doc[e].left)
         /\ \A k \in Callers :
              /\ call'[k].pc = call[k].pc /\ call'[k].ids = call[k].ids
              /\ call'[k].todo = call[k].todo /\ call'[k].requeue = call[k].requeue
              /\ k \in Consumers /\ call[k].pc # "idle" => call'[k].age = Older(call[k].age)
              /\ k \in Consumers /\ call[k].pc = "idle" => call'[k].age = call[k].age
<1>1. ASSUME NEW e \in Events
      PROVE  /\ doc'[e].status = doc[e].status /\ doc'[e].attempts = doc[e].attempts
             /\ doc'[e].heldBy = doc[e].heldBy
             /\ doc[e].status = "CLAIMED" => doc'[e].left = Later(doc[e].left)
    BY DEF TypeOK, Tick, Envelope
<1>2. ASSUME NEW k \in Callers
      PROVE  /\ call'[k].pc = call[k].pc /\ call'[k].ids = call[k].ids
             /\ call'[k].todo = call[k].todo /\ call'[k].requeue = call[k].requeue
             /\ k \in Consumers /\ call[k].pc # "idle" => call'[k].age = Older(call[k].age)
             /\ k \in Consumers /\ call[k].pc = "idle" => call'[k].age = call[k].age
  <2>1. call[k] \in Calls
      BY DEF TypeOK
  <2>2. call'[k] = IF call[k].pc = "claim" \/ (k \in Consumers /\ call[k].pc # "idle")
                     THEN [call[k] EXCEPT !.age = Older(call[k].age)] ELSE call[k]
      BY DEF Tick
  <2> QED
      BY <2>1, <2>2 DEF Calls
<1> QED
    BY <1>1, <1>2

-----------------------------------------------------------------------------
\* What a claim leaves behind

\* A token belongs to a caller the event is for, and whoever carried it off
\* has counted an attempt; what is held names the stop that holds it.
DocTracked(e) ==
  /\ token[e] # None => pub[e] = "done" /\ doc[e].attempts >= 1 /\ For(token[e], e)
  /\ doc[e].status = "CLAIMED" => doc[e].attempts >= 1
  /\ doc[e].status = "HELD" => doc[e].heldBy

CallTracked(k) ==
  /\ \A e \in call[k].ids : pub[e] = "done" /\ For(k, e)
  /\ \A e \in call[k].todo \union call[k].requeue :
       pub[e] = "done" /\ For(k, e) /\ (e \in stored => doc[e].attempts >= 1)

\* A consumer's call claims and hands out; it settles nothing.
ConsumerPhase(c) ==
  /\ call[c].pc \in {"idle", "claim", "handle"}
  /\ call[c].pc = "idle" => call[c].todo = {}

OpTracked(o) == \A e \in op[o].ids : pub[e] = "done"

Tracked ==
  /\ \A e \in Events : DocTracked(e)
  /\ \A k \in Callers : CallTracked(k)
  /\ \A c \in Consumers : ConsumerPhase(c)
  /\ \A o \in Operators : OpTracked(o)

BusInv == BoxInv /\ Tracked

\* Nothing is claimed at first.
LEMMA TrackedInit == Init => Tracked
<1> SUFFICES ASSUME Init PROVE Tracked
    OBVIOUS
<1>1. \A e \in Events : DocTracked(e)
  <2>1. NewEnvelope(FALSE).status = "PENDING"
      BY EnvelopeFields
  <2> QED
      BY <2>1 DEF Init, DocTracked
<1>2. \A k \in Callers : /\ call[k].ids = {} /\ call[k].todo = {} /\ call[k].requeue = {}
                         /\ call[k].pc = "idle"
    BY DEF Init, Idle
<1>3. \A o \in Operators : op[o].ids = {}
    BY DEF Init
<1> QED
    BY <1>1, <1>2, <1>3 DEF Tracked, CallTracked, ConsumerPhase, OpTracked, Callers

\* Attempts are never taken back, so a document that is only moved between its
\* states stays tracked.
LEMMA TrackedDocs ==
  ASSUME TypeOK, Tracked, kind' = kind, token' = token, call' = call, pub' = pub,
         stored' = stored,
         \A e \in Events :
           /\ doc'[e].attempts = doc[e].attempts
           /\ doc'[e].status = "CLAIMED" => doc[e].status = "CLAIMED"
           /\ doc'[e].status = "HELD" => doc'[e].heldBy,
         \A o \in Operators : \A e \in op'[o].ids : e \in op[o].ids \union stored,
         Backed
  PROVE  Tracked'
<1>1. \A e \in Events : DocTracked(e)'
    BY DEF Tracked, DocTracked, For
<1>2. \A k \in Callers : call[k].todo \subseteq Events /\ call[k].requeue \subseteq Events
    BY DEF TypeOK, Calls
<1>3. \A k \in Callers : CallTracked(k)'
    BY <1>2 DEF Tracked, CallTracked, For
<1>4. \A c \in Consumers : ConsumerPhase(c)'
    BY DEF Tracked, ConsumerPhase
<1>5. \A o \in Operators : OpTracked(o)'
    BY DEF Tracked, OpTracked, Backed
<1> QED
    BY <1>1, <1>3, <1>4, <1>5 DEF Tracked

\* Publishing, reaping, removing and the bucket's calls keep track.
LEMMA TrackedSource ==
  ASSUME BusInv,
         \/ \E e \in Events : PublishRead(e) \/ Publish(e) \/ Reap(e) \/ Remove(e)
         \/ \E o \in Operators : SetBucketStopped(o)
  PROVE  Tracked'
<1>0. /\ TypeOK /\ Backed /\ Tracked
      /\ \A k \in Callers : /\ call[k].todo \subseteq Events /\ call[k].requeue \subseteq Events
                            /\ call[k].ids \subseteq Events
      /\ \A o \in Operators : op[o].ids \subseteq Events
      /\ \A e \in Events : doc[e] \in Envelope
    BY DEF BusInv, BoxInv, TypeOK, Calls, Ops
<1>k. \A e \in Events : doc[e].status = "HELD" => doc[e].heldBy
    BY <1>0 DEF Tracked, DocTracked
<1>1. ASSUME NEW e \in Events, PublishRead(e)
      PROVE  Tracked'
  <2>1. /\ kind' = kind /\ token' = token /\ call' = call /\ doc' = doc /\ op' = op
        /\ stored' = stored
        /\ \A d \in Events : pub[d] = "done" => pub'[d] = "done"
      BY <1>0, <1>1 DEF PublishRead, TypeOK
  <2> QED
      BY <1>0, <2>1 DEF Tracked, DocTracked, CallTracked, ConsumerPhase, OpTracked, For
<1>2. ASSUME NEW e \in Events, Publish(e)
      PROVE  Tracked'
  <2>1. /\ kind' = kind /\ token' = token /\ call' = call /\ op' = op /\ pub[e] # "done"
        /\ pub'[e] = "done" /\ stored' = stored \union {e}
        /\ \A d \in Events : d # e => pub'[d] = pub[d] /\ doc'[d] = doc[d]
        /\ doc'[e] = NewEnvelope(pub[e] = "held")
      BY <1>0, <1>2 DEF Publish, TypeOK
  <2>2. /\ doc'[e].status # "CLAIMED"
        /\ doc'[e].status = "HELD" => doc'[e].heldBy
    <3>1. CASE pub[e] = "held"
      <4>1. doc'[e] = NewEnvelope(TRUE)
          BY <2>1, <3>1
      <4> QED
          BY <4>1, EnvelopeFields
    <3>2. CASE pub[e] # "held"
      <4>1. doc'[e] = NewEnvelope(FALSE)
          BY <2>1, <3>2
      <4> QED
          BY <4>1, EnvelopeFields
    <3> QED
        BY <3>1, <3>2
  <2>3. \A d \in Events : DocTracked(d)'
      BY <1>0, <2>1, <2>2 DEF Tracked, DocTracked, For
  <2>4. \A k \in Callers : CallTracked(k)'
      BY <1>0, <2>1 DEF Tracked, CallTracked, For
  <2>5. \A c \in Consumers : ConsumerPhase(c)'
      BY <1>0, <2>1 DEF Tracked, ConsumerPhase
  <2>6. \A o \in Operators : OpTracked(o)'
      BY <1>0, <2>1 DEF Tracked, OpTracked
  <2> QED
      BY <2>3, <2>4, <2>5, <2>6 DEF Tracked
<1>3. ASSUME NEW e \in Events, Reap(e)
      PROVE  Tracked'
  <2>1. /\ kind' = kind /\ token' = token /\ call' = call /\ op' = op /\ pub' = pub
        /\ stored' = stored
      BY <1>3 DEF Reap
  <2>2. \A d \in Events : doc'[d] = doc[d] \/ doc'[d] = Requeued(doc[d])
      BY <1>0, <1>3 DEF Reap, TypeOK
  <2>3. \A d \in Events : /\ doc'[d].attempts = doc[d].attempts
                          /\ doc'[d] = doc[d] \/ doc'[d].status = "PENDING"
      BY <1>0, <2>2, EnvelopeFields
  <2> QED
      BY <1>0, <1>k, <2>1, <2>3, TrackedDocs
<1>4. ASSUME NEW e \in Events, Remove(e)
      PROVE  Tracked'
  <2>1. /\ kind' = kind /\ call' = call /\ op' = op /\ pub' = pub /\ Erase({e})
      BY <1>4 DEF Remove
  <2>2. stored' \subseteq stored
        /\ \A d \in Events :
             \/ doc'[d] = doc[d] /\ token'[d] = token[d]
             \/ d \notin stored' /\ doc'[d] = NewEnvelope(FALSE) /\ token'[d] = None
      BY <1>0, <2>1, EraseEffect
  <2>3. NewEnvelope(FALSE).status = "PENDING"
      BY EnvelopeFields
  <2>4. \A d \in Events : DocTracked(d)'
      BY <1>0, <2>1, <2>2, <2>3 DEF Tracked, DocTracked, For
  <2>5. \A k \in Callers : CallTracked(k)'
      BY <1>0, <2>1, <2>2 DEF Tracked, CallTracked, For
  <2>6. \A c \in Consumers : ConsumerPhase(c)'
      BY <1>0, <2>1 DEF Tracked, ConsumerPhase
  <2>7. \A o \in Operators : OpTracked(o)'
      BY <1>0, <2>1 DEF Tracked, OpTracked
  <2> QED
      BY <2>4, <2>5, <2>6, <2>7 DEF Tracked
<1>5. ASSUME NEW o \in Operators, StopFlag(o) \/ StartFlag(o) \/ OperatorFails(o) \/ ReleaseFind(o)
      PROVE  Tracked'
  <2>1. /\ kind' = kind /\ token' = token /\ call' = call /\ pub' = pub /\ doc' = doc
        /\ stored' = stored
      BY <1>5 DEF StopFlag, StartFlag, OperatorFails, ReleaseFind
  <2>2. \A q \in Operators : op'[q].ids \subseteq op[q].ids \union stored
      BY <1>0, <1>5 DEF StopFlag, StartFlag, OperatorFails, ReleaseFind, TypeOK, Held
  <2> QED
      BY <1>0, <1>k, <2>1, <2>2, TrackedDocs
<1>6. ASSUME NEW o \in Operators, HoldDeliveries(o)
      PROVE  Tracked'
  <2>1. /\ kind' = kind /\ token' = token /\ call' = call /\ pub' = pub /\ stored' = stored
      BY <1>6 DEF HoldDeliveries
  <2>2. \A q \in Operators : op'[q].ids = op[q].ids
      BY <1>0, <1>6 DEF HoldDeliveries, TypeOK, Ops
  <2>3. \A d \in Events : /\ doc'[d].attempts = doc[d].attempts
                          /\ doc'[d] = doc[d] \/ (doc'[d].status = "HELD" /\ doc'[d].heldBy)
      BY <1>0, <1>6 DEF HoldDeliveries, Envelope
  <2> QED
      BY <1>0, <1>k, <2>1, <2>2, <2>3, TrackedDocs
<1>7. ASSUME NEW o \in Operators, NEW e \in Events, ReleaseHeld(o, e)
      PROVE  Tracked'
  <2>1. /\ kind' = kind /\ token' = token /\ call' = call /\ pub' = pub /\ stored' = stored
      BY <1>7 DEF ReleaseHeld
  <2>2. \A q \in Operators : op'[q].ids \subseteq op[q].ids
      BY <1>0, <1>7 DEF ReleaseHeld, TypeOK, Ops
  <2>3. \A d \in Events : doc'[d] = doc[d] \/ doc'[d] = Released(doc[d])
      BY <1>0, <1>7 DEF ReleaseHeld, TypeOK
  <2>4. \A d \in Events : /\ doc'[d].attempts = doc[d].attempts
                          /\ doc'[d] = doc[d] \/ doc'[d].status = "PENDING"
      BY <1>0, <2>3, EnvelopeFields
  <2> QED
      BY <1>0, <1>k, <2>1, <2>2, <2>4, TrackedDocs
<1> QED
    BY <1>1, <1>2, <1>3, <1>4, <1>5, <1>6, <1>7 DEF SetBucketStopped

\* Finding, claiming and reading back keep track.
LEMMA TrackedClaim ==
  ASSUME BusInv, NEW k \in Callers, Find(k) \/ ReadBack(k) \/ \E e \in Events : Claim(k, e)
  PROVE  Tracked'
<1>0. /\ TypeOK /\ Backed /\ Tracked
      /\ \A j \in Callers : /\ call[j].todo \subseteq Events /\ call[j].requeue \subseteq Events
                            /\ call[j].ids \subseteq Events
    BY DEF BusInv, BoxInv, TypeOK, Calls
<1>1. kind' = kind /\ pub' = pub /\ op' = op /\ stored' = stored
    BY DEF Find, ReadBack, Claim
<1>2. \A o \in Operators : OpTracked(o)'
    BY <1>0, <1>1 DEF Tracked, OpTracked
<1>3. None \notin Callers
    BY BusAssumption
<1>4. ASSUME Find(k)
      PROVE  Tracked'
  <2>1. doc' = doc
      BY <1>4 DEF Find
  <2>2. \A e \in Events : DocTracked(e)'
      BY <1>0, <1>1, <1>4, <2>1, FindEffect DEF Tracked, DocTracked, For
  <2>3. \A e \in Waiting(k) : pub[e] = "done" /\ For(k, e)
      BY <1>0 DEF Waiting, Backed
  <2>4. \A j \in Callers : CallTracked(j)'
      BY <1>0, <1>1, <1>4, <2>1, <2>3, FindEffect DEF Tracked, CallTracked, For
  <2>5. \A c \in Consumers : ConsumerPhase(c)'
      BY <1>0, <1>4, FindEffect DEF Tracked, ConsumerPhase, Callers
  <2> QED
      BY <1>2, <2>2, <2>4, <2>5 DEF Tracked
<1>5. ASSUME NEW e \in Events, Claim(k, e)
      PROVE  Tracked'
  <2>1. pub[e] = "done" /\ For(k, e)
      BY <1>0, <1>5, ClaimEffect DEF Tracked, CallTracked
  <2>2. \A d \in Events : DocTracked(d)'
      BY <1>0, <1>1, <1>5, <2>1, ClaimEffect DEF Tracked, DocTracked, For
  <2>3. \A d \in Events : doc[d].attempts >= 1 => doc'[d].attempts >= 1
      BY <1>0, <1>5, ClaimEffect
  <2>4. \A j \in Callers : /\ call'[j].ids \subseteq call[j].ids /\ call'[j].todo = call[j].todo
                           /\ call'[j].requeue = call[j].requeue
      BY <1>0, <1>5, ClaimEffect
  <2>5. \A j \in Callers : CallTracked(j)'
      BY <1>0, <1>1, <2>3, <2>4 DEF Tracked, CallTracked, For
  <2>6. \A c \in Consumers : ConsumerPhase(c)'
      BY <1>0, <1>5, ClaimEffect DEF Tracked, ConsumerPhase, Callers
  <2> QED
      BY <1>2, <2>2, <2>5, <2>6 DEF Tracked
<1>6. ASSUME ReadBack(k)
      PROVE  Tracked'
  <2>1. doc' = doc /\ token' = token
      BY <1>6 DEF ReadBack
  <2>2. \A e \in Events : DocTracked(e)'
      BY <1>0, <1>1, <2>1 DEF Tracked, DocTracked, For
  <2>3. \A e \in Mine(k) : pub[e] = "done" /\ For(k, e) /\ doc[e].attempts >= 1
      BY <1>0, <1>3 DEF Mine, Tracked, DocTracked, TypeOK
  <2>4. \A j \in Callers : CallTracked(j)'
      BY <1>0, <1>1, <1>6, <2>1, <2>3, ReadBackEffect DEF Tracked, CallTracked, For
  <2>5. \A c \in Consumers : ConsumerPhase(c)'
      BY <1>0, <1>6, ReadBackEffect DEF Tracked, ConsumerPhase, Callers
  <2> QED
      BY <1>2, <2>2, <2>4, <2>5 DEF Tracked
<1> QED
    BY <1>4, <1>5, <1>6

\* Handling and settling keep track.
LEMMA TrackedSettling ==
  ASSUME BusInv, NEW k \in Callers, Settling(k)
  PROVE  Tracked'
<1>0. /\ TypeOK /\ Backed /\ Tracked
      /\ \A j \in Callers : /\ call[j].todo \subseteq Events /\ call[j].requeue \subseteq Events
                            /\ call[j].ids \subseteq Events
      /\ \A e \in Events : doc[e] \in Envelope
    BY DEF BusInv, BoxInv, TypeOK, Calls
<1>1. kind' = kind /\ pub' = pub /\ op' = op
    BY DEF Settling, SettleStep, HandlerSucceeds, HandlerFails, DlqInsert, DlqDelete, SettleAcked,
           SettleRequeue, DlqFails, CallDies, Forget, AckEvent
<1>2. /\ stored' \subseteq stored
      /\ \A e \in Events :
           /\ doc'[e] = doc[e] \/ doc'[e].status = "PENDING"
           /\ \/ token'[e] = token[e] /\ doc'[e].attempts = doc[e].attempts
              \/ token'[e] = None /\ e \notin stored'
  <2>1. NewEnvelope(FALSE).status = "PENDING"
      BY EnvelopeFields
  <2>2. \A e \in Events : /\ Requeued(doc[e]).status = "PENDING"
                          /\ Requeued(doc[e]).attempts = doc[e].attempts
      BY <1>0, EnvelopeFields
  <2> QED
      BY <1>0, <2>1, <2>2, SettlingEffect
<1>3. \A e \in Events : DocTracked(e)'
    BY <1>0, <1>1, <1>2 DEF Tracked, DocTracked, For
<1>4. \A j \in Callers : CallTracked(j)'
  <2> TAKE j \in Callers
  <2>1. /\ call'[j].ids \subseteq call[j].ids
        /\ call'[j].todo \union call'[j].requeue \subseteq call[j].todo \union call[j].requeue
      BY <1>0, SettlingEffect
  <2>2. \A e \in Events : e \in stored' => e \in stored /\ doc'[e].attempts = doc[e].attempts
      BY <1>2
  <2>3. CallTracked(j)
      BY <1>0 DEF Tracked
  <2> QED
      BY <1>0, <1>1, <2>1, <2>2, <2>3 DEF CallTracked, For
<1>5. \A c \in Consumers : ConsumerPhase(c)'
  <2> TAKE c \in Consumers
  <2>1. ConsumerPhase(c) /\ c \in Callers
      BY <1>0 DEF Tracked, Callers
  <2>2. CASE c # k
      BY <1>0, <2>1, <2>2, SettlingEffect DEF ConsumerPhase
  <2>3. CASE c = k
      BY <1>0, <2>1, <2>3, SettlingEffect DEF ConsumerPhase
  <2> QED
      BY <2>2, <2>3
<1>6. \A o \in Operators : OpTracked(o)'
    BY <1>0, <1>1 DEF Tracked, OpTracked
<1> QED
    BY <1>3, <1>4, <1>5, <1>6 DEF Tracked

\* Time keeps track.
LEMMA TrackedTick ==
  ASSUME BusInv, Tick
  PROVE  Tracked'
<1>0. /\ TypeOK /\ Tracked
      /\ \A j \in Callers : /\ call[j].todo \subseteq Events /\ call[j].requeue \subseteq Events
                            /\ call[j].ids \subseteq Events
    BY DEF BusInv, BoxInv, TypeOK, Calls
<1>1. kind' = kind /\ pub' = pub /\ op' = op /\ token' = token /\ stored' = stored
    BY DEF Tick
<1>2. \A e \in Events : DocTracked(e)'
    BY <1>0, <1>1, AgeingEffect DEF Tracked, DocTracked, For
<1>3. \A k \in Callers : CallTracked(k)'
    BY <1>0, <1>1, AgeingEffect DEF Tracked, CallTracked, For
<1>4. \A c \in Consumers : ConsumerPhase(c)'
    BY <1>0, AgeingEffect DEF Tracked, ConsumerPhase, Callers
<1>5. \A o \in Operators : OpTracked(o)'
    BY <1>0, <1>1 DEF Tracked, OpTracked
<1> QED
    BY <1>2, <1>3, <1>4, <1>5 DEF Tracked

\* Every step keeps the invariant of the bus.
LEMMA BusStep == BusInv /\ [Next]_vars => BusInv'
<1> SUFFICES ASSUME BusInv, [Next]_vars PROVE BusInv'
    OBVIOUS
<1>1. BoxInv'
    BY BoxStep DEF BusInv
<1>2. CASE UNCHANGED vars
  <2>1. Tracked'
      BY <1>2 DEF BusInv, vars, Tracked, DocTracked, CallTracked, ConsumerPhase, OpTracked, For
  <2> QED
      BY <1>1, <2>1 DEF BusInv
<1>3. CASE Next
    BY <1>1, <1>3, StepsOfWhom, TrackedSource, TrackedClaim, TrackedSettling, TrackedTick DEF BusInv
<1> QED
    BY <1>2, <1>3

-----------------------------------------------------------------------------
\* Leases of external claims

\* stop-bucket and start-bucket of one bucket, one at a time.
OneOperator == \A o, q \in Operators : o = q

\* An external envelope start-bucket has found and not yet released is held.
ToRelease ==
  \A o \in Operators : \A e \in op[o].ids \cap stored :
    kind[e] = "external" => doc[e].status = "HELD"

Live(c) == call[c].pc # "idle" /\ call[c].age < Visibility

\* The document and the call that claimed it agree on how long the claim holds,
\* and nobody else's token gets onto a document while it does.
LeasedTo(c) ==
  Live(c) =>
    /\ \A e \in stored : token[e] = c =>
         doc[e].status = "CLAIMED" /\ doc[e].left = Visibility - call[c].age
    /\ \A e \in call[c].todo : token[e] = c \/ e \notin stored

Leased == \A c \in Consumers : LeasedTo(c)

LeaseInv == BusInv /\ ToRelease /\ Leased /\ LeaseExclusive

\* Nobody holds a lease at first.
LEMMA LeaseInit == Init => LeaseInv
<1> SUFFICES ASSUME Init PROVE LeaseInv
    OBVIOUS
<1>1. BusInv
    BY BoxInit, TrackedInit DEF BusInv
<1>2. \A k \in Callers : call[k].pc = "idle" /\ call[k].todo = {}
    BY DEF Init, Idle
<1>3. Leased /\ LeaseExclusive
    BY <1>2 DEF Leased, LeasedTo, Live, LeaseExclusive, Callers
<1>4. ToRelease
    BY DEF Init, ToRelease
<1> QED
    BY <1>1, <1>3, <1>4 DEF LeaseInv

\* A claim that has run out, or has not begun, is not live.
LEMMA LiveClaims ==
  ASSUME LeaseInv, NEW c \in Consumers, Live(c)
  PROVE  /\ call[c].age \in Int /\ Visibility - call[c].age > 0
         /\ \A e \in stored : token[e] = c =>
              /\ doc[e].status = "CLAIMED" /\ doc[e].left > 0
              /\ kind[e] = "external"
         /\ \A e \in call[c].todo : token[e] = c \/ e \notin stored
<1>1. c \in Callers /\ c # None
    BY BusAssumption DEF Callers
<1>2. call[c].age \in 0 .. Visibility
    BY <1>1 DEF LeaseInv, BusInv, BoxInv, TypeOK, Calls
<1>3. Visibility \in Nat
    BY BusAssumption
<1>4. call[c].age \in Int /\ Visibility - call[c].age > 0
    BY <1>2, <1>3 DEF Live
<1>5. LeasedTo(c)
    BY DEF LeaseInv, Leased
<1>6. \A e \in Events : token[e] = c => kind[e] = "external"
    BY <1>1 DEF LeaseInv, BusInv, Tracked, DocTracked, For
<1>7. stored \subseteq Events
    BY DEF LeaseInv, BusInv, BoxInv, TypeOK
<1> QED
    BY <1>4, <1>5, <1>6, <1>7 DEF LeasedTo

\* No claim is made and none that is live is touched.
LEMMA LeaseFrame ==
  ASSUME LeaseInv, call' = call, \A e \in stored' : token'[e] = token[e],
         \A c \in Consumers : Live(c) => \A e \in stored' : token[e] = c =>
           e \in stored /\ doc'[e].status = doc[e].status /\ doc'[e].left = doc[e].left,
         \A c \in Consumers : call[c].todo \cap stored' \subseteq stored
  PROVE  Leased' /\ LeaseExclusive'
<1>1. ASSUME NEW c \in Consumers
      PROVE  LeasedTo(c)'
  <2>1. Live(c)' <=> Live(c)
      BY DEF Live
  <2>2. LeasedTo(c)
      BY DEF LeaseInv, Leased
  <2> QED
      BY <2>1, <2>2 DEF LeasedTo
<1>2. LeaseExclusive'
    BY DEF LeaseInv, LeaseExclusive
<1> QED
    BY <1>1, <1>2 DEF Leased

\* The source's side breaks no lease: a reaped one is over, a released one was held.
LEMMA LeaseSource ==
  ASSUME OneOperator, LeaseInv,
         \/ \E e \in Events : PublishRead(e) \/ Publish(e) \/ Reap(e) \/ Remove(e)
         \/ \E o \in Operators : SetBucketStopped(o)
  PROVE  ToRelease' /\ Leased' /\ LeaseExclusive'
<1>0. /\ TypeOK /\ Backed /\ Tracked /\ ToRelease
      /\ \A c \in Consumers : c \in Callers /\ call[c].todo \subseteq Events /\ c # None
      /\ \A o \in Operators : op[o].ids \subseteq Events
      /\ stored \subseteq Events /\ \A e \in Events : doc[e] \in Envelope
    BY BusAssumption DEF LeaseInv, BusInv, BoxInv, TypeOK, Calls, Ops, Callers
<1>1. ASSUME NEW e \in Events, PublishRead(e)
      PROVE  ToRelease' /\ Leased' /\ LeaseExclusive'
  <2>1. /\ kind' = kind /\ token' = token /\ call' = call /\ doc' = doc /\ op' = op
        /\ stored' = stored
      BY <1>1 DEF PublishRead
  <2> QED
      BY <1>0, <2>1, LeaseFrame DEF ToRelease
<1>2. ASSUME NEW e \in Events, Publish(e)
      PROVE  ToRelease' /\ Leased' /\ LeaseExclusive'
  <2>1. /\ kind' = kind /\ token' = token /\ call' = call /\ op' = op /\ pub[e] # "done"
        /\ stored' = stored \union {e}
        /\ \A d \in Events : d # e => doc'[d] = doc[d]
      BY <1>0, <1>2 DEF Publish, TypeOK
  <2>2. /\ e \notin stored /\ token[e] = None
        /\ \A c \in Consumers : e \notin call[c].todo
        /\ \A o \in Operators : e \notin op[o].ids
      BY <1>0, <2>1 DEF Backed, Tracked, DocTracked, CallTracked, OpTracked
  <2>3. ToRelease'
      BY <1>0, <2>1, <2>2 DEF ToRelease
  <2> QED
      BY <1>0, <2>1, <2>2, <2>3, LeaseFrame
<1>3. ASSUME NEW e \in Events, Reap(e)
      PROVE  ToRelease' /\ Leased' /\ LeaseExclusive'
  <2>1. /\ kind' = kind /\ token' = token /\ call' = call /\ op' = op /\ stored' = stored
        /\ e \in stored /\ doc[e].status = "CLAIMED" /\ doc[e].left <= 0
        /\ \A d \in Events : d # e => doc'[d] = doc[d]
      BY <1>0, <1>3 DEF Reap, TypeOK
  <2>2. doc[e].left \in Int
      BY <1>0, BusAssumption DEF Envelope
  <2>3. \A c \in Consumers : Live(c) => token[e] # c
      BY <2>1, <2>2, LiveClaims
  <2>4. ToRelease'
      BY <1>0, <2>1 DEF ToRelease
  <2> QED
      BY <1>0, <2>1, <2>3, <2>4, LeaseFrame
<1>4. ASSUME NEW e \in Events, Remove(e)
      PROVE  ToRelease' /\ Leased' /\ LeaseExclusive'
  <2>1. kind' = kind /\ call' = call /\ op' = op /\ Erase({e})
      BY <1>4 DEF Remove
  <2>2. /\ stored' \subseteq stored
        /\ \A d \in stored' : doc'[d] = doc[d] /\ token'[d] = token[d]
      BY <1>0, <2>1, EraseEffect
  <2>3. ToRelease'
      BY <1>0, <2>1, <2>2 DEF ToRelease
  <2> QED
      BY <1>0, <2>1, <2>2, <2>3, LeaseFrame
<1>5. ASSUME NEW o \in Operators, StopFlag(o) \/ StartFlag(o) \/ OperatorFails(o) \/ ReleaseFind(o)
      PROVE  ToRelease' /\ Leased' /\ LeaseExclusive'
  <2>1. /\ kind' = kind /\ token' = token /\ call' = call /\ doc' = doc /\ stored' = stored
      BY <1>5 DEF StopFlag, StartFlag, OperatorFails, ReleaseFind
  <2>2. \A q \in Operators : op'[q].ids = {} \/ op'[q].ids = op[q].ids \/ op'[q].ids = Held
      BY <1>0, <1>5 DEF StopFlag, StartFlag, OperatorFails, ReleaseFind, TypeOK
  <2>3. ToRelease'
      BY <1>0, <2>1, <2>2 DEF ToRelease, Held
  <2> QED
      BY <1>0, <2>1, <2>3, LeaseFrame
<1>6. ASSUME NEW o \in Operators, HoldDeliveries(o)
      PROVE  ToRelease' /\ Leased' /\ LeaseExclusive'
  <2>1. /\ kind' = kind /\ token' = token /\ call' = call /\ stored' = stored
      BY <1>6 DEF HoldDeliveries
  <2>2. \A q \in Operators : op'[q].ids = op[q].ids
      BY <1>0, <1>6 DEF HoldDeliveries, TypeOK, Ops
  <2>3. \A d \in Events : kind[d] # "delivery" => doc'[d] = doc[d]
      BY <1>6 DEF HoldDeliveries, Holdable
  <2>4. ToRelease'
      BY <1>0, <2>1, <2>2, <2>3 DEF ToRelease
  <2>5. \A c \in Consumers : Live(c) => \A e \in stored : token[e] = c => doc'[e] = doc[e]
    <3>1. \A c \in Consumers : Live(c) => \A e \in stored : token[e] = c => kind[e] = "external"
        BY LiveClaims
    <3> QED
        BY <1>0, <2>3, <3>1
  <2> QED
      BY <1>0, <2>1, <2>4, <2>5, LeaseFrame
<1>7. ASSUME NEW o \in Operators, NEW e \in Events, ReleaseHeld(o, e)
      PROVE  ToRelease' /\ Leased' /\ LeaseExclusive'
  <2>1. /\ kind' = kind /\ token' = token /\ call' = call /\ stored' = stored
        /\ \A d \in Events : d # e => doc'[d] = doc[d]
        /\ e \in op[o].ids
      BY <1>0, <1>7 DEF ReleaseHeld, TypeOK
  <2>2. \A q \in Operators : op'[q].ids = op[q].ids \ {e}
      BY <1>0, <1>7 DEF ReleaseHeld, TypeOK, Ops, OneOperator
  <2>3. ToRelease'
      BY <1>0, <2>1, <2>2 DEF ToRelease
  <2>4. \A c \in Consumers : Live(c) => ~(e \in stored /\ token[e] = c)
    <3>1. \A c \in Consumers : Live(c) => \A d \in stored : token[d] = c =>
            kind[d] = "external" /\ doc[d].status = "CLAIMED"
        BY LiveClaims
    <3>2. e \in stored /\ kind[e] = "external" => doc[e].status = "HELD"
        BY <1>0, <2>1 DEF ToRelease
    <3> QED
        BY <3>1, <3>2
  <2> QED
      BY <1>0, <2>1, <2>3, <2>4, LeaseFrame
<1> QED
    BY <1>1, <1>2, <1>3, <1>4, <1>5, <1>6, <1>7 DEF SetBucketStopped

\* A find ends the call's own lease and nobody else's.
LEMMA LeaseFind ==
  ASSUME LeaseInv, NEW k \in Callers, Find(k)
  PROVE  ToRelease' /\ Leased' /\ LeaseExclusive'
<1>0. /\ TypeOK /\ ToRelease /\ stored \subseteq Events /\ Visibility \in Nat
      /\ \A c \in Consumers : c \in Callers /\ c # None
    BY BusAssumption DEF LeaseInv, BusInv, BoxInv, TypeOK, Callers
<1>1. kind' = kind /\ doc' = doc /\ stored' = stored /\ op' = op
    BY DEF Find
<1>2. ToRelease'
    BY <1>0, <1>1 DEF ToRelease
<1>3. ASSUME NEW c \in Consumers
      PROVE  LeasedTo(c)'
  <2>1. CASE c = k
      BY <1>0, <1>1, <2>1, FindEffect DEF LeasedTo
  <2>2. CASE c # k
    <3>1. call'[c] = call[c] /\ \A e \in Events : token[e] = c <=> token'[e] = c
        BY <1>0, <2>2, FindEffect
    <3>2. LeasedTo(c) /\ call[c].todo \subseteq Events
        BY <1>0 DEF LeaseInv, Leased, TypeOK, Calls
    <3> QED
        BY <1>0, <1>1, <3>1, <3>2 DEF LeasedTo, Live
  <2> QED
      BY <2>1, <2>2
<1>4. LeaseExclusive'
    BY <1>0, FindEffect DEF LeaseInv, LeaseExclusive
<1> QED
    BY <1>2, <1>3, <1>4 DEF Leased

\* A claim succeeds only on a document nobody has a live lease on.
LEMMA LeaseClaim ==
  ASSUME LeaseInv, NEW k \in Callers, NEW e \in Events, Claim(k, e)
  PROVE  ToRelease' /\ Leased' /\ LeaseExclusive'
<1>0. /\ TypeOK /\ ToRelease /\ stored \subseteq Events /\ Visibility \in Nat
      /\ \A c \in Consumers : c \in Callers /\ c # None
      /\ doc[e] \in Envelope /\ call[k].age \in Int /\ call[k].age >= 0
    BY BusAssumption DEF LeaseInv, BusInv, BoxInv, TypeOK, Callers, Calls
<1>1. kind' = kind /\ stored' = stored /\ op' = op
    BY DEF Claim
<1>2. doc' # doc \/ token' # token =>
        doc[e].status = "PENDING" \/ (doc[e].status = "CLAIMED" /\ doc[e].left <= 0)
  <2>1. doc[e].left \in Int
      BY <1>0, BusAssumption DEF Envelope
  <2> QED
      BY <1>0, <2>1, ClaimEffect DEF Claimable
<1>3. ToRelease'
    BY <1>0, <1>1, <1>2, ClaimEffect DEF ToRelease
<1>4. doc' # doc \/ token' # token =>
        \A c \in Consumers : Live(c) => ~(e \in stored /\ token[e] = c)
  <2>1. doc[e].left \in Int
      BY <1>0, BusAssumption DEF Envelope
  <2> QED
      BY <1>2, <2>1, LiveClaims
<1>5. ASSUME NEW c \in Consumers
      PROVE  LeasedTo(c)'
  <2>1. /\ call'[c].pc = call[c].pc /\ call'[c].age = call[c].age /\ call'[c].todo = call[c].todo
      BY <1>0, ClaimEffect
  <2>2. LeasedTo(c) /\ call[c].todo \subseteq Events
      BY <1>0 DEF LeaseInv, Leased, TypeOK, Calls
  <2>3. Live(c)' <=> Live(c)
      BY <2>1 DEF Live
  <2>4. CASE doc' = doc /\ token' = token
      BY <1>1, <2>1, <2>2, <2>3, <2>4 DEF LeasedTo
  <2>5. CASE ~(doc' = doc /\ token' = token)
    <3> SUFFICES ASSUME Live(c)
                 PROVE  /\ \A d \in stored : token'[d] = c =>
                             doc'[d].status = "CLAIMED" /\ doc'[d].left = Visibility - call[c].age
                        /\ \A d \in call[c].todo : token'[d] = c \/ d \notin stored
        BY <1>1, <2>1, <2>3 DEF LeasedTo
    <3>1. e \in stored /\ token[e] # c /\ token'[e] = k
          /\ doc'[e].status = "CLAIMED" /\ doc'[e].left = Visibility - call[k].age
        BY <1>0, <1>4, <2>5, ClaimEffect
    <3>2. \A d \in Events : d # e => doc'[d] = doc[d] /\ token'[d] = token[d]
        BY <1>0, ClaimEffect
    <3>3. e \notin call[c].todo
        BY <2>2, <3>1 DEF LeasedTo
    <3> QED
        BY <1>0, <2>2, <3>1, <3>2, <3>3 DEF LeasedTo
  <2> QED
      BY <2>4, <2>5
<1>6. LeaseExclusive'
  <2>1. \A c \in Consumers : call'[c].todo = call[c].todo /\ call'[c].age = call[c].age
      BY <1>0, ClaimEffect
  <2> QED
      BY <2>1 DEF LeaseInv, LeaseExclusive
<1> QED
    BY <1>3, <1>5, <1>6 DEF Leased

\* Two calls do not read back the same envelope while both leases live.
LEMMA LeaseReadBack ==
  ASSUME LeaseInv, NEW k \in Callers, ReadBack(k)
  PROVE  ToRelease' /\ Leased' /\ LeaseExclusive'
<1>0. /\ TypeOK /\ ToRelease /\ Tracked /\ stored \subseteq Events /\ Visibility \in Nat
      /\ \A c \in Consumers : c \in Callers /\ c # None
    BY BusAssumption DEF LeaseInv, BusInv, BoxInv, TypeOK, Callers
<1>1. kind' = kind /\ doc' = doc /\ stored' = stored /\ op' = op /\ token' = token
    BY DEF ReadBack
<1>2. ToRelease'
    BY <1>0, <1>1 DEF ToRelease
<1>3. \A c \in Consumers : \/ call'[c] = call[c]
                           \/ c = k /\ call'[c].pc = "idle" /\ call'[c].todo = {}
                           \/ /\ c = k /\ call[c].pc = "claim" /\ call'[c].age = call[c].age
                              /\ call'[c].todo = Mine(c)
    BY <1>0, ReadBackEffect
<1>4. ASSUME NEW c \in Consumers
      PROVE  LeasedTo(c)'
  <2>1. LeasedTo(c)
      BY DEF LeaseInv, Leased
  <2> QED
      BY <1>1, <1>3, <2>1 DEF LeasedTo, Live, Mine
<1>5. LeaseExclusive'
  <2> SUFFICES ASSUME NEW c \in Consumers, NEW d \in Consumers, c # d,
                      NEW e \in call'[c].todo \cap call'[d].todo
               PROVE  call'[c].age >= Visibility \/ call'[d].age >= Visibility
      BY DEF LeaseExclusive
  <2>0. call[c].age \in Int /\ call[d].age \in Int
      BY <1>0 DEF TypeOK, Calls
  <2>1. CASE call'[c] = call[c] /\ call'[d] = call[d]
      BY <2>1 DEF LeaseInv, LeaseExclusive
  <2>2. ASSUME NEW x \in Consumers, NEW y \in Consumers, x # y, call'[y] = call[y],
               e \in call[y].todo, e \in Mine(x)
        PROVE  call'[y].age >= Visibility
    <3>0. call[y].age \in Int
        BY <1>0 DEF TypeOK, Calls
    <3>1. call[y].pc # "idle"
        BY <1>0, <2>2 DEF Tracked, ConsumerPhase
    <3>2. e \in stored /\ token[e] # y
        BY <2>2 DEF Mine
    <3>3. ~Live(y)
        BY <2>2, <3>2, LiveClaims
    <3> QED
        BY <1>0, <2>2, <3>0, <3>1, <3>3 DEF Live
  <2> QED
      BY <1>3, <2>1, <2>2
<1> QED
    BY <1>2, <1>4, <1>5 DEF Leased

\* Handling and settling add nothing to what is leased.
LEMMA LeaseSettling ==
  ASSUME LeaseInv, NEW k \in Callers, Settling(k)
  PROVE  ToRelease' /\ Leased' /\ LeaseExclusive'
<1>0. /\ TypeOK /\ ToRelease /\ Tracked /\ stored \subseteq Events
      /\ \A c \in Consumers : c \in Callers /\ c # None
      /\ \A j \in Callers : call[j].todo \subseteq Events
    BY BusAssumption DEF LeaseInv, BusInv, BoxInv, TypeOK, Callers, Calls
<1>1. kind' = kind /\ op' = op
    BY DEF Settling, SettleStep, HandlerSucceeds, HandlerFails, DlqInsert, DlqDelete, SettleAcked,
           SettleRequeue, DlqFails, CallDies, Forget, AckEvent
<1>2. /\ stored' \subseteq stored /\ \A e \in stored' : token'[e] = token[e]
      /\ \A e \in stored' : kind[e] = "external" => doc'[e] = doc[e]
  <2>1. CASE SettleRequeue(k) /\ k \in Instances
    <3>1. k \notin Consumers
        BY <2>1, BusAssumption
    <3>2. \A e \in call[k].requeue : kind[e] # "external"
        BY <1>0, <3>1 DEF Tracked, CallTracked, For
    <3> QED
        BY <1>0, <2>1, <3>2 DEF SettleRequeue
  <2>2. CASE ~(SettleRequeue(k) /\ k \in Instances)
    <3>1. \/ UNCHANGED <<doc, token, stored>>
          \/ Erase({call[k].moving}) \/ Erase(call[k].acked) \/ \E e \in Events : Erase({e})
        BY <2>2 DEF Settling, SettleStep, HandlerSucceeds, HandlerFails, DlqInsert, DlqDelete,
           SettleAcked, DlqFails, CallDies, Forget, AckEvent
    <3>2. ASSUME NEW S, Erase(S)
          PROVE  stored' \subseteq stored /\ \A e \in stored' : doc'[e] = doc[e] /\ token'[e] = token[e]
        BY <1>0, <3>2, EraseEffect
    <3>3. CASE UNCHANGED <<doc, token, stored>>
        BY <3>3
    <3> QED
        BY <3>1, <3>2, <3>3
  <2> QED
      BY <2>1, <2>2
<1>3. ToRelease'
    BY <1>0, <1>1, <1>2 DEF ToRelease
<1>4. \A c \in Consumers : /\ call'[c].todo \subseteq call[c].todo
                           /\ \/ call'[c].pc = "idle" /\ call'[c].todo = {}
                              \/ call'[c].pc = call[c].pc /\ call'[c].age = call[c].age
    BY <1>0, SettlingEffect
<1>5. ASSUME NEW c \in Consumers
      PROVE  LeasedTo(c)'
  <2>1. LeasedTo(c)
      BY DEF LeaseInv, Leased
  <2>2. \A e \in stored' : token[e] = c => doc'[e] = doc[e]
      BY <1>0, <1>2 DEF Tracked, DocTracked, For
  <2> QED
      BY <1>1, <1>2, <1>4, <2>1, <2>2 DEF LeasedTo, Live
<1>6. LeaseExclusive'
    BY <1>4 DEF LeaseInv, LeaseExclusive
<1> QED
    BY <1>3, <1>5, <1>6 DEF Leased

\* Document and call grow old together.
LEMMA LeaseTick ==
  ASSUME LeaseInv, Tick
  PROVE  ToRelease' /\ Leased' /\ LeaseExclusive'
<1>0. /\ TypeOK /\ ToRelease /\ stored \subseteq Events /\ Visibility \in Nat /\ MaxLag \in Nat
      /\ \A c \in Consumers : c \in Callers /\ call[c].age \in 0 .. Visibility
    BY BusAssumption DEF LeaseInv, BusInv, BoxInv, TypeOK, Callers, Calls
<1>1. kind' = kind /\ stored' = stored /\ op' = op /\ token' = token
    BY DEF Tick
<1>2. ToRelease'
    BY <1>0, <1>1, AgeingEffect DEF ToRelease
<1>3. \A c \in Consumers : /\ call'[c].todo = call[c].todo /\ call'[c].pc = call[c].pc
                           /\ \/ call[c].pc = "idle" /\ call'[c].age = call[c].age
                              \/ call[c].pc # "idle" /\ call'[c].age = Older(call[c].age)
    BY <1>0, AgeingEffect
<1>4. ASSUME NEW c \in Consumers
      PROVE  LeasedTo(c)'
  <2>1. LeasedTo(c)
      BY DEF LeaseInv, Leased
  <2> SUFFICES ASSUME call[c].pc # "idle", call'[c].age < Visibility
               PROVE  /\ \A e \in stored : token[e] = c =>
                           doc'[e].status = "CLAIMED" /\ doc'[e].left = Visibility - call'[c].age
                      /\ \A e \in call[c].todo : token[e] = c \/ e \notin stored
      BY <1>1, <1>3 DEF LeasedTo, Live
  <2>2. call[c].age < Visibility /\ call'[c].age = call[c].age + 1
      BY <1>0, <1>3 DEF Older
  <2>3. ASSUME NEW e \in stored, token[e] = c
        PROVE  doc'[e].status = "CLAIMED" /\ doc'[e].left = Visibility - call'[c].age
    <3>1. doc[e].status = "CLAIMED" /\ doc[e].left = Visibility - call[c].age
        BY <2>1, <2>2, <2>3 DEF LeasedTo, Live
    <3>2. doc'[e].status = doc[e].status /\ doc'[e].left = Later(doc[e].left)
        BY <1>0, <3>1, AgeingEffect
    <3>3. Later(doc[e].left) = doc[e].left - 1
        BY <1>0, <2>2, <3>1 DEF Later
    <3> QED
        BY <1>0, <2>2, <3>1, <3>2, <3>3
  <2> QED
      BY <2>1, <2>2, <2>3 DEF LeasedTo, Live
<1>5. LeaseExclusive'
  <2>1. \A c \in Consumers : call[c].age >= Visibility => call'[c].age >= Visibility
      BY <1>0, <1>3 DEF Older
  <2> QED
      BY <1>3, <2>1 DEF LeaseInv, LeaseExclusive
<1> QED
    BY <1>2, <1>4, <1>5 DEF Leased

\* Every step keeps the leases, with one operator.
LEMMA LeaseStep == OneOperator /\ LeaseInv /\ [Next]_vars => LeaseInv'
<1> SUFFICES ASSUME OneOperator, LeaseInv, [Next]_vars PROVE LeaseInv'
    OBVIOUS
<1>1. BusInv'
    BY BusStep DEF LeaseInv
<1>2. CASE UNCHANGED vars
  <2>1. ToRelease' /\ Leased' /\ LeaseExclusive'
      BY <1>2 DEF LeaseInv, vars, ToRelease, Leased, LeasedTo, Live, LeaseExclusive
  <2> QED
      BY <1>1, <2>1 DEF LeaseInv
<1>3. CASE Next
  <2>1. ToRelease' /\ Leased' /\ LeaseExclusive'
      BY <1>3, StepsOfWhom, LeaseSource, LeaseFind, LeaseClaim, LeaseReadBack, LeaseSettling,
         LeaseTick
  <2> QED
      BY <1>1, <2>1 DEF LeaseInv
<1> QED
    BY <1>2, <1>3

\* ClaimEvents() hands an event to one consumer at a time, while the lease it
\* was handed out with lasts, however claims, acknowledgements, reap(), polls
\* and start-bucket interleave; as long as start-bucket is called one at a
\* time, since two releases may each find the same held envelope.
THEOREM ExternalLeases == OneOperator => (Spec => []LeaseExclusive)
<1> SUFFICES ASSUME OneOperator PROVE Spec => []LeaseExclusive
    OBVIOUS
<1>1. LeaseInv /\ [Next]_vars => LeaseInv'
    BY LeaseStep
<1>2. LeaseInv => LeaseExclusive
    BY DEF LeaseInv
<1> QED
    BY <1>1, <1>2, LeaseInit, PTL DEF Spec

-----------------------------------------------------------------------------
\* Stopping and starting a bucket

\* The flag is set before the documents are touched.
Flagged ==
  \A o \in Operators :
    /\ op[o].pc = "hold" => stopped
    /\ op[o].pc \in {"release", "put"} => ~stopped

StoppedSide ==
  (\A o \in Operators : op[o].pc = "idle") /\ stopped =>
    \A e \in stored \ stale : kind[e] = "delivery" /\ doc[e].attempts = 0 => doc[e].status = "HELD"

\* What start-bucket found is all that is held, and it is yet to be released.
StartedSide ==
  (\A o \in Operators : op[o].pc \in {"idle", "put"}) /\ ~stopped =>
    \A e \in stored \ stale : doc[e].status = "HELD" =>
      \E o \in Operators : op[o].pc = "put" /\ e \in op[o].ids

Sides == Flagged /\ StoppedSide /\ StartedSide

BucketInv == BusInv /\ Sides

\* A bucket that runs holds nothing at first.
LEMMA BucketInit == Init => BucketInv
<1> SUFFICES ASSUME Init PROVE BucketInv
    OBVIOUS
<1>1. BusInv
    BY BoxInit, TrackedInit DEF BusInv
<1>2. \A o \in Operators : op[o].pc = "idle"
    BY DEF Init
<1>3. Sides
    BY <1>2 DEF Init, Sides, Flagged, StoppedSide, StartedSide
<1> QED
    BY <1>1, <1>3 DEF BucketInv

\* Nobody else holds a document, and what somebody claimed counts an attempt.
LEMMA SidesFrame ==
  ASSUME BucketInv, op' = op, stopped' = stopped, stale' = stale, kind' = kind,
         stored' \subseteq stored,
         \A e \in stored' : \/ doc'[e].attempts = doc[e].attempts /\ doc'[e].status = doc[e].status
                            \/ doc'[e].attempts # 0 /\ doc'[e].status # "HELD"
  PROVE  Sides'
<1>1. Flagged' /\ StoppedSide'
    BY DEF BucketInv, Sides, Flagged, StoppedSide
<1>2. StartedSide'
    BY DEF BucketInv, Sides, StartedSide
<1> QED
    BY <1>1, <1>2 DEF Sides

\* The source's side keeps documents on the side of the flag.
LEMMA SidesSource ==
  ASSUME OneOperator, BucketInv,
         \/ \E e \in Events : PublishRead(e) \/ Publish(e) \/ Reap(e) \/ Remove(e)
         \/ \E o \in Operators : SetBucketStopped(o)
  PROVE  Sides'
<1>0. /\ TypeOK /\ Tracked /\ Sides /\ stored \subseteq Events
      /\ \A e \in Events : doc[e] \in Envelope
    BY DEF BucketInv, BusInv, BoxInv, TypeOK
<1>1. ASSUME NEW e \in Events, PublishRead(e) \/ Remove(e)
      PROVE  Sides'
  <2>1. op' = op /\ stopped' = stopped /\ stale' = stale /\ kind' = kind
      BY <1>1 DEF PublishRead, Remove
  <2>2. stored' \subseteq stored /\ \A d \in stored' : doc'[d] = doc[d]
    <3>1. CASE Erase({e})
        BY <1>0, <3>1, EraseEffect
    <3>2. CASE UNCHANGED <<stored, doc>>
        BY <3>2
    <3> QED
        BY <1>1, <3>1, <3>2 DEF PublishRead, Remove
  <2> QED
      BY <2>1, <2>2, SidesFrame
<1>2. ASSUME NEW e \in Events, Publish(e)
      PROVE  Sides'
  <2>1. /\ op' = op /\ stopped' = stopped /\ kind' = kind /\ stored' = stored \union {e}
        /\ stale' = (IF (pub[e] = "held") # stopped THEN stale \union {e} ELSE stale)
        /\ doc'[e] = NewEnvelope(pub[e] = "held")
        /\ \A d \in Events : d # e => doc'[d] = doc[d]
      BY <1>0, <1>2 DEF Publish, TypeOK
  <2>2. stale \subseteq stale'
      BY <2>1
  <2>3. e \notin stale' => (doc'[e].status = "HELD" <=> stopped)
    <3>1. CASE pub[e] = "held"
      <4>1. doc'[e] = NewEnvelope(TRUE) /\ (e \notin stale' => stopped)
          BY <1>0, <2>1, <3>1 DEF TypeOK
      <4> QED
          BY <4>1, EnvelopeFields
    <3>2. CASE pub[e] # "held"
      <4>1. doc'[e] = NewEnvelope(FALSE) /\ (e \notin stale' => ~stopped)
          BY <1>0, <2>1, <3>2 DEF TypeOK
      <4> QED
          BY <4>1, EnvelopeFields
    <3> QED
        BY <3>1, <3>2
  <2>4. Flagged'
      BY <1>0, <2>1 DEF Sides, Flagged
  <2>5. StoppedSide'
      BY <1>0, <2>1, <2>2, <2>3 DEF Sides, StoppedSide
  <2>6. StartedSide'
      BY <1>0, <2>1, <2>2, <2>3 DEF Sides, StartedSide
  <2> QED
      BY <2>4, <2>5, <2>6 DEF Sides
<1>3. ASSUME NEW e \in Events, Reap(e)
      PROVE  Sides'
  <2>1. /\ op' = op /\ stopped' = stopped /\ stale' = stale /\ kind' = kind /\ stored' = stored
        /\ doc[e].status = "CLAIMED"
        /\ doc' = [doc EXCEPT ![e] = Requeued(doc[e])]
      BY <1>3 DEF Reap
  <2>2. doc[e].attempts >= 1 /\ doc[e].attempts \in Int
      BY <1>0, <2>1, BusAssumption DEF Tracked, DocTracked, Envelope
  <2>3. doc'[e].status = "PENDING" /\ doc'[e].attempts = doc[e].attempts
      BY <1>0, <2>1, EnvelopeFields DEF TypeOK
  <2>4. \A d \in Events : d # e => doc'[d] = doc[d]
      BY <1>0, <2>1 DEF TypeOK
  <2>5. doc'[e].attempts # 0 /\ doc'[e].status # "HELD"
      BY <2>2, <2>3
  <2> QED
      BY <1>0, <2>1, <2>4, <2>5, SidesFrame
<1>4. ASSUME NEW o \in Operators, StopFlag(o) \/ StartFlag(o) \/ OperatorFails(o)
      PROVE  Sides'
  <2>1. \/ op'[o].pc = "hold" /\ stopped'
        \/ op'[o].pc = "release" /\ ~stopped'
        \/ op'[o].pc = "failed"
      BY <1>0, <1>4 DEF StopFlag, StartFlag, OperatorFails, TypeOK
  <2>2. Flagged'
      BY <2>1 DEF OneOperator, Flagged
  <2> QED
      BY <2>1, <2>2 DEF Sides, StoppedSide, StartedSide
<1>5. ASSUME NEW o \in Operators, HoldDeliveries(o)
      PROVE  Sides'
  <2>1. stopped' /\ stopped
      BY <1>0, <1>5 DEF HoldDeliveries, Sides, Flagged
  <2>2. op'[o].pc = "idle"
      BY <1>0, <1>5 DEF HoldDeliveries, TypeOK, Ops
  <2>3. Flagged'
      BY <2>2 DEF OneOperator, Flagged
  <2>4. ASSUME NEW e \in stored, kind[e] = "delivery", doc'[e].attempts = 0
        PROVE  doc'[e].status = "HELD"
    <3>1. doc'[e] = IF Holdable(e)
                      THEN [doc[e] EXCEPT !.status = "HELD", !.heldBy = TRUE, !.expires = FALSE]
                      ELSE doc[e]
        BY <1>0, <1>5 DEF HoldDeliveries
    <3>2. doc[e] \in Envelope
        BY <1>0
    <3>3. CASE Holdable(e)
        BY <3>1, <3>2, <3>3 DEF Envelope
    <3>4. CASE ~Holdable(e)
      <4>1. doc'[e] = doc[e] /\ doc[e].status # "PENDING"
          BY <2>4, <3>1, <3>4 DEF Holdable
      <4>2. doc[e].status # "CLAIMED"
          BY <1>0, <2>4, <4>1 DEF Tracked, DocTracked
      <4> QED
          BY <3>2, <4>1, <4>2 DEF Envelope, Statuses
    <3> QED
        BY <3>3, <3>4
  <2>5. StoppedSide'
      BY <1>5, <2>4 DEF StoppedSide, HoldDeliveries
  <2>6. StartedSide'
      BY <2>1 DEF StartedSide
  <2> QED
      BY <2>3, <2>5, <2>6 DEF Sides
<1>6. ASSUME NEW o \in Operators, ReleaseFind(o)
      PROVE  Sides'
  <2>1. ~stopped /\ ~stopped' /\ stored' = stored /\ doc' = doc
      BY <1>0, <1>6 DEF ReleaseFind, Sides, Flagged
  <2>2. op'[o].ids = Held /\ op'[o].pc = IF Held = {} THEN "idle" ELSE "put"
      BY <1>0, <1>6 DEF ReleaseFind, TypeOK
  <2>3. \A e \in stored : doc[e].status = "HELD" => e \in Held
      BY <1>0 DEF Held, Tracked, DocTracked
  <2>4. Flagged'
      BY <2>1, <2>2 DEF OneOperator, Flagged
  <2>5. StoppedSide' /\ StartedSide'
      BY <2>1, <2>2, <2>3 DEF StoppedSide, StartedSide
  <2> QED
      BY <2>4, <2>5 DEF Sides
<1>7. ASSUME NEW o \in Operators, NEW e \in Events, ReleaseHeld(o, e)
      PROVE  Sides'
  <2>1. /\ op[o].pc = "put" /\ ~stopped /\ stopped' = stopped /\ stored' = stored /\ stale' = stale
        /\ \A d \in Events : d # e => doc'[d] = doc[d]
        /\ e \in stored => doc'[e] = Released(doc[e])
      BY <1>0, <1>7 DEF ReleaseHeld, Sides, Flagged, TypeOK
  <2>2. /\ op'[o].ids = op[o].ids \ {e}
        /\ op'[o].pc = IF op[o].ids = {e} THEN "idle" ELSE "put"
      BY <1>0, <1>7 DEF ReleaseHeld, TypeOK, Ops
  <2>3. e \in stored => doc'[e].status # "HELD"
      BY <1>0, <2>1, EnvelopeFields
  <2>4. Flagged'
      BY <2>1, <2>2 DEF OneOperator, Flagged
  <2>5. \A q \in Operators : op[q].pc \in {"idle", "put"}
      BY <2>1 DEF OneOperator
  <2>6. \A d \in stored \ stale : doc[d].status = "HELD" => d \in op[o].ids
      BY <1>0, <2>1, <2>5 DEF Sides, StartedSide, OneOperator
  <2>7. StartedSide'
    <3> SUFFICES ASSUME NEW d \in stored \ stale, doc'[d].status = "HELD"
                 PROVE  op'[o].pc = "put" /\ d \in op'[o].ids
        BY <2>1 DEF StartedSide
    <3>1. d # e /\ doc[d].status = "HELD"
        BY <1>0, <2>1, <2>3
    <3> QED
        BY <2>2, <2>6, <3>1
  <2>8. StoppedSide'
      BY <2>1 DEF StoppedSide
  <2> QED
      BY <2>4, <2>7, <2>8 DEF Sides
<1> QED
    BY <1>1, <1>2, <1>3, <1>4, <1>5, <1>6, <1>7 DEF SetBucketStopped

\* Claims, settling and time keep documents on the side of the flag.
LEMMA SidesCalls ==
  ASSUME BucketInv,
         \/ Tick
         \/ \E k \in Callers : \/ Find(k) \/ ReadBack(k) \/ Settling(k)
                               \/ \E e \in Events : Claim(k, e)
  PROVE  Sides'
<1>0. /\ TypeOK /\ Tracked /\ stored \subseteq Events
      /\ \A e \in Events : doc[e] \in Envelope /\ doc[e].attempts \in Int
    BY BusAssumption DEF BucketInv, BusInv, BoxInv, TypeOK, Envelope
<1>1. /\ op' = op /\ stopped' = stopped /\ stale' = stale /\ kind' = kind
      /\ stored' \subseteq stored
  <2>1. ASSUME NEW k \in Callers, Settling(k)
        PROVE  /\ op' = op /\ stopped' = stopped /\ stale' = stale /\ kind' = kind
               /\ stored' \subseteq stored
      BY <2>1 DEF Settling, SettleStep, HandlerSucceeds, HandlerFails, DlqInsert, DlqDelete,
         SettleAcked, SettleRequeue, DlqFails, CallDies, Forget, AckEvent, Erase
  <2> QED
      BY <2>1 DEF Tick, Find, ReadBack, Claim
<1>2. CASE Tick
  <2>1. \A e \in Events : doc'[e].attempts = doc[e].attempts /\ doc'[e].status = doc[e].status
      BY <1>0, <1>2, AgeingEffect
  <2> QED
      BY <1>0, <1>1, <2>1, SidesFrame
<1>3. ASSUME NEW k \in Callers, Find(k) \/ ReadBack(k)
      PROVE  Sides'
  <2>1. doc' = doc
      BY <1>3 DEF Find, ReadBack
  <2> QED
      BY <1>1, <2>1, SidesFrame
<1>4. ASSUME NEW k \in Callers, NEW e \in Events, Claim(k, e)
      PROVE  Sides'
  <2>1. /\ \A d \in Events : d # e => doc'[d] = doc[d]
        /\ doc'[e] = doc[e] \/ (doc'[e].status = "CLAIMED" /\ doc'[e].attempts >= 1)
      BY <1>0, <1>4, ClaimEffect
  <2>2. doc'[e] = doc[e] \/ (doc'[e].status # "HELD" /\ doc'[e].attempts # 0)
      BY <2>1
  <2> QED
      BY <1>0, <1>1, <2>1, <2>2, SidesFrame
<1>5. ASSUME NEW k \in Callers, Settling(k)
      PROVE  Sides'
  <2>1. ASSUME NEW e \in stored'
        PROVE  \/ doc'[e] = doc[e]
               \/ doc'[e].attempts # 0 /\ doc'[e].status # "HELD"
    <3>0. e \in stored
        BY <1>1
    <3>1. CASE e \in call[k].requeue /\ doc'[e] = Requeued(doc[e])
      <4>1. doc[e].attempts >= 1
          BY <1>0, <3>0, <3>1 DEF Tracked, CallTracked
      <4>2. doc'[e].status = "PENDING" /\ doc'[e].attempts = doc[e].attempts
          BY <1>0, <3>0, <3>1, EnvelopeFields
      <4> QED
          BY <1>0, <3>0, <4>1, <4>2
    <3> QED
        BY <1>0, <1>5, <3>0, <3>1, SettlingEffect
  <2> QED
      BY <1>0, <1>1, <2>1, SidesFrame
<1> QED
    BY <1>2, <1>3, <1>4, <1>5

\* Every step keeps the flag and the documents together, with one operator.
LEMMA BucketStep == OneOperator /\ BucketInv /\ [Next]_vars => BucketInv'
<1> SUFFICES ASSUME OneOperator, BucketInv, [Next]_vars PROVE BucketInv'
    OBVIOUS
<1>1. BusInv'
    BY BusStep DEF BucketInv
<1>2. CASE UNCHANGED vars
  <2>1. Sides'
      BY <1>2, SidesFrame DEF vars
  <2> QED
      BY <1>1, <2>1 DEF BucketInv
<1>3. CASE Next
  <2>1. Sides'
      BY <1>3, StepsOfWhom, SidesSource, SidesCalls
  <2> QED
      BY <1>1, <2>1 DEF BucketInv
<1> QED
    BY <1>2, <1>3

\* Once stop-bucket or start-bucket has returned, no envelope is on the wrong
\* side of the flag, those included that were published in the middle of it or
\* before it on a flag that had changed by then; apart from what somebody had
\* claimed and what is published on an old flag after the hold or the release's
\* look; as long as these calls are made one at a time.
THEOREM BucketFlag == OneOperator => (Spec => []BucketObeyed)
<1> SUFFICES ASSUME OneOperator PROVE Spec => []BucketObeyed
    OBVIOUS
<1>1. BucketInv /\ [Next]_vars => BucketInv'
    BY BucketStep
<1>2. BucketInv => BucketObeyed
  <2>1. ASSUME Sides PROVE BucketObeyed
    <3> SUFFICES ASSUME \A o \in Operators : op[o].pc = "idle", NEW e \in stored \ stale
                 PROVE  IF stopped
                          THEN kind[e] = "delivery" /\ doc[e].attempts = 0 => doc[e].status = "HELD"
                          ELSE doc[e].status # "HELD"
        BY DEF BucketObeyed
    <3>1. CASE stopped
        BY <2>1, <3>1 DEF Sides, StoppedSide
    <3>2. CASE ~stopped
        BY <2>1, <3>2 DEF Sides, StartedSide
    <3> QED
        BY <3>1, <3>2
  <2> QED
      BY <2>1 DEF BucketInv
<1> QED
    BY <1>1, <1>2, BucketInit, PTL DEF Spec
=============================================================================
