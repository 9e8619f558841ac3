------------------------- MODULE EqsMessagesProofs -------------------------
(***************************************************************************)
(* Proofs about EqsMessages, for any number of messages, queues,           *)
(* consumers, writers and sweeps, and any visibility timeouts, delays,     *)
(* receive limits and dead letter queues.                                  *)
(***************************************************************************)
EXTENDS EqsMessages, TLAPS

USE DEF Statuses, Phases

-----------------------------------------------------------------------------
\* Every change the repository makes to a document leaves a document.
LEMMA DocumentLemma ==
    ASSUME NEW d \in Document
    PROVE  /\ \A h \in Handles : Claimed(d, h) \in Document
           /\ \A q \in Queues : DeadLettered(d, q) \in Document
           /\ \A q \in Queues : Redriven(d, q) \in Document
           /\ Reset(d) \in Document
           /\ \A v \in Nat : WithVisibility(d, v) \in Document
           /\ Older(d) \in Document
           /\ \A v \in Nat : [d EXCEPT !.visibilityTimeout = v] \in Document
           /\ [d EXCEPT !.status = "AVAILABLE"] \in Document
  <1>1. \A h \in Handles : Claimed(d, h) \in Document
    <2>1. d.receivedCount + 1 \in Nat
      BY DEF Document
    <2> QED BY <2>1 DEF Document, Claimed
  <1>2. \A q \in Queues : DeadLettered(d, q) \in Document
    BY ConstantsAssumption DEF Document, DeadLettered
  <1>3. \A q \in Queues : Redriven(d, q) \in Document
    BY DEF Document, Redriven
  <1>4. Reset(d) \in Document
    BY DEF Document, Reset
  <1>5. \A v \in Nat : WithVisibility(d, v) \in Document
    BY DEF Document, WithVisibility
  <1>6. Older(d) \in Document
    <2> DEFINE s == IF d.status = "INVISIBLE" /\ d.sinceReceived < MaxAge
                    THEN d.sinceReceived + 1 ELSE d.sinceReceived
               l == IF d.delayLeft > 0 THEN d.delayLeft - 1 ELSE 0
    <2>1. s \in Nat /\ l \in Nat
      BY ConstantsAssumption DEF Document
    <2>2. Older(d) = [d EXCEPT !.sinceReceived = s, !.delayLeft = l]
      BY DEF Older
    <2> HIDE DEF s, l
    <2> QED BY <2>1, <2>2 DEF Document
  <1>7. /\ \A v \in Nat : [d EXCEPT !.visibilityTimeout = v] \in Document
        /\ [d EXCEPT !.status = "AVAILABLE"] \in Document
    BY DEF Document
  <1> QED BY <1>1, <1>2, <1>3, <1>4, <1>5, <1>6, <1>7

\* The placeholder of a document that is not there, and a new document, are documents.
LEMMA BlankLemma ==
    /\ Blank \in Document
    /\ \A q \in Queues, v \in Nat : NewDocument(q, v) \in Document
  BY ConstantsAssumption DEF Blank, Document, NewDocument

-----------------------------------------------------------------------------
\* A receive in progress is a receive from a queue.
CallsHaveQueue == \A c \in Consumers : call[c].pc # "idle" => call[c].queue \in Queues

TypeInv == TypeOK /\ CallsHaveQueue

\* A receive, a sweep and a rewrite that are not in progress have their types.
LEMMA IdleLemma ==
    /\ Idle \in Calls
    /\ NoSweep \in [expired : SUBSET Refs, due : SUBSET Refs]
    /\ NoSnap \in [msg : Messages \cup {NoMessage}, doc : Document]
  BY BlankLemma DEF Idle, Calls, NoSweep, NoSnap

\* Initially every variable has its type.
LEMMA InitTypeInv == Init => TypeInv
  BY IdleLemma, BlankLemma, ConstantsAssumption DEF Init, TypeInv, TypeOK, CallsHaveQueue, Idle

\* Deleting documents keeps the types.
LEMMA RemoveLemma ==
    ASSUME TypeOK, NEW S, Remove(S)
    PROVE  doc' \in [Messages -> Document] /\ stored' \subseteq Messages
  BY BlankLemma DEF TypeOK, Remove

\* One consumer's call goes to a well formed one, and the others keep theirs.
LEMMA CallLemma ==
    ASSUME TypeInv, NEW c \in Consumers, NEW r \in Calls,
           r.pc # "idle" => r.queue \in Queues,
           call' = [call EXCEPT ![c] = r]
    PROVE  call' \in [Consumers -> Calls] /\ CallsHaveQueue'
  BY DEF TypeInv, TypeOK, CallsHaveQueue

\* Every step keeps the types, one step of the proof per operation.
LEMMA NextTypeInv == TypeInv /\ [Next]_vars => TypeInv'
  <1> SUFFICES ASSUME TypeInv, [Next]_vars PROVE TypeInv'
    OBVIOUS
  <1> USE DEF TypeInv
  <1>1. ASSUME NEW m \in Messages, NEW q \in Queues, SendMessage(m, q)
        PROVE  TypeInv'
    BY <1>1, BlankLemma, ConstantsAssumption DEF SendMessage, TypeOK, CallsHaveQueue
  <1>2. ASSUME NEW c \in Consumers, Receive(c)
        PROVE  TypeInv'
    <2> USE DEF TypeInv
    <2>0. call[c] \in Calls /\ call[c].queue \in Queues \cup {NoQueue}
      BY DEF TypeOK, Calls
    <2>1. ASSUME NEW q \in Queues, ReceiveStart(c, q)
          PROVE  TypeInv'
      <3>1. PICK v \in Visibilities :
               call' = [call EXCEPT ![c] = [Idle EXCEPT !.pc = "look", !.queue = q,
                                                        !.visibility = v]]
        BY <2>1 DEF ReceiveStart
      <3> DEFINE r == [Idle EXCEPT !.pc = "look", !.queue = q, !.visibility = v]
      <3>2. r \in Calls /\ r.queue \in Queues
        BY ConstantsAssumption DEF Idle, Calls
      <3> HIDE DEF r
      <3>3. call' \in [Consumers -> Calls] /\ CallsHaveQueue'
        BY <3>1, <3>2, CallLemma DEF r
      <3> QED BY <2>1, <3>3 DEF ReceiveStart, TypeOK
    <2>2. CASE FindCandidates(c)
      <3>1. PICK S \in SUBSET Available(call[c].queue) :
               /\ S # {}
               /\ Cardinality(S) + Cardinality(call[c].result) <= BatchSize
               /\ \E f \in [S -> Fresh] :
                  /\ \A m, n \in S : f[m] = f[n] => m = n
                  /\ LET found == {[msg |-> m, oid |-> oid[m], handle |-> f[m]] : m \in S} IN
                     call' = [call EXCEPT ![c].pc = "claim", ![c].batch = found, ![c].todo = found]
                  /\ mint' = [h \in Handles |->
                       IF \E m \in S : f[m] = h THEN CHOOSE m \in S : f[m] = h ELSE mint[h]]
        BY ONLY <2>2, Zenon DEF FindCandidates
      <3>2. PICK f \in [S -> Fresh] :
               LET found == {[msg |-> m, oid |-> oid[m], handle |-> f[m]] : m \in S} IN
               /\ call' = [call EXCEPT ![c].pc = "claim", ![c].batch = found, ![c].todo = found]
               /\ mint' = [h \in Handles |->
                     IF \E m \in S : f[m] = h THEN CHOOSE m \in S : f[m] = h ELSE mint[h]]
        BY <3>1
      <3> DEFINE found == {[msg |-> m, oid |-> oid[m], handle |-> f[m]] : m \in S}
                 r == [call[c] EXCEPT !.pc = "claim", !.batch = found, !.todo = found]
      <3>3. S \subseteq Messages
        BY DEF Available, TypeOK
      <3>4. found \subseteq Candidates
        BY <3>3 DEF Candidates, Fresh, TypeOK
      <3>5. call' = [call EXCEPT ![c] = r]
        BY <3>2 DEF TypeOK
      <3> HIDE DEF found
      <3>6. r \in Calls /\ (r.pc # "idle" => r.queue \in Queues)
        BY <2>0, <2>2, <3>4 DEF Calls, FindCandidates, CallsHaveQueue
      <3> HIDE DEF r
      <3>7. call' \in [Consumers -> Calls] /\ CallsHaveQueue'
        BY <3>5, <3>6, CallLemma
      <3>8. mint' \in [Handles -> Messages \cup {NoMessage}]
        BY <3>2, <3>3 DEF TypeOK
      <3> QED BY <2>2, <3>7, <3>8 DEF FindCandidates, TypeOK
    <2>3. CASE StopLooking(c)
      <3> DEFINE r == [call[c] EXCEPT !.pc = "settle"]
      <3>1. r \in Calls /\ (r.pc # "idle" => r.queue \in Queues)
        BY <2>0, <2>3 DEF Calls, StopLooking, CallsHaveQueue
      <3>2. call' = [call EXCEPT ![c] = r]
        BY <2>3 DEF StopLooking, TypeOK
      <3> HIDE DEF r
      <3>3. call' \in [Consumers -> Calls] /\ CallsHaveQueue'
        BY <3>1, <3>2, CallLemma
      <3> QED BY <2>3, <3>3 DEF StopLooking, TypeOK
    <2>4. ASSUME NEW x \in call[c].todo, Claim(c, x)
          PROVE  TypeInv'
      <3> DEFINE r == [call[c] EXCEPT !.todo = @ \ {x}]
      <3>1. r \in Calls /\ (r.pc # "idle" => r.queue \in Queues)
        BY <2>0, <2>4 DEF Calls, Claim, CallsHaveQueue
      <3>2. call' = [call EXCEPT ![c] = r]
        BY <2>4 DEF Claim, TypeOK
      <3> HIDE DEF r
      <3>3. call' \in [Consumers -> Calls] /\ CallsHaveQueue'
        BY <3>1, <3>2, CallLemma
      <3>4. x \in Candidates
        BY <2>0 DEF Calls
      <3>5. x.msg \in Messages /\ x.handle \in Handles
        BY <3>4 DEF Candidates
      <3>6. doc' \in [Messages -> Document]
        <4>1. doc[x.msg] \in Document
          BY <3>5 DEF TypeOK
        <4>2. Claimed(doc[x.msg], x.handle) \in Document
          BY <3>5, <4>1, DocumentLemma
        <4> QED BY <2>4, <3>5, <4>2 DEF Claim, TypeOK
      <3>7. leaseAge' \in [Handles -> Nat]
        BY <2>4, <3>5 DEF Claim, TypeOK
      <3> QED BY <2>4, <3>3, <3>6, <3>7 DEF Claim, TypeOK
    <2>5. CASE ReadBack(c)
      <3> DEFINE live == Won(c) \ Dead(c)
                 v == call[c].visibility
                 stale == {x \in live : TakesQueueVisibility(doc[x.msg], v)}
                 won == {[msg |-> x.msg, handle |-> x.handle,
                          told |-> IF x \in stale THEN v ELSE doc[x.msg].visibilityTimeout] :
                            x \in live}
                 r == [call[c] EXCEPT !.pc = "won", !.dead = Dead(c), !.stale = stale, !.won = won]
      <3>1. Won(c) \subseteq Candidates /\ v \in Nat
        BY <2>0 DEF Won, Calls
      <3>2. Dead(c) \subseteq Candidates /\ stale \subseteq Candidates /\ live \subseteq Candidates
        BY <3>1 DEF Dead
      <3>3. \A x \in live : x.msg \in Messages /\ x.handle \in Handles
                              /\ doc[x.msg].visibilityTimeout \in Nat
        BY <3>2 DEF Candidates, TypeOK, Document
      <3>4. won \subseteq Deliveries
        BY <3>1, <3>3 DEF Deliveries
      <3>5. call' = [call EXCEPT ![c] = r]
        BY <2>5 DEF ReadBack, TypeOK
      <3>6. deliveries' \in [Messages -> Nat]
        <4> DEFINE P(m) == \E x \in live : x.msg = m /\ doc[m].queueErn = call[c].queue
        <4>1. deliveries' = [m \in Messages |-> IF P(m) THEN deliveries[m] + 1 ELSE deliveries[m]]
          BY <2>5 DEF ReadBack
        <4> HIDE DEF P
        <4> QED BY <4>1 DEF TypeOK
      <3> HIDE DEF won, stale, live, v
      <3>7. r \in Calls /\ (r.pc # "idle" => r.queue \in Queues)
        BY <2>0, <2>5, <3>2, <3>4 DEF Calls, ReadBack, CallsHaveQueue
      <3> HIDE DEF r
      <3>8. call' \in [Consumers -> Calls] /\ CallsHaveQueue'
        BY <3>5, <3>7, CallLemma
      <3> QED BY <2>5, <3>6, <3>8 DEF ReadBack, TypeOK
    <2>6. ASSUME NEW x \in call[c].dead, MoveToDeadLetter(c, x)
          PROVE  TypeInv'
      <3> DEFINE r == [call[c] EXCEPT !.dead = @ \ {x}]
      <3>1. r \in Calls /\ (r.pc # "idle" => r.queue \in Queues)
        BY <2>0, <2>6 DEF Calls, MoveToDeadLetter, CallsHaveQueue
      <3>2. call' = [call EXCEPT ![c] = r]
        BY <2>6 DEF MoveToDeadLetter, TypeOK
      <3> HIDE DEF r
      <3>3. call' \in [Consumers -> Calls] /\ CallsHaveQueue'
        BY <3>1, <3>2, CallLemma
      <3>4. x \in Candidates /\ call[c].queue \in Queues
        BY <2>0, <2>6 DEF Calls, MoveToDeadLetter, CallsHaveQueue
      <3>5. x.msg \in Messages
        BY <3>4 DEF Candidates
      <3>6. doc' \in [Messages -> Document] /\ deliveries' \in [Messages -> Nat]
        <4>1. doc[x.msg] \in Document
          BY <3>5 DEF TypeOK
        <4>2. DeadLettered(doc[x.msg], call[c].queue) \in Document
          BY <3>4, <4>1, DocumentLemma
        <4> QED BY <2>6, <3>5, <4>2 DEF MoveToDeadLetter, TypeOK
      <3> QED BY <2>6, <3>3, <3>6 DEF MoveToDeadLetter, TypeOK
    <2>7. ASSUME NEW x \in call[c].stale, SetLease(c, x)
          PROVE  TypeInv'
      <3> DEFINE r == [call[c] EXCEPT !.stale = @ \ {x}]
      <3>1. r \in Calls /\ (r.pc # "idle" => r.queue \in Queues)
        BY <2>0, <2>7 DEF Calls, SetLease, CallsHaveQueue
      <3>2. call' = [call EXCEPT ![c] = r]
        BY <2>7 DEF SetLease, TypeOK
      <3> HIDE DEF r
      <3>3. call' \in [Consumers -> Calls] /\ CallsHaveQueue'
        BY <3>1, <3>2, CallLemma
      <3>4. x \in Candidates /\ call[c].visibility \in Nat
        BY <2>0 DEF Calls
      <3>5. x.msg \in Messages
        BY <3>4 DEF Candidates
      <3>6. doc' \in [Messages -> Document]
        <4>1. doc[x.msg] \in Document
          BY <3>5 DEF TypeOK
        <4>2. [doc[x.msg] EXCEPT !.visibilityTimeout = call[c].visibility] \in Document
          BY <3>4, <4>1, DocumentLemma
        <4> QED BY <2>7, <3>5, <4>2 DEF SetLease, TypeOK
      <3> QED BY <2>7, <3>3, <3>6 DEF SetLease, TypeOK
    <2>8. CASE PassEnd(c)
      <3> DEFINE r == [call[c] EXCEPT !.pc = "look", !.result = @ \cup call[c].won,
                                      !.won = {}, !.batch = {}]
      <3>1. r \in Calls /\ (r.pc # "idle" => r.queue \in Queues)
        BY <2>0, <2>8 DEF Calls, PassEnd, CallsHaveQueue
      <3>2. call' = [call EXCEPT ![c] = r]
        BY <2>8 DEF PassEnd, TypeOK
      <3> HIDE DEF r
      <3>3. call' \in [Consumers -> Calls] /\ CallsHaveQueue'
        BY <3>1, <3>2, CallLemma
      <3> QED BY <2>8, <3>3 DEF PassEnd, TypeOK
    <2>9. CASE ReceiveReturn(c) \/ ReceiveFail(c) \/ ReceiveCrash(c)
      <3>1. call' = [call EXCEPT ![c] = Idle]
        BY <2>9 DEF ReceiveReturn, ReceiveFail, ReceiveCrash
      <3>2. Idle \in Calls /\ Idle.pc = "idle"
        BY IdleLemma DEF Idle
      <3>3. call' \in [Consumers -> Calls] /\ CallsHaveQueue'
        BY <3>1, <3>2, CallLemma
      <3>4. call[c].result \subseteq Deliveries
        BY <2>0 DEF Calls
      <3>5. delivered' \subseteq Deliveries /\ faults' \in Nat
        BY <2>9, <3>4 DEF ReceiveReturn, ReceiveFail, ReceiveCrash, TypeOK
      <3> QED BY <2>9, <3>3, <3>5 DEF ReceiveReturn, ReceiveFail, ReceiveCrash, TypeOK
    <2>10. CASE ReceiveWait(c)
      <3> DEFINE r == [call[c] EXCEPT !.pc = "look"]
      <3>1. r \in Calls /\ (r.pc # "idle" => r.queue \in Queues)
        BY <2>0, <2>10 DEF Calls, ReceiveWait, CallsHaveQueue
      <3>2. call' = [call EXCEPT ![c] = r]
        BY <2>10 DEF ReceiveWait, TypeOK
      <3> HIDE DEF r
      <3>3. call' \in [Consumers -> Calls] /\ CallsHaveQueue'
        BY <3>1, <3>2, CallLemma
      <3> QED BY <2>10, <3>3 DEF ReceiveWait, TypeOK
    <2> QED BY <1>2, <2>1, <2>2, <2>3, <2>4, <2>5, <2>6, <2>7, <2>8, <2>9, <2>10 DEF Receive
  <1>3. CASE Delete
    <2>1. TypeOK /\ CallsHaveQueue
      OBVIOUS
    <2> QED BY <1>3, <2>1, RemoveLemma
            DEF Delete, DeleteMessage, DeleteMessageById, PurgeQueue, RetentionExpires, TypeOK,
                CallsHaveQueue
  <1>4. ASSUME NEW m \in Messages, NEW d \in Queues, NEW q \in Queues, Redrive(m, d, q)
        PROVE  TypeInv'
    BY <1>4, DocumentLemma DEF Redrive, TypeOK, CallsHaveQueue
  <1>5. ASSUME NEW w \in Writers, Rewrite(w)
        PROVE  TypeInv'
    <2>1. ASSUME NEW m \in Messages, RewriteRead(w, m)
          PROVE  TypeInv'
      BY <2>1 DEF RewriteRead, TypeOK, CallsHaveQueue
    <2>2. ASSUME NEW v \in Timeouts, SetVisibility(w, v)
          PROVE  TypeInv'
      <3>1. snap[w].msg \in Messages /\ snap[w].doc \in Document /\ v \in Nat
        BY <2>2, ConstantsAssumption DEF SetVisibility, TypeOK
      <3>2. WithVisibility(snap[w].doc, v) \in Document
        BY <3>1, DocumentLemma
      <3>3. doc' \in [Messages -> Document] /\ stored' \subseteq Messages /\ oid' \in [Messages -> Nat]
        BY <2>2, <3>1, <3>2 DEF SetVisibility, Upsert, TypeOK
      <3> QED BY <2>2, <3>3, IdleLemma DEF SetVisibility, TypeOK, CallsHaveQueue
    <2>3. CASE SetMessageAttribute(w)
      BY <2>3, IdleLemma, ConstantsAssumption
         DEF SetMessageAttribute, Upsert, TypeOK, CallsHaveQueue
    <2> QED BY <1>5, <2>1, <2>2, <2>3 DEF Rewrite
  <1>6. ASSUME NEW s \in Sweepers, Sweep(s)
        PROVE  TypeInv'
    <2>1. CASE SweepRead(s)
      <3> DEFINE expired == {Ref(m) : m \in {n \in stored : LeaseExpired(doc[n])}}
                 due == {Ref(m) : m \in {n \in stored : DelayOver(doc[n])}}
      <3>1. expired \subseteq Refs /\ due \subseteq Refs
        BY DEF Ref, Refs, TypeOK
      <3>2. sweep' = [sweep EXCEPT ![s] = [expired |-> expired, due |-> due]]
        BY <2>1 DEF SweepRead
      <3> HIDE DEF expired, due
      <3>3. sweep' \in [Sweepers -> [expired : SUBSET Refs, due : SUBSET Refs]]
        BY <3>1, <3>2 DEF TypeOK
      <3> QED BY <2>1, <3>3 DEF SweepRead, TypeOK, CallsHaveQueue
    <2>2. ASSUME NEW x \in sweep[s].expired, SweepReset(s, x)
          PROVE  TypeInv'
      BY <2>2, DocumentLemma DEF SweepReset, TypeOK, CallsHaveQueue, Refs
    <2>3. ASSUME NEW x \in sweep[s].due, SweepRelease(s, x)
          PROVE  TypeInv'
      BY <2>3, DocumentLemma DEF SweepRelease, TypeOK, CallsHaveQueue, Refs
    <2>4. CASE SweepFail(s)
      BY <2>4, IdleLemma DEF SweepFail, TypeOK, CallsHaveQueue
    <2> QED BY <1>6, <2>1, <2>2, <2>3, <2>4 DEF Sweep
  <1>7. CASE Tick
    <2>1. doc' \in [Messages -> Document]
      BY <1>7, DocumentLemma DEF Tick, TypeOK
    <2>2. snap' \in [Writers -> [msg : Messages \cup {NoMessage}, doc : Document]]
      <3>1. \A w \in Writers :
               [snap[w] EXCEPT !.doc = Older(@)] \in [msg : Messages \cup {NoMessage}, doc : Document]
        BY DocumentLemma DEF TypeOK
      <3> QED BY <1>7, <3>1 DEF Tick
    <2>3. leaseAge' \in [Handles -> Nat]
      BY <1>7, ConstantsAssumption DEF Tick, TypeOK
    <2> QED BY <1>7, <2>1, <2>2, <2>3 DEF Tick, TypeOK, CallsHaveQueue
  <1>8. CASE UNCHANGED vars
    BY <1>8 DEF vars, TypeOK, CallsHaveQueue
  <1> QED BY <1>1, <1>2, <1>3, <1>4, <1>5, <1>6, <1>7, <1>8 DEF Next

\* Every variable keeps its type under every interleaving of sends, receives,
\* deletes, rewrites, redrives and sweeps of any number of EQS instances.
THEOREM TypeCorrect == Spec => []TypeOK
  BY InitTypeInv, NextTypeInv, PTL DEF Spec, TypeInv

-----------------------------------------------------------------------------
(***************************************************************************)
(* Receipt handles and origins.  A document is well formed when it carries *)
(* a handle exactly while it is INVISIBLE and an origin only in that       *)
(* origin's dead letter queue; every document a writer holds a copy of is  *)
(* well formed too, because a copy is written back whole.  A handle is     *)
(* owned by the message it was minted for wherever it appears.             *)
(***************************************************************************)
WellFormed(d) ==
    /\ d.status = "INVISIBLE" <=> d.receiptHandle # NoHandle
    /\ d.sourceQueueErn # NoQueue => d.queueErn = DeadLetterOf[d.sourceQueueErn]

WellFormedInv ==
    /\ \A m \in Messages : WellFormed(doc[m])
    /\ \A w \in Writers : WellFormed(snap[w].doc)

\* Every change of a document keeps it well formed: no write of the repository
\* leaves a handle on a waiting message, or an origin outside the dead letter queue.
LEMMA WellFormedLemma ==
    ASSUME NEW d \in Document, WellFormed(d)
    PROVE  /\ \A h \in Handles : WellFormed(Claimed(d, h))
           /\ \A q \in Queues : WellFormed(DeadLettered(d, q))
           /\ \A q \in Queues : WellFormed(Redriven(d, q))
           /\ WellFormed(Reset(d))
           /\ \A v \in Nat : WellFormed(WithVisibility(d, v))
           /\ WellFormed(Older(d))
           /\ \A v \in Nat : WellFormed([d EXCEPT !.visibilityTimeout = v])
           /\ d.status = "DELAYED" => WellFormed([d EXCEPT !.status = "AVAILABLE"])
  <1> USE ConstantsAssumption DEF WellFormed, Document
  <1>1. \A h \in Handles : WellFormed(Claimed(d, h))
    BY DEF Claimed
  <1>2. \A q \in Queues : WellFormed(DeadLettered(d, q))
    BY DEF DeadLettered
  <1>3. \A q \in Queues : WellFormed(Redriven(d, q))
    BY DEF Redriven
  <1>4. WellFormed(Reset(d))
    BY DEF Reset
  <1>5. \A v \in Nat : WellFormed(WithVisibility(d, v))
    BY DEF WithVisibility
  <1>6. WellFormed(Older(d))
    BY DEF Older
  <1>7. /\ \A v \in Nat : WellFormed([d EXCEPT !.visibilityTimeout = v])
        /\ d.status = "DELAYED" => WellFormed([d EXCEPT !.status = "AVAILABLE"])
    OBVIOUS
  <1> QED BY <1>1, <1>2, <1>3, <1>4, <1>5, <1>6, <1>7

\* A new document is well formed.
LEMMA WellFormedBlank ==
    WellFormed(Blank) /\ \A q \in Queues, v \in Nat : WellFormed(NewDocument(q, v))
  BY ConstantsAssumption DEF WellFormed, Blank, NewDocument

\* Every step keeps the stored documents, and the copies writers hold, well formed.
LEMMA NextWellFormed == TypeInv /\ WellFormedInv /\ [Next]_vars => WellFormedInv'
  <1> SUFFICES ASSUME TypeInv, WellFormedInv, [Next]_vars PROVE WellFormedInv'
    OBVIOUS
  <1> USE DEF TypeInv
  <1>0. /\ \A m \in Messages : doc[m] \in Document /\ WellFormed(doc[m])
        /\ \A w \in Writers : snap[w].doc \in Document /\ WellFormed(snap[w].doc)
        /\ doc = [m \in Messages |-> doc[m]] /\ snap = [w \in Writers |-> snap[w]]
    BY DEF TypeOK, WellFormedInv
  <1>1. ASSUME NEW m \in Messages, NEW q \in Queues, SendMessage(m, q)
        PROVE  WellFormedInv'
    BY <1>0, <1>1, WellFormedBlank, ConstantsAssumption DEF SendMessage, WellFormedInv
  <1>2. ASSUME NEW c \in Consumers, Receive(c)
        PROVE  WellFormedInv'
    <2>0. call[c] \in Calls
      BY DEF TypeOK
    <2>1. ASSUME NEW x \in call[c].todo, Claim(c, x)
          PROVE  WellFormedInv'
      <3>1. x.msg \in Messages /\ x.handle \in Handles
        BY <2>0 DEF Calls, Candidates
      <3>2. WellFormed(Claimed(doc[x.msg], x.handle))
        BY <1>0, <3>1, WellFormedLemma
      <3> QED BY <1>0, <2>1, <3>1, <3>2 DEF Claim, WellFormedInv
    <2>2. ASSUME NEW x \in call[c].dead, MoveToDeadLetter(c, x)
          PROVE  WellFormedInv'
      <3>1. x.msg \in Messages /\ call[c].queue \in Queues
        BY <2>0, <2>2 DEF Calls, Candidates, MoveToDeadLetter, CallsHaveQueue
      <3>2. WellFormed(DeadLettered(doc[x.msg], call[c].queue))
        BY <1>0, <3>1, WellFormedLemma
      <3> QED BY <1>0, <2>2, <3>1, <3>2 DEF MoveToDeadLetter, WellFormedInv
    <2>3. ASSUME NEW x \in call[c].stale, SetLease(c, x)
          PROVE  WellFormedInv'
      <3>1. x.msg \in Messages /\ call[c].visibility \in Nat
        BY <2>0 DEF Calls, Candidates
      <3>2. WellFormed([doc[x.msg] EXCEPT !.visibilityTimeout = call[c].visibility])
        BY <1>0, <3>1, WellFormedLemma
      <3> QED BY <1>0, <2>3, <3>1, <3>2 DEF SetLease, WellFormedInv
    <2>4. CASE UNCHANGED <<doc, snap>>
      BY <2>4 DEF WellFormedInv
    <2> QED
      BY <1>2, <2>1, <2>2, <2>3, <2>4
      DEF Receive, ReceiveStart, FindCandidates, StopLooking, ReadBack, PassEnd, ReceiveReturn,
          ReceiveWait, ReceiveFail, ReceiveCrash
  <1>3. CASE Delete
    <2>1. snap' = snap /\ \E S : doc' = [m \in Messages |-> IF m \in S THEN Blank ELSE doc[m]]
      BY <1>3 DEF Delete, DeleteMessage, DeleteMessageById, PurgeQueue, RetentionExpires, Remove
    <2> QED BY <1>0, <2>1, WellFormedBlank DEF WellFormedInv
  <1>4. ASSUME NEW m \in Messages, NEW d \in Queues, NEW q \in Queues, Redrive(m, d, q)
        PROVE  WellFormedInv'
    <2>1. WellFormed(Redriven(doc[m], q))
      BY <1>0, WellFormedLemma
    <2> QED BY <1>0, <1>4, <2>1 DEF Redrive, WellFormedInv
  <1>5. ASSUME NEW w \in Writers, Rewrite(w)
        PROVE  WellFormedInv'
    <2>1. ASSUME NEW m \in Messages, RewriteRead(w, m)
          PROVE  WellFormedInv'
      BY <1>0, <2>1 DEF RewriteRead, WellFormedInv, TypeOK
    <2>2. ASSUME NEW v \in Timeouts, SetVisibility(w, v)
          PROVE  WellFormedInv'
      <3>1. snap[w].msg \in Messages /\ v \in Nat
        BY <2>2, ConstantsAssumption DEF SetVisibility, TypeOK
      <3>2. WellFormed(WithVisibility(snap[w].doc, v))
        BY <1>0, <3>1, WellFormedLemma
      <3> QED BY <1>0, <2>2, <3>1, <3>2, WellFormedBlank
              DEF SetVisibility, Upsert, NoSnap, WellFormedInv
    <2>3. CASE SetMessageAttribute(w)
      <3>1. snap[w].msg \in Messages
        BY <2>3 DEF SetMessageAttribute, TypeOK
      <3> QED BY <1>0, <2>3, <3>1, WellFormedBlank
              DEF SetMessageAttribute, Upsert, NoSnap, WellFormedInv
    <2> QED BY <1>5, <2>1, <2>2, <2>3 DEF Rewrite
  <1>6. ASSUME NEW s \in Sweepers, Sweep(s)
        PROVE  WellFormedInv'
    <2>1. ASSUME NEW x \in sweep[s].expired, SweepReset(s, x)
          PROVE  WellFormedInv'
      <3>1. x.msg \in Messages
        BY DEF TypeOK, Refs
      <3>2. WellFormed(Reset(doc[x.msg]))
        BY <1>0, <3>1, WellFormedLemma
      <3> QED BY <1>0, <2>1, <3>1, <3>2 DEF SweepReset, WellFormedInv
    <2>2. ASSUME NEW x \in sweep[s].due, SweepRelease(s, x)
          PROVE  WellFormedInv'
      <3>1. x.msg \in Messages
        BY DEF TypeOK, Refs
      <3>2. doc[x.msg].status = "DELAYED" => WellFormed([doc[x.msg] EXCEPT !.status = "AVAILABLE"])
        BY <1>0, <3>1, WellFormedLemma
      <3> QED BY <1>0, <2>2, <3>1, <3>2 DEF SweepRelease, WellFormedInv
    <2>3. CASE UNCHANGED <<doc, snap>>
      BY <2>3 DEF WellFormedInv
    <2> QED BY <1>6, <2>1, <2>2, <2>3 DEF Sweep, SweepRead, SweepFail
  <1>7. CASE Tick
    <2>1. \A m \in Messages : WellFormed(Older(doc[m]))
      BY <1>0, WellFormedLemma
    <2>2. \A w \in Writers : WellFormed(Older(snap[w].doc))
      BY <1>0, WellFormedLemma
    <2>3. \A w \in Writers : snap'[w].doc = Older(snap[w].doc)
      BY <1>7 DEF Tick, TypeOK
    <2> QED BY <1>7, <2>1, <2>2, <2>3 DEF Tick, WellFormedInv
  <1>8. CASE UNCHANGED vars
    BY <1>8 DEF vars, WellFormedInv
  <1> QED BY <1>1, <1>2, <1>3, <1>4, <1>5, <1>6, <1>7, <1>8 DEF Next

\* However calls of any number of instances interleave, and even though a rewrite
\* writes back a copy that may be stale, a stored document carries a receipt
\* handle exactly while it is in flight.
THEOREM HandleInFlight == Spec => []HandleExactlyInFlight
  <1>1. Init => WellFormedInv
    BY WellFormedBlank DEF Init, WellFormedInv, NoSnap
  <1>2. TypeInv /\ WellFormedInv => HandleExactlyInFlight
    BY DEF TypeInv, TypeOK, WellFormedInv, WellFormed, HandleExactlyInFlight
  <1> QED BY <1>1, <1>2, InitTypeInv, NextTypeInv, NextWellFormed, PTL DEF Spec

\* The origin of a message is recorded only while the message is in that origin's
\* dead letter queue, so a redrive never sends a message to a queue it did not
\* come from on the strength of an outdated record.
THEOREM OriginRecorded == Spec => []OriginOnlyInDeadLetter
  <1>1. Init => WellFormedInv
    BY WellFormedBlank DEF Init, WellFormedInv, NoSnap
  <1>2. TypeInv /\ WellFormedInv => OriginOnlyInDeadLetter
    BY DEF TypeInv, TypeOK, WellFormedInv, WellFormed, OriginOnlyInDeadLetter
  <1> QED BY <1>1, <1>2, InitTypeInv, NextTypeInv, NextWellFormed, PTL DEF Spec

-----------------------------------------------------------------------------
\* Wherever a handle appears, it is with the message it was minted for.
Owned(d, m) == d.receiptHandle # NoHandle => m # NoMessage /\ mint[d.receiptHandle] = m

OwnershipInv ==
    /\ \A m \in Messages : Owned(doc[m], m)
    /\ \A w \in Writers : Owned(snap[w].doc, snap[w].msg)
    /\ \A c \in Consumers : \A x \in call[c].batch \cup call[c].todo : mint[x.handle] = x.msg
    /\ \A c \in Consumers : \A d \in call[c].won \cup call[c].result : mint[d.handle] = d.msg
    /\ \A d \in delivered : mint[d.handle] = d.msg

\* Only a fresh handle is minted, for one candidate of the find.
LEMMA MintLemma ==
    ASSUME TypeInv, NEW c \in Consumers, FindCandidates(c)
    PROVE  /\ \A h \in Handles : mint[h] # NoMessage => mint'[h] = mint[h]
           /\ \A x \in call'[c].batch \cup call'[c].todo : mint'[x.handle] = x.msg
           /\ \A x \in call'[c].batch :
                 x.msg \in stored /\ x.oid = oid[x.msg] /\ mint[x.handle] = NoMessage
           /\ \A x, y \in call'[c].batch : x.handle = y.handle => x = y
           /\ call'[c].todo = call'[c].batch /\ call'[c].pc = "claim"
           /\ \A b \in Consumers \ {c} : call'[b] = call[b]
           /\ call'[c].won = call[c].won /\ call'[c].result = call[c].result
           /\ call'[c].dead = call[c].dead /\ call'[c].stale = call[c].stale
           /\ call'[c].queue = call[c].queue /\ call'[c].visibility = call[c].visibility
  <1>1. PICK S \in SUBSET Available(call[c].queue) : \E f \in [S -> Fresh] :
           LET found == {[msg |-> m, oid |-> oid[m], handle |-> f[m]] : m \in S} IN
           /\ \A m, n \in S : f[m] = f[n] => m = n
           /\ call' = [call EXCEPT ![c].pc = "claim", ![c].batch = found, ![c].todo = found]
           /\ mint' = [h \in Handles |->
                 IF \E m \in S : f[m] = h THEN CHOOSE m \in S : f[m] = h ELSE mint[h]]
    BY DEF FindCandidates
  <1>2. PICK f \in [S -> Fresh] :
           LET found == {[msg |-> m, oid |-> oid[m], handle |-> f[m]] : m \in S} IN
           /\ \A m, n \in S : f[m] = f[n] => m = n
           /\ call' = [call EXCEPT ![c].pc = "claim", ![c].batch = found, ![c].todo = found]
           /\ mint' = [h \in Handles |->
                 IF \E m \in S : f[m] = h THEN CHOOSE m \in S : f[m] = h ELSE mint[h]]
    BY <1>1
  <1> DEFINE found == {[msg |-> m, oid |-> oid[m], handle |-> f[m]] : m \in S}
  <1>3. \A m \in S : f[m] \in Handles /\ mint[f[m]] = NoMessage
    BY DEF Fresh
  <1>4. \A m \in S : mint'[f[m]] = m
    <2> TAKE m \in S
    <2>1. mint'[f[m]] = CHOOSE n \in S : f[n] = f[m]
      BY <1>2, <1>3
    <2>2. (CHOOSE n \in S : f[n] = f[m]) = m
      BY <1>2
    <2> QED BY <2>1, <2>2
  <1>5. \A h \in Handles : mint[h] # NoMessage => mint'[h] = mint[h]
    BY <1>2, <1>3
  <1>6. \A x \in found : mint'[x.handle] = x.msg
    BY <1>4
  <1>7. /\ call'[c].batch = found /\ call'[c].todo = found
        /\ call'[c].won = call[c].won /\ call'[c].result = call[c].result
        /\ call'[c].dead = call[c].dead /\ call'[c].stale = call[c].stale
        /\ call'[c].queue = call[c].queue /\ call'[c].visibility = call[c].visibility
        /\ call'[c].pc = "claim"
        /\ \A b \in Consumers \ {c} : call'[b] = call[b]
    <2> DEFINE r == [call[c] EXCEPT !.pc = "claim", !.batch = found, !.todo = found]
    <2>1. call \in [Consumers -> Calls] /\ call[c] \in Calls
      BY DEF TypeInv, TypeOK
    <2>2. call' = [call EXCEPT ![c] = r]
      BY <1>2, <2>1
    <2> HIDE DEF found
    <2>3. /\ r.batch = found /\ r.todo = found /\ r.won = call[c].won
          /\ r.result = call[c].result /\ r.dead = call[c].dead /\ r.stale = call[c].stale
          /\ r.queue = call[c].queue /\ r.visibility = call[c].visibility /\ r.pc = "claim"
      BY <2>1 DEF Calls
    <2> HIDE DEF r
    <2> QED BY <2>1, <2>2, <2>3
  <1>8. \A x \in found : x.msg \in stored /\ x.oid = oid[x.msg] /\ mint[x.handle] = NoMessage
    BY <1>3 DEF Available
  <1>9. ASSUME NEW x \in found, NEW y \in found, x.handle = y.handle
        PROVE  x = y
    <2>1. PICK m \in S : x = [msg |-> m, oid |-> oid[m], handle |-> f[m]]
      OBVIOUS
    <2>2. PICK n \in S : y = [msg |-> n, oid |-> oid[n], handle |-> f[n]]
      OBVIOUS
    <2>3. \A j, k \in S : f[j] = f[k] => j = k
      BY <1>2
    <2>4. m = n
      BY ONLY <1>9, <2>1, <2>2, <2>3
    <2> QED BY <2>1, <2>2, <2>4
  <1> HIDE DEF found
  <1> QED BY <1>5, <1>6, <1>7, <1>8, <1>9

\* A document that has no handle, or the same handle as before.
LEMMA HandleLemma ==
    ASSUME NEW d \in Document
    PROVE  /\ \A h \in Handles : Claimed(d, h).receiptHandle = h
           /\ \A q : DeadLettered(d, q).receiptHandle = NoHandle
           /\ \A q : Redriven(d, q).receiptHandle = NoHandle
           /\ Reset(d).receiptHandle = NoHandle
           /\ \A v : WithVisibility(d, v).receiptHandle = d.receiptHandle
           /\ Older(d).receiptHandle = d.receiptHandle
           /\ \A v : [d EXCEPT !.visibilityTimeout = v].receiptHandle = d.receiptHandle
           /\ [d EXCEPT !.status = "AVAILABLE"].receiptHandle = d.receiptHandle
           /\ Blank.receiptHandle = NoHandle
           /\ \A q, v : NewDocument(q, v).receiptHandle = NoHandle
  BY DEF Document, Claimed, DeadLettered, Redriven, Reset, WithVisibility, Older, Blank, NewDocument

\* Every step keeps each handle on the message it was made for.
LEMMA NextOwnership == TypeInv /\ OwnershipInv /\ [Next]_vars => OwnershipInv'
  <1> SUFFICES ASSUME TypeInv, OwnershipInv, [Next]_vars PROVE OwnershipInv'
    OBVIOUS
  <1> USE DEF TypeInv
  <1>0. /\ \A m \in Messages : doc[m] \in Document
        /\ \A w \in Writers : snap[w].doc \in Document
    BY DEF TypeOK
  <1>1. ASSUME NEW m \in Messages, NEW q \in Queues, SendMessage(m, q)
        PROVE  OwnershipInv'
    <2>1. PICK v \in Visibilities : doc' = [doc EXCEPT ![m] = NewDocument(q, v)]
      BY <1>1 DEF SendMessage
    <2>2. NewDocument(q, v).receiptHandle = NoHandle
      BY <1>0, HandleLemma
    <2> QED BY <1>1, <2>1, <2>2 DEF SendMessage, OwnershipInv, Owned, TypeOK
  <1>2. ASSUME NEW c \in Consumers, Receive(c)
        PROVE  OwnershipInv'
    <2>0. call[c] \in Calls
      BY DEF TypeOK
    <2>1. ASSUME NEW q \in Queues, ReceiveStart(c, q)
          PROVE  OwnershipInv'
      <3>1. /\ call'[c].batch = {} /\ call'[c].todo = {} /\ call'[c].won = {}
            /\ call'[c].result = {} /\ \A b \in Consumers \ {c} : call'[b] = call[b]
        BY <2>1 DEF ReceiveStart, Idle, TypeOK
      <3> QED BY <2>1, <3>1 DEF ReceiveStart, OwnershipInv, Owned
    <2>2. CASE FindCandidates(c)
      <3>1. /\ \A h \in Handles : mint[h] # NoMessage => mint'[h] = mint[h]
            /\ \A x \in call'[c].batch \cup call'[c].todo : mint'[x.handle] = x.msg
            /\ \A b \in Consumers \ {c} : call'[b] = call[b]
            /\ call'[c].won = call[c].won /\ call'[c].result = call[c].result
        BY <2>2, MintLemma
      <3>2. doc' = doc /\ snap' = snap /\ delivered' = delivered
        BY <2>2 DEF FindCandidates
      <3>3. \A m \in Messages : Owned(doc[m], m)'
        BY <1>0, <3>1, <3>2 DEF OwnershipInv, Owned, Document
      <3>4. \A w \in Writers : Owned(snap[w].doc, snap[w].msg)'
        BY <1>0, <3>1, <3>2 DEF OwnershipInv, Owned, Document
      <3>5. ASSUME NEW b \in Consumers
            PROVE  /\ \A x \in call'[b].batch \cup call'[b].todo : mint'[x.handle] = x.msg
                   /\ \A d \in call'[b].won \cup call'[b].result : mint'[d.handle] = d.msg
        <4>1. /\ \A x \in call[b].batch \cup call[b].todo :
                     x.handle \in Handles /\ x.msg \in Messages /\ mint[x.handle] = x.msg
              /\ \A d \in call[b].won \cup call[b].result :
                     d.handle \in Handles /\ d.msg \in Messages /\ mint[d.handle] = d.msg
          <5>1. call[b] \in Calls
            BY DEF TypeOK
          <5> QED BY <5>1 DEF OwnershipInv, Calls, Candidates, Deliveries
        <4> QED BY <3>1, <4>1, ConstantsAssumption
      <3>6. \A d \in delivered' : mint'[d.handle] = d.msg
        <4>1. \A d \in delivered : d.handle \in Handles /\ d.msg \in Messages /\ mint[d.handle] = d.msg
          BY DEF TypeOK, Deliveries, OwnershipInv
        <4> QED BY <3>1, <3>2, <4>1, ConstantsAssumption
      <3> QED BY <3>3, <3>4, <3>5, <3>6 DEF OwnershipInv
    <2>3. ASSUME NEW x \in call[c].todo, Claim(c, x)
          PROVE  OwnershipInv'
      <3>1. x.msg \in Messages /\ x.handle \in Handles /\ mint[x.handle] = x.msg
        BY <2>0 DEF Calls, Candidates, OwnershipInv
      <3>2. Claimed(doc[x.msg], x.handle).receiptHandle = x.handle
        BY <1>0, <3>1, HandleLemma
      <3>3. \A m \in Messages : Owned(doc[m], m)'
        BY <2>3, <3>1, <3>2, ConstantsAssumption DEF Claim, OwnershipInv, Owned, TypeOK
      <3>4. /\ call'[c].todo \subseteq call[c].todo /\ call'[c].batch = call[c].batch
            /\ call'[c].won = call[c].won /\ call'[c].result = call[c].result
            /\ \A b \in Consumers \ {c} : call'[b] = call[b]
        BY <2>0, <2>3 DEF Claim, TypeOK, Calls
      <3> QED BY <2>3, <3>3, <3>4 DEF Claim, OwnershipInv, Owned
    <2>4. CASE ReadBack(c)
      <3>1. /\ call'[c].batch = call[c].batch /\ call'[c].todo = call[c].todo
            /\ call'[c].result = call[c].result
            /\ \A b \in Consumers \ {c} : call'[b] = call[b]
        BY <2>0, <2>4 DEF ReadBack, TypeOK, Calls
      <3>2. \A d \in call'[c].won : \E x \in call[c].batch : d.msg = x.msg /\ d.handle = x.handle
        <4> DEFINE live == Won(c) \ Dead(c)
                   stale == {x \in live : TakesQueueVisibility(doc[x.msg], call[c].visibility)}
                   told(x) == IF x \in stale THEN call[c].visibility
                              ELSE doc[x.msg].visibilityTimeout
                   won == {[msg |-> x.msg, handle |-> x.handle, told |-> told(x)] : x \in live}
        <4>1. call'[c].won = won
          BY <2>0, <2>4 DEF ReadBack, TypeOK, Calls
        <4>2. live \subseteq call[c].batch
          BY DEF Won
        <4> HIDE DEF live, told
        <4>3. \A d \in won : \E x \in live : d.msg = x.msg /\ d.handle = x.handle
          OBVIOUS
        <4> QED BY <4>1, <4>2, <4>3
      <3>3. doc' = doc /\ snap' = snap /\ mint' = mint /\ delivered' = delivered
        BY <2>4 DEF ReadBack
      <3> QED BY <3>1, <3>2, <3>3 DEF OwnershipInv, Owned
    <2>5. ASSUME NEW x \in call[c].dead, MoveToDeadLetter(c, x)
          PROVE  OwnershipInv'
      <3>1. x.msg \in Messages
        BY <2>0 DEF Calls, Candidates
      <3>2. DeadLettered(doc[x.msg], call[c].queue).receiptHandle = NoHandle
        BY <1>0, <3>1, HandleLemma
      <3>3. \A m \in Messages : Owned(doc[m], m)'
        BY <2>5, <3>1, <3>2 DEF MoveToDeadLetter, OwnershipInv, Owned, TypeOK
      <3>4. /\ call'[c].todo = call[c].todo /\ call'[c].batch = call[c].batch
            /\ call'[c].won = call[c].won /\ call'[c].result = call[c].result
            /\ \A b \in Consumers \ {c} : call'[b] = call[b]
        BY <2>0, <2>5 DEF MoveToDeadLetter, TypeOK, Calls
      <3> QED BY <2>5, <3>3, <3>4 DEF MoveToDeadLetter, OwnershipInv, Owned
    <2>6. ASSUME NEW x \in call[c].stale, SetLease(c, x)
          PROVE  OwnershipInv'
      <3>1. x.msg \in Messages
        BY <2>0 DEF Calls, Candidates
      <3>2. [doc[x.msg] EXCEPT !.visibilityTimeout = call[c].visibility].receiptHandle
               = doc[x.msg].receiptHandle
        BY <1>0, <3>1, HandleLemma
      <3>3. \A m \in Messages : Owned(doc[m], m)'
        BY <2>6, <3>1, <3>2 DEF SetLease, OwnershipInv, Owned, TypeOK
      <3>4. /\ call'[c].todo = call[c].todo /\ call'[c].batch = call[c].batch
            /\ call'[c].won = call[c].won /\ call'[c].result = call[c].result
            /\ \A b \in Consumers \ {c} : call'[b] = call[b]
        BY <2>0, <2>6 DEF SetLease, TypeOK, Calls
      <3> QED BY <2>6, <3>3, <3>4 DEF SetLease, OwnershipInv, Owned
    <2>7. CASE PassEnd(c)
      <3>1. /\ call'[c].todo = call[c].todo /\ call'[c].batch = {} /\ call'[c].won = {}
            /\ call'[c].result = call[c].result \cup call[c].won
            /\ \A b \in Consumers \ {c} : call'[b] = call[b]
        BY <2>0, <2>7 DEF PassEnd, TypeOK, Calls
      <3>2. doc' = doc /\ snap' = snap /\ mint' = mint /\ delivered' = delivered
        BY <2>7 DEF PassEnd
      <3> QED BY <3>1, <3>2 DEF OwnershipInv, Owned
    <2>8. CASE ReceiveReturn(c) \/ ReceiveFail(c) \/ ReceiveCrash(c)
      <3>1. /\ call'[c].batch = {} /\ call'[c].todo = {} /\ call'[c].won = {}
            /\ call'[c].result = {} /\ \A b \in Consumers \ {c} : call'[b] = call[b]
        BY <2>8 DEF ReceiveReturn, ReceiveFail, ReceiveCrash, Idle, TypeOK
      <3>2. delivered' \subseteq delivered \cup call[c].result
        BY <2>8 DEF ReceiveReturn, ReceiveFail, ReceiveCrash
      <3> QED BY <2>8, <3>1, <3>2 DEF ReceiveReturn, ReceiveFail, ReceiveCrash, OwnershipInv, Owned
    <2>9. CASE StopLooking(c) \/ ReceiveWait(c)
      <3>1. PICK p \in Phases : call' = [call EXCEPT ![c].pc = p]
        BY <2>9 DEF StopLooking, ReceiveWait
      <3>2. /\ call'[c].todo = call[c].todo /\ call'[c].batch = call[c].batch
            /\ call'[c].won = call[c].won /\ call'[c].result = call[c].result
            /\ \A b \in Consumers \ {c} : call'[b] = call[b]
        BY <2>0, <3>1 DEF TypeOK, Calls
      <3> QED BY <2>9, <3>2 DEF StopLooking, ReceiveWait, OwnershipInv, Owned
    <2> QED BY <1>2, <2>1, <2>2, <2>3, <2>4, <2>5, <2>6, <2>7, <2>8, <2>9 DEF Receive
  <1>3. CASE Delete
    <2>1. /\ snap' = snap /\ mint' = mint /\ call' = call /\ delivered' = delivered
          /\ \E S : doc' = [m \in Messages |-> IF m \in S THEN Blank ELSE doc[m]]
      BY <1>3 DEF Delete, DeleteMessage, DeleteMessageById, PurgeQueue, RetentionExpires, Remove
    <2> QED BY <2>1 DEF OwnershipInv, Owned, Blank
  <1>4. ASSUME NEW m \in Messages, NEW d \in Queues, NEW q \in Queues, Redrive(m, d, q)
        PROVE  OwnershipInv'
    <2>1. Redriven(doc[m], q).receiptHandle = NoHandle
      BY <1>0, HandleLemma
    <2> QED BY <1>4, <2>1 DEF Redrive, OwnershipInv, Owned, TypeOK
  <1>5. ASSUME NEW w \in Writers, Rewrite(w)
        PROVE  OwnershipInv'
    <2>1. ASSUME NEW m \in Messages, RewriteRead(w, m)
          PROVE  OwnershipInv'
      BY <2>1 DEF RewriteRead, OwnershipInv, Owned, TypeOK
    <2>2. ASSUME NEW v \in Timeouts, SetVisibility(w, v)
          PROVE  OwnershipInv'
      <3>1. snap[w].msg \in Messages
        BY <2>2 DEF SetVisibility, TypeOK
      <3>2. WithVisibility(snap[w].doc, v).receiptHandle = snap[w].doc.receiptHandle
        BY <1>0, HandleLemma
      <3> QED BY <2>2, <3>1, <3>2 DEF SetVisibility, Upsert, NoSnap, Blank, OwnershipInv, Owned, TypeOK
    <2>3. CASE SetMessageAttribute(w)
      <3>1. snap[w].msg \in Messages
        BY <2>3 DEF SetMessageAttribute, TypeOK
      <3> QED BY <2>3, <3>1 DEF SetMessageAttribute, Upsert, NoSnap, Blank, OwnershipInv, Owned, TypeOK
    <2> QED BY <1>5, <2>1, <2>2, <2>3 DEF Rewrite
  <1>6. ASSUME NEW s \in Sweepers, Sweep(s)
        PROVE  OwnershipInv'
    <2>1. ASSUME NEW x \in sweep[s].expired, SweepReset(s, x)
          PROVE  OwnershipInv'
      <3>1. x.msg \in Messages
        BY DEF TypeOK, Refs
      <3>2. Reset(doc[x.msg]).receiptHandle = NoHandle
        BY <1>0, <3>1, HandleLemma
      <3> QED BY <2>1, <3>1, <3>2 DEF SweepReset, OwnershipInv, Owned, TypeOK
    <2>2. ASSUME NEW x \in sweep[s].due, SweepRelease(s, x)
          PROVE  OwnershipInv'
      <3>1. x.msg \in Messages
        BY DEF TypeOK, Refs
      <3>2. [doc[x.msg] EXCEPT !.status = "AVAILABLE"].receiptHandle = doc[x.msg].receiptHandle
        BY <1>0, <3>1, HandleLemma
      <3> QED BY <2>2, <3>1, <3>2 DEF SweepRelease, OwnershipInv, Owned, TypeOK
    <2>3. CASE UNCHANGED <<doc, snap, mint, call, delivered>>
      BY <2>3 DEF OwnershipInv, Owned
    <2> QED BY <1>6, <2>1, <2>2, <2>3 DEF Sweep, SweepRead, SweepFail
  <1>7. CASE Tick
    <2>1. \A m \in Messages : doc'[m].receiptHandle = doc[m].receiptHandle
      BY <1>0, <1>7, HandleLemma DEF Tick
    <2>2. \A w \in Writers : snap'[w].doc.receiptHandle = snap[w].doc.receiptHandle
                               /\ snap'[w].msg = snap[w].msg
      <3> SUFFICES ASSUME NEW w \in Writers
                   PROVE  /\ snap'[w].doc.receiptHandle = snap[w].doc.receiptHandle
                          /\ snap'[w].msg = snap[w].msg
        OBVIOUS
      <3>1. snap[w] \in [msg : Messages \cup {NoMessage}, doc : Document]
        BY <1>0 DEF TypeOK
      <3>2. snap'[w] = [snap[w] EXCEPT !.doc = Older(snap[w].doc)]
        BY <1>7 DEF Tick
      <3>3. Older(snap[w].doc).receiptHandle = snap[w].doc.receiptHandle
        BY <3>1, HandleLemma
      <3>4. snap'[w].doc = Older(snap[w].doc) /\ snap'[w].msg = snap[w].msg
        BY ONLY <3>1, <3>2
      <3> QED BY ONLY <3>3, <3>4
    <2>3. UNCHANGED <<mint, call, delivered>>
      BY <1>7 DEF Tick
    <2> QED BY ONLY OwnershipInv, <2>1, <2>2, <2>3 DEF OwnershipInv, Owned
  <1>8. CASE UNCHANGED vars
    BY <1>8 DEF vars, OwnershipInv, Owned
  <1> QED BY <1>1, <1>2, <1>3, <1>4, <1>5, <1>6, <1>7, <1>8 DEF Next

\* A receipt handle names one message: the delete by handle of any consumer finds
\* no document but the one that was handed out with that handle.
THEOREM HandleUnique == Spec => []HandleNamesOneMessage
  <1>1. Init => OwnershipInv
    BY DEF Init, OwnershipInv, Owned, NoSnap, Blank, Idle
  <1>2. TypeInv /\ OwnershipInv => HandleNamesOneMessage
    BY ConstantsAssumption
       DEF TypeInv, TypeOK, OwnershipInv, Owned, HandleNamesOneMessage, Deliveries
  <1> QED BY <1>1, <1>2, InitTypeInv, NextTypeInv, NextOwnership, PTL DEF Spec

-----------------------------------------------------------------------------
(***************************************************************************)
(* Receive calls in progress, when nobody rewrites documents.  A pass goes *)
(* through its phases with what belongs to them; a handle is in the hands  *)
(* of one pass, or has been handed on, never both; and the _id a query     *)
(* returned stays the _id of the message, which is inserted once.          *)
(***************************************************************************)
NoWriters == Writers = {}

ShapeOf(r) ==
    /\ r.pc # "won" => r.dead = {} /\ r.stale = {} /\ r.won = {}
    /\ r.pc # "claim" => r.todo = {}
    /\ r.pc \notin {"claim", "won"} => r.batch = {}
    /\ r.pc # "idle" => r.visibility \in Visibilities
    /\ r.dead # {} => DeadLetterOf[r.queue] \in Queues
    /\ r.todo \subseteq r.batch /\ r.dead \subseteq r.batch /\ r.stale \subseteq r.batch
    /\ \A d \in r.won : \E x \in r.batch : x.msg = d.msg /\ x.handle = d.handle

Shape == \A c \in Consumers : ShapeOf(call[c])

\* What a receive has won in earlier passes, or has returned.
Handed(d) == d \in delivered \/ \E c \in Consumers : d \in call[c].result

Custody ==
    \A c \in Consumers : \A x \in call[c].batch :
        /\ \A b \in Consumers : \A y \in call[b].batch : x.handle = y.handle => b = c /\ y = x
        /\ \A d \in Deliveries : Handed(d) => d.handle # x.handle

\* A reference to the only document its message ever had.
Steady(x) == x.msg \in sent /\ oid[x.msg] = x.oid

Identity ==
    /\ stored \subseteq sent
    /\ \A m \in Messages \ sent : deliveries[m] = 0
    /\ \A m \in stored : doc[m].queueErn \in Queues
    /\ \A c \in Consumers : \A x \in call[c].batch : Steady(x)
    /\ \A s \in Sweepers : \A x \in sweep[s].expired : Steady(x)

CallInv == TypeInv /\ WellFormedInv /\ OwnershipInv /\ Shape /\ Custody /\ Identity

\* What the steps of a receive do to the call: it begins empty...
LEMMA StartEffect ==
    ASSUME TypeInv, NEW c \in Consumers, NEW q \in Queues, ReceiveStart(c, q)
    PROVE  /\ call'[c].pc = "look" /\ call'[c].queue = q /\ call'[c].visibility \in Visibilities
           /\ call'[c].batch = {} /\ call'[c].todo = {} /\ call'[c].dead = {}
           /\ call'[c].stale = {} /\ call'[c].won = {} /\ call'[c].result = {}
           /\ \A b \in Consumers \ {c} : call'[b] = call[b]
  BY DEF ReceiveStart, Idle, TypeInv, TypeOK

\* ... a phase that writes documents crosses one candidate off ...
LEMMA WriteEffect ==
    ASSUME TypeInv, NEW c \in Consumers, NEW x,
           \/ Claim(c, x)
           \/ MoveToDeadLetter(c, x)
           \/ SetLease(c, x)
    PROVE  /\ call'[c].pc = call[c].pc /\ call'[c].queue = call[c].queue
           /\ call'[c].visibility = call[c].visibility
           /\ call'[c].batch = call[c].batch
           /\ call'[c].won = call[c].won /\ call'[c].result = call[c].result
           /\ call'[c].todo = IF Claim(c, x) THEN call[c].todo \ {x} ELSE call[c].todo
           /\ call'[c].dead \subseteq call[c].dead
           /\ call'[c].stale = IF SetLease(c, x) THEN call[c].stale \ {x} ELSE call[c].stale
           /\ \A b \in Consumers \ {c} : call'[b] = call[b]
  <1>0. call[c] \in Calls
    BY DEF TypeInv, TypeOK
  <1>1. CASE Claim(c, x)
    <2>1. call' = [call EXCEPT ![c].todo = @ \ {x}] /\ call[c].pc = "claim"
      BY <1>1 DEF Claim
    <2> QED BY <1>0, <1>1, <2>1 DEF Calls, SetLease, TypeInv, TypeOK
  <1>2. CASE MoveToDeadLetter(c, x)
    <2>1. /\ call' = [call EXCEPT ![c].dead = @ \ {x}] /\ call[c].pc = "won"
          /\ x \in call[c].dead
      BY <1>2 DEF MoveToDeadLetter
    <2> QED BY <1>0, <1>2, <2>1 DEF Calls, SetLease, Claim, TypeInv, TypeOK
  <1>3. CASE SetLease(c, x)
    <2>1. call' = [call EXCEPT ![c].stale = @ \ {x}] /\ call[c].pc = "won"
      BY <1>3 DEF SetLease
    <2> QED BY <1>0, <1>3, <2>1 DEF Calls, Claim, TypeInv, TypeOK
  <1> QED BY <1>1, <1>2, <1>3

\* ... the read-back sorts what was won ...
LEMMA ReadBackEffect ==
    ASSUME TypeInv, NEW c \in Consumers, ReadBack(c)
    PROVE  LET live == Won(c) \ Dead(c)
               stale == {x \in live : TakesQueueVisibility(doc[x.msg], call[c].visibility)} IN
           /\ call'[c].pc = "won" /\ call'[c].queue = call[c].queue
           /\ call'[c].visibility = call[c].visibility
           /\ call'[c].batch = call[c].batch /\ call'[c].todo = call[c].todo
           /\ call'[c].result = call[c].result
           /\ call'[c].dead = Dead(c) /\ call'[c].stale = stale
           /\ \A d \in call'[c].won : \E x \in live :
                 /\ d.msg = x.msg /\ d.handle = x.handle
                 /\ d.told = IF x \in stale THEN call[c].visibility
                             ELSE doc[x.msg].visibilityTimeout
           /\ \A b \in Consumers \ {c} : call'[b] = call[b]
  <1> DEFINE live == Won(c) \ Dead(c)
             stale == {x \in live : TakesQueueVisibility(doc[x.msg], call[c].visibility)}
             told(x) == IF x \in stale THEN call[c].visibility ELSE doc[x.msg].visibilityTimeout
             won == {[msg |-> x.msg, handle |-> x.handle, told |-> told(x)] : x \in live}
             r == [call[c] EXCEPT !.pc = "won", !.dead = Dead(c), !.stale = stale, !.won = won]
  <1>0. call[c] \in Calls /\ call \in [Consumers -> Calls]
    BY DEF TypeInv, TypeOK
  <1>1. call' = [call EXCEPT ![c] = r]
    BY <1>0 DEF ReadBack
  <1>2. \A d \in won : \E x \in live :
           d.msg = x.msg /\ d.handle = x.handle /\ d.told = told(x)
    <2> HIDE DEF live, told
    <2> QED OBVIOUS
  <1> HIDE DEF won, stale, live
  <1>3. /\ r.pc = "won" /\ r.queue = call[c].queue /\ r.visibility = call[c].visibility
        /\ r.batch = call[c].batch /\ r.todo = call[c].todo /\ r.result = call[c].result
        /\ r.dead = Dead(c) /\ r.stale = stale /\ r.won = won
    BY <1>0 DEF Calls
  <1> HIDE DEF r
  <1>4. call'[c] = r /\ \A b \in Consumers \ {c} : call'[b] = call[b]
    BY <1>0, <1>1
  <1> QED BY <1>2, <1>3, <1>4 DEF stale, live

\* ... a pass ends, or the call goes to another phase ...
LEMMA PassEffect ==
    ASSUME TypeInv, NEW c \in Consumers,
           PassEnd(c) \/ StopLooking(c) \/ ReceiveWait(c)
    PROVE  /\ call'[c].pc \in {"look", "settle"} /\ call'[c].queue = call[c].queue
           /\ call'[c].visibility = call[c].visibility
           /\ call'[c].todo = call[c].todo /\ call'[c].dead = call[c].dead
           /\ call'[c].stale = call[c].stale
           /\ IF PassEnd(c)
              THEN /\ call'[c].batch = {} /\ call'[c].won = {}
                   /\ call'[c].result = call[c].result \cup call[c].won
              ELSE /\ call'[c].batch = call[c].batch /\ call'[c].won = call[c].won
                   /\ call'[c].result = call[c].result
           /\ \A b \in Consumers \ {c} : call'[b] = call[b]
  <1>0. call[c] \in Calls
    BY DEF TypeInv, TypeOK
  <1>1. CASE PassEnd(c)
    BY <1>0, <1>1 DEF PassEnd, Calls, TypeInv, TypeOK
  <1>2. CASE StopLooking(c) \/ ReceiveWait(c)
    <2>1. call[c].pc # "won" /\ \E p \in {"look", "settle"} : call' = [call EXCEPT ![c].pc = p]
      BY <1>2 DEF StopLooking, ReceiveWait
    <2> QED BY <1>0, <2>1 DEF PassEnd, Calls, TypeInv, TypeOK
  <1> QED BY <1>1, <1>2

\* ... and the call ends, with what it hands on.
LEMMA EndEffect ==
    ASSUME TypeInv, NEW c \in Consumers,
           ReceiveReturn(c) \/ ReceiveFail(c) \/ ReceiveCrash(c)
    PROVE  /\ call'[c] = Idle
           /\ \A b \in Consumers \ {c} : call'[b] = call[b]
           /\ delivered' \subseteq delivered \cup call[c].result
           /\ UNCHANGED <<sent, stored, doc, oid, mint, leaseAge, sweep, snap, deliveries>>
  BY DEF ReceiveReturn, ReceiveFail, ReceiveCrash, TypeInv, TypeOK

\* Every step keeps each call in progress in the shape of its phase.
LEMMA NextShape == CallInv /\ [Next]_vars => Shape'
  <1> SUFFICES ASSUME CallInv, [Next]_vars PROVE Shape'
    OBVIOUS
  <1> USE DEF CallInv
  <1>1. ASSUME NEW c \in Consumers, Receive(c)
        PROVE  Shape'
    <2>0. ShapeOf(call[c]) /\ \A b \in Consumers : ShapeOf(call[b])
      BY DEF Shape
    <2>1. SUFFICES ASSUME \A b \in Consumers \ {c} : call'[b] = call[b] => ShapeOf(call'[b])
                   PROVE  ShapeOf(call'[c]) /\ \A b \in Consumers \ {c} : call'[b] = call[b]
      BY <2>0 DEF Shape
    <2>2. ASSUME NEW q \in Queues, ReceiveStart(c, q)
          PROVE  ShapeOf(call'[c]) /\ \A b \in Consumers \ {c} : call'[b] = call[b]
      BY <2>2, StartEffect DEF ShapeOf
    <2>3. CASE FindCandidates(c)
      <3>1. call[c].pc = "look"
        BY <2>3 DEF FindCandidates
      <3>2. /\ call'[c].todo = call'[c].batch /\ call'[c].pc = "claim"
            /\ \A b \in Consumers \ {c} : call'[b] = call[b]
            /\ call'[c].won = call[c].won
            /\ call'[c].dead = call[c].dead /\ call'[c].stale = call[c].stale
            /\ call'[c].queue = call[c].queue /\ call'[c].visibility = call[c].visibility
        BY <2>3, MintLemma
      <3> QED BY <2>0, <3>1, <3>2 DEF ShapeOf
    <2>4. ASSUME NEW x, Claim(c, x) \/ MoveToDeadLetter(c, x) \/ SetLease(c, x)
          PROVE  ShapeOf(call'[c]) /\ \A b \in Consumers \ {c} : call'[b] = call[b]
      <3>1. /\ call'[c].pc = call[c].pc /\ call'[c].queue = call[c].queue
            /\ call'[c].visibility = call[c].visibility
            /\ call'[c].batch = call[c].batch /\ call'[c].won = call[c].won
            /\ call'[c].todo \subseteq call[c].todo /\ call'[c].dead \subseteq call[c].dead
            /\ call'[c].stale \subseteq call[c].stale
            /\ \A b \in Consumers \ {c} : call'[b] = call[b]
        BY <2>4, WriteEffect
      <3> QED BY <2>0, <3>1 DEF ShapeOf
    <2>5. CASE ReadBack(c)
      <3>1. /\ call'[c].pc = "won" /\ call'[c].queue = call[c].queue
            /\ call'[c].visibility = call[c].visibility
            /\ call'[c].batch = call[c].batch /\ call'[c].todo = call[c].todo
            /\ call'[c].dead = Dead(c) /\ call'[c].stale \subseteq Won(c)
            /\ \A d \in call'[c].won : \E x \in Won(c) : d.msg = x.msg /\ d.handle = x.handle
            /\ \A b \in Consumers \ {c} : call'[b] = call[b]
        BY <2>5, ReadBackEffect
      <3>2. Won(c) \subseteq call[c].batch /\ Dead(c) \subseteq call[c].batch
        BY DEF Won, Dead
      <3>3. call[c].pc = "claim" /\ call[c].queue \in Queues /\ call[c].todo = {}
        BY <2>5 DEF ReadBack, TypeInv, CallsHaveQueue
      <3>4. Dead(c) # {} => DeadLetterOf[call[c].queue] \in Queues
        BY <3>3, ConstantsAssumption DEF Dead, OverLimit
      <3> QED BY <2>0, <3>1, <3>2, <3>3, <3>4 DEF ShapeOf
    <2>6. CASE PassEnd(c) \/ StopLooking(c) \/ ReceiveWait(c)
      <3>1. /\ call'[c].pc \in {"look", "settle"} /\ call'[c].queue = call[c].queue
            /\ call'[c].visibility = call[c].visibility
            /\ call'[c].todo = call[c].todo /\ call'[c].dead = call[c].dead
            /\ call'[c].stale = call[c].stale
            /\ \/ PassEnd(c) /\ call'[c].batch = {} /\ call'[c].won = {}
               \/ ~PassEnd(c) /\ call'[c].batch = call[c].batch /\ call'[c].won = call[c].won
            /\ \A b \in Consumers \ {c} : call'[b] = call[b]
        BY <2>6, PassEffect
      <3>2. call[c].pc # "idle"
        BY <2>6 DEF PassEnd, StopLooking, ReceiveWait
      <3>3. CASE PassEnd(c)
        <4>1. call[c].dead = {} /\ call[c].stale = {} /\ call[c].pc = "won"
          BY <3>3 DEF PassEnd
        <4> QED BY <2>0, <3>1, <3>2, <3>3, <4>1 DEF ShapeOf
      <3>4. CASE ~PassEnd(c)
        <4>1. call[c].pc \in {"look", "settle"}
          BY <2>6, <3>4 DEF StopLooking, ReceiveWait
        <4> QED BY <2>0, <3>1, <3>4, <4>1 DEF ShapeOf
      <3> QED BY <3>3, <3>4
    <2>7. CASE ReceiveReturn(c) \/ ReceiveFail(c) \/ ReceiveCrash(c)
      BY <2>7, EndEffect DEF ShapeOf, Idle
    <2> QED BY <1>1, <2>2, <2>3, <2>4, <2>5, <2>6, <2>7 DEF Receive
  <1>2. CASE UNCHANGED call
    BY <1>2 DEF Shape
  <1> QED
    BY <1>1, <1>2
    DEF Next, SendMessage, Delete, DeleteMessage, DeleteMessageById, PurgeQueue, RetentionExpires,
        Redrive, Rewrite, RewriteRead, SetVisibility, SetMessageAttribute, Sweep, SweepRead,
        SweepReset, SweepRelease, SweepFail, Tick, vars

\* What was handed on, and the candidates of every pass, only by a find and at the
\* end of a pass.
LEMMA CustodyKept ==
    ASSUME Custody,
           \A b \in Consumers : call'[b].batch \subseteq call[b].batch,
           \A d \in Deliveries : Handed(d)' => Handed(d)
    PROVE  Custody'
  BY DEF Custody

\* Every step keeps each handle in one hand.
LEMMA NextCustody == CallInv /\ [Next]_vars => Custody'
  <1> SUFFICES ASSUME CallInv, [Next]_vars PROVE Custody'
    OBVIOUS
  <1> USE DEF CallInv
  <1>1. ASSUME NEW c \in Consumers, Receive(c)
        PROVE  Custody'
    <2>0. /\ ShapeOf(call[c]) /\ TypeInv /\ Custody
          /\ \A b \in Consumers : \A x \in call[b].batch :
                x.handle \in Handles /\ x.msg \in Messages /\ mint[x.handle] = x.msg
          /\ \A d \in Deliveries : Handed(d) => mint[d.handle] = d.msg
      <3>1. \A b \in Consumers : call[b] \in Calls
        BY DEF TypeInv, TypeOK
      <3>2. \A b \in Consumers : \A x \in call[b].batch :
                x.handle \in Handles /\ x.msg \in Messages /\ mint[x.handle] = x.msg
        BY <3>1 DEF OwnershipInv, Calls, Candidates
      <3>3. \A d \in Deliveries : Handed(d) => mint[d.handle] = d.msg
        BY DEF Handed, OwnershipInv
      <3> QED BY <3>2, <3>3 DEF Shape
    <2>1. ASSUME NEW q \in Queues, ReceiveStart(c, q)
          PROVE  Custody'
      <3>1. delivered' = delivered
        BY <2>1 DEF ReceiveStart
      <3>2. call'[c].batch = {} /\ call'[c].result = {}
              /\ \A b \in Consumers \ {c} : call'[b] = call[b]
        BY <2>0, <2>1, StartEffect
      <3> QED BY <2>0, <3>1, <3>2, CustodyKept DEF Handed
    <2>2. CASE FindCandidates(c)
      <3>1. delivered' = delivered
        BY <2>2 DEF FindCandidates
      <3>2. /\ \A x \in call'[c].batch : mint[x.handle] = NoMessage
            /\ \A x, y \in call'[c].batch : x.handle = y.handle => x = y
            /\ call'[c].result = call[c].result
            /\ \A b \in Consumers \ {c} : call'[b] = call[b]
        BY <2>0, <2>2, MintLemma
      <3>3. \A d \in Deliveries : Handed(d)' => Handed(d)
        BY <3>1, <3>2 DEF Handed
      <3>4. \A d \in Deliveries : d.msg # NoMessage
        BY ConstantsAssumption DEF Deliveries
      <3>5. \A b \in Consumers \ {c} : \A x \in call[b].batch : mint[x.handle] # NoMessage
        BY <2>0, ConstantsAssumption
      <3>6. ASSUME NEW a \in Consumers, NEW x \in call'[a].batch
            PROVE  /\ \A b \in Consumers : \A y \in call'[b].batch :
                         x.handle = y.handle => b = a /\ y = x
                   /\ \A d \in Deliveries : Handed(d)' => d.handle # x.handle
        <4>1. CASE a = c
          BY <2>0, <3>2, <3>3, <3>4, <3>5, <4>1
        <4>2. CASE a # c
          <5>1. call'[a] = call[a]
            BY <3>2, <4>2
          <5> QED BY <2>0, <3>2, <3>3, <3>5, <4>2, <5>1 DEF Custody
        <4> QED BY <4>1, <4>2
      <3> QED BY <3>6 DEF Custody
    <2>3. ASSUME NEW x, Claim(c, x) \/ MoveToDeadLetter(c, x) \/ SetLease(c, x)
          PROVE  Custody'
      <3>1. delivered' = delivered
        BY <2>3 DEF Claim, MoveToDeadLetter, SetLease
      <3>2. call'[c].batch = call[c].batch /\ call'[c].result = call[c].result
              /\ \A b \in Consumers \ {c} : call'[b] = call[b]
        BY <2>0, <2>3, WriteEffect
      <3> QED BY <2>0, <3>1, <3>2, CustodyKept DEF Handed
    <2>4. CASE ReadBack(c)
      <3>1. delivered' = delivered
        BY <2>4 DEF ReadBack
      <3>2. call'[c].batch = call[c].batch /\ call'[c].result = call[c].result
              /\ \A b \in Consumers \ {c} : call'[b] = call[b]
        BY <2>0, <2>4, ReadBackEffect
      <3> QED BY <2>0, <3>1, <3>2, CustodyKept DEF Handed
    <2>5. CASE PassEnd(c)
      <3>1. delivered' = delivered
        BY <2>5 DEF PassEnd
      <3>2. call'[c].batch = {} /\ call'[c].result = call[c].result \cup call[c].won
              /\ \A b \in Consumers \ {c} : call'[b] = call[b]
        BY <2>0, <2>5, PassEffect
      <3>3. \A d \in call[c].won : \E x \in call[c].batch : x.handle = d.handle
        BY <2>0 DEF ShapeOf
      <3>4. \A d \in Deliveries : Handed(d)' => Handed(d) \/ d \in call[c].won
        BY <3>1, <3>2 DEF Handed
      <3>5. ASSUME NEW a \in Consumers, NEW x \in call'[a].batch
            PROVE  /\ \A b \in Consumers : \A y \in call'[b].batch :
                         x.handle = y.handle => b = a /\ y = x
                   /\ \A d \in Deliveries : Handed(d)' => d.handle # x.handle
        <4>1. a # c /\ call'[a] = call[a]
          BY <3>2, <3>5
        <4>2. \A b \in Consumers : call'[b].batch \subseteq call[b].batch
          BY <3>2
        <4> QED BY <2>0, <3>3, <3>4, <4>1, <4>2 DEF Custody
      <3> QED BY <3>5 DEF Custody
    <2>6. CASE StopLooking(c) \/ ReceiveWait(c)
      <3>0. ~PassEnd(c)
        BY <2>6 DEF StopLooking, ReceiveWait, PassEnd
      <3>1. delivered' = delivered
        BY <2>6 DEF StopLooking, ReceiveWait
      <3>2. call'[c].batch = call[c].batch /\ call'[c].result = call[c].result
              /\ \A b \in Consumers \ {c} : call'[b] = call[b]
        BY <2>0, <2>6, <3>0, PassEffect
      <3> QED BY <2>0, <3>1, <3>2, CustodyKept DEF Handed
    <2>7. CASE ReceiveReturn(c) \/ ReceiveFail(c) \/ ReceiveCrash(c)
      <3>1. delivered' \subseteq delivered \cup call[c].result
        BY <2>0, <2>7, EndEffect
      <3>2. call'[c].batch = {} /\ call'[c].result = {}
              /\ \A b \in Consumers \ {c} : call'[b] = call[b]
        BY <2>0, <2>7, EndEffect DEF Idle
      <3> QED BY <2>0, <3>1, <3>2, CustodyKept DEF Handed
    <2> QED BY <1>1, <2>1, <2>2, <2>3, <2>4, <2>5, <2>6, <2>7 DEF Receive
  <1>2. CASE UNCHANGED <<call, delivered>>
    BY <1>2, CustodyKept DEF Handed
  <1> QED
    BY <1>1, <1>2
    DEF Next, SendMessage, Delete, DeleteMessage, DeleteMessageById, PurgeQueue, RetentionExpires,
        Redrive, Rewrite, RewriteRead, SetVisibility, SetMessageAttribute, Sweep, SweepRead,
        SweepReset, SweepRelease, SweepFail, Tick, vars

-----------------------------------------------------------------------------
\* What the writes of the repository do to the fields of a document that the
\* following proofs are about.
LEMMA FieldLemma ==
    ASSUME NEW d \in Document
    PROVE  /\ \A h \in Handles :
                 /\ Claimed(d, h).queueErn = d.queueErn
                 /\ Claimed(d, h).receivedCount = d.receivedCount + 1
                 /\ Claimed(d, h).visibilityTimeout = d.visibilityTimeout
                 /\ Claimed(d, h).receiptHandle = h
                 /\ Claimed(d, h).sinceReceived = 0
           /\ \A q \in Queues :
                 /\ DeadLettered(d, q).queueErn = DeadLetterOf[q]
                 /\ DeadLettered(d, q).receiptHandle = NoHandle
                 /\ Redriven(d, q).queueErn = q
                 /\ Redriven(d, q).receiptHandle = NoHandle
           /\ Reset(d).queueErn = d.queueErn
           /\ Reset(d).receivedCount = d.receivedCount
           /\ Reset(d).visibilityTimeout = d.visibilityTimeout
           /\ Reset(d).receiptHandle = NoHandle
  <1> USE DEF Document
  <1>1. ASSUME NEW h \in Handles
        PROVE  /\ Claimed(d, h).queueErn = d.queueErn
               /\ Claimed(d, h).receivedCount = d.receivedCount + 1
               /\ Claimed(d, h).visibilityTimeout = d.visibilityTimeout
               /\ Claimed(d, h).receiptHandle = h
               /\ Claimed(d, h).sinceReceived = 0
    BY DEF Claimed
  <1>2. ASSUME NEW q \in Queues
        PROVE  /\ DeadLettered(d, q).queueErn = DeadLetterOf[q]
               /\ DeadLettered(d, q).receiptHandle = NoHandle
               /\ Redriven(d, q).queueErn = q
               /\ Redriven(d, q).receiptHandle = NoHandle
    BY DEF DeadLettered, Redriven
  <1>3. /\ Reset(d).queueErn = d.queueErn
        /\ Reset(d).receivedCount = d.receivedCount
        /\ Reset(d).visibilityTimeout = d.visibilityTimeout
        /\ Reset(d).receiptHandle = NoHandle
    BY DEF Reset
  <1> QED BY <1>1, <1>2, <1>3

\* Time changes only how long ago things happened, and so does the end of a delay
\* but for the status; a lease changes only the timeout.
LEMMA AgeLemma ==
    ASSUME NEW d \in Document
    PROVE  /\ Older(d).queueErn = d.queueErn
           /\ Older(d).receivedCount = d.receivedCount
           /\ Older(d).visibilityTimeout = d.visibilityTimeout
           /\ Older(d).receiptHandle = d.receiptHandle
           /\ Older(d).status = d.status
           /\ Older(d).sinceReceived =
                 IF d.status = "INVISIBLE" /\ d.sinceReceived < MaxAge
                 THEN d.sinceReceived + 1 ELSE d.sinceReceived
           /\ [d EXCEPT !.status = "AVAILABLE"].queueErn = d.queueErn
           /\ [d EXCEPT !.status = "AVAILABLE"].receivedCount = d.receivedCount
           /\ [d EXCEPT !.status = "AVAILABLE"].visibilityTimeout = d.visibilityTimeout
           /\ [d EXCEPT !.status = "AVAILABLE"].receiptHandle = d.receiptHandle
           /\ [d EXCEPT !.status = "AVAILABLE"].sinceReceived = d.sinceReceived
           /\ \A v : /\ [d EXCEPT !.visibilityTimeout = v].queueErn = d.queueErn
                     /\ [d EXCEPT !.visibilityTimeout = v].receivedCount = d.receivedCount
                     /\ [d EXCEPT !.visibilityTimeout = v].receiptHandle = d.receiptHandle
                     /\ [d EXCEPT !.visibilityTimeout = v].sinceReceived = d.sinceReceived
                     /\ [d EXCEPT !.visibilityTimeout = v].status = d.status
                     /\ [d EXCEPT !.visibilityTimeout = v].visibilityTimeout = v
  BY DEF Document, Older

\* The writes of the repository, one stored document at a time, when nobody
\* rewrites documents: inserted by a send, claimed, moved to the dead letter
\* queue, given a lease, redriven, reset, released from its delay, or older.
Inserted(m) ==
    \E q \in Queues, v \in Visibilities : SendMessage(m, q) /\ doc'[m] = NewDocument(q, v)

Written(m) ==
    \/ \E c \in Consumers, x \in Candidates :
          /\ Claim(c, x) /\ x.msg = m /\ ClaimMatches(x)
          /\ doc'[m] = Claimed(doc[m], x.handle)
    \/ \E c \in Consumers, x \in Candidates :
          /\ MoveToDeadLetter(c, x) /\ x.msg = m
          /\ doc'[m] = DeadLettered(doc[m], call[c].queue)
          /\ deliveries'[m] = 0
    \/ \E c \in Consumers, x \in Candidates :
          /\ SetLease(c, x) /\ x.msg = m /\ doc[m].receiptHandle = x.handle
          /\ doc'[m] = [doc[m] EXCEPT !.visibilityTimeout = call[c].visibility]
    \/ \E d, q \in Queues :
          /\ Redrive(m, d, q) /\ doc'[m] = Redriven(doc[m], q)
          /\ deliveries'[m] = 0
    \/ \E s \in Sweepers, x \in Refs :
          /\ SweepReset(s, x) /\ x.msg = m /\ Matches(x)
          /\ doc[m].status = "INVISIBLE"
          /\ doc'[m] = Reset(doc[m])
    \/ \E s \in Sweepers, x \in Refs :
          /\ SweepRelease(s, x) /\ x.msg = m
          /\ doc[m].status = "DELAYED"
          /\ doc'[m] = [doc[m] EXCEPT !.status = "AVAILABLE"]
    \/ Tick /\ doc'[m] = Older(doc[m])

\* Every document that is stored after a step was so before and is as it was, or
\* has been written by the step.
LEMMA WrittenLemma ==
    ASSUME TypeInv, NoWriters, [Next]_vars, NEW m \in stored'
    PROVE  Inserted(m) \/ (m \in stored /\ (Written(m) \/ doc'[m] = doc[m]))
  <1>0. m \in Messages /\ doc \in [Messages -> Document]
    <2>1. TypeInv'
      BY NextTypeInv
    <2> QED BY <2>1 DEF TypeInv, TypeOK
  <1>1. ASSUME NEW n \in Messages, NEW q \in Queues, SendMessage(n, q)
        PROVE  Inserted(m) \/ (m \in stored /\ (Written(m) \/ doc'[m] = doc[m]))
    <2>1. PICK v \in Visibilities : doc' = [doc EXCEPT ![n] = NewDocument(q, v)]
      BY <1>1 DEF SendMessage
    <2>2. CASE n = m
      <3>1. doc'[m] = NewDocument(q, v)
        BY <1>0, <2>1, <2>2
      <3> QED BY <1>1, <2>2, <3>1 DEF Inserted
    <2>3. CASE n # m
      BY <1>0, <1>1, <2>1, <2>3 DEF SendMessage
    <2> QED BY <2>2, <2>3
  <1>2. ASSUME NEW c \in Consumers, Receive(c)
        PROVE  Inserted(m) \/ (m \in stored /\ (Written(m) \/ doc'[m] = doc[m]))
    <2>0. call[c] \in Calls /\ call[c].todo \subseteq Candidates
            /\ call[c].dead \subseteq Candidates /\ call[c].stale \subseteq Candidates
      BY DEF TypeInv, TypeOK, Calls
    <2>1. ASSUME NEW x \in call[c].todo, Claim(c, x)
          PROVE  Inserted(m) \/ (m \in stored /\ (Written(m) \/ doc'[m] = doc[m]))
      <3>1. stored' = stored /\ x \in Candidates
        BY <2>0, <2>1 DEF Claim
      <3>2. CASE x.msg = m /\ ClaimMatches(x)
        <4>1. doc'[m] = Claimed(doc[m], x.handle)
          BY <1>0, <2>1, <3>2 DEF Claim
        <4> QED BY <2>1, <3>1, <3>2, <4>1 DEF Written
      <3>3. CASE ~(x.msg = m /\ ClaimMatches(x))
        <4>1. doc'[m] = doc[m]
          BY <1>0, <2>1, <3>3 DEF Claim
        <4> QED BY <3>1, <4>1
      <3> QED BY <3>2, <3>3
    <2>2. ASSUME NEW x \in call[c].dead, MoveToDeadLetter(c, x)
          PROVE  Inserted(m) \/ (m \in stored /\ (Written(m) \/ doc'[m] = doc[m]))
      <3>1. stored' = stored /\ x \in Candidates
        BY <2>0, <2>2 DEF MoveToDeadLetter
      <3>2. CASE x.msg = m /\ Matches(x)
        <4>1. doc'[m] = DeadLettered(doc[m], call[c].queue) /\ deliveries'[m] = 0
          BY <1>0, <2>2, <3>2 DEF MoveToDeadLetter, TypeInv, TypeOK
        <4> QED BY <2>2, <3>1, <3>2, <4>1 DEF Written
      <3>3. CASE ~(x.msg = m /\ Matches(x))
        <4>1. doc'[m] = doc[m]
          BY <1>0, <2>2, <3>3 DEF MoveToDeadLetter
        <4> QED BY <3>1, <4>1
      <3> QED BY <3>2, <3>3
    <2>3. ASSUME NEW x \in call[c].stale, SetLease(c, x)
          PROVE  Inserted(m) \/ (m \in stored /\ (Written(m) \/ doc'[m] = doc[m]))
      <3>1. stored' = stored /\ x \in Candidates
        BY <2>0, <2>3 DEF SetLease
      <3>2. CASE x.msg = m /\ Matches(x) /\ doc[m].receiptHandle = x.handle
        <4>1. doc'[m] = [doc[m] EXCEPT !.visibilityTimeout = call[c].visibility]
          BY <1>0, <2>3, <3>2 DEF SetLease
        <4> QED BY <2>3, <3>1, <3>2, <4>1 DEF Written
      <3>3. CASE ~(x.msg = m /\ Matches(x) /\ doc[m].receiptHandle = x.handle)
        <4>1. doc'[m] = doc[m]
          BY <1>0, <2>3, <3>3 DEF SetLease
        <4> QED BY <3>1, <4>1
      <3> QED BY <3>2, <3>3
    <2>4. CASE UNCHANGED <<stored, doc>>
      BY <2>4
    <2> QED
      BY <1>2, <2>1, <2>2, <2>3, <2>4
      DEF Receive, ReceiveStart, FindCandidates, StopLooking, ReadBack, PassEnd, ReceiveReturn,
          ReceiveWait, ReceiveFail, ReceiveCrash
  <1>3. CASE Delete
    <2>1. PICK S : stored' = stored \ S /\ doc' = [n \in Messages |-> IF n \in S THEN Blank ELSE doc[n]]
      BY <1>3 DEF Delete, DeleteMessage, DeleteMessageById, PurgeQueue, RetentionExpires, Remove
    <2> QED BY <1>0, <2>1
  <1>4. ASSUME NEW n \in Messages, NEW d \in Queues, NEW q \in Queues, Redrive(n, d, q)
        PROVE  Inserted(m) \/ (m \in stored /\ (Written(m) \/ doc'[m] = doc[m]))
    <2>1. CASE n = m
      <3>1. doc'[m] = Redriven(doc[m], q) /\ deliveries'[m] = 0
        BY <1>0, <1>4, <2>1 DEF Redrive, TypeInv, TypeOK
      <3> QED BY <1>4, <2>1, <3>1 DEF Written, Redrive
    <2>2. CASE n # m
      BY <1>0, <1>4, <2>2 DEF Redrive
    <2> QED BY <2>1, <2>2
  <1>5. ASSUME NEW w \in Writers, Rewrite(w)
        PROVE  Inserted(m) \/ (m \in stored /\ (Written(m) \/ doc'[m] = doc[m]))
    BY <1>5 DEF NoWriters
  <1>6. ASSUME NEW s \in Sweepers, Sweep(s)
        PROVE  Inserted(m) \/ (m \in stored /\ (Written(m) \/ doc'[m] = doc[m]))
    <2>0. sweep[s].expired \subseteq Refs /\ sweep[s].due \subseteq Refs
      BY DEF TypeInv, TypeOK
    <2>1. ASSUME NEW x \in sweep[s].expired, SweepReset(s, x)
          PROVE  Inserted(m) \/ (m \in stored /\ (Written(m) \/ doc'[m] = doc[m]))
      <3>1. stored' = stored /\ x \in Refs
        BY <2>0, <2>1 DEF SweepReset
      <3>2. CASE x.msg = m /\ Matches(x) /\ doc[m].status = "INVISIBLE"
        <4>1. doc'[m] = Reset(doc[m])
          BY <1>0, <2>1, <3>2 DEF SweepReset
        <4> QED BY <2>1, <3>1, <3>2, <4>1 DEF Written
      <3>3. CASE ~(x.msg = m /\ Matches(x) /\ doc[m].status = "INVISIBLE")
        <4>1. doc'[m] = doc[m]
          BY <1>0, <2>1, <3>3 DEF SweepReset
        <4> QED BY <3>1, <4>1
      <3> QED BY <3>2, <3>3
    <2>2. ASSUME NEW x \in sweep[s].due, SweepRelease(s, x)
          PROVE  Inserted(m) \/ (m \in stored /\ (Written(m) \/ doc'[m] = doc[m]))
      <3>1. stored' = stored /\ x \in Refs
        BY <2>0, <2>2 DEF SweepRelease
      <3>2. CASE x.msg = m /\ Matches(x) /\ doc[m].status = "DELAYED"
        <4>1. doc'[m] = [doc[m] EXCEPT !.status = "AVAILABLE"]
          BY <1>0, <2>2, <3>2 DEF SweepRelease
        <4> QED BY <2>2, <3>1, <3>2, <4>1 DEF Written
      <3>3. CASE ~(x.msg = m /\ Matches(x) /\ doc[m].status = "DELAYED")
        <4>1. doc'[m] = doc[m]
          BY <1>0, <2>2, <3>3 DEF SweepRelease
        <4> QED BY <3>1, <4>1
      <3> QED BY <3>2, <3>3
    <2>3. CASE UNCHANGED <<stored, doc>>
      BY <2>3
    <2> QED BY <1>6, <2>1, <2>2, <2>3 DEF Sweep, SweepRead, SweepFail
  <1>7. CASE Tick
    <2>1. doc'[m] = Older(doc[m]) /\ m \in stored
      BY <1>0, <1>7 DEF Tick
    <2> QED BY <1>7, <2>1 DEF Written
  <1>8. CASE UNCHANGED vars
    BY <1>8 DEF vars
  <1> QED BY <1>1, <1>2, <1>3, <1>4, <1>5, <1>6, <1>7, <1>8 DEF Next

\* A candidate of a pass after a step was one before, or the step is the find.
LEMMA BatchLemma ==
    ASSUME TypeInv, [Next]_vars, NEW c \in Consumers, NEW x \in call'[c].batch
    PROVE  \/ x \in call[c].batch /\ (call'[c].pc = "claim" => call[c].pc = "claim")
           \/ /\ FindCandidates(c)
              /\ x.msg \in stored /\ x.oid = oid[x.msg] /\ mint[x.handle] = NoMessage
  <1>1. ASSUME NEW b \in Consumers, Receive(b)
        PROVE  \/ x \in call[c].batch /\ (call'[c].pc = "claim" => call[c].pc = "claim")
               \/ /\ FindCandidates(c)
                  /\ x.msg \in stored /\ x.oid = oid[x.msg] /\ mint[x.handle] = NoMessage
    <2>1. ASSUME NEW q \in Queues, ReceiveStart(b, q)
          PROVE  call'[b].batch = {} /\ \A a \in Consumers \ {b} : call'[a] = call[a]
      BY <2>1, StartEffect
    <2>2. ASSUME FindCandidates(b)
          PROVE  /\ \A y \in call'[b].batch :
                       y.msg \in stored /\ y.oid = oid[y.msg] /\ mint[y.handle] = NoMessage
                 /\ \A a \in Consumers \ {b} : call'[a] = call[a]
      BY <2>2, MintLemma
    <2>3. ASSUME NEW y, Claim(b, y) \/ MoveToDeadLetter(b, y) \/ SetLease(b, y)
          PROVE  /\ call'[b].batch = call[b].batch /\ call'[b].pc = call[b].pc
                 /\ \A a \in Consumers \ {b} : call'[a] = call[a]
      BY <2>3, WriteEffect
    <2>4. ASSUME ReadBack(b)
          PROVE  /\ call'[b].batch = call[b].batch /\ call'[b].pc = "won"
                 /\ \A a \in Consumers \ {b} : call'[a] = call[a]
      BY <2>4, ReadBackEffect
    <2>5. ASSUME PassEnd(b) \/ StopLooking(b) \/ ReceiveWait(b)
          PROVE  /\ call'[b].batch \subseteq call[b].batch /\ call'[b].pc \in {"look", "settle"}
                 /\ \A a \in Consumers \ {b} : call'[a] = call[a]
      BY <2>5, PassEffect
    <2>6. ASSUME ReceiveReturn(b) \/ ReceiveFail(b) \/ ReceiveCrash(b)
          PROVE  call'[b].batch = {} /\ \A a \in Consumers \ {b} : call'[a] = call[a]
      BY <2>6, EndEffect DEF Idle
    <2> QED BY <1>1, <2>1, <2>2, <2>3, <2>4, <2>5, <2>6 DEF Receive
  <1>2. CASE UNCHANGED call
    BY <1>2
  <1> QED
    BY <1>1, <1>2
    DEF Next, SendMessage, Delete, DeleteMessage, DeleteMessageById, PurgeQueue, RetentionExpires,
        Redrive, Rewrite, RewriteRead, SetVisibility, SetMessageAttribute, Sweep, SweepRead,
        SweepReset, SweepRelease, SweepFail, Tick, vars

\* The times a message was handed out: one more by the read-back that won it, none
\* once it has been moved.
LEMMA DeliveriesLemma ==
    ASSUME TypeInv, [Next]_vars, NEW m \in Messages
    PROVE  \/ deliveries'[m] = deliveries[m]
           \/ deliveries'[m] = 0
           \/ \E c \in Consumers : \E x \in Won(c) \ Dead(c) :
                 /\ ReadBack(c) /\ x.msg = m /\ doc[m].queueErn = call[c].queue
                 /\ deliveries'[m] = deliveries[m] + 1
  <1>0. deliveries \in [Messages -> Nat]
    BY DEF TypeInv, TypeOK
  <1>1. ASSUME NEW c \in Consumers, ReadBack(c)
        PROVE  \/ deliveries'[m] = deliveries[m]
               \/ \E x \in Won(c) \ Dead(c) :
                    /\ x.msg = m /\ doc[m].queueErn = call[c].queue
                    /\ deliveries'[m] = deliveries[m] + 1
    BY <1>1 DEF ReadBack
  <1>2. ASSUME NEW c \in Consumers, NEW x \in call[c].dead, MoveToDeadLetter(c, x)
        PROVE  deliveries'[m] = deliveries[m] \/ deliveries'[m] = 0
    BY <1>0, <1>2 DEF MoveToDeadLetter
  <1>3. ASSUME NEW n \in Messages, NEW d \in Queues, NEW q \in Queues, Redrive(n, d, q)
        PROVE  deliveries'[m] = deliveries[m] \/ deliveries'[m] = 0
    BY <1>0, <1>3 DEF Redrive
  <1>4. CASE UNCHANGED deliveries
    BY <1>4
  <1> QED
    BY <1>1, <1>2, <1>3, <1>4
    DEF Next, SendMessage, Receive, ReceiveStart, FindCandidates, StopLooking, Claim, SetLease,
        PassEnd, ReceiveReturn, ReceiveWait, ReceiveFail, ReceiveCrash, Delete, DeleteMessage,
        DeleteMessageById, PurgeQueue, RetentionExpires, Rewrite, RewriteRead, SetVisibility,
        SetMessageAttribute, Sweep, SweepRead, SweepReset, SweepRelease, SweepFail, Tick, vars

\* Without writers only a send inserts, once for each message id.
LEMMA InsertLemma ==
    ASSUME TypeInv, NoWriters, [Next]_vars
    PROVE  \/ \E m \in Messages \ sent :
                 /\ sent' = sent \cup {m} /\ stored' = stored \cup {m}
                 /\ \A n \in Messages \ {m} : oid'[n] = oid[n]
                 /\ sweep' = sweep /\ call' = call /\ deliveries' = deliveries
           \/ sent' = sent /\ oid' = oid /\ stored' \subseteq stored
  <1>1. ASSUME NEW m \in Messages, NEW q \in Queues, SendMessage(m, q)
        PROVE  /\ m \notin sent /\ sent' = sent \cup {m} /\ stored' = stored \cup {m}
               /\ \A n \in Messages \ {m} : oid'[n] = oid[n]
               /\ sweep' = sweep /\ call' = call /\ deliveries' = deliveries
    BY <1>1 DEF SendMessage, TypeInv, TypeOK
  <1>2. ASSUME NEW w \in Writers, Rewrite(w)
        PROVE  FALSE
    BY <1>2 DEF NoWriters
  <1>3. CASE Delete
    <2>1. sent' = sent /\ oid' = oid /\ \E S : stored' = stored \ S
      BY <1>3 DEF Delete, DeleteMessage, DeleteMessageById, PurgeQueue, RetentionExpires, Remove
    <2> QED BY <2>1
  <1>4. CASE UNCHANGED <<sent, oid, stored>>
    BY <1>4
  <1> QED
    BY <1>1, <1>2, <1>3, <1>4
    DEF Next, Receive, ReceiveStart, FindCandidates, StopLooking, Claim, ReadBack,
        MoveToDeadLetter, SetLease, PassEnd, ReceiveReturn, ReceiveWait, ReceiveFail,
        ReceiveCrash, Redrive, Sweep, SweepRead, SweepReset, SweepRelease, SweepFail, Tick, vars

\* What a sweep has to reset: what it had, or an expired lease it has just read.
LEMMA SweepLemma ==
    ASSUME TypeInv, [Next]_vars, NEW s \in Sweepers, NEW x \in sweep'[s].expired
    PROVE  \/ x \in sweep[s].expired
           \/ /\ doc' = doc /\ stored' = stored
              /\ x.msg \in stored /\ x.oid = oid[x.msg] /\ LeaseExpired(doc[x.msg])
  <1>0. sweep \in [Sweepers -> [expired : SUBSET Refs, due : SUBSET Refs]]
    BY DEF TypeInv, TypeOK
  <1>1. ASSUME NEW t \in Sweepers, SweepRead(t)
        PROVE  \/ x \in sweep[s].expired
               \/ /\ doc' = doc /\ stored' = stored
                  /\ x.msg \in stored /\ x.oid = oid[x.msg] /\ LeaseExpired(doc[x.msg])
    <2> DEFINE expired == {Ref(m) : m \in {n \in stored : LeaseExpired(doc[n])}}
               due == {Ref(m) : m \in {n \in stored : DelayOver(doc[n])}}
    <2>1. /\ sweep' = [sweep EXCEPT ![t] = [expired |-> expired, due |-> due]]
          /\ doc' = doc /\ stored' = stored
      BY <1>1 DEF SweepRead
    <2>2. \A y \in expired :
             y.msg \in stored /\ y.oid = oid[y.msg] /\ LeaseExpired(doc[y.msg])
      BY DEF Ref
    <2> HIDE DEF expired, due
    <2>3. sweep'[s].expired = IF s = t THEN expired ELSE sweep[s].expired
      BY <1>0, <2>1
    <2> QED BY <2>1, <2>2, <2>3
  <1>2. ASSUME NEW t \in Sweepers, NEW y,
               SweepReset(t, y) \/ SweepRelease(t, y) \/ SweepFail(t)
        PROVE  x \in sweep[s].expired
    <2>1. CASE SweepReset(t, y)
      BY <1>0, <2>1 DEF SweepReset
    <2>2. CASE SweepRelease(t, y)
      BY <1>0, <2>2 DEF SweepRelease
    <2>3. CASE SweepFail(t)
      BY <1>0, <2>3 DEF SweepFail, NoSweep
    <2> QED BY <1>2, <2>1, <2>2, <2>3
  <1>3. CASE UNCHANGED sweep
    BY <1>3
  <1> QED
    BY <1>1, <1>2, <1>3
    DEF Next, SendMessage, Receive, ReceiveStart, FindCandidates, StopLooking, Claim, ReadBack,
        MoveToDeadLetter, SetLease, PassEnd, ReceiveReturn, ReceiveWait, ReceiveFail,
        ReceiveCrash, Delete, DeleteMessage, DeleteMessageById, PurgeQueue, RetentionExpires,
        Redrive, Rewrite, RewriteRead, SetVisibility, SetMessageAttribute, Sweep, Tick, vars

\* Every step keeps the references of calls and sweeps to the documents they read.
LEMMA NextIdentity == NoWriters /\ CallInv /\ [Next]_vars => Identity'
  <1> SUFFICES ASSUME NoWriters, CallInv, [Next]_vars PROVE Identity'
    OBVIOUS
  <1>0. /\ TypeInv /\ TypeInv' /\ Identity /\ Shape
        /\ \A m \in Messages : doc[m] \in Document
        /\ stored \subseteq Messages /\ stored' \subseteq Messages /\ sent \subseteq Messages
    <2>1. TypeInv'
      BY NextTypeInv DEF CallInv
    <2> QED BY <2>1 DEF CallInv, TypeInv, TypeOK
  <1>1. stored' \subseteq sent' /\ sent \subseteq sent'
    BY <1>0, InsertLemma DEF Identity
  <1>2. \A n \in sent : oid'[n] = oid[n]
    BY <1>0, InsertLemma
  <1>3. \A m \in Messages \ sent' : deliveries'[m] = 0
    <2> TAKE m \in Messages \ sent'
    <2>1. m \notin sent /\ m \notin stored /\ deliveries[m] = 0
      BY <1>0, <1>1 DEF Identity
    <2>2. ASSUME NEW c \in Consumers, NEW x \in Won(c)
          PROVE  x.msg # m
      BY <2>1, <2>2 DEF Won, Matches
    <2> QED BY <1>0, <2>1, <2>2, DeliveriesLemma
  <1>4. ASSUME NEW m \in stored'
        PROVE  doc'[m].queueErn \in Queues
    <2>0. m \in Messages /\ doc[m] \in Document /\ (m \in stored => doc[m].queueErn \in Queues)
      BY <1>0 DEF Identity
    <2>1. CASE m \in stored /\ doc'[m] = doc[m]
      BY <2>0, <2>1
    <2>2. ASSUME NEW q \in Queues, NEW v \in Visibilities, doc'[m] = NewDocument(q, v)
          PROVE  doc'[m].queueErn \in Queues
      BY <2>2 DEF NewDocument, Blank
    <2>3. ASSUME NEW c \in Consumers, NEW x \in Candidates, Claim(c, x), ClaimMatches(x),
                 x.msg = m, doc'[m] = Claimed(doc[m], x.handle)
          PROVE  doc'[m].queueErn \in Queues
      BY <2>0, <2>3, FieldLemma DEF Candidates, ClaimMatches, Matches
    <2>4. ASSUME NEW c \in Consumers, NEW x \in Candidates, MoveToDeadLetter(c, x),
                 doc'[m] = DeadLettered(doc[m], call[c].queue)
          PROVE  doc'[m].queueErn \in Queues
      <3>1. call[c].dead # {} /\ call[c].pc = "won"
        BY <2>4 DEF MoveToDeadLetter
      <3>2. call[c].queue \in Queues /\ DeadLetterOf[call[c].queue] \in Queues
        BY <1>0, <3>1 DEF TypeInv, CallsHaveQueue, Shape, ShapeOf
      <3> QED BY <2>0, <2>4, <3>2, FieldLemma
    <2>5. ASSUME NEW c \in Consumers, NEW x \in Candidates, SetLease(c, x), m \in stored,
                 doc'[m] = [doc[m] EXCEPT !.visibilityTimeout = call[c].visibility]
          PROVE  doc'[m].queueErn \in Queues
      BY <2>0, <2>5, AgeLemma
    <2>6. ASSUME NEW q \in Queues, doc'[m] = Redriven(doc[m], q)
          PROVE  doc'[m].queueErn \in Queues
      BY <2>0, <2>6, FieldLemma
    <2>7. ASSUME m \in stored, doc'[m] = Reset(doc[m])
          PROVE  doc'[m].queueErn \in Queues
      BY <2>0, <2>7, FieldLemma
    <2>8. ASSUME m \in stored,
                 \/ doc'[m] = [doc[m] EXCEPT !.status = "AVAILABLE"]
                 \/ doc'[m] = Older(doc[m])
          PROVE  doc'[m].queueErn \in Queues
      <3>1. [doc[m] EXCEPT !.status = "AVAILABLE"].queueErn = doc[m].queueErn
        BY <2>0, AgeLemma
      <3>2. Older(doc[m]).queueErn = doc[m].queueErn
        BY <2>0, AgeLemma
      <3> QED BY <2>0, <2>8, <3>1, <3>2
    <2> QED BY <1>0, <2>1, <2>2, <2>3, <2>4, <2>5, <2>6, <2>7, <2>8, WrittenLemma
            DEF Inserted, Written
  <1>5. ASSUME NEW c \in Consumers, NEW x \in call'[c].batch
        PROVE  Steady(x)'
    BY <1>0, <1>1, <1>2, BatchLemma DEF Identity, Steady
  <1>6. ASSUME NEW s \in Sweepers, NEW x \in sweep'[s].expired
        PROVE  Steady(x)'
    BY <1>0, <1>1, <1>2, SweepLemma DEF Identity, Steady
  <1> QED BY <1>1, <1>3, <1>4, <1>5, <1>6 DEF Identity

\* What holds of calls in progress holds from the start.
LEMMA InitCallInv == Init => CallInv
  <1> SUFFICES ASSUME Init PROVE CallInv
    OBVIOUS
  <1>1. TypeInv
    BY InitTypeInv
  <1>2. WellFormedInv
    BY WellFormedBlank DEF Init, WellFormedInv, NoSnap
  <1>3. OwnershipInv
    BY DEF Init, OwnershipInv, Owned, NoSnap, Blank, Idle
  <1>4. Shape
    BY DEF Init, Shape, ShapeOf, Idle
  <1>5. Custody
    BY DEF Init, Custody, Idle
  <1>6. Identity
    BY DEF Init, Identity, Idle, NoSweep
  <1> QED BY <1>1, <1>2, <1>3, <1>4, <1>5, <1>6 DEF CallInv

\* ... and every step keeps it.
LEMMA NextCallInv == NoWriters /\ CallInv /\ [Next]_vars => CallInv'
  BY NextTypeInv, NextWellFormed, NextOwnership, NextShape, NextCustody, NextIdentity DEF CallInv

-----------------------------------------------------------------------------
(***************************************************************************)
(* The receive limit.  A document's receive count is at least the times    *)
(* its queue has handed it out, and more while a pass that has claimed it  *)
(* has yet to read it back.                                                *)
(***************************************************************************)
CountedRight(m) ==
    /\ deliveries[m] <= doc[m].receivedCount
    /\ \A c \in Consumers : \A x \in call[c].batch :
          call[c].pc = "claim" /\ x.msg = m /\ doc[m].receiptHandle = x.handle
             => deliveries[m] < doc[m].receivedCount
    /\ DeadLetterOf[doc[m].queueErn] # NoQueue => deliveries[m] <= MaxReceiveCount[doc[m].queueErn]

LimitInv == \A m \in stored : CountedRight(m)

\* Every step keeps the count of each document at or above its deliveries.
LEMMA NextLimit == NoWriters /\ CallInv /\ LimitInv /\ [Next]_vars => LimitInv'
  <1> SUFFICES ASSUME NoWriters, CallInv, LimitInv, [Next]_vars, NEW m \in stored'
               PROVE  CountedRight(m)'
    BY DEF LimitInv
  <1>1. /\ CallInv' /\ TypeInv /\ m \in Messages /\ doc[m] \in Document /\ doc'[m] \in Document
        /\ deliveries[m] \in Nat /\ deliveries'[m] \in Nat /\ doc[m].receivedCount \in Nat
        /\ doc'[m].receivedCount \in Nat
    <2>1. CallInv'
      BY NextCallInv
    <2>2. m \in Messages /\ doc[m] \in Document /\ doc'[m] \in Document
            /\ deliveries[m] \in Nat /\ deliveries'[m] \in Nat
      BY <2>1 DEF CallInv, TypeInv, TypeOK
    <2> QED BY <2>1, <2>2 DEF CallInv, Document
  <1>2. doc'[m].queueErn \in Queues /\ MaxReceiveCount[doc'[m].queueErn] \in Nat
    BY <1>1, ConstantsAssumption DEF CallInv, Identity
  <1>3. ASSUME NEW c \in Consumers, NEW x \in call'[c].batch
        PROVE  x.handle \in Handles
    <2>1. call'[c] \in Calls
      BY <1>1 DEF CallInv, TypeInv, TypeOK
    <2> QED BY <2>1 DEF Calls, Candidates
  <1>4. ASSUME deliveries'[m] = 0, doc'[m].receiptHandle = NoHandle
        PROVE  CountedRight(m)'
    <2>1. \A c \in Consumers : \A x \in call'[c].batch : doc'[m].receiptHandle # x.handle
      BY <1>3, <1>4, ConstantsAssumption
    <2> QED BY <1>1, <1>2, <1>4, <2>1 DEF CountedRight
  <1>5. ASSUME m \in stored, doc'[m].queueErn = doc[m].queueErn,
               doc'[m].receivedCount = doc[m].receivedCount,
               doc'[m].receiptHandle \in {doc[m].receiptHandle, NoHandle},
               deliveries'[m] <= deliveries[m]
        PROVE  CountedRight(m)'
    <2>0. CountedRight(m)
      BY <1>5 DEF LimitInv
    <2>1. deliveries'[m] <= doc'[m].receivedCount
      BY <1>1, <1>5, <2>0 DEF CountedRight
    <2>2. ASSUME DeadLetterOf[doc'[m].queueErn] # NoQueue
          PROVE  deliveries'[m] <= MaxReceiveCount[doc'[m].queueErn]
      BY <1>1, <1>2, <1>5, <2>0, <2>2 DEF CountedRight
    <2>3. ASSUME NEW c \in Consumers, NEW x \in call'[c].batch,
                 call'[c].pc = "claim", x.msg = m, doc'[m].receiptHandle = x.handle
          PROVE  deliveries'[m] < doc'[m].receivedCount
      <3>1. doc[m].receiptHandle = x.handle /\ x.handle # NoHandle
        BY <1>3, <1>5, <2>3, ConstantsAssumption
      <3>2. mint[x.handle] # NoMessage
        BY <1>1, <3>1 DEF CallInv, OwnershipInv, Owned
      <3>3. x \in call[c].batch /\ call[c].pc = "claim"
        BY <1>1, <2>3, <3>2, BatchLemma
      <3> QED BY <1>1, <1>5, <2>0, <2>3, <3>1, <3>3 DEF CountedRight
    <2> QED BY <2>1, <2>2, <2>3 DEF CountedRight
  <1>6. ASSUME Inserted(m)
        PROVE  CountedRight(m)'
    <2>1. PICK q \in Queues, v \in Visibilities : SendMessage(m, q) /\ doc'[m] = NewDocument(q, v)
      BY <1>6 DEF Inserted
    <2>2. deliveries'[m] = 0
      BY <1>1, <2>1 DEF SendMessage, CallInv, Identity
    <2>3. doc'[m].receiptHandle = NoHandle
      BY <2>1 DEF NewDocument, Blank
    <2> QED BY <1>4, <2>2, <2>3
  <1>7. ASSUME m \in stored, Written(m)
        PROVE  CountedRight(m)'
    <2>1. ASSUME NEW c \in Consumers, NEW x \in Candidates, Claim(c, x),
                 doc'[m] = Claimed(doc[m], x.handle)
          PROVE  CountedRight(m)'
      <3>1. x.handle \in Handles /\ deliveries' = deliveries
        BY <2>1 DEF Candidates, Claim
      <3>2. doc'[m].queueErn = doc[m].queueErn /\ doc'[m].receivedCount = doc[m].receivedCount + 1
        BY <1>1, <2>1, <3>1, FieldLemma
      <3>3. CountedRight(m)
        BY <1>7 DEF LimitInv
      <3>4. deliveries'[m] < doc'[m].receivedCount
        BY <1>1, <3>1, <3>2, <3>3 DEF CountedRight
      <3> QED BY <1>1, <3>1, <3>2, <3>3, <3>4 DEF CountedRight
    <2>2. ASSUME NEW c \in Consumers, NEW x \in Candidates, MoveToDeadLetter(c, x),
                 doc'[m] = DeadLettered(doc[m], call[c].queue), deliveries'[m] = 0
          PROVE  CountedRight(m)'
      <3>1. doc'[m].receiptHandle = NoHandle
        BY <1>1, <2>2, HandleLemma
      <3> QED BY <1>4, <2>2, <3>1
    <2>3. ASSUME NEW q \in Queues, doc'[m] = Redriven(doc[m], q), deliveries'[m] = 0
          PROVE  CountedRight(m)'
      <3>1. doc'[m].receiptHandle = NoHandle
        BY <1>1, <2>3, HandleLemma
      <3> QED BY <1>4, <2>3, <3>1
    <2>4. ASSUME NEW c \in Consumers, NEW x \in Candidates, SetLease(c, x),
                 doc'[m] = [doc[m] EXCEPT !.visibilityTimeout = call[c].visibility]
          PROVE  CountedRight(m)'
      <3>1. deliveries' = deliveries
        BY <2>4 DEF SetLease
      <3>2. /\ doc'[m].queueErn = doc[m].queueErn /\ doc'[m].receivedCount = doc[m].receivedCount
            /\ doc'[m].receiptHandle = doc[m].receiptHandle
        BY <1>1, <2>4, AgeLemma
      <3> QED BY <1>1, <1>5, <1>7, <3>1, <3>2
    <2>5. ASSUME NEW s \in Sweepers, NEW x \in Refs, SweepReset(s, x), doc'[m] = Reset(doc[m])
          PROVE  CountedRight(m)'
      <3>1. deliveries' = deliveries
        BY <2>5 DEF SweepReset
      <3>2. /\ doc'[m].queueErn = doc[m].queueErn /\ doc'[m].receivedCount = doc[m].receivedCount
            /\ doc'[m].receiptHandle = NoHandle
        BY <1>1, <2>5, FieldLemma
      <3> QED BY <1>1, <1>5, <1>7, <3>1, <3>2
    <2>6. ASSUME NEW s \in Sweepers, NEW x \in Refs, SweepRelease(s, x),
                 doc'[m] = [doc[m] EXCEPT !.status = "AVAILABLE"]
          PROVE  CountedRight(m)'
      <3>1. deliveries' = deliveries
        BY <2>6 DEF SweepRelease
      <3>2. /\ doc'[m].queueErn = doc[m].queueErn /\ doc'[m].receivedCount = doc[m].receivedCount
            /\ doc'[m].receiptHandle = doc[m].receiptHandle
        BY <1>1, <2>6, AgeLemma
      <3> QED BY <1>1, <1>5, <1>7, <3>1, <3>2
    <2>7. ASSUME Tick, doc'[m] = Older(doc[m])
          PROVE  CountedRight(m)'
      <3>1. deliveries' = deliveries
        BY <2>7 DEF Tick
      <3>2. /\ doc'[m].queueErn = doc[m].queueErn /\ doc'[m].receivedCount = doc[m].receivedCount
            /\ doc'[m].receiptHandle = doc[m].receiptHandle
        BY <1>1, <2>7, AgeLemma
      <3> QED BY <1>1, <1>5, <1>7, <3>1, <3>2
    <2> QED BY <1>7, <2>1, <2>2, <2>3, <2>4, <2>5, <2>6, <2>7 DEF Written
  <1>8. ASSUME m \in stored, doc'[m] = doc[m]
        PROVE  CountedRight(m)'
    <2>1. CASE deliveries'[m] = deliveries[m] \/ deliveries'[m] = 0
      BY <1>1, <1>5, <1>8, <2>1
    <2>2. ASSUME NEW c \in Consumers, NEW x \in Won(c) \ Dead(c), ReadBack(c), x.msg = m,
                 doc[m].queueErn = call[c].queue, deliveries'[m] = deliveries[m] + 1
          PROVE  CountedRight(m)'
      <3>0. CountedRight(m)
        BY <1>8 DEF LimitInv
      <3>1. x \in call[c].batch /\ call[c].pc = "claim" /\ doc[m].receiptHandle = x.handle
        BY <2>2 DEF Won, ReadBack
      <3>2. deliveries'[m] <= doc'[m].receivedCount
        BY <1>1, <1>8, <2>2, <3>0, <3>1 DEF CountedRight
      <3>3. ASSUME DeadLetterOf[doc'[m].queueErn] # NoQueue
            PROVE  deliveries'[m] <= MaxReceiveCount[doc'[m].queueErn]
        <4>1. ~(doc[m].receivedCount > MaxReceiveCount[doc[m].queueErn])
          BY <1>8, <2>2, <3>3 DEF Dead, OverLimit
        <4> QED BY <1>1, <1>2, <1>8, <3>2, <4>1
      <3>4. ASSUME NEW b \in Consumers, NEW y \in call'[b].batch,
                   call'[b].pc = "claim", y.msg = m, doc'[m].receiptHandle = y.handle
            PROVE  FALSE
        <4>1. call'[c].pc = "won"
          BY <1>1, <2>2, ReadBackEffect
        <4>2. ~FindCandidates(b)
          <5>1. FindCandidates(b) => deliveries' = deliveries
            BY DEF FindCandidates
          <5>2. deliveries'[m] # deliveries[m]
            BY <1>1, <2>2
          <5> QED BY <5>1, <5>2
        <4>3. y \in call[b].batch
          BY <1>1, <3>4, <4>2, BatchLemma
        <4>4. b = c
          BY <1>8, <3>1, <3>4, <4>3 DEF CallInv, Custody
        <4> QED BY <3>4, <4>1, <4>4
      <3> QED BY <3>2, <3>3, <3>4 DEF CountedRight
    <2> QED BY <1>1, <2>1, <2>2, DeliveriesLemma
  <1> QED BY <1>1, <1>6, <1>7, <1>8, WrittenLemma

\* A queue with a dead letter queue hands a message out at most maxReceiveCount
\* times, for any number of consumers, sweeps, failures and queues, as long as no
\* message is rewritten in place: set-visibility and set-message-attribute write
\* back the receive count they read, and TLC finds the limit passed when they do.
THEOREM LimitHeld == NoWriters => (Spec => []DeliveriesBounded)
  <1> SUFFICES ASSUME NoWriters PROVE Spec => []DeliveriesBounded
    OBVIOUS
  <1>1. Init => LimitInv
    BY DEF Init, LimitInv
  <1>2. LimitInv => DeliveriesBounded
    BY DEF LimitInv, CountedRight, DeliveriesBounded
  <1>3. CallInv /\ LimitInv /\ [Next]_vars => CallInv' /\ LimitInv'
    BY NextCallInv, NextLimit
  <1> QED BY <1>1, <1>2, <1>3, InitCallInv, PTL DEF Spec

-----------------------------------------------------------------------------
(***************************************************************************)
(* The lease a consumer is told.  A handle gets on a document by the claim *)
(* it was minted for, and only the pass that holds it changes the timeout  *)
(* of the document while it is there.                                      *)
(***************************************************************************)
\* A handle on a document after a step was put there by its claim, was there while
\* its pass set the timeout, or was there with the same timeout.
LEMMA HandleKept ==
    ASSUME NoWriters, CallInv, [Next]_vars, NEW m \in stored', doc'[m].receiptHandle # NoHandle
    PROVE  \/ \E c \in Consumers : \E x \in call[c].batch :
                 /\ call[c].pc = "claim" /\ x.handle = doc'[m].receiptHandle
           \/ \E c \in Consumers : \E x \in call[c].stale :
                 /\ SetLease(c, x)
                 /\ x.handle = doc[m].receiptHandle /\ x.handle = doc'[m].receiptHandle
                 /\ doc'[m].visibilityTimeout = call[c].visibility
           \/ /\ m \in stored /\ doc[m].receiptHandle = doc'[m].receiptHandle
              /\ doc'[m].visibilityTimeout = doc[m].visibilityTimeout
  <1> DEFINE claimed == \E c \in Consumers : \E x \in call[c].batch :
                           call[c].pc = "claim" /\ x.handle = doc'[m].receiptHandle
             leased == \E c \in Consumers : \E x \in call[c].stale :
                           /\ SetLease(c, x)
                           /\ x.handle = doc[m].receiptHandle /\ x.handle = doc'[m].receiptHandle
                           /\ doc'[m].visibilityTimeout = call[c].visibility
             same == /\ doc[m].receiptHandle = doc'[m].receiptHandle
                     /\ doc'[m].visibilityTimeout = doc[m].visibilityTimeout
  <1>0. m \in Messages /\ doc[m] \in Document /\ Shape
    <2>1. TypeInv'
      BY NextTypeInv DEF CallInv
    <2> QED BY <2>1 DEF CallInv, TypeInv, TypeOK
  <1>1. ASSUME Inserted(m) PROVE FALSE
    BY <1>1 DEF Inserted, NewDocument, Blank
  <1>2. ASSUME NEW c \in Consumers, NEW x \in Candidates, Claim(c, x),
               doc'[m] = Claimed(doc[m], x.handle)
        PROVE  claimed
    <2>1. x \in call[c].batch /\ call[c].pc = "claim"
      BY <1>0, <1>2 DEF Claim, Shape, ShapeOf
    <2>2. x.handle = doc'[m].receiptHandle
      BY <1>0, <1>2, FieldLemma DEF Candidates
    <2> QED BY <2>1, <2>2
  <1>3. ASSUME NEW c \in Consumers, NEW x \in Candidates, SetLease(c, x),
               doc[m].receiptHandle = x.handle,
               doc'[m] = [doc[m] EXCEPT !.visibilityTimeout = call[c].visibility]
        PROVE  leased
    <2>1. x \in call[c].stale
      BY <1>3 DEF SetLease
    <2>2. /\ x.handle = doc'[m].receiptHandle
          /\ doc'[m].visibilityTimeout = call[c].visibility
      BY <1>0, <1>3, AgeLemma
    <2> QED BY <1>3, <2>1, <2>2
  <1>4. ASSUME NEW q, doc'[m] = DeadLettered(doc[m], q) \/ doc'[m] = Redriven(doc[m], q)
        PROVE  FALSE
    <2>1. DeadLettered(doc[m], q).receiptHandle = NoHandle
      BY <1>0, HandleLemma
    <2>2. Redriven(doc[m], q).receiptHandle = NoHandle
      BY <1>0, HandleLemma
    <2> QED BY <1>4, <2>1, <2>2
  <1>5. doc'[m] # Reset(doc[m])
    BY <1>0, HandleLemma
  <1>6. ASSUME doc'[m] = [doc[m] EXCEPT !.status = "AVAILABLE"]
        PROVE  same
    BY <1>0, <1>6, AgeLemma
  <1>7. ASSUME doc'[m] = Older(doc[m])
        PROVE  same
    BY <1>0, <1>7, AgeLemma
  <1>8. doc'[m] = doc[m] => same
    OBVIOUS
  <1>9. ASSUME Written(m) PROVE claimed \/ leased \/ same
    <2> HIDE DEF claimed, leased, same
    <2> QED BY <1>2, <1>3, <1>4, <1>5, <1>6, <1>7, <1>9 DEF Written
  <1> QED BY <1>1, <1>8, <1>9, WrittenLemma DEF CallInv

\* What a pass has won after a step it had won before, or the step is its
\* read-back; the rest of what is to be leased shrinks by the leases set.
LEMMA WonLemma ==
    ASSUME TypeInv, [Next]_vars, NEW c \in Consumers, NEW d \in call'[c].won
    PROVE  \/ ReadBack(c)
           \/ /\ d \in call[c].won /\ call'[c].visibility = call[c].visibility
              /\ \/ call'[c].stale = call[c].stale
                 \/ \E y \in call[c].stale : SetLease(c, y) /\ call'[c].stale = call[c].stale \ {y}
  <1> DEFINE kept == /\ d \in call[c].won /\ call'[c].visibility = call[c].visibility
                     /\ \/ call'[c].stale = call[c].stale
                        \/ \E y \in call[c].stale :
                              SetLease(c, y) /\ call'[c].stale = call[c].stale \ {y}
  <1>1. ASSUME NEW b \in Consumers, Receive(b)
        PROVE  ReadBack(c) \/ kept
    <2>0. CASE call'[c] = call[c]
      BY <2>0
    <2>1. ASSUME NEW q \in Queues, ReceiveStart(b, q)
          PROVE  kept
      <3>1. call'[b].won = {} /\ \A a \in Consumers \ {b} : call'[a] = call[a]
        BY <2>1, StartEffect
      <3> QED BY <2>0, <3>1
    <2>2. ASSUME FindCandidates(b)
          PROVE  kept
      <3>1. /\ call'[b].won = call[b].won /\ call'[b].stale = call[b].stale
            /\ call'[b].visibility = call[b].visibility
            /\ \A a \in Consumers \ {b} : call'[a] = call[a]
        BY <2>2, MintLemma
      <3> QED BY <2>0, <3>1
    <2>3. ASSUME NEW y, Claim(b, y) \/ MoveToDeadLetter(b, y) \/ SetLease(b, y)
          PROVE  kept
      <3>1. /\ call'[b].won = call[b].won
            /\ call'[b].stale = IF SetLease(b, y) THEN call[b].stale \ {y} ELSE call[b].stale
            /\ call'[b].visibility = call[b].visibility
            /\ \A a \in Consumers \ {b} : call'[a] = call[a]
        BY <2>3, WriteEffect
      <3>2. SetLease(b, y) => y \in call[b].stale
        BY DEF SetLease
      <3> QED BY <2>0, <3>1, <3>2
    <2>4. ASSUME ReadBack(b)
          PROVE  ReadBack(c) \/ kept
      <3>1. \A a \in Consumers \ {b} : call'[a] = call[a]
        BY <2>4, ReadBackEffect
      <3> QED BY <2>0, <2>4, <3>1
    <2>5. ASSUME PassEnd(b) \/ StopLooking(b) \/ ReceiveWait(b)
          PROVE  kept
      <3>1. /\ call'[b].won \subseteq call[b].won /\ call'[b].stale = call[b].stale
            /\ call'[b].visibility = call[b].visibility
            /\ \A a \in Consumers \ {b} : call'[a] = call[a]
        BY <2>5, PassEffect
      <3> QED BY <2>0, <3>1
    <2>6. ASSUME ReceiveReturn(b) \/ ReceiveFail(b) \/ ReceiveCrash(b)
          PROVE  kept
      <3>1. call'[b].won = {} /\ \A a \in Consumers \ {b} : call'[a] = call[a]
        BY <2>6, EndEffect DEF Idle
      <3> QED BY <2>0, <3>1
    <2> HIDE DEF kept
    <2> QED BY <1>1, <2>1, <2>2, <2>3, <2>4, <2>5, <2>6 DEF Receive
  <1>2. ASSUME UNCHANGED call
        PROVE  kept
    BY <1>2
  <1> HIDE DEF kept
  <1>3. ReadBack(c) \/ kept
    BY <1>1, <1>2
    DEF Next, SendMessage, Delete, DeleteMessage, DeleteMessageById, PurgeQueue, RetentionExpires,
        Redrive, Rewrite, RewriteRead, SetVisibility, SetMessageAttribute, Sweep, SweepRead,
        SweepReset, SweepRelease, SweepFail, Tick, vars
  <1> QED BY <1>3 DEF kept

\* What has been handed on after a step was so before, or was won by the pass that
\* the step ends.
LEMMA HandedLemma ==
    ASSUME TypeInv, [Next]_vars, NEW d, Handed(d)'
    PROVE  Handed(d) \/ \E c \in Consumers : PassEnd(c) /\ d \in call[c].won
  <1>1. ASSUME NEW b \in Consumers, Receive(b)
        PROVE  Handed(d) \/ \E c \in Consumers : PassEnd(c) /\ d \in call[c].won
    <2>1. ASSUME NEW q \in Queues, ReceiveStart(b, q)
          PROVE  Handed(d)
      <3>1. call'[b].result = {} /\ \A a \in Consumers \ {b} : call'[a] = call[a]
        BY <2>1, StartEffect
      <3> QED BY <2>1, <3>1 DEF ReceiveStart, Handed
    <2>2. ASSUME FindCandidates(b)
          PROVE  Handed(d)
      <3>1. call'[b].result = call[b].result /\ \A a \in Consumers \ {b} : call'[a] = call[a]
        BY <2>2, MintLemma
      <3>2. delivered' = delivered
        BY <2>2 DEF FindCandidates
      <3> QED BY <3>1, <3>2 DEF Handed
    <2>3. ASSUME NEW y, Claim(b, y) \/ MoveToDeadLetter(b, y) \/ SetLease(b, y)
          PROVE  Handed(d)
      <3>1. call'[b].result = call[b].result /\ \A a \in Consumers \ {b} : call'[a] = call[a]
        BY <2>3, WriteEffect
      <3>2. delivered' = delivered
        BY <2>3 DEF Claim, MoveToDeadLetter, SetLease
      <3> QED BY <3>1, <3>2 DEF Handed
    <2>4. ASSUME ReadBack(b)
          PROVE  Handed(d)
      <3>1. call'[b].result = call[b].result /\ \A a \in Consumers \ {b} : call'[a] = call[a]
        BY <2>4, ReadBackEffect
      <3>2. delivered' = delivered
        BY <2>4 DEF ReadBack
      <3> QED BY <3>1, <3>2 DEF Handed
    <2>5. ASSUME PassEnd(b) \/ StopLooking(b) \/ ReceiveWait(b)
          PROVE  Handed(d) \/ (PassEnd(b) /\ d \in call[b].won)
      <3>1. /\ \/ PassEnd(b) /\ call'[b].result = call[b].result \cup call[b].won
               \/ call'[b].result = call[b].result
            /\ \A a \in Consumers \ {b} : call'[a] = call[a]
        BY <2>5, PassEffect
      <3>2. delivered' = delivered
        BY <2>5 DEF PassEnd, StopLooking, ReceiveWait
      <3> QED BY <3>1, <3>2 DEF Handed
    <2>6. ASSUME ReceiveReturn(b) \/ ReceiveFail(b) \/ ReceiveCrash(b)
          PROVE  Handed(d)
      <3>1. /\ call'[b].result = {} /\ \A a \in Consumers \ {b} : call'[a] = call[a]
            /\ delivered' \subseteq delivered \cup call[b].result
        BY <2>6, EndEffect DEF Idle
      <3> QED BY <3>1 DEF Handed
    <2> QED BY <1>1, <2>1, <2>2, <2>3, <2>4, <2>5, <2>6 DEF Receive
  <1>2. CASE UNCHANGED <<call, delivered>>
    BY <1>2 DEF Handed
  <1> QED
    BY <1>1, <1>2
    DEF Next, SendMessage, Delete, DeleteMessage, DeleteMessageById, PurgeQueue, RetentionExpires,
        Redrive, Rewrite, RewriteRead, SetVisibility, SetMessageAttribute, Sweep, SweepRead,
        SweepReset, SweepRelease, SweepFail, Tick, vars

Enforced(d) ==
    d.msg \in stored /\ doc[d.msg].receiptHandle = d.handle
        => doc[d.msg].visibilityTimeout = d.told

\* What has been handed on is enforced; what a pass has won is enforced, or waits
\* for its lease to be set.
ToldInv ==
    /\ \A d \in Deliveries : Handed(d) => Enforced(d)
    /\ \A c \in Consumers : \A d \in call[c].won :
          IF \E x \in call[c].stale : x.handle = d.handle
          THEN d.told = call[c].visibility ELSE Enforced(d)

\* Every step keeps the timeouts that consumers are told on the documents.
LEMMA NextTold == NoWriters /\ CallInv /\ ToldInv /\ [Next]_vars => ToldInv'
  <1> SUFFICES ASSUME NoWriters, CallInv, ToldInv, [Next]_vars PROVE ToldInv'
    OBVIOUS
  <1>1. /\ TypeInv /\ TypeInv' /\ Shape /\ Custody /\ Identity
        /\ \A c \in Consumers : call[c] \in Calls /\ call'[c] \in Calls /\ ShapeOf(call[c])
    <2>1. TypeInv'
      BY NextTypeInv DEF CallInv
    <2> QED BY <2>1 DEF CallInv, TypeInv, TypeOK, Shape
  <1>2. \A d \in Deliveries : d.handle # NoHandle
    BY ConstantsAssumption DEF Deliveries
  <1>3. ASSUME NEW d \in Deliveries, Handed(d), Enforced(d)
        PROVE  Enforced(d)'
    <2> SUFFICES ASSUME d.msg \in stored', doc'[d.msg].receiptHandle = d.handle
                 PROVE  doc'[d.msg].visibilityTimeout = d.told
      BY DEF Enforced
    <2>1. ASSUME NEW c \in Consumers, NEW x \in call[c].batch
          PROVE  x.handle # d.handle
      BY <1>1, <1>3 DEF Custody
    <2>2. \A c \in Consumers : call[c].stale \subseteq call[c].batch
      BY <1>1 DEF ShapeOf
    <2>3. /\ d.msg \in stored /\ doc[d.msg].receiptHandle = d.handle
          /\ doc'[d.msg].visibilityTimeout = doc[d.msg].visibilityTimeout
      BY <1>2, <2>1, <2>2, HandleKept
    <2> QED BY <1>3, <2>3 DEF Enforced
  <1>4. ASSUME NEW d \in Deliveries, Handed(d)'
        PROVE  Enforced(d)'
    <2>1. CASE Handed(d)
      BY <1>3, <1>4, <2>1 DEF ToldInv
    <2>2. ASSUME NEW c \in Consumers, PassEnd(c), d \in call[c].won
          PROVE  Enforced(d)'
      <3>1. call[c].stale = {} /\ doc' = doc /\ stored' = stored
        BY <2>2 DEF PassEnd
      <3> QED BY <2>2, <3>1 DEF ToldInv, Enforced
    <2> QED BY <1>1, <1>4, <2>1, <2>2, HandedLemma
  <1>5. ASSUME NEW c \in Consumers, NEW d \in call'[c].won
        PROVE  IF \E x \in call'[c].stale : x.handle = d.handle
               THEN d.told = call'[c].visibility ELSE Enforced(d)'
    <2>0. d \in Deliveries
      BY <1>1 DEF Calls
    <2>1. CASE ReadBack(c)
      <3> DEFINE live == Won(c) \ Dead(c)
                 stale == {x \in live : TakesQueueVisibility(doc[x.msg], call[c].visibility)}
      <3>1. /\ call'[c].visibility = call[c].visibility /\ call'[c].stale = stale
            /\ \E x \in live :
                 /\ d.msg = x.msg /\ d.handle = x.handle
                 /\ d.told = IF x \in stale THEN call[c].visibility
                             ELSE doc[x.msg].visibilityTimeout
        BY <1>1, <1>5, <2>1, ReadBackEffect
      <3>2. doc' = doc /\ stored' = stored
        BY <2>1 DEF ReadBack
      <3>3. live \subseteq call[c].batch /\ stale \subseteq live
        BY DEF Won
      <3> HIDE DEF live, stale
      <3>4. PICK x \in live : /\ d.msg = x.msg /\ d.handle = x.handle
                              /\ d.told = IF x \in stale THEN call[c].visibility
                                          ELSE doc[x.msg].visibilityTimeout
        BY <3>1
      <3>5. \A y \in stale : y.handle = d.handle => y = x
        BY <1>1, <3>3, <3>4 DEF Custody
      <3> QED BY <3>1, <3>2, <3>4, <3>5 DEF Enforced
    <2>2. CASE /\ d \in call[c].won /\ call'[c].visibility = call[c].visibility
               /\ call'[c].stale \subseteq call[c].stale
               /\ \A y \in call[c].stale : y \in call'[c].stale \/ SetLease(c, y)
      <3>1. PICK x \in call[c].batch : x.msg = d.msg /\ x.handle = d.handle
        BY <1>1, <2>2 DEF ShapeOf
      <3>2. call[c].pc # "claim" /\ call[c].stale \subseteq call[c].batch
        BY <1>1, <2>2 DEF ShapeOf
      <3>3. \A b \in Consumers : \A y \in call[b].batch : y.handle = d.handle => b = c /\ y = x
        BY <1>1, <3>1 DEF Custody
      <3>4. CASE \E y \in call'[c].stale : y.handle = d.handle
        BY <2>2, <3>4 DEF ToldInv
      <3>5. ASSUME ~(\E y \in call'[c].stale : y.handle = d.handle),
                   d.msg \in stored', doc'[d.msg].receiptHandle = d.handle
            PROVE  doc'[d.msg].visibilityTimeout = d.told
        <4>1. \A b \in Consumers : call[b].stale \subseteq call[b].batch
          BY <1>1 DEF ShapeOf
        <4>2. CASE \E b \in Consumers : \E y \in call[b].batch :
                      call[b].pc = "claim" /\ y.handle = doc'[d.msg].receiptHandle
          BY <3>2, <3>3, <3>5, <4>2
        <4>3. ASSUME NEW b \in Consumers, NEW y \in call[b].stale,
                     y.handle = doc'[d.msg].receiptHandle,
                     doc'[d.msg].visibilityTimeout = call[b].visibility
              PROVE  doc'[d.msg].visibilityTimeout = d.told
          <5>1. b = c
            BY <3>3, <3>5, <4>1, <4>3
          <5> QED BY <2>2, <3>5, <4>3, <5>1 DEF ToldInv
        <4>4. ASSUME d.msg \in stored, doc[d.msg].receiptHandle = doc'[d.msg].receiptHandle,
                     doc'[d.msg].visibilityTimeout = doc[d.msg].visibilityTimeout
              PROVE  doc'[d.msg].visibilityTimeout = d.told
          <5>1. CASE ~(\E y \in call[c].stale : y.handle = d.handle)
            BY <2>2, <3>5, <4>4, <5>1 DEF ToldInv, Enforced
          <5>2. ASSUME NEW y \in call[c].stale, y.handle = d.handle
                PROVE  doc'[d.msg].visibilityTimeout = d.told
            <6>1. y = x /\ y.msg = d.msg
              BY <3>1, <3>2, <3>3, <5>2
            <6>2. SetLease(c, y)
              BY <2>2, <3>5, <5>2
            <6>3. Matches(y)
              BY <1>1, <3>1, <4>4, <6>1 DEF Matches, Identity, Steady
            <6>4. doc' = [doc EXCEPT ![y.msg].visibilityTimeout = call[c].visibility]
              BY <3>5, <4>4, <5>2, <6>1, <6>2, <6>3 DEF SetLease
            <6>5. d.msg \in Messages /\ doc \in [Messages -> Document] /\ doc[d.msg] \in Document
              BY <1>1, <2>0 DEF Deliveries, TypeInv, TypeOK
            <6>6. doc'[d.msg].visibilityTimeout = call[c].visibility
              BY <6>1, <6>4, <6>5, AgeLemma
            <6> QED BY <2>2, <5>2, <6>6 DEF ToldInv
          <5> QED BY <5>1, <5>2
        <4> QED BY <1>2, <2>0, <3>5, <4>2, <4>3, <4>4, HandleKept
      <3> QED BY <3>4, <3>5 DEF Enforced
    <2> QED BY <1>1, <1>5, <2>1, <2>2, WonLemma
  <1> QED BY <1>4, <1>5 DEF ToldInv

\* The lease a consumer was told is the lease the sweep enforces, for any number of
\* consumers and sweeps and however the visibility of the queue changes between
\* two receives, as long as no message is rewritten in place (set-visibility
\* changes the timeout of a message in flight; that is what it is for).
THEOREM LeaseTold == NoWriters => (Spec => []ToldIsEnforced)
  <1> SUFFICES ASSUME NoWriters PROVE Spec => []ToldIsEnforced
    OBVIOUS
  <1>1. Init => ToldInv
    BY DEF Init, ToldInv, Handed, Idle
  <1>2. CallInv /\ ToldInv => ToldIsEnforced
    BY DEF CallInv, TypeInv, TypeOK, ToldInv, Handed, Enforced, ToldIsEnforced
  <1>3. CallInv /\ ToldInv /\ [Next]_vars => CallInv' /\ ToldInv'
    BY NextCallInv, NextTold
  <1> QED BY <1>1, <1>2, <1>3, InitCallInv, PTL DEF Spec

-----------------------------------------------------------------------------
(***************************************************************************)
(* Leases.  One instance runs EQS, so that one sweep runs at a time; the   *)
(* queues have no dead letter queue, so that nothing is moved or redriven  *)
(* while it is in flight; the visibility timeout is what it always was;    *)
(* and no message is rewritten.  TLC finds the lease broken without any    *)
(* one of the four.                                                        *)
(***************************************************************************)
OneSweeper == \A s, t \in Sweepers : s = t
NoDeadLetters == \A q \in Queues : DeadLetterOf[q] = NoQueue
OneVisibility == \A v, w \in Visibilities : v = w

Undisturbed == NoWriters /\ OneSweeper /\ NoDeadLetters /\ OneVisibility

\* Won by a pass, or handed on.
Held(d) == Handed(d) \/ \E c \in Consumers : d \in call[c].won

\* The document of a message in flight and the handle on it are of the same age.
Aged ==
    \A m \in stored :
        doc[m].receiptHandle # NoHandle => doc[m].sinceReceived = leaseAge[doc[m].receiptHandle]

Timed ==
    /\ \A m \in stored : doc[m].visibilityTimeout \in Visibilities
    /\ \A d \in Deliveries : Held(d) => d.told \in Visibilities /\ d.msg \in sent

\* What a sweep is about to reset is as expired as when it was read.
SweptExpired ==
    \A s \in Sweepers : \A x \in sweep[s].expired : x.msg \in stored => LeaseExpired(doc[x.msg])

\* A live lease is the one on the document, and the only one of its message.
LiveOnDocument ==
    \A d \in Deliveries :
        Held(d) /\ Live(d) /\ d.msg \in stored => doc[d.msg].receiptHandle = d.handle

LiveAlone ==
    \A d, e \in Deliveries :
        Held(d) /\ Held(e) /\ d.msg = e.msg /\ Live(d) /\ Live(e) => d.handle = e.handle

LeaseInv == Aged /\ Timed /\ SweptExpired /\ LiveOnDocument /\ LiveAlone

\* A message that is stored in an undisturbed queue is not moved.
LEMMA NotMoved ==
    ASSUME NoDeadLetters, CallInv
    PROVE  /\ \A c \in Consumers, x \in Candidates : ~MoveToDeadLetter(c, x)
           /\ \A m \in Messages, d, q \in Queues : ~Redrive(m, d, q)
  <1>1. ASSUME NEW c \in Consumers, NEW x \in Candidates, MoveToDeadLetter(c, x)
        PROVE  FALSE
    <2>1. call[c].dead # {} /\ call[c].pc = "won"
      BY <1>1 DEF MoveToDeadLetter
    <2>2. call[c].queue \in Queues /\ DeadLetterOf[call[c].queue] \in Queues
      BY <2>1 DEF CallInv, TypeInv, CallsHaveQueue, Shape, ShapeOf
    <2> QED BY <2>2, ConstantsAssumption DEF NoDeadLetters
  <1>2. ASSUME NEW m \in Messages, NEW d \in Queues, NEW q \in Queues, Redrive(m, d, q)
        PROVE  FALSE
    BY <1>2, ConstantsAssumption DEF Redrive, SourceQueues, NoDeadLetters
  <1> QED BY <1>1, <1>2

\* The age of a handle: reset by its claim, one more with every unit of time.
LEMMA LeaseAgeLemma ==
    ASSUME TypeInv, [Next]_vars, NEW h \in Handles
    PROVE  \/ leaseAge'[h] = leaseAge[h]
           \/ /\ Tick
              /\ leaseAge'[h] = IF mint[h] # NoMessage /\ leaseAge[h] < MaxAge
                                THEN leaseAge[h] + 1 ELSE leaseAge[h]
           \/ \E c \in Consumers : \E x \in call[c].todo :
                 /\ Claim(c, x) /\ ClaimMatches(x) /\ x.handle = h /\ leaseAge'[h] = 0
  <1>0. leaseAge \in [Handles -> Nat]
    BY DEF TypeInv, TypeOK
  <1>1. ASSUME NEW c \in Consumers, NEW x \in call[c].todo, Claim(c, x)
        PROVE  \/ leaseAge'[h] = leaseAge[h]
               \/ ClaimMatches(x) /\ x.handle = h /\ leaseAge'[h] = 0
    BY <1>0, <1>1 DEF Claim
  <1>2. ASSUME Tick
        PROVE  leaseAge'[h] = IF mint[h] # NoMessage /\ leaseAge[h] < MaxAge
                              THEN leaseAge[h] + 1 ELSE leaseAge[h]
    BY <1>2 DEF Tick
  <1>3. CASE UNCHANGED leaseAge
    BY <1>3
  <1> QED
    BY <1>1, <1>2, <1>3
    DEF Next, SendMessage, Receive, ReceiveStart, FindCandidates, StopLooking, ReadBack,
        MoveToDeadLetter, SetLease, PassEnd, ReceiveReturn, ReceiveWait, ReceiveFail,
        ReceiveCrash, Delete, DeleteMessage, DeleteMessageById, PurgeQueue, RetentionExpires,
        Redrive, Rewrite, RewriteRead, SetVisibility, SetMessageAttribute, Sweep, SweepRead,
        SweepReset, SweepRelease, SweepFail, vars

\* A delivery held after a step was held before, with no less age, or has just been
\* read back, with its handle on the document.
LEMMA HeldLemma ==
    ASSUME NoWriters, CallInv, [Next]_vars, NEW d \in Deliveries, Held(d)'
    PROVE  \/ Held(d) /\ (Live(d)' => Live(d))
           \/ /\ doc' = doc /\ stored' = stored /\ sent' = sent
              /\ d.msg \in stored /\ doc[d.msg].receiptHandle = d.handle
              /\ \E c \in Consumers :
                    /\ call[c].pc = "claim"
                    /\ d.told \in {call[c].visibility, doc[d.msg].visibilityTimeout}
  <1>0. /\ TypeInv /\ Shape /\ Custody /\ d.handle \in Handles /\ d.told \in Nat
        /\ leaseAge \in [Handles -> Nat]
    BY DEF CallInv, TypeInv, TypeOK, Deliveries
  <1>1. ASSUME Held(d), Live(d)'
        PROVE  Live(d)
    <2>1. ASSUME NEW c \in Consumers, NEW x \in call[c].todo, Claim(c, x), x.handle = d.handle
          PROVE  FALSE
      <3>1. x \in call[c].batch /\ call[c].pc = "claim"
        BY <1>0, <2>1 DEF Claim, Shape, ShapeOf
      <3>2. ~Handed(d)
        BY <1>0, <2>1, <3>1 DEF Custody
      <3>3. PICK b \in Consumers : d \in call[b].won
        BY <1>1, <3>2 DEF Held
      <3>4. PICK y \in call[b].batch : y.handle = d.handle
        BY <1>0, <3>3 DEF Shape, ShapeOf
      <3>5. b = c
        BY <1>0, <2>1, <3>1, <3>4 DEF Custody
      <3> QED BY <1>0, <3>1, <3>3, <3>5 DEF Shape, ShapeOf
    <2>2. leaseAge'[d.handle] >= leaseAge[d.handle] /\ leaseAge'[d.handle] \in Nat
      <3>1. TypeInv'
        BY <1>0, NextTypeInv
      <3>2. leaseAge[d.handle] \in Nat /\ leaseAge'[d.handle] \in Nat
        BY <1>0, <3>1 DEF TypeInv, TypeOK
      <3> QED BY <1>0, <2>1, <3>2, LeaseAgeLemma
    <2> QED BY <1>0, <1>1, <2>2 DEF Live
  <1>2. ASSUME NEW c \in Consumers, ReadBack(c), d \in call'[c].won
        PROVE  /\ doc' = doc /\ stored' = stored /\ sent' = sent
               /\ d.msg \in stored /\ doc[d.msg].receiptHandle = d.handle
               /\ call[c].pc = "claim"
               /\ d.told \in {call[c].visibility, doc[d.msg].visibilityTimeout}
    <2>1. doc' = doc /\ stored' = stored /\ sent' = sent /\ call[c].pc = "claim"
      BY <1>2 DEF ReadBack
    <2>2. PICK x \in Won(c) : /\ d.msg = x.msg /\ d.handle = x.handle
                              /\ d.told \in {call[c].visibility, doc[x.msg].visibilityTimeout}
      BY <1>0, <1>2, ReadBackEffect
    <2> QED BY <2>1, <2>2 DEF Won, Matches
  <1>3. ASSUME NEW c \in Consumers, d \in call'[c].won, ~ReadBack(c)
        PROVE  Held(d)
    BY <1>0, <1>3, WonLemma DEF Held
  <1>4. Handed(d)' => Held(d)
    BY <1>0, HandedLemma DEF Held
  <1> QED BY <1>1, <1>2, <1>3, <1>4 DEF Held

\* What happens in a queue that is undisturbed to a document that stays in it: it is
\* inserted, claimed, leased, reset, released, older or as it was.
LEMMA QuietLemma ==
    ASSUME Undisturbed, CallInv, LeaseInv, [Next]_vars, NEW m \in stored'
    PROVE  \/ /\ m \notin sent /\ doc'[m].receiptHandle = NoHandle
              /\ doc'[m].visibilityTimeout \in Visibilities
           \/ /\ m \in stored /\ doc[m].status = "AVAILABLE"
              /\ doc'[m].visibilityTimeout = doc[m].visibilityTimeout
              /\ \E h \in Handles : /\ doc'[m].receiptHandle = h /\ leaseAge'[h] = 0
                                    /\ doc'[m].sinceReceived = 0
           \/ /\ m \in stored /\ doc'[m].receiptHandle = NoHandle
              /\ doc'[m].visibilityTimeout = doc[m].visibilityTimeout
              /\ \E s \in Sweepers : \E x \in sweep[s].expired :
                    /\ SweepReset(s, x) /\ x.msg = m /\ doc[m].status = "INVISIBLE"
           \/ /\ m \in stored /\ doc'[m].receiptHandle = doc[m].receiptHandle
              /\ doc'[m].visibilityTimeout = doc[m].visibilityTimeout
              /\ doc'[m].sinceReceived =
                    IF Tick /\ doc[m].status = "INVISIBLE" /\ doc[m].sinceReceived < MaxAge
                    THEN doc[m].sinceReceived + 1 ELSE doc[m].sinceReceived
              /\ doc[m].status = "INVISIBLE" => doc'[m].status = "INVISIBLE"
  <1> DEFINE inserted == /\ m \notin sent /\ doc'[m].receiptHandle = NoHandle
                         /\ doc'[m].visibilityTimeout \in Visibilities
             claimed == /\ doc[m].status = "AVAILABLE"
                        /\ doc'[m].visibilityTimeout = doc[m].visibilityTimeout
                        /\ \E h \in Handles : /\ doc'[m].receiptHandle = h /\ leaseAge'[h] = 0
                                              /\ doc'[m].sinceReceived = 0
             reset == /\ doc'[m].receiptHandle = NoHandle
                      /\ doc'[m].visibilityTimeout = doc[m].visibilityTimeout
                      /\ \E s \in Sweepers : \E x \in sweep[s].expired :
                            /\ SweepReset(s, x) /\ x.msg = m /\ doc[m].status = "INVISIBLE"
             kept == /\ doc'[m].receiptHandle = doc[m].receiptHandle
                     /\ doc'[m].visibilityTimeout = doc[m].visibilityTimeout
                     /\ doc'[m].sinceReceived =
                           IF Tick /\ doc[m].status = "INVISIBLE" /\ doc[m].sinceReceived < MaxAge
                           THEN doc[m].sinceReceived + 1 ELSE doc[m].sinceReceived
                     /\ doc[m].status = "INVISIBLE" => doc'[m].status = "INVISIBLE"
  <1>0. /\ TypeInv /\ m \in Messages /\ doc[m] \in Document /\ Shape
        /\ NoWriters /\ leaseAge \in [Handles -> Nat]
    <2>1. TypeInv'
      BY NextTypeInv DEF CallInv
    <2> QED BY <2>1 DEF CallInv, TypeInv, TypeOK, Undisturbed
  <1>1. Inserted(m) => inserted
    BY DEF Inserted, SendMessage, NewDocument, Blank
  <1>2. ASSUME NEW c \in Consumers, NEW x \in Candidates, Claim(c, x), x.msg = m,
               ClaimMatches(x), doc'[m] = Claimed(doc[m], x.handle)
        PROVE  claimed
    <2>1. x.handle \in Handles /\ leaseAge'[x.handle] = 0 /\ doc[m].status = "AVAILABLE"
      BY <1>0, <1>2 DEF Candidates, Claim, ClaimMatches
    <2>2. /\ doc'[m].receiptHandle = x.handle /\ doc'[m].sinceReceived = 0
          /\ doc'[m].visibilityTimeout = doc[m].visibilityTimeout
      BY <1>0, <1>2, <2>1, FieldLemma
    <2> QED BY <2>1, <2>2
  <1>3. ASSUME NEW s \in Sweepers, NEW x \in Refs, SweepReset(s, x), x.msg = m,
               doc[m].status = "INVISIBLE", doc'[m] = Reset(doc[m])
        PROVE  reset
    <2>1. x \in sweep[s].expired
      BY <1>3 DEF SweepReset
    <2>2. /\ doc'[m].receiptHandle = NoHandle
          /\ doc'[m].visibilityTimeout = doc[m].visibilityTimeout
      BY <1>0, <1>3, FieldLemma
    <2> QED BY <1>3, <2>1, <2>2
  <1>4. ASSUME NEW c \in Consumers, NEW x \in Candidates, SetLease(c, x), m \in stored,
               doc'[m] = [doc[m] EXCEPT !.visibilityTimeout = call[c].visibility]
        PROVE  kept
    <2>1. call[c].visibility \in Visibilities /\ doc[m].visibilityTimeout \in Visibilities
      BY <1>0, <1>4 DEF SetLease, Shape, ShapeOf, LeaseInv, Timed
    <2>2. call[c].visibility = doc[m].visibilityTimeout
      BY <2>1 DEF Undisturbed, OneVisibility
    <2>3. ~Tick
      <3>1. Tick => call' = call
        BY DEF Tick
      <3>2. x \in call[c].stale
        BY <1>4 DEF SetLease
      <3>3. call'[c].stale = call[c].stale \ {x}
        BY <1>0, <1>4, WriteEffect
      <3> QED BY <3>1, <3>2, <3>3
    <2>4. /\ doc'[m].receiptHandle = doc[m].receiptHandle
          /\ doc'[m].sinceReceived = doc[m].sinceReceived /\ doc'[m].status = doc[m].status
          /\ doc'[m].visibilityTimeout = call[c].visibility
      BY <1>0, <1>4, AgeLemma
    <2> QED BY <2>2, <2>3, <2>4
  <1>5. ASSUME NEW s \in Sweepers, NEW x \in Refs, SweepRelease(s, x),
               doc[m].status = "DELAYED", doc'[m] = [doc[m] EXCEPT !.status = "AVAILABLE"]
        PROVE  kept
    BY <1>0, <1>5, AgeLemma
  <1>6. ASSUME Tick, doc'[m] = Older(doc[m])
        PROVE  kept
    BY <1>0, <1>6, AgeLemma
  <1>7. ASSUME doc'[m] = doc[m]
        PROVE  kept
    <2>1. Tick => doc'[m] = Older(doc[m])
      BY <1>0 DEF Tick
    <2>2. CASE Tick
      BY <1>6, <2>1, <2>2
    <2>3. CASE ~Tick
      BY <1>7, <2>3
    <2> QED BY <2>2, <2>3
  <1>8. /\ \A c \in Consumers, x \in Candidates : ~MoveToDeadLetter(c, x)
        /\ \A d, q \in Queues : ~Redrive(m, d, q)
    BY <1>0, NotMoved DEF Undisturbed
  <1> HIDE DEF inserted, claimed, reset, kept
  <1>9. inserted \/ (m \in stored /\ (claimed \/ reset \/ kept))
    <2>1. m \in stored /\ Written(m) => claimed \/ reset \/ kept
      BY <1>2, <1>3, <1>4, <1>5, <1>6, <1>8 DEF Written
    <2> QED BY <1>0, <1>1, <1>7, <2>1, WrittenLemma
  <1> QED BY <1>9 DEF inserted, claimed, reset, kept

\* Every step keeps the leases that run on their documents.
LEMMA NextLease == Undisturbed /\ CallInv /\ LeaseInv /\ [Next]_vars => LeaseInv'
  <1> SUFFICES ASSUME Undisturbed, CallInv, LeaseInv, [Next]_vars PROVE LeaseInv'
    OBVIOUS
  <1>0. /\ NoWriters /\ TypeInv /\ CallInv' /\ stored \subseteq Messages /\ stored \subseteq sent
        /\ stored' \subseteq Messages
    <2>1. CallInv'
      BY NextCallInv DEF Undisturbed
    <2> QED BY <2>1 DEF Undisturbed, CallInv, TypeInv, TypeOK, Identity
  <1>1. ASSUME NEW m \in Messages
        PROVE  /\ doc[m].receiptHandle \in Handles \cup {NoHandle}
               /\ doc[m].sinceReceived \in Nat /\ doc[m].visibilityTimeout \in Nat
               /\ doc[m].status = "INVISIBLE" <=> doc[m].receiptHandle # NoHandle
               /\ doc[m].receiptHandle # NoHandle => mint[doc[m].receiptHandle] # NoMessage
    <2>1. doc[m] \in Document
      BY <1>0 DEF TypeInv, TypeOK
    <2>2. /\ doc[m].status = "INVISIBLE" <=> doc[m].receiptHandle # NoHandle
          /\ doc[m].receiptHandle # NoHandle => mint[doc[m].receiptHandle] # NoMessage
      BY ConstantsAssumption DEF CallInv, WellFormedInv, WellFormed, OwnershipInv, Owned
    <2> QED BY <2>1, <2>2 DEF Document
  <1>2. \A d \in Deliveries : d.handle \in Handles /\ d.handle # NoHandle /\ d.told \in Nat
    BY ConstantsAssumption DEF Deliveries
  <1>3. \A h \in Handles : leaseAge[h] \in Nat
    BY <1>0 DEF TypeInv, TypeOK
  <1>4. Aged'
    <2> SUFFICES ASSUME NEW m \in stored', doc'[m].receiptHandle # NoHandle
                 PROVE  doc'[m].sinceReceived = leaseAge'[doc'[m].receiptHandle]
      BY DEF Aged
    <2>1. CASE /\ m \in stored /\ doc'[m].receiptHandle = doc[m].receiptHandle
               /\ doc'[m].sinceReceived =
                     IF Tick /\ doc[m].status = "INVISIBLE" /\ doc[m].sinceReceived < MaxAge
                     THEN doc[m].sinceReceived + 1 ELSE doc[m].sinceReceived
      <3> DEFINE h == doc[m].receiptHandle
      <3>1. /\ h \in Handles /\ mint[h] # NoMessage /\ doc[m].status = "INVISIBLE"
            /\ doc[m].sinceReceived = leaseAge[h]
        BY <1>0, <1>1, <2>1 DEF LeaseInv, Aged
      <3>2. ASSUME NEW c \in Consumers, NEW x \in call[c].todo, Claim(c, x), ClaimMatches(x),
                   x.handle = h
            PROVE  FALSE
        <4>1. mint[x.handle] = x.msg
          BY <3>2 DEF CallInv, OwnershipInv
        <4>2. mint[h] = m
          BY <1>0, <2>1 DEF CallInv, OwnershipInv, Owned
        <4> QED BY <3>1, <3>2, <4>1, <4>2 DEF ClaimMatches
      <3>3. ASSUME Tick
            PROVE  leaseAge'[h] = IF leaseAge[h] < MaxAge THEN leaseAge[h] + 1 ELSE leaseAge[h]
        BY <3>1, <3>3 DEF Tick
      <3>4. ~Tick => leaseAge'[h] = leaseAge[h]
        BY <1>0, <3>1, <3>2, LeaseAgeLemma
      <3> HIDE DEF h
      <3> QED BY <2>1, <3>1, <3>3, <3>4 DEF h
    <2> QED BY <1>0, <2>1, QuietLemma
  <1>5. Timed'
    <2>1. \A m \in stored' : doc'[m].visibilityTimeout \in Visibilities
      BY QuietLemma DEF LeaseInv, Timed
    <2>2. ASSUME NEW d \in Deliveries, Held(d)'
          PROVE  d.told \in Visibilities /\ d.msg \in sent'
      <3>1. sent \subseteq sent'
        BY <1>0, InsertLemma
      <3>2. \A c \in Consumers : call[c].pc = "claim" => call[c].visibility \in Visibilities
        BY DEF CallInv, Shape, ShapeOf
      <3> QED BY <1>0, <2>2, <3>1, <3>2, HeldLemma DEF LeaseInv, Timed
    <2> QED BY <2>1, <2>2 DEF Timed
  <1>6. ASSUME NEW m \in stored', m \in sent
        PROVE  m \in stored
    BY <1>6, QuietLemma
  <1>7. SweptExpired'
    <2> SUFFICES ASSUME NEW s \in Sweepers, NEW x \in sweep'[s].expired, x.msg \in stored'
                 PROVE  LeaseExpired(doc'[x.msg])
      BY DEF SweptExpired, LeaseExpired
    <2>1. CASE x \notin sweep[s].expired
      BY <1>0, <2>1, SweepLemma
    <2>2. CASE x \in sweep[s].expired
      <3> DEFINE m == x.msg
      <3>1. m \in sent /\ oid[m] = x.oid /\ x \in Refs
        BY <1>0, <2>2 DEF CallInv, Identity, Steady, TypeInv, TypeOK
      <3>2. m \in stored /\ m \in Messages
        BY <1>0, <1>6, <3>1
      <3>3. doc[m].status = "INVISIBLE" /\ doc[m].sinceReceived >= doc[m].visibilityTimeout
        BY <2>2, <3>2 DEF LeaseInv, SweptExpired, LeaseExpired
      <3>4. ASSUME NEW t \in Sweepers, NEW y \in sweep[t].expired, SweepReset(t, y), y.msg = m
            PROVE  FALSE
        <4>1. t = s
          BY DEF Undisturbed, OneSweeper
        <4>2. oid[m] = y.oid /\ y \in Refs
          BY <1>0, <3>4 DEF CallInv, Identity, Steady, TypeInv, TypeOK
        <4>3. x = y
          <5>1. x.msg = y.msg /\ x.oid = y.oid /\ x \in Refs /\ y \in Refs
            BY <3>1, <3>4, <4>2
          <5> QED BY ONLY <5>1 DEF Refs
        <4>4. y \notin sweep'[t].expired
          BY <1>0, <3>4 DEF SweepReset, TypeInv, TypeOK
        <4> QED BY <4>1, <4>3, <4>4
      <3>5. /\ doc'[m].visibilityTimeout = doc[m].visibilityTimeout
            /\ doc'[m].sinceReceived \in {doc[m].sinceReceived, doc[m].sinceReceived + 1}
            /\ doc'[m].status = "INVISIBLE"
        <4> HIDE DEF m
        <4>1. m \in stored'
          BY DEF m
        <4> QED BY <3>1, <3>3, <3>4, <4>1, QuietLemma
      <3>6. doc[m].sinceReceived \in Nat /\ doc[m].visibilityTimeout \in Nat
        BY <1>1, <3>2
      <3> QED BY <3>3, <3>5, <3>6 DEF LeaseExpired
    <2> QED BY <2>1, <2>2
  <1>8. ASSUME NEW d \in Deliveries, Held(d), Live(d), d.msg \in stored'
        PROVE  doc'[d.msg].receiptHandle = d.handle
    <2> DEFINE m == d.msg
    <2>1. m \in stored /\ doc[m].receiptHandle = d.handle /\ m \in Messages
      BY <1>0, <1>6, <1>8 DEF LeaseInv, Timed, LiveOnDocument
    <2>2. doc[m].status = "INVISIBLE" /\ doc[m].sinceReceived = leaseAge[d.handle]
      BY <1>1, <1>2, <2>1 DEF LeaseInv, Aged
    <2>3. ASSUME NEW s \in Sweepers, NEW x \in sweep[s].expired, x.msg = m
          PROVE  FALSE
      <3>1. doc[m].sinceReceived >= doc[m].visibilityTimeout
        BY <2>1, <2>3 DEF LeaseInv, SweptExpired, LeaseExpired
      <3>2. doc[m].visibilityTimeout \in Visibilities /\ d.told \in Visibilities
        BY <1>8, <2>1 DEF LeaseInv, Timed
      <3>3. doc[m].visibilityTimeout = d.told
        BY <3>2 DEF Undisturbed, OneVisibility
      <3> QED BY <1>2, <1>3, <1>8, <2>2, <3>1, <3>3 DEF Live
    <2>4. m \in stored' /\ m \in sent
      BY <1>0, <1>8, <2>1
    <2> HIDE DEF m
    <2>5. doc'[m].receiptHandle = doc[m].receiptHandle
      BY <2>2, <2>3, <2>4, QuietLemma
    <2> QED BY <2>1, <2>5 DEF m
  <1>9. LiveOnDocument'
    <2> SUFFICES ASSUME NEW d \in Deliveries, Held(d)', Live(d)', d.msg \in stored'
                 PROVE  doc'[d.msg].receiptHandle = d.handle
      BY DEF LiveOnDocument
    <2> QED BY <1>0, <1>8, HeldLemma
  <1>10. LiveAlone'
    <2> SUFFICES ASSUME NEW d \in Deliveries, NEW e \in Deliveries, Held(d)', Held(e)',
                        d.msg = e.msg, Live(d)', Live(e)'
                 PROVE  d.handle = e.handle
      BY DEF LiveAlone
    <2>1. CASE Held(d) /\ Live(d) /\ Held(e) /\ Live(e)
      BY <2>1 DEF LeaseInv, LiveAlone
    <2>2. CASE ~(Held(d) /\ Live(d)) \/ ~(Held(e) /\ Live(e))
      <3>1. d.msg \in stored'
        BY <1>0, <2>2, HeldLemma
      <3> QED BY <1>9, <3>1 DEF LiveOnDocument
    <2> QED BY <2>1, <2>2
  <1> QED BY <1>4, <1>5, <1>7, <1>9, <1>10 DEF LeaseInv

\* While the visibility timeout a consumer was told runs, nobody else is given the
\* message: for any number of consumers and messages in queues that are
\* undisturbed, however receives fail or crash and the sweep with them.
THEOREM LeaseHeld == Undisturbed => (Spec => []LeaseExclusive)
  <1> SUFFICES ASSUME Undisturbed PROVE Spec => []LeaseExclusive
    OBVIOUS
  <1>1. Init => LeaseInv
    BY DEF Init, LeaseInv, Aged, Timed, SweptExpired, LiveOnDocument, LiveAlone, Held, Handed,
           Idle, NoSweep
  <1>2. CallInv /\ LeaseInv => LeaseExclusive
    <2> SUFFICES ASSUME CallInv, LeaseInv, NEW d \in delivered, NEW e \in delivered,
                        d.msg = e.msg, Live(d), Live(e)
                 PROVE  d = e
      BY DEF LeaseExclusive
    <2>1. d \in Deliveries /\ e \in Deliveries /\ Held(d) /\ Held(e)
      BY DEF CallInv, TypeInv, TypeOK, Held, Handed
    <2>2. d.handle = e.handle /\ d.told \in Visibilities /\ e.told \in Visibilities
      BY <2>1 DEF LeaseInv, LiveAlone, Timed
    <2>3. d.told = e.told
      BY <2>2 DEF Undisturbed, OneVisibility
    <2> QED BY <2>1, <2>2, <2>3 DEF Deliveries
  <1>3. CallInv /\ LeaseInv /\ [Next]_vars => CallInv' /\ LeaseInv'
    BY NextCallInv, NextLease DEF Undisturbed
  <1> QED BY <1>1, <1>2, <1>3, InitCallInv, PTL DEF Spec

-----------------------------------------------------------------------------
\* The rewrite in place is the only way back for a message that was deleted or
\* purged: without it such a message is never stored again, whatever sweeps,
\* receives, moves and redrives still hold of it.
THEOREM DeletedForGood == NoWriters => (Spec => []DeletedStaysDeleted)
  <1> SUFFICES ASSUME NoWriters PROVE Spec => []DeletedStaysDeleted
    OBVIOUS
  <1> DEFINE Inv == CallInv /\ removed \subseteq sent /\ DeletedStaysDeleted
  <1>1. Init => Inv
    BY InitCallInv DEF Init, DeletedStaysDeleted
  <1>2. Inv /\ [Next]_vars => Inv'
    <2> SUFFICES ASSUME Inv, [Next]_vars
                 PROVE  removed' \subseteq sent' /\ DeletedStaysDeleted'
      BY NextCallInv
    <2>1. TypeInv /\ stored \subseteq sent
      BY DEF CallInv, Identity
    <2>2. CASE Delete
      <3>1. PICK S : /\ stored' = stored \ S /\ sent' = sent
                     /\ removed' \subseteq removed \cup (S \cap stored)
        BY <2>2 DEF Delete, DeleteMessage, DeleteMessageById, PurgeQueue, RetentionExpires, Remove
      <3> QED BY <2>1, <3>1 DEF DeletedStaysDeleted
    <2>3. CASE removed' = removed
      BY <2>1, <2>3, InsertLemma DEF DeletedStaysDeleted
    <2> QED
      BY <2>2, <2>3
      DEF Next, SendMessage, Receive, ReceiveStart, FindCandidates, StopLooking, Claim, ReadBack,
          MoveToDeadLetter, SetLease, PassEnd, ReceiveReturn, ReceiveWait, ReceiveFail,
          ReceiveCrash, Redrive, Rewrite, RewriteRead, SetVisibility, SetMessageAttribute, Sweep,
          SweepRead, SweepReset, SweepRelease, SweepFail, Tick, vars
  <1> QED BY <1>1, <1>2, PTL DEF Spec

=============================================================================
