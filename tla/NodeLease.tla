----------------------------- MODULE NodeLease -----------------------------
(***************************************************************************)
(* Worker nodes and the leases on the slots they run (docs/worker-nodes.md *)
(* section 5): the worker's loop (src/worker), the node actions of EAP     *)
(* (EapServer.cpp) and the manager's two passes over slots and leases      *)
(* (Controller.cpp), for one application.                                  *)
(*                                                                         *)
(* A slot is an instance record of the application's pool; the manager     *)
(* gives it to a node under a lease, the node's worker renews the lease    *)
(* and runs the slot's process.  All three keep their own idea of the      *)
(* deadline.  Times are kept as the ticks left until them.                 *)
(***************************************************************************)
EXTENDS Integers, FiniteSets

CONSTANTS
  Nodes,
  Slots,     \* instance ids, each placed once
  None,      \* no node, no slot
  Lease,     \* node-lease-seconds
  Margin,    \* node-lease-skew-seconds
  Period,    \* most ticks from one decision of a worker to its next
  Grace,     \* most ticks the stops of one decision take
  Slow,      \* most ticks a renewal or a pass of the manager takes at the master
  Skew,      \* how far a node's clock is ahead of the master's
  Depth,     \* bound: ticks past a deadline that are told apart
  MaxEvents  \* bound: calls of operators and of the autoscaler, and failures

ASSUME LeaseAssumption ==
  /\ Lease \in Nat /\ Margin \in Nat /\ Period \in Nat /\ Grace \in Nat /\ Slow \in Nat
  /\ Grace =< Period /\ 2 * Slow =< Lease
  /\ Skew \in [Nodes -> Int]
  /\ Depth \in Nat /\ Margin < Depth
  /\ \A n \in Nodes : Period + Grace - Skew[n] < Depth
  /\ MaxEvents \in Nat
  /\ IsFiniteSet(Slots) /\ Slots # {}
  /\ None \notin Nodes \union Slots

VARIABLES
  slot,    \* the record of a slot: assignedTo, leaseExpiresAt
  node,    \* the record of a node: registered, lastSeen, drained
  target,  \* how many instances the application should have, 0 when stopped
  mgr,     \* the manager's pass in progress
  req,     \* the renewal the master is handling for a node
  wrk,     \* the worker's loop
  run,     \* the processes of a node
  taken,   \* history: slots taken from a node before their lease was over, or on request
  unsaved, \* history: slots a node's last renewal did not write
  events   \* how many calls and failures there have been

vars == <<slot, node, target, mgr, req, wrk, run, taken, unsaved, events>>

Left == (0 - Depth) .. Lease

SlotRecord == [is : {"new", "kept", "gone"}, at : Nodes \union {None}, left : Left]

\* ago is the time since lastSeen, as far as anybody asks.
NodeRecord == [known : BOOLEAN, ago : 0 .. Lease + Slow + 1, drained : BOOLEAN]

Passes ==
  [pc : {"idle", "apps", "leases"}, age : 0 .. Slow, nodes : SUBSET Nodes,
   drop : SUBSET Slots, withdraw : SUBSET Slots, place : Nat, expired : SUBSET Slots]

NoPass ==
  [pc |-> "idle", age |-> 0, nodes |-> {}, drop |-> {}, withdraw |-> {}, place |-> 0,
   expired |-> {}]

\* heard says that the worker still waits for the answer.
Renewals ==
  [pc : {"idle", "write", "answer"}, left : Left, ids : SUBSET Slots, heard : BOOLEAN]

NoRenewal == [pc |-> "idle", left |-> 0, ids |-> {}, heard |-> FALSE]

\* The worker waits no more: what is still to be written is all that counts.
Unheard(r) == IF r.pc = "write" /\ r.ids # {} THEN [r EXCEPT !.heard = FALSE] ELSE NoRenewal

\* turn counts from the last decision; left is the worker's leaseExpiresAt,
\* kept while there is a slot it is about.
Workers ==
  [up : BOOLEAN, pc : {"sleep", "renew", "apply"}, turn : 0 .. Period, assigned : SUBSET Slots,
   left : Left, stop : SUBSET Slots, start : SUBSET Slots, held : SUBSET Slots]

\* Nothing to run or to stop: no deadline to keep.
Free(n) == wrk[n].assigned \union run[n] = {}

\* A turn of the loop ends when there is nothing left to stop and to start.
Settled(w, running) ==
  IF w.stop \union w.start # {} THEN w
  ELSE IF w.assigned \union running # {} THEN [w EXCEPT !.pc = "sleep"]
  ELSE [w EXCEPT !.pc = "sleep", !.left = 0]

Fresh(up) ==
  [up |-> up, pc |-> "sleep", turn |-> 0, assigned |-> {}, left |-> 0, stop |-> {},
   start |-> {}, held |-> {}]

Event ==
  /\ events < MaxEvents
  /\ events' = events + 1

-----------------------------------------------------------------------------
\* Slot records

Kept == {s \in Slots : slot[s].is = "kept"}
HeldSlots == {s \in Kept : slot[s].at # None}
SlotsOf(n) == {s \in Kept : slot[s].at = n}

\* leaseHasExpired(), with the margin that is added to the deadline.
LeaseOver(s, margin) == slot[s].left < 0 - margin

\* A slot changes hands, before its time or not.
Taken(s, n, early) ==
  IF s \in HeldSlots /\ slot[s].at # n /\ early THEN taken \union {s} ELSE taken

\* assignInstance() matches by instanceId alone.
AssignInstance(s, n, left, early) ==
  /\ slot' = IF s \notin Kept THEN slot
             ELSE [slot EXCEPT ![s].at = n, ![s].left = IF n = None THEN 0 ELSE left]
  /\ taken' = Taken(s, n, early)

AcceptsWork(n, age) == node[n].known /\ ~node[n].drained /\ node[n].ago - age =< Lease

-----------------------------------------------------------------------------
\* The manager: passes of reconcileApplications() and of reconcileNodeLeases()

\* rebalanceNodeApplication(): a slot that would sit better elsewhere, or none.
Rebalance == {{}} \union {{s} : s \in HeldSlots}

\* What to take back: everything when the application is stopped; otherwise a
\* surplus slot, if one has no work in hand, or one to be moved.
ToWithdraw ==
  IF target = 0 THEN {HeldSlots}
  ELSE IF Cardinality(HeldSlots) < target THEN {{}}
  ELSE Rebalance

ToPlace == IF Cardinality(HeldSlots) < target THEN target - Cardinality(HeldSlots) ELSE 0

\* Slots nobody holds are dropped, before anything is counted.
ToDrop == IF target = 0 THEN {} ELSE Kept \ HeldSlots

\* An application that should run waits while no node is registered at all.  A
\* pass that finds nothing to do changes nothing and is left out.
AppsRead ==
  /\ mgr.pc = "idle"
  /\ target = 0 \/ \E n \in Nodes : node[n].known
  /\ \E withdraw \in ToWithdraw :
       /\ \/ ToDrop # {} \/ withdraw # {}
          \/ ToPlace > 0 /\ \E n \in Nodes, s \in Slots : AcceptsWork(n, 0) /\ slot[s].is = "new"
       /\ mgr' = [NoPass EXCEPT
                    !.pc = "apps", !.drop = ToDrop, !.withdraw = withdraw, !.place = ToPlace,
                    !.nodes = {n \in Nodes : ToPlace > 0 /\ AcceptsWork(n, 0)}]
  /\ UNCHANGED <<slot, node, target, req, wrk, run, taken, unsaved, events>>

\* A pass ends when it has nothing left to do.
Ongoing(pass) ==
  IF \/ pass.drop \union pass.withdraw \union pass.expired # {}
     \/ pass.place > 0 /\ pass.nodes # {} /\ \E s \in Slots : slot'[s].is = "new"
    THEN pass ELSE NoPass

DropSlot(s) ==
  /\ s \in mgr.drop
  /\ slot' = [slot EXCEPT ![s] = [is |-> "gone", at |-> None, left |-> 0]]
  /\ taken' = Taken(s, None, TRUE)
  /\ mgr' = Ongoing([mgr EXCEPT !.drop = @ \ {s}])
  /\ UNCHANGED <<node, target, req, wrk, run, unsaved, events>>

Withdraw(s) ==
  /\ mgr.drop = {}
  /\ s \in mgr.withdraw
  /\ AssignInstance(s, None, 0, TRUE)
  /\ mgr' = Ongoing([mgr EXCEPT !.withdraw = @ \ {s}])
  /\ UNCHANGED <<node, target, req, wrk, run, unsaved, events>>

\* Any node the rules of Placement may come to: which of them is chosen makes
\* no difference to the leases.
Place(s, n) ==
  /\ mgr.drop = {} /\ mgr.withdraw = {} /\ mgr.place > 0
  /\ slot[s].is = "new"
  /\ n \in mgr.nodes
  /\ slot' = [slot EXCEPT ![s] = [is |-> "kept", at |-> n, left |-> Lease - mgr.age]]
  /\ mgr' = Ongoing([mgr EXCEPT !.place = @ - 1])
  /\ UNCHANGED <<node, target, req, wrk, run, taken, unsaved, events>>

\* Mutant: without the margin for the clocks.
MutExpired == {s \in HeldSlots : LeaseOver(s, 0)}

Expired == {s \in HeldSlots : LeaseOver(s, Margin)}

LeasesRead ==
  /\ mgr.pc = "idle"
  /\ Expired # {}
  /\ mgr' = [NoPass EXCEPT !.pc = "leases", !.expired = Expired]
  /\ UNCHANGED <<slot, node, target, req, wrk, run, taken, unsaved, events>>

\* The same node again, where it is live, is an extension.
Replace(s, n) ==
  /\ s \in mgr.expired
  /\ AcceptsWork(n, mgr.age)
  /\ AssignInstance(s, n, Lease - mgr.age, ~LeaseOver(s, 0))
  /\ mgr' = Ongoing([mgr EXCEPT !.expired = @ \ {s}])
  /\ UNCHANGED <<node, target, req, wrk, run, unsaved, events>>

NowhereToPlace(s) ==
  /\ s \in mgr.expired
  /\ \A n \in Nodes : ~AcceptsWork(n, mgr.age)
  /\ mgr' = Ongoing([mgr EXCEPT !.expired = @ \ {s}])
  /\ UNCHANGED <<slot, node, target, req, wrk, run, taken, unsaved, events>>

\* An exception ends the pass.
PassFails ==
  /\ mgr.pc # "idle"
  /\ Event
  /\ mgr' = NoPass
  /\ UNCHANGED <<slot, node, target, req, wrk, run, taken, unsaved>>

-----------------------------------------------------------------------------
\* The worker's loop: Renew(), Reap(), Decide(), Apply()

\* Mutant: a worker that trusts the last answer it had.
MutDecided(n, assigned, left) ==
  wrk' = [wrk EXCEPT ![n] =
    Settled(
      [wrk[n] EXCEPT !.pc = "apply", !.turn = 0, !.assigned = assigned, !.left = left,
                !.stop = run[n] \ assigned,
                !.start = assigned \ (run[n] \union wrk[n].held),
                !.held = wrk[n].held \cap assigned],
      run[n])]

\* Decide() on an assignment and a deadline: a worker past its deadline, by its
\* own clock, stops everything; a slot whose revision changed is stopped and
\* started.
Decided(n, assigned, left) ==
  \E redeployed \in SUBSET (assigned \cap run[n]) :
    wrk' = [wrk EXCEPT ![n] =
      Settled(
        IF left < Skew[n]
          THEN [wrk[n] EXCEPT !.pc = "apply", !.turn = 0, !.assigned = {}, !.left = left,
                         !.stop = run[n]]
          ELSE [wrk[n] EXCEPT !.pc = "apply", !.turn = 0, !.assigned = assigned, !.left = left,
                         !.stop = redeployed \union (run[n] \ assigned),
                         !.start = redeployed \union (assigned \ (run[n] \union wrk[n].held)),
                         !.held = wrk[n].held \cap assigned],
        run[n])]

\* Mutant: the deadline goes out with the margin the master keeps to itself.
MutRenewSend(n) ==
  /\ wrk[n].up /\ wrk[n].pc = "sleep" /\ wrk[n].turn > 0
  /\ node[n].known
  /\ wrk' = [wrk EXCEPT ![n].pc = "renew"]
  /\ req[n].pc = "idle"
  /\ req' = [req EXCEPT ![n] =
       [pc |-> "write", left |-> Lease + Margin, ids |-> SlotsOf(n), heard |-> TRUE]]
  /\ node' = [node EXCEPT ![n].ago = 0]
  /\ UNCHANGED <<slot, target, mgr, run, taken, unsaved, events>>

\* handleRenewNode() begins: the deadline, the heartbeat, the node's slots.  A
\* request the node gave up on may still be under way.
RenewSend(n) ==
  /\ wrk[n].up /\ wrk[n].pc = "sleep" /\ wrk[n].turn > 0
  /\ node[n].known
  /\ wrk' = [wrk EXCEPT ![n].pc = "renew"]
  /\ req[n].pc = "idle"
  /\ req' = [req EXCEPT ![n] = [pc |-> "write", left |-> Lease, ids |-> SlotsOf(n), heard |-> TRUE]]
  /\ node' = [node EXCEPT ![n].ago = 0]
  /\ UNCHANGED <<slot, target, mgr, run, taken, unsaved, events>>

\* renewInstanceLeases(): by instanceId alone, whoever has the slot by now.
RenewWrite(n, s) ==
  /\ req[n].pc = "write"
  /\ s \in req[n].ids
  /\ slot' = IF s \in HeldSlots THEN [slot EXCEPT ![s].left = req[n].left] ELSE slot
  /\ unsaved' = IF s \in SlotsOf(n) THEN [unsaved EXCEPT ![n] = @ \ {s}] ELSE unsaved
  /\ req' = [req EXCEPT ![n].ids = @ \ {s}]
  /\ UNCHANGED <<node, target, mgr, wrk, run, taken, events>>

\* The read of the slots or a write throws: caught and logged, and the slots
\* that are left keep the lease they have.  The handler goes on.
RenewWriteFails(n) ==
  /\ req[n].pc = "write"
  /\ req[n].ids # {}
  /\ Event
  /\ unsaved' = [unsaved EXCEPT ![n] = @ \union req[n].ids]
  /\ req' = [req EXCEPT ![n].ids = {}]
  /\ UNCHANGED <<slot, node, target, mgr, wrk, run, taken>>

\* The new deadline goes out whatever was written; what the node has is read
\* again for the answer.
RenewAnswer(n) ==
  /\ req[n].pc = "write"
  /\ req[n].ids = {}
  /\ req' = [req EXCEPT ![n] =
       IF @.heard THEN [@ EXCEPT !.pc = "answer", !.ids = SlotsOf(n)] ELSE NoRenewal]
  /\ UNCHANGED <<slot, node, target, mgr, wrk, run, taken, unsaved, events>>

\* findAll() fails: the answer has the new deadline and no slots.
RenewAnswerEmpty(n) ==
  /\ req[n].pc = "write"
  /\ req[n].ids = {}
  /\ req[n].heard
  /\ Event
  /\ req' = [req EXCEPT ![n].pc = "answer"]
  /\ UNCHANGED <<slot, node, target, mgr, wrk, run, taken, unsaved>>

RenewSucceeds(n) ==
  /\ req[n].pc = "answer"
  /\ Decided(n, req[n].ids, req[n].left)
  /\ req' = [req EXCEPT ![n] = NoRenewal]
  /\ UNCHANGED <<slot, node, target, mgr, run, taken, unsaved, events>>

\* The master is not reached, refuses, or does not answer in time; it goes on
\* with what it began.
RenewFails(n) ==
  /\ wrk[n].up /\ wrk[n].pc \in {"sleep", "renew"} /\ wrk[n].turn > 0
  /\ Decided(n, wrk[n].assigned, wrk[n].left)
  /\ req' = [req EXCEPT ![n] = Unheard(@)]
  /\ UNCHANGED <<slot, node, target, mgr, run, taken, unsaved, events>>

\* Registering writes the whole record of the node, drained included.
Registered == [known |-> TRUE, ago |-> 0, drained |-> FALSE]

RenewUnknown(n) ==
  /\ wrk[n].up /\ wrk[n].pc = "sleep" /\ wrk[n].turn > 0
  /\ ~node[n].known
  /\ node' = [node EXCEPT ![n] = Registered]
  /\ Decided(n, wrk[n].assigned, wrk[n].left)
  /\ UNCHANGED <<slot, target, mgr, req, run, taken, unsaved, events>>

Stop(n, s) ==
  /\ s \in wrk[n].stop
  /\ run' = [run EXCEPT ![n] = @ \ {s}]
  /\ wrk' = [wrk EXCEPT ![n] = Settled([wrk[n] EXCEPT !.stop = wrk[n].stop \ {s}], run'[n])]
  /\ UNCHANGED <<slot, node, target, mgr, req, taken, unsaved, events>>

\* issue-instance-credentials: the slot must be the node's and its lease live.
MayHaveCredentials(n, s) == node[n].known /\ s \in SlotsOf(n) /\ ~LeaseOver(s, 0)

\* Starts come after the stops.
Start(n, s) ==
  /\ wrk[n].stop = {}
  /\ s \in wrk[n].start
  /\ MayHaveCredentials(n, s)
  /\ run' = [run EXCEPT ![n] = @ \union {s}]
  /\ wrk' = [wrk EXCEPT ![n] = Settled([wrk[n] EXCEPT !.start = wrk[n].start \ {s}], run'[n])]
  /\ UNCHANGED <<slot, node, target, mgr, req, taken, unsaved, events>>

\* No artifact, no credentials or no process; the next decision tries again.
StartFails(n, s) ==
  /\ wrk[n].stop = {}
  /\ s \in wrk[n].start
  /\ wrk' = [wrk EXCEPT ![n] = Settled([wrk[n] EXCEPT !.start = wrk[n].start \ {s}], run[n])]
  /\ UNCHANGED <<slot, node, target, mgr, req, run, taken, unsaved, events>>

\* A process ends by itself; Reap() holds its slot off for a while.
ProcessExits(n, s) ==
  /\ wrk[n].pc = "sleep"
  /\ s \in run[n]
  /\ Event
  /\ run' = [run EXCEPT ![n] = @ \ {s}]
  /\ wrk' = [wrk EXCEPT ![n].held = @ \union {s}]
  /\ UNCHANGED <<slot, node, target, mgr, req, taken, unsaved>>

HoldOver(n, s) ==
  /\ s \in wrk[n].held
  /\ wrk' = [wrk EXCEPT ![n].held = @ \ {s}]
  /\ UNCHANGED <<slot, node, target, mgr, req, run, taken, unsaved, events>>

\* The host goes down, or its worker is stopped and stops what it runs.
NodeDown(n) ==
  /\ wrk[n].up
  /\ Event
  /\ wrk' = [wrk EXCEPT ![n] = Fresh(FALSE)]
  /\ req' = [req EXCEPT ![n] = Unheard(@)]
  /\ run' = [run EXCEPT ![n] = {}]
  /\ UNCHANGED <<slot, node, target, mgr, taken, unsaved>>

NodeUp(n) ==
  /\ ~wrk[n].up
  /\ wrk' = [wrk EXCEPT ![n] = Fresh(TRUE)]
  /\ node' = [node EXCEPT ![n] = Registered]
  /\ UNCHANGED <<slot, target, mgr, req, run, taken, unsaved, events>>

-----------------------------------------------------------------------------
\* Operators, the autoscaler and time

SetTarget(k) ==
  /\ Event
  /\ target' = k
  /\ UNCHANGED <<slot, node, mgr, req, wrk, run, taken, unsaved>>

\* assign-instance: to a registered node that is not drained, or to none.
AssignByHand(s, n) ==
  /\ Event
  /\ s \in Kept
  /\ n # None => node[n].known /\ ~node[n].drained
  /\ AssignInstance(s, n, Lease, TRUE)
  /\ UNCHANGED <<node, target, mgr, req, wrk, run, unsaved>>

DrainNode(n, drained) ==
  /\ Event
  /\ node[n].known
  /\ node' = [node EXCEPT ![n].drained = drained]
  /\ UNCHANGED <<slot, target, mgr, req, wrk, run, taken, unsaved>>

DeleteNode(n) ==
  /\ Event
  /\ node[n].known
  /\ node' = [node EXCEPT ![n] = [known |-> FALSE, ago |-> 0, drained |-> FALSE]]
  /\ UNCHANGED <<slot, target, mgr, req, wrk, run, taken, unsaved>>

Less(left) == IF left > 0 - Depth THEN left - 1 ELSE left
More(ago) == IF ago =< Lease + Slow THEN ago + 1 ELSE ago

\* Nobody takes longer than it may.
InTime ==
  /\ mgr.pc # "idle" => mgr.age < Slow
  /\ \A n \in Nodes :
       /\ req[n].pc = "write" => Lease - req[n].left < Slow
       /\ wrk[n].up => wrk[n].turn < IF wrk[n].stop # {} THEN Grace ELSE Period

Tick ==
  /\ InTime
  /\ slot' = [s \in Slots |->
       IF s \in HeldSlots THEN [slot[s] EXCEPT !.left = Less(@)] ELSE slot[s]]
  /\ node' = [n \in Nodes |->
       IF node[n].known THEN [node[n] EXCEPT !.ago = More(@)] ELSE node[n]]
  /\ mgr' = IF mgr.pc # "idle" THEN [mgr EXCEPT !.age = @ + 1] ELSE mgr
  /\ req' = [n \in Nodes |->
       IF req[n].pc # "idle" THEN [req[n] EXCEPT !.left = Less(@)] ELSE req[n]]
  /\ wrk' = [n \in Nodes |->
       IF wrk[n].up
         THEN [wrk[n] EXCEPT !.turn = @ + 1, !.left = IF Free(n) THEN @ ELSE Less(@)]
         ELSE wrk[n]]
  /\ UNCHANGED <<target, run, taken, unsaved, events>>

-----------------------------------------------------------------------------
Init ==
  /\ slot = [s \in Slots |-> [is |-> "new", at |-> None, left |-> 0]]
  /\ node = [n \in Nodes |-> [known |-> FALSE, ago |-> 0, drained |-> FALSE]]
  /\ target = 1
  /\ mgr = NoPass
  /\ req = [n \in Nodes |-> NoRenewal]
  /\ wrk = [n \in Nodes |-> Fresh(FALSE)]
  /\ run = [n \in Nodes |-> {}]
  /\ taken = {}
  /\ unsaved = [n \in Nodes |-> {}]
  /\ events = 0

Applications ==
  \/ AppsRead
  \/ \E s \in Slots : DropSlot(s) \/ Withdraw(s) \/ \E n \in Nodes : Place(s, n)

Leases ==
  \/ LeasesRead
  \/ \E s \in Slots : NowhereToPlace(s) \/ \E n \in Nodes : Replace(s, n)

Renewal(n) ==
  \/ RenewWriteFails(n) \/ RenewAnswer(n) \/ RenewAnswerEmpty(n)
  \/ \E s \in Slots : RenewWrite(n, s)

Worker(n) ==
  \/ RenewSend(n) \/ RenewSucceeds(n) \/ RenewFails(n) \/ RenewUnknown(n)
  \/ \E s \in Slots : Stop(n, s) \/ Start(n, s) \/ StartFails(n, s)

Operator ==
  \/ \E k \in 0 .. Cardinality(Slots) : SetTarget(k)
  \/ \E s \in Slots, n \in Nodes \union {None} : AssignByHand(s, n)
  \/ \E n \in Nodes : DeleteNode(n) \/ \E drained \in BOOLEAN : DrainNode(n, drained)

Host(n) ==
  \/ NodeDown(n)
  \/ NodeUp(n)
  \/ \E s \in Slots : ProcessExits(n, s) \/ HoldOver(n, s)

Next ==
  \/ Applications
  \/ Leases
  \/ PassFails
  \/ \E n \in Nodes : Renewal(n) \/ Worker(n) \/ Host(n)
  \/ Operator
  \/ Tick

Spec == Init /\ [][Next]_vars

-----------------------------------------------------------------------------
\* Every record has its type.
TypeOK ==
  /\ slot \in [Slots -> SlotRecord]
  /\ node \in [Nodes -> NodeRecord]
  /\ target \in 0 .. Cardinality(Slots)
  /\ mgr \in Passes
  /\ req \in [Nodes -> Renewals]
  /\ wrk \in [Nodes -> Workers]
  /\ run \in [Nodes -> SUBSET Slots]
  /\ taken \in SUBSET Slots
  /\ unsaved \in [Nodes -> SUBSET Slots]
  /\ events \in 0 .. MaxEvents

\* A worker that cannot renew stops its processes by its own clock: none of
\* them outlives the deadline the worker knows by more than one turn of its
\* loop and the grace of a stop.
StopsOnItsOwn ==
  \A n \in Nodes : run[n] # {} => wrk[n].left >= Skew[n] - Period - Grace

\* The manager gives a slot away only when its node has let it go, as far as
\* the margin reaches: a process that still runs on a slot its node has lost
\* belongs to a worker that is past its deadline by all of the margin a slow
\* renewal leaves, or that is stopping it.  Left out are slots taken early and
\* slots whose renewal was answered but not written (renewInstanceLeases() logs
\* the failure and handleRenewNode() answers the new deadline all the same),
\* until a later renewal writes them: such a worker is within the deadline it
\* was told while its record runs out.
LostOnlyOverdue ==
  \A n \in Nodes : \A s \in run[n] \ (taken \union unsaved[n]) :
    s \in SlotsOf(n) \/ wrk[n].left < Slow - Margin \/ s \in wrk[n].stop

\* What docs/worker-nodes.md says the leases buy: by the time the manager gives
\* a slot away, no other node runs it.
SlotExclusive ==
  \A s \in Slots : \A n, m \in Nodes : n # m => ~(s \in run[n] /\ s \in run[m])
=============================================================================
