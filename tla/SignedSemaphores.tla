-------------------------- MODULE SignedSemaphores --------------------------
(***************************************************************************)
(* syncx.LockfreeSemaphore and syncx.RuntimeSemaphore.  Both keep an       *)
(* atomic counter of permits that goes negative, by one for each Acquire   *)
(* that has to wait; they differ in what an Acquire waits on.              *)
(*                                                                         *)
(* LockfreeSemaphore: waiters queue a one-bit gate in a                    *)
(* queue.LockFreeMPMC and spin on it; Release dequeues a gate and opens    *)
(* it.  A call of the queue (SlotQueues has its steps) moves the line when *)
(* it claims a place, and gives up when it loads slot.seq, which tells it  *)
(* what the slot is at that moment: an Enqueue claims its place in line    *)
(* before it is ready; a Dequeue claims the head before it gives the slot  *)
(* free for the next lap.  So a Dequeue fails on a line that is empty or   *)
(* has a head that is not ready (and Release retries), and an Enqueue      *)
(* fails on a full line and on a slot that is not yet given free, however  *)
(* few wait in line (and Acquire does not look).                           *)
(*                                                                         *)
(* RuntimeSemaphore: waiters park on the runtime semaphore sema, which     *)
(* counts: runtime_Semacquire waits for a positive count and takes one,    *)
(* runtime_Semrelease adds one.                                            *)
(*                                                                         *)
(* Control points: "acquire" before permits.Load, "cas" before the         *)
(* CompareAndSwap, "wait" where Acquire's slow path begins, "publish" and  *)
(* "spin" further down LockfreeSemaphore's ("refused" if the gate it spins *)
(* on is in no queue), "release" before permits.Add, "wake" where          *)
(* Release's slow path begins, "vacate" and "open" further down            *)
(* LockfreeSemaphore's: before the Dequeue's slot.seq.Store and before     *)
(* gate.Store.                                                             *)
(***************************************************************************)
EXTENDS PermitClient

CONSTANT QueueSize     (* queue.BoundedQueueSize                           *)

(* In a ring of one slot a place that is ready and the next one that is    *)
(* free would have the same sequence number.                               *)
ASSUME QueueAssumption == QueueSize \in Nat \ {0, 1}

VARIABLES
  permits,    (* the counter                                               *)
  seen,       (* seen[g]: val, the value g loaded, 0 when g has none       *)
  waiters,    (* the line of [gate, ready] in LockfreeSemaphore.waiters    *)
  head,       (* the place of the first in line; places count from 0       *)
  place, got, (* Release: the place its Dequeue has claimed, and the gate  *)
              (* it found there; 0 and its own name when it has none       *)
  opened,     (* the gates that hold true; a gate is named by its owner    *)
  sema        (* RuntimeSemaphore.sema                                     *)

counterVars == <<permits, seen>>
lineVars    == <<waiters, head, place, got>>
gateVars    == <<lineVars, opened>>

Init ==
  /\ ClientInit
  /\ permits = Permits
  /\ seen = [g \in Goroutine |-> 0]
  /\ waiters = <<>> /\ head = 0 /\ opened = {}
  /\ place = [g \in Goroutine |-> 0] /\ got = [g \in Goroutine |-> g]
  /\ sema = 0

(* val = l.permits.Load() *)
LoadPermits(g) ==
  /\ Goto(g, "acquire", "cas")
  /\ seen' = [seen EXCEPT ![g] = permits]
  /\ UNCHANGED permits

(* val is used no more. *)
Forget(g) == seen' = [seen EXCEPT ![g] = 0]

(* Mutant: the slow path starts one permit too late (val < 0). *)
TakePermitLate(g) ==
  \/ /\ permits = seen[g]
     /\ Goto(g, "cas", IF seen[g] < 0 THEN "wait" ELSE "granted")
     /\ permits' = permits - 1
     /\ Forget(g)
  \/ /\ permits # seen[g]
     /\ Goto(g, "cas", "acquire")
     /\ Forget(g) /\ UNCHANGED permits

(* if l.permits.CompareAndSwap(val, val-1) { if val <= 0 { ... *)
TakePermit(g) ==
  \/ /\ permits = seen[g]
     /\ Goto(g, "cas", IF seen[g] <= 0 THEN "wait" ELSE "granted")
     /\ permits' = permits - 1
     /\ Forget(g)
  \/ /\ permits # seen[g]
     /\ Goto(g, "cas", "acquire")
     /\ Forget(g) /\ UNCHANGED permits

(* after := l.permits.Add(1); if after <= 0 { ... *)
AddPermit(g) ==
  /\ Goto(g, "release", IF permits + 1 <= 0 THEN "wake" ELSE "idle")
  /\ permits' = permits + 1
  /\ UNCHANGED seen

Counting(g) == LoadPermits(g) \/ TakePermit(g) \/ AddPermit(g)

CounterTypeOK ==
  /\ pc \in [Goroutine -> {"idle", "acquire", "cas", "wait", "publish", "spin",
                           "refused", "granted", "release", "wake", "vacate",
                           "open"}]
  /\ ClientTypeOK
  /\ permits \in Int
  /\ seen \in [Goroutine -> Int]

(* Permits in the counter that no waiter has a claim on, and waiters the   *)
(* counter has no permit for.                                              *)
Positive == IF permits > 0 THEN permits ELSE 0
Deficit  == IF permits < 0 THEN -permits ELSE 0

Held    == {g \in Goroutine : pc[g] \in {"granted", "release"}}
Waiting == {g \in Goroutine : pc[g] \in {"wait", "publish", "spin", "refused"}}
Waking  == {g \in Goroutine : pc[g] \in {"wake", "vacate", "open"}}

(* Inductive, of both: the counter is what N leaves when everybody who     *)
(* has, gives back or waits for a permit is taken off; and a waiter is     *)
(* either in deficit, or a Release is on its way to it, or a permit has    *)
(* been handed to it.                                                      *)
Conserved(handed) ==
  /\ permits + owned + Cardinality(Held) + Cardinality(Waiting) = Permits
  /\ Cardinality(Waiting) = Deficit + Cardinality(Waking) + handed
-----------------------------------------------------------------------------
(* LockfreeSemaphore *)

(* The place an Enqueue claims next, and whether its slot still has the    *)
(* place of the lap before: in line, or claimed but not given free.        *)
NextPlace == head + Len(waiters)
Occupied ==
  \/ Len(waiters) = QueueSize
  \/ \E h \in Goroutine : pc[h] = "vacate" /\ place[h] + QueueSize = NextPlace

(* l.waiters.Enqueue(gate) claims a place, or returns false, which Acquire *)
(* ignores: it then spins on a gate that nobody can open.                  *)
ClaimPlace(g) ==
  /\ \/ /\ ~Occupied
        /\ Goto(g, "wait", "publish")
        /\ waiters' = Append(waiters, [gate |-> g, ready |-> FALSE])
     \/ /\ Occupied
        /\ Goto(g, "wait", "refused")
        /\ UNCHANGED waiters
  /\ UNCHANGED <<counterVars, head, place, got, opened>>

Publish(g) ==
  /\ Goto(g, "publish", "spin")
  /\ waiters' = [i \in DOMAIN waiters |->
                   [waiters[i] EXCEPT !.ready = @ \/ waiters[i].gate = g]]
  /\ UNCHANGED <<counterVars, head, place, got, opened>>

(* for !gate.Load() {} ends. *)
Pass(g) ==
  /\ g \in opened
  /\ Goto(g, "spin", "granted")
  /\ opened' = opened \ {g}
  /\ UNCHANGED <<counterVars, lineVars>>

(* l.waiters.Dequeue() claims the head and reads the gate. *)
ClaimGate(g) ==
  /\ waiters # <<>> /\ Head(waiters).ready
  /\ Goto(g, "wake", "vacate")
  /\ place' = [place EXCEPT ![g] = head]
  /\ got' = [got EXCEPT ![g] = Head(waiters).gate]
  /\ head' = head + 1
  /\ waiters' = Tail(waiters)
  /\ UNCHANGED <<counterVars, opened>>

(* slot.seq.Store(head + BoundedQueueSize): Dequeue returns the gate. *)
Vacate(g) ==
  /\ Goto(g, "vacate", "open")
  /\ place' = [place EXCEPT ![g] = 0]
  /\ UNCHANGED <<counterVars, waiters, head, got, opened>>

(* gate.Store(true) *)
OpenGate(g) ==
  /\ Goto(g, "open", "idle")
  /\ opened' = opened \cup {got[g]}
  /\ got' = [got EXCEPT ![g] = g]
  /\ UNCHANGED <<counterVars, waiters, head, place>>

LockfreeWork(g) ==
  \/ Counting(g) /\ UNCHANGED gateVars
  \/ ClaimPlace(g) \/ Publish(g) \/ Pass(g)
  \/ ClaimGate(g) \/ Vacate(g) \/ OpenGate(g)
  \/ Return(g) /\ UNCHANGED <<counterVars, gateVars>>

LockfreeTypeOK ==
  /\ CounterTypeOK
  /\ waiters \in Seq([gate : Goroutine, ready : BOOLEAN])
  /\ head \in Nat /\ place \in [Goroutine -> Nat] /\ got \in [Goroutine -> Goroutine]
  /\ opened \subseteq {g \in Goroutine : pc[g] = "spin"}

(* Inductive: each place in line is of another waiter, not yet let go,     *)
(* which spins once the place is ready; and so is each gate that a Release *)
(* has taken from the line and has not opened yet.                         *)
Opening == {g \in Goroutine : pc[g] \in {"vacate", "open"}}
LineOK ==
  /\ \A i, j \in DOMAIN waiters : waiters[i].gate = waiters[j].gate => i = j
  /\ \A i \in DOMAIN waiters :
       /\ pc[waiters[i].gate] = IF waiters[i].ready THEN "spin" ELSE "publish"
       /\ waiters[i].gate \notin opened
TakenOK ==
  /\ \A g, h \in Opening : got[g] = got[h] => g = h
  /\ \A g \in Opening :
       /\ pc[got[g]] = "spin" /\ got[g] \notin opened
       /\ \A i \in DOMAIN waiters : waiters[i].gate # got[g]

LockfreeInv == LockfreeTypeOK /\ Conserved(Cardinality(opened)) /\ LineOK /\ TakenOK

(* Refinement mapping: opening the gate hands the permit over. *)
LockfreeFree   == Positive
LockfreeStatus == StatusOf({}, opened)
-----------------------------------------------------------------------------
(* RuntimeSemaphore *)

Semacquire(g) ==
  /\ sema > 0
  /\ Goto(g, "wait", "granted")
  /\ sema' = sema - 1
  /\ UNCHANGED counterVars

Semrelease(g) ==
  /\ Goto(g, "wake", "idle")
  /\ sema' = sema + 1
  /\ UNCHANGED counterVars

RuntimeWork(g) ==
  \/ Counting(g) /\ UNCHANGED sema
  \/ Semacquire(g) \/ Semrelease(g)
  \/ Return(g) /\ UNCHANGED <<counterVars, sema>>

RuntimeTypeOK == CounterTypeOK /\ sema \in Nat

RuntimeInv == RuntimeTypeOK /\ Conserved(sema)

(* Refinement mapping: a permit that has been deposited in sema is free    *)
(* for any of the goroutines that have committed to waiting.               *)
RuntimeFree   == Positive + sema
RuntimeStatus == StatusOf({}, {})
=============================================================================
