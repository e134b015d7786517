----------------------------- MODULE SlotQueues -----------------------------
(***************************************************************************)
(* The sequence-numbered rings: queue.LockFreeMPMC, LockFreePaddedMPMC     *)
(* (the same code with padding) and LockFreeMPSC.  Enqueue is the same in  *)
(* the three.  Any goroutine dequeues from an MPMC ring; from the MPSC one *)
(* only Consumer does (the contract of its name), which alone touches its  *)
(* head, a plain field.                                                    *)
(*                                                                         *)
(* Control points of a call: "load" before the load of head or tail, "seq" *)
(* before slot.seq.Load, "cas" before the CompareAndSwap of head or tail;  *)
(* "write" before slot.val = v, "publish" before slot.seq.Store; "read"    *)
(* before slot.val is read and cleared, "release" before slot.seq.Store.   *)
(***************************************************************************)
EXTENDS Ring, Sequences

CONSTANT Consumer

VARIABLE seq      (* seq[i]: slot.seq *)

slotVars == <<ringVars, seq>>

(* Slot i is free for the first position from head on that falls on it. *)
Init ==
  /\ ClientInit /\ RingInit
  /\ seq = [i \in Index |-> Plus(head, (i - head) % Size)]

(* tail = b.tail.Load(); the first one is made with the call. *)
StartEnqueue(g) ==
  /\ Start(g, "enqueue", "seq")
  /\ pos' = [pos EXCEPT ![g] = tail]
  /\ UNCHANGED <<val, head, tail, seq>>

LoadTail(g) ==
  /\ op[g] = "enqueue"
  /\ Goto(g, "load", "seq")
  /\ pos' = [pos EXCEPT ![g] = tail]
  /\ UNCHANGED <<val, head, tail, seq>>

(* diff := int64(slot.seq.Load()) - int64(tail) *)
CompareForEnqueue(g) ==
  LET diff == Diff(seq[Idx(pos[g])], pos[g]) IN
  /\ op[g] = "enqueue"
  /\ \/ diff < 0 /\ Finish(g, "seq", No)
     \/ diff = 0 /\ Goto(g, "seq", "cas")
     \/ diff > 0 /\ Goto(g, "seq", "load")
  /\ UNCHANGED slotVars

(* Mutant: b.tail.Store(tail+1) *)
StoreTail(g) ==
  /\ op[g] = "enqueue"
  /\ Goto(g, "cas", "write")
  /\ tail' = Plus(pos[g], 1)
  /\ UNCHANGED <<val, head, pos, seq>>

(* b.tail.CompareAndSwap(tail, tail+1) *)
ClaimTail(g) ==
  /\ op[g] = "enqueue"
  /\ \/ tail = pos[g] /\ Goto(g, "cas", "write") /\ tail' = Plus(tail, 1)
     \/ tail # pos[g] /\ Goto(g, "cas", "load")  /\ UNCHANGED tail
  /\ UNCHANGED <<val, head, pos, seq>>

(* slot.val = v *)
Write(g) ==
  /\ Goto(g, "write", "publish")
  /\ val' = [val EXCEPT ![Idx(pos[g])] = arg[g]]
  /\ UNCHANGED <<head, tail, pos, seq>>

(* slot.seq.Store(tail + 1) *)
Publish(g) ==
  /\ Finish(g, "publish", Yes)
  /\ seq' = [seq EXCEPT ![Idx(pos[g])] = Plus(pos[g], 1)]
  /\ UNCHANGED <<val, head, tail, pos>>

Enqueuing(g) ==
  LoadTail(g) \/ CompareForEnqueue(g) \/ ClaimTail(g) \/ Write(g) \/ Publish(g)

-----------------------------------------------------------------------------
(* Dequeue of the MPMC rings *)

StartDequeue(g) ==
  /\ Start(g, "dequeue", "seq")
  /\ pos' = [pos EXCEPT ![g] = head]
  /\ UNCHANGED <<val, head, tail, seq>>

LoadHead(g) ==
  /\ op[g] = "dequeue"
  /\ Goto(g, "load", "seq")
  /\ pos' = [pos EXCEPT ![g] = head]
  /\ UNCHANGED <<val, head, tail, seq>>

(* Mutant: Dequeue waits for a value instead of reporting empty. *)
AwaitValue(g) ==
  /\ op[g] = "dequeue"
  /\ Goto(g, "seq", IF seq[Idx(pos[g])] = Plus(pos[g], 1) THEN "cas" ELSE "load")
  /\ UNCHANGED slotVars

(* diff := int64(slot.seq.Load()) - int64(head+1) *)
CompareForDequeue(g) ==
  LET diff == Diff(seq[Idx(pos[g])], Plus(pos[g], 1)) IN
  /\ op[g] = "dequeue"
  /\ \/ diff < 0 /\ Finish(g, "seq", No)
     \/ diff = 0 /\ Goto(g, "seq", "cas")
     \/ diff > 0 /\ Goto(g, "seq", "load")
  /\ UNCHANGED slotVars

(* b.head.CompareAndSwap(head, head+1) *)
ClaimHead(g) ==
  /\ op[g] = "dequeue"
  /\ \/ head = pos[g] /\ Goto(g, "cas", "read") /\ head' = Plus(head, 1)
     \/ head # pos[g] /\ Goto(g, "cas", "load") /\ UNCHANGED head
  /\ UNCHANGED <<val, tail, pos, seq>>

(* val := slot.val; slot.val = zero *)
Read(g) ==
  /\ pc[g] = "read"
  /\ pc' = [pc EXCEPT ![g] = "release"]
  /\ ret' = [ret EXCEPT ![g] = <<val[Idx(pos[g])], TRUE>>]
  /\ val' = [val EXCEPT ![Idx(pos[g])] = zero]
  /\ UNCHANGED <<calls, op, arg, head, tail, pos, seq>>

(* slot.seq.Store(head + BoundedQueueSize) *)
Release(g) ==
  /\ Finish(g, "release", ret[g])
  /\ seq' = [seq EXCEPT ![Idx(pos[g])] = Plus(pos[g], Size)]
  /\ UNCHANGED <<val, head, tail, pos>>

-----------------------------------------------------------------------------
(* Dequeue of LockFreeMPSC; its last store is Release, too. *)

(* seq := slot.seq.Load(); not head+1 means empty. *)
ConsumerStart(g) ==
  /\ g = Consumer
  /\ Start(g, "dequeue", "seq")
  /\ pos' = [pos EXCEPT ![g] = head]
  /\ UNCHANGED <<val, head, tail, seq>>

ConsumerCompare(g) ==
  /\ op[g] = "dequeue"
  /\ \/ /\ seq[Idx(pos[g])] # Plus(pos[g], 1)
        /\ Finish(g, "seq", No)
     \/ /\ seq[Idx(pos[g])] = Plus(pos[g], 1)
        /\ Goto(g, "seq", "read")
  /\ UNCHANGED slotVars

(* v := slot.val; slot.val = zero; head++.  head is the consumer's own, so *)
(* its increment, last in the code, may come with the read.                *)
ConsumerRead(g) ==
  /\ pc[g] = "read"
  /\ pc' = [pc EXCEPT ![g] = "release"]
  /\ ret' = [ret EXCEPT ![g] = <<val[Idx(pos[g])], TRUE>>]
  /\ val' = [val EXCEPT ![Idx(pos[g])] = zero]
  /\ head' = Plus(head, 1)
  /\ UNCHANGED <<calls, op, arg, tail, pos, seq>>

-----------------------------------------------------------------------------
Return(g) == Leave(g) /\ UNCHANGED slotVars

MPMCCall(g) == StartEnqueue(g) \/ StartDequeue(g)
MPMCWork(g) == \/ Enqueuing(g)
               \/ LoadHead(g) \/ CompareForDequeue(g) \/ ClaimHead(g)
               \/ Read(g) \/ Release(g)
               \/ Return(g)
MPSCCall(g) == StartEnqueue(g) \/ ConsumerStart(g)
MPSCWork(g) == \/ Enqueuing(g)
               \/ ConsumerCompare(g) \/ ConsumerRead(g) \/ Release(g)
               \/ Return(g)

(* The goroutines that have claimed a position and use its slot. *)
InSlot == {g \in Goroutine : pc[g] \in {"write", "publish", "read", "release"}}

(* The plain field slot.val is used by one goroutine at a time: the claim  *)
(* of a position by CAS and its hand-over by slot.seq exclude every other  *)
(* user of the slot.                                                       *)
SlotExclusive ==
  \A g, h \in InSlot : Idx(pos[g]) = Idx(pos[h]) => g = h

-----------------------------------------------------------------------------
(* Refinement mapping to AbstractQueue: the claimed positions in order; an *)
(* entry is ready once its sequence number is stored.                      *)
Entry(p) ==
  IF seq[Idx(p)] = Plus(p, 1)
  THEN [val |-> val[Idx(p)], ready |-> TRUE]
  ELSE [val |-> arg[CHOOSE g \in InSlot : pos[g] = p], ready |-> FALSE]

Line == [i \in 1 .. Minus(tail, head) |-> Entry(Plus(head, i - 1))]

Status ==
  [g \in Goroutine |->
     CASE pc[g] \in {"idle", "done"}     -> pc[g]
       [] pc[g] \in {"write", "publish"} -> "claimed"
       [] pc[g] \in {"read", "release"}  -> "done"
       [] OTHER                          -> op[g]]

(* A Dequeue that has claimed its position will return what the slot holds.*)
Result ==
  [g \in Goroutine |->
     IF pc[g] = "read" THEN <<val[Idx(pos[g])], TRUE>> ELSE ret[g]]

(* LockFreeMPSC's head moves with the read itself. *)
Consuming == [g \in Goroutine |->
                IF pc[g] = "read" THEN "dequeue" ELSE Status[g]]
=============================================================================
