---------------------------- MODULE StrictQueues ----------------------------
(***************************************************************************)
(* The linearizable queues: queue.SPSCQueue and queue.CachedSPSCQueue, and *)
(* queue.MutexMPMC and queue.MutexMPSC.                                    *)
(*                                                                         *)
(* Only one goroutine enqueues to an SPSC queue and one dequeues.  In      *)
(* SPSCQueue head and tail are the atomics; in CachedSPSCQueue they are    *)
(* publishedHead and publishedTail, and each side compares its own cursor  *)
(* with a cached copy of the other side's, which it refreshes only when    *)
(* the queue looks full (empty).  A side's own cursor equals what it has   *)
(* published whenever it is outside a call.                                *)
(*                                                                         *)
(* Control points: "check" before the other side's position is used,       *)
(* "refresh" before it is loaded, "copy" before arr is touched, "store"    *)
(* before the own position is published.  The two mutex queues (the same   *)
(* code) are a ring under one sync.Mutex: a call's body is one step, from  *)
(* "locked".                                                               *)
(***************************************************************************)
EXTENDS Ring, Sequences

CONSTANTS Producer, Consumer

VARIABLES
  cached,        (* CachedSPSCQueue or SPSCQueue                           *)
  cachedHead,    (* the producer's copy of head (its last head.Load)       *)
  cachedTail     (* the consumer's copy of tail (its last tail.Load)       *)

spscVars == <<ringVars, cached, cachedHead, cachedTail>>
vars == <<clientVars, spscVars>>

Init ==
  /\ ClientInit
  /\ RingInit
  /\ cached \in BOOLEAN
  /\ cachedHead = head
  /\ cachedTail = tail

(* The own position is loaded with the call. *)
StartEnqueue(g) ==
  /\ g = Producer
  /\ Start(g, "enqueue", IF cached THEN "check" ELSE "refresh")
  /\ pos' = [pos EXCEPT ![g] = tail]
  /\ UNCHANGED <<val, head, tail, cached, cachedHead, cachedTail>>

StartDequeue(g) ==
  /\ g = Consumer
  /\ Start(g, "dequeue", IF cached THEN "check" ELSE "refresh")
  /\ pos' = [pos EXCEPT ![g] = head]
  /\ UNCHANGED <<val, head, tail, cached, cachedHead, cachedTail>>

LooksOverfull(g) == Minus(pos[g], cachedHead) > Size     (* mutant *)
LooksFull(g)  == Minus(pos[g], cachedHead) >= Size
LooksEmpty(g) == Minus(cachedTail, pos[g]) = 0

(* if t-s.cachedHead >= BoundedQueueSize, if s.cachedTail-h == 0 *)
Check(g) ==
  /\ Goto(g, "check",
          IF IF op[g] = "enqueue" THEN LooksFull(g) ELSE LooksEmpty(g)
          THEN "refresh" ELSE "copy")
  /\ UNCHANGED spscVars

(* The other side's position is loaded and the comparison made with it. *)
RefreshHead(g) ==
  /\ op[g] = "enqueue"
  /\ cachedHead' = head
  /\ \/ Minus(pos[g], head) >= Size /\ Finish(g, "refresh", No)
     \/ Minus(pos[g], head) < Size  /\ Goto(g, "refresh", "copy")
  /\ UNCHANGED <<ringVars, cached, cachedTail>>

RefreshTail(g) ==
  /\ op[g] = "dequeue"
  /\ cachedTail' = tail
  /\ \/ Minus(tail, pos[g]) = 0 /\ Finish(g, "refresh", No)
     \/ Minus(tail, pos[g]) # 0 /\ Goto(g, "refresh", "copy")
  /\ UNCHANGED <<ringVars, cached, cachedHead>>

(* s.arr[t&queueMask] = v *)
WriteArr(g) ==
  /\ op[g] = "enqueue"
  /\ Goto(g, "copy", "store")
  /\ val' = [val EXCEPT ![Idx(pos[g])] = arg[g]]
  /\ UNCHANGED <<head, tail, pos, cached, cachedHead, cachedTail>>

(* v := s.arr[h&queueMask] *)
ReadArr(g) ==
  /\ op[g] = "dequeue" /\ pc[g] = "copy"
  /\ pc' = [pc EXCEPT ![g] = "store"]
  /\ ret' = [ret EXCEPT ![g] = <<val[Idx(pos[g])], TRUE>>]
  /\ UNCHANGED <<calls, op, arg, spscVars>>

(* s.tail.Store(t + 1) *)
StoreTail(g) ==
  /\ op[g] = "enqueue"
  /\ Finish(g, "store", Yes)
  /\ tail' = Plus(pos[g], 1)
  /\ UNCHANGED <<val, head, pos, cached, cachedHead, cachedTail>>

(* s.head.Store(h + 1) *)
StoreHead(g) ==
  /\ op[g] = "dequeue"
  /\ Finish(g, "store", ret[g])
  /\ head' = Plus(pos[g], 1)
  /\ UNCHANGED <<val, tail, pos, cached, cachedHead, cachedTail>>

Return(g) == Leave(g) /\ UNCHANGED spscVars

SPSCCall(g) == StartEnqueue(g) \/ StartDequeue(g)
SPSCWork(g) == \/ Check(g) \/ RefreshHead(g) \/ RefreshTail(g)
               \/ WriteArr(g) \/ ReadArr(g) \/ StoreTail(g) \/ StoreHead(g)
               \/ Return(g)

(* The producer and the consumer are never in the same place of arr. *)
PlaceExclusive ==
  \A g, h \in Goroutine :
     pc[g] = "copy" /\ pc[h] = "copy" /\ Idx(pos[g]) = Idx(pos[h]) => g = h
-----------------------------------------------------------------------------
(* The mutex queues *)

MutexCall(g) ==
  /\ \E kind \in {"enqueue", "dequeue"} : Start(g, kind, "locked")
  /\ UNCHANGED spscVars

MutexEnqueue(g) ==
  /\ op[g] = "enqueue"
  /\ \/ /\ Minus(tail, head) = Size
        /\ Finish(g, "locked", No)
        /\ UNCHANGED <<val, tail>>
     \/ /\ Minus(tail, head) # Size
        /\ Finish(g, "locked", Yes)
        /\ val' = [val EXCEPT ![Idx(tail)] = arg[g]]
        /\ tail' = Plus(tail, 1)
  /\ UNCHANGED <<head, pos, cached, cachedHead, cachedTail>>

MutexDequeue(g) ==
  /\ op[g] = "dequeue"
  /\ \/ /\ tail = head
        /\ Finish(g, "locked", No)
        /\ UNCHANGED <<val, head>>
     \/ /\ tail # head
        /\ Finish(g, "locked", <<val[Idx(head)], TRUE>>)
        /\ val' = [val EXCEPT ![Idx(head)] = zero]
        /\ head' = Plus(head, 1)
  /\ UNCHANGED <<tail, pos, cached, cachedHead, cachedTail>>

MutexWork(g) == MutexEnqueue(g) \/ MutexDequeue(g) \/ Return(g)
-----------------------------------------------------------------------------
(* Refinement mapping: the stores of tail and head, or the locked bodies,  *)
(* are the linearization points.                                           *)
Line == [i \in 1 .. Minus(tail, head) |->
           [val |-> val[Idx(Plus(head, i - 1))], ready |-> TRUE]]
Status == [g \in Goroutine |->
             IF pc[g] \in {"idle", "done"} THEN pc[g] ELSE op[g]]
Result == [g \in Goroutine |-> IF pc[g] = "store" THEN No ELSE ret[g]]
=============================================================================
