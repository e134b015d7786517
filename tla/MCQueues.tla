------------------------------ MODULE MCQueues ------------------------------
(***************************************************************************)
(* Every queue of package queue under the same client; impl picks the one  *)
(* a behaviour uses.  The single-consumer and single-producer queues are   *)
(* used as their names demand: only Consumer dequeues, only Producer       *)
(* enqueues.                                                               *)
(***************************************************************************)
EXTENDS Ring, Sequences

CONSTANTS Producer, Consumer

VARIABLES
  impl,                               (* the queue in use                  *)
  seq,                                (* LockFreeMPMC, LockFreeMPSC        *)
  cached, cachedHead, cachedTail      (* SPSCQueue, CachedSPSCQueue        *)

Slots  == INSTANCE SlotQueues
Strict == INSTANCE StrictQueues

spscOnly == <<cached, cachedHead, cachedTail>>
vars == <<clientVars, ringVars, impl, seq, spscOnly>>

Impl == {"MPMC", "MPSC", "SPSC", "Mutex"}

Init ==
  /\ impl \in Impl
  /\ Slots!Init
  /\ Strict!Init
  /\ cached => impl = "SPSC"

Uses(queue, others) == impl = queue /\ UNCHANGED <<impl, others>>

Call(g) ==
  \/ Slots!MPMCCall(g)  /\ Uses("MPMC", spscOnly)
  \/ Slots!MPSCCall(g)  /\ Uses("MPSC", spscOnly)
  \/ Strict!SPSCCall(g)  /\ Uses("SPSC", seq)
  \/ Strict!MutexCall(g) /\ Uses("Mutex", seq)

Work(g) ==
  \/ Uses("MPMC", spscOnly) /\ Slots!MPMCWork(g)
  \/ Uses("MPSC", spscOnly) /\ Slots!MPSCWork(g)
  \/ Uses("SPSC", seq)  /\ Strict!SPSCWork(g)
  \/ Uses("Mutex", seq) /\ Strict!MutexWork(g)

Next == \E g \in Goroutine : Call(g) \/ Work(g)
Spec == Init /\ [][Next]_vars /\ \A g \in Goroutine : WF_vars(Work(g))

-----------------------------------------------------------------------------
(* The words of every queue have their types. *)
TypeOK ==
  /\ ClientTypeOK
  /\ RingTypeOK
  /\ seq \in [Index -> 0 .. Modulus - 1]
  /\ {cachedHead, cachedTail} \subseteq 0 .. Modulus - 1

(* No data race on a place of the ring: slot.val of the sequence-numbered  *)
(* rings and arr of the SPSC queues are plain fields, and at most one      *)
(* goroutine at a time is between claiming a place and handing it on.      *)
PlaceExclusive ==
  /\ impl \in {"MPMC", "MPSC"} => Slots!SlotExclusive
  /\ impl = "SPSC" => Strict!PlaceExclusive

(* Every queue hands its values on once each and in the order in which the *)
(* Enqueues took their places (queue/Index.md:9); the single-consumer,     *)
(* single-producer and mutex ones are linearizable, and the                *)
(* sequence-numbered rings answer "empty" or "full" wrongly only while     *)
(* another call is between its claim and its store of seq.                 *)
Abstract == INSTANCE AbstractQueue
  WITH strict <- impl \in {"SPSC", "Mutex"},
       line   <- IF impl \in {"MPMC", "MPSC"} THEN Slots!Line ELSE Strict!Line,
       status <- CASE impl = "MPMC"  -> Slots!Status
                   [] impl = "MPSC"  -> Slots!Consuming
                   [] OTHER          -> Strict!Status,
       ret    <- CASE impl = "MPMC"  -> Slots!Result
                   [] impl = "SPSC"  -> Strict!Result
                   [] OTHER          -> ret
ImplementsQueue == Abstract!Spec

(* Every call returns: the retry loops end once the others have finished,  *)
(* and no call waits for another one.  (Calls are finitely many.)          *)
CallsReturn == <>[](\A g \in Goroutine : pc[g] = "idle")
=============================================================================
