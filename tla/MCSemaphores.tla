---------------------------- MODULE MCSemaphores ----------------------------
(***************************************************************************)
(* Every semaphore of package syncx under the same client; impl picks the  *)
(* one a behaviour uses.                                                   *)
(***************************************************************************)
EXTENDS SignedSemaphores

VARIABLES
  impl,              (* the semaphore in use                               *)
  count, line        (* ChannelSemaphore, MutexSemaphore, CondSemaphore    *)

Counted == INSTANCE CountedSemaphores

vars == <<clientVars, counterVars, gateVars, sema, impl, count, line>>

Impl == {"Channel", "Mutex", "Cond", "Lockfree", "Runtime"}
FIFO == {"Channel", "Mutex"}

FamilyInit == impl \in Impl /\ Init /\ Counted!Init

Uses(s, others) == impl = s /\ UNCHANGED <<impl, others>>

Call(g) == StartCall(g)
           /\ UNCHANGED <<counterVars, gateVars, sema, impl, count, line>>

Work(g) ==
  \/ Counted!ChannelWork(g)  /\ Uses("Channel", <<counterVars, gateVars, sema>>)
  \/ Counted!MutexWork(g)    /\ Uses("Mutex", <<counterVars, lineVars, sema>>)
  \/ Counted!CondWork(g)     /\ Uses("Cond", <<counterVars, gateVars, sema>>)
  \/ LockfreeWork(g)  /\ Uses("Lockfree", <<count, line, sema>>)
  \/ RuntimeWork(g)   /\ Uses("Runtime", <<count, line, gateVars>>)

Next == \E g \in Goroutine : Call(g) \/ Work(g)
Spec == FamilyInit /\ [][Next]_vars /\ \A g \in Goroutine : WF_vars(Work(g))
LockfreeSpec == impl = "Lockfree" /\ Spec

Status == CASE impl = "Channel"  -> Counted!ChannelStatus
            [] impl = "Mutex"    -> Counted!MutexStatus
            [] impl = "Cond"     -> Counted!CondStatus
            [] impl = "Lockfree" -> LockfreeStatus
            [] impl = "Runtime"  -> RuntimeStatus
-----------------------------------------------------------------------------
(* The words of the semaphore in use have their types. *)
TypeOK ==
  /\ impl \in Impl
  /\ impl = "Channel"  => Counted!ChannelTypeOK
  /\ impl = "Mutex"    => Counted!MutexTypeOK
  /\ impl = "Cond"     => Counted!CondTypeOK
  /\ impl = "Lockfree" => LockfreeTypeOK
  /\ impl = "Runtime"  => RuntimeTypeOK

(* "at most N permits" (semaphore.go:10): what the callers own and what    *)
(* Acquires are about to return with never exceeds N.                      *)
AtMostN ==
  owned + Cardinality({g \in Goroutine : Status[g] = "granted"}) <= Permits

(* Permits are neither invented nor lost on their way from a Release to an *)
(* Acquire, and MutexSemaphore and ChannelSemaphore grant them in the      *)
(* order of arrival (semaphore.go:77, 29).                                 *)
Abstract == INSTANCE AbstractSemaphore
  WITH fifo   <- impl \in FIFO,
       free   <- CASE impl \in {"Channel", "Mutex", "Cond"} -> Counted!FreePermits
                   [] impl = "Lockfree" -> LockfreeFree
                   [] impl = "Runtime"  -> RuntimeFree,
       line   <- IF impl \in FIFO THEN line ELSE <<>>,
       status <- Status
ImplementsSemaphore == Abstract!Spec

(* Release returns, and no Acquire waits while a permit is free            *)
(* (semaphore.go:12-13): once the callers make no further call, every call *)
(* has returned but for the Acquires that wait for the callers' own        *)
(* permits.  Of a LockfreeSemaphore, the Acquires that the queue has       *)
(* refused a place stay behind, and for each of them one Release at most;  *)
(* nobody else is held up by them.                                         *)
At(point) == {g \in Goroutine : pc[g] = point}
CanWait   == IF owned = Permits THEN {"parked", "gate", "spin", "wait"} ELSE {}
Settles ==
  <>[](/\ \A g \in Goroutine : pc[g] \in {"idle", "refused", "wake"} \cup CanWait
       /\ Cardinality(At("wake")) <= Cardinality(At("refused")))

(* "Release returns immediately and wakes one waiter (if any)"             *)
(* (semaphore.go:13), if there are never more waiters than the queue has   *)
(* places.                                                                 *)
WakesOneWaiter ==
  [](Cardinality(Waiting) <= QueueSize)
  => <>[](\A g \in Goroutine : pc[g] \in {"idle"} \cup CanWait)
=============================================================================
