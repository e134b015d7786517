----------------------------- MODULE MutexLock ------------------------------
(***************************************************************************)
(* syncx.MutexLock: a three-valued state word and one park.Parker that all *)
(* waiters share.  The Parker is the runtime semaphore sema: Park waits    *)
(* for a positive count and takes one, Unpark adds one, whether or not     *)
(* anybody waits.                                                          *)
(*                                                                         *)
(* Control points: "swap" at the top of the slow loop, "park" inside       *)
(* parker.Park, "slow" after Unlock's first CAS has failed, "unpark"       *)
(* before parker.Unpark.                                                   *)
(***************************************************************************)
EXTENDS LockClient

VARIABLES
  state,      (* MutexLock.state                                           *)
  sema        (* Parker.sema: permits deposited and not yet consumed       *)

vars == <<clientVars, state, sema>>

unlocked     == 0
lockedNoWait == 1
lockedWait   == 2

Init == ClientInit /\ state = unlocked /\ sema = 0

-----------------------------------------------------------------------------
(* The Parker *)

(* Mutant: Park returns without a permit. *)
ParkUnguarded == sema' = sema - 1

Park   == sema > 0 /\ sema' = sema - 1
Unpark == sema' = sema + 1

-----------------------------------------------------------------------------
(* Lock *)

(* Fast path: CompareAndSwap(unlocked, lockedNoWait). *)
Lock(g) ==
  /\ StartLock(g, IF state = unlocked THEN "cs" ELSE "swap")
  /\ state' = IF state = unlocked THEN lockedNoWait ELSE state
  /\ UNCHANGED sema

(* Mutant: the slow path as a CompareAndSwap(unlocked, lockedWait). *)
CASState(g) ==
  /\ Goto(g, "swap", IF state = unlocked THEN "cs" ELSE "park")
  /\ state' = IF state = unlocked THEN lockedWait ELSE state
  /\ UNCHANGED sema

(* Slow path: Swap(lockedWait), acquired if the old value was unlocked. *)
SwapState(g) ==
  /\ Goto(g, "swap", IF state = unlocked THEN "cs" ELSE "park")
  /\ state' = lockedWait
  /\ UNCHANGED sema

(* parker.Park() returns and the loop swaps again. *)
Wake(g) == Goto(g, "park", "swap") /\ Park /\ UNCHANGED state

-----------------------------------------------------------------------------
(* Unlock *)

(* CompareAndSwap(lockedNoWait, unlocked) *)
Unlock(g) ==
  /\ Goto(g, "cs", IF state = lockedNoWait THEN "idle" ELSE "slow")
  /\ state' = IF state = lockedNoWait THEN unlocked ELSE state
  /\ UNCHANGED sema

(* CompareAndSwap(lockedWait, unlocked) *)
UnlockSlow(g) ==
  /\ Goto(g, "slow", IF state = lockedWait THEN "unpark" ELSE "idle")
  /\ state' = IF state = lockedWait THEN unlocked ELSE state
  /\ UNCHANGED sema

(* parker.Unpark() *)
WakeOne(g) == Goto(g, "unpark", "idle") /\ Unpark /\ UNCHANGED state

Work(g) == SwapState(g) \/ Wake(g) \/ Unlock(g) \/ UnlockSlow(g) \/ WakeOne(g)
Next    == \E g \in Goroutine : Lock(g) \/ Work(g)
Spec    == Init /\ [][Next]_vars /\ \A g \in Goroutine : WF_vars(Work(g))

Phase ==
  [g \in Goroutine |-> PhaseOf(g, {"swap", "park"}, {"cs", "slow"})]

(* At most one goroutine is between the step of Lock that takes the lock   *)
(* and the step of Unlock that gives it up.                                *)
MutualExclusion == Exclusive(Phase)

(* While a goroutine is parked, either the word tells the holder's Unlock  *)
(* to unpark somebody, or a permit is deposited, or an unpark or another   *)
(* swap is under way that will see to it (the deadlock that lock.go:122    *)
(* warns of: a sleeper nobody will unpark).                                *)
NoLostWakeup ==
  (\E g \in Goroutine : pc[g] = "park") =>
     \/ state = lockedWait
     \/ sema > 0
     \/ \E g \in Goroutine : pc[g] \in {"unpark", "swap"}

TypeOK ==
  /\ pc \in [Goroutine -> {"idle", "swap", "park", "cs", "slow", "unpark"}]
  /\ ClientTypeOK
  /\ state \in {unlocked, lockedNoWait, lockedWait}
  /\ sema \in Nat

Holds(g) == pc[g] \in {"cs", "slow"}

(* Inductive: the word is not unlocked while somebody holds the lock, and  *)
(* a holder whose first CAS failed finds lockedWait.                       *)
Inv ==
  /\ TypeOK
  /\ \A g \in Goroutine : Holds(g) => state # unlocked
  /\ \A g, h \in Goroutine : Holds(g) /\ Holds(h) => g = h
  /\ \A g \in Goroutine : pc[g] = "slow" => state = lockedWait
  /\ NoLostWakeup
=============================================================================
