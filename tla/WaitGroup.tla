----------------------------- MODULE WaitGroup ------------------------------
(***************************************************************************)
(* syncx.WaitGroup: a counter and a number of waiters in one atomic word,  *)
(* and a runtime semaphore the waiters park on.                            *)
(*                                                                         *)
(* The callers keep the rule of latch.go:221: an Add that takes the        *)
(* counter up from 0 is made when no Wait of the round before is still     *)
(* under way, and nobody calls Done more often than was added.             *)
(*                                                                         *)
(* Control points of Add: "check" before the second Load, "store" before   *)
(* Store(0), "wake" in the loop of Semreleases.  Of Wait: "load",          *)
(* "register" before the CAS, "park" in Semacquire, "verify" before the    *)
(* last Load.                                                              *)
(***************************************************************************)
EXTENDS LatchClient

VARIABLES
  word,        (* WaitGroup.state: the counter and the number of waiters   *)
  sema,        (* WaitGroup.sema: permits released and not yet acquired    *)
  seen,        (* seen[g]: the local state                                 *)
  towake       (* towake[g]: the local waiters, still to be woken          *)

groupVars == <<word, sema, seen, towake>>
vars == <<clientVars, history, groupVars>>

Zero == [counter |-> 0, waiters |-> 0]

Init ==
  /\ ClientInit
  /\ HistoryInit(0)
  /\ word = Zero
  /\ sema = 0
  /\ seen = [g \in Goroutine |-> Zero]
  /\ towake = [g \in Goroutine |-> 0]

(* Where Add goes once it has split the new word. *)
AfterAdd(new, delta) ==
  IF \/ new.counter < 0
     \/ new.waiters # 0 /\ delta > 0 /\ new.counter = delta
  THEN "panic"
  ELSE IF new.counter > 0 \/ new.waiters = 0 THEN "idle" ELSE "check"

(* state := w.state.Add(uint64(delta) << 32), and the checks on it. *)
AddToCounter(g, delta) ==
  LET new == [word EXCEPT !.counter = @ + delta] IN
  /\ word' = new
  /\ seen' = [seen EXCEPT ![g] = new]
  /\ UNCHANGED <<sema, towake>>

Add(g, delta) ==
  /\ word.counter > 0 \/ ~\E h \in Goroutine : InWait(h)
  /\ Start(g, AfterAdd([word EXCEPT !.counter = @ + delta], delta))
  /\ AddToCounter(g, delta)
  /\ added' = added + delta
  /\ UNCHANGED <<finished, due>>

Done(g) ==
  /\ word.counter > 0
  /\ StartDone(g, AfterAdd([word EXCEPT !.counter = @ - 1], -1))
  /\ AddToCounter(g, -1)

(* if w.state.Load() != state *)
Check(g) ==
  /\ Goto(g, "check", IF word = seen[g] THEN "store" ELSE "panic")
  /\ UNCHANGED <<groupVars, history>>

(* w.state.Store(0) *)
Reset(g) ==
  /\ Goto(g, "store", "wake")
  /\ word' = Zero
  /\ towake' = [towake EXCEPT ![g] = seen[g].waiters]
  /\ UNCHANGED <<sema, seen, history>>

(* Mutant: the loop releases one permit too many. *)
WakeOneMore(g) ==
  /\ Goto(g, "wake", IF towake[g] = 0 THEN "idle" ELSE "wake")
  /\ sema' = sema + 1
  /\ towake' = [towake EXCEPT ![g] = IF @ = 0 THEN 0 ELSE @ - 1]
  /\ UNCHANGED <<word, seen, history>>

(* runtime_Semrelease(&w.sema, false, 0); waiters-- *)
Wake(g) ==
  /\ Goto(g, "wake", IF towake[g] = 1 THEN "idle" ELSE "wake")
  /\ sema' = sema + 1
  /\ towake' = [towake EXCEPT ![g] = @ - 1]
  /\ UNCHANGED <<word, seen, history>>

(* state := w.state.Load(); return if the counter is 0. *)
Load(g) ==
  /\ Goto(g, "load", IF word.counter = 0 THEN "idle" ELSE "register")
  /\ seen' = [seen EXCEPT ![g] = word]
  /\ UNCHANGED <<word, sema, towake, history>>

(* Mutant: the waiter is counted whatever has become of the word. *)
RegisterBlindly(g) ==
  /\ Goto(g, "register", "park")
  /\ word' = [word EXCEPT !.waiters = @ + 1]
  /\ UNCHANGED <<sema, seen, towake, history>>

(* w.state.CompareAndSwap(state, state+1) *)
Register(g) ==
  /\ \/ /\ word = seen[g]
        /\ Goto(g, "register", "park")
        /\ word' = [word EXCEPT !.waiters = @ + 1]
     \/ /\ word # seen[g]
        /\ Goto(g, "register", "load")
        /\ UNCHANGED word
  /\ UNCHANGED <<sema, seen, towake, history>>

(* runtime_Semacquire(&w.sema) *)
Park(g) ==
  /\ sema > 0
  /\ Goto(g, "park", "verify")
  /\ sema' = sema - 1
  /\ UNCHANGED <<word, seen, towake, history>>

Verify(g) ==
  /\ Goto(g, "verify", IF word = Zero THEN "idle" ELSE "panic")
  /\ UNCHANGED <<groupVars, history>>

Call(g) ==
  \/ \E delta \in {1, 2} : Add(g, delta)
  \/ Done(g)
  \/ StartWait(g) /\ UNCHANGED groupVars
Work(g) == \/ Check(g) \/ Reset(g) \/ Wake(g)
           \/ Load(g) \/ Register(g) \/ Park(g) \/ Verify(g)
Next == \E g \in Goroutine : Call(g) \/ Work(g)
Spec == Init /\ [][Next]_vars /\ \A g \in Goroutine : WF_vars(Work(g))

Parked == {g \in Goroutine : pc[g] = "park"}

(* One Done wakes the waiters of a round, and every parked Wait has        *)
(* exactly one permit: deposited, about to be released, or to come with    *)
(* the Done that takes the counter to 0.  A permit more would let a Wait   *)
(* of the next round through, a permit less would strand one of this one.  *)
PermitsMatch ==
  /\ \A g, h \in Goroutine : pc[g] = "wake" /\ pc[h] = "wake" => g = h
  /\ \A g \in Goroutine :
       pc[g] = "wake" => Cardinality(Parked) = sema + word.waiters + towake[g]
  /\ (\A g \in Goroutine : pc[g] # "wake")
       => Cardinality(Parked) = sema + word.waiters

TypeOK ==
  /\ HistoryTypeOK
  /\ word \in [counter : Int, waiters : Nat]
  /\ sema \in Nat
  /\ seen \in [Goroutine -> [counter : Int, waiters : Nat]]
  /\ towake \in [Goroutine -> Nat]

(* Inductive: the counter is what has been announced and not finished; the *)
(* Done that took it to 0 beside waiters still finds the word it left; and *)
(* from its Store(0) until the last waiter of the round has verified it,   *)
(* the word is zero.                                                       *)
Inv ==
  /\ TypeOK
  /\ pc \in [Goroutine -> {"idle", "check", "store", "wake",
                           "load", "register", "park", "verify"}]
  /\ word.counter = added - finished /\ word.counter >= 0
  /\ \A g \in Goroutine :
       /\ due[g] <= added
       /\ pc[g] = "register" => seen[g].counter > 0
       /\ pc[g] \in {"check", "store"} =>
            /\ word.counter = 0 /\ word.waiters > 0
            /\ seen[g] = word
            /\ \A h \in Goroutine : pc[h] \in {"check", "store"} => h = g
       /\ pc[g] = "wake" => towake[g] > 0
       /\ pc[g] \in {"wake", "verify"} => word = Zero
  /\ sema > 0 => word = Zero
  /\ PermitsMatch
=============================================================================
