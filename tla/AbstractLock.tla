---------------------------- MODULE AbstractLock ----------------------------
(***************************************************************************)
(* What a lock of package syncx promises its callers, whatever its         *)
(* algorithm: at most one goroutine holds it, and a lock documented as     *)
(* FIFO (TicketLock, CLHLock, MCSLock) is granted in the order in which    *)
(* the callers entered its doorway, their first atomic operation.          *)
(***************************************************************************)
EXTENDS Naturals

CONSTANT Goroutine

VARIABLES
  fifo,      (* is the lock documented as FIFO                             *)
  phase,     (* phase[g]: "idle", "trying", "holding" or "panicked"        *)
  calls,     (* Lock calls so far                                          *)
  stamp      (* stamp[g]: the number of calls before g's last one          *)

vars == <<fifo, phase, calls, stamp>>

(* A goroutine whose Unlock panicked has not given the lock up. *)
Free == \A g \in Goroutine : phase[g] \notin {"holding", "panicked"}

(* Nobody who waits arrived before n calls had been made. *)
NobodyBefore(n) == \A g \in Goroutine : phase[g] = "trying" => n <= stamp[g]

Init ==
  /\ fifo \in BOOLEAN
  /\ phase = [g \in Goroutine |-> "idle"]
  /\ calls = 0
  /\ stamp = [g \in Goroutine |-> 0]

Move(g, from, to) ==
  /\ phase[g] = from
  /\ phase' = [phase EXCEPT ![g] = to]
  /\ UNCHANGED fifo

Enter(g) ==
  /\ calls' = calls + 1
  /\ stamp' = [stamp EXCEPT ![g] = calls]

Arrive(g)     == Move(g, "idle", "trying") /\ Enter(g)
(* The caller's first operation already takes the lock. *)
AcquireNow(g) == /\ Free
                 /\ fifo => NobodyBefore(calls)
                 /\ Move(g, "idle", "holding")
                 /\ Enter(g)
Acquire(g)    == /\ Free
                 /\ fifo => NobodyBefore(stamp[g])
                 /\ Move(g, "trying", "holding")
                 /\ UNCHANGED <<calls, stamp>>
Release(g)    == Move(g, "holding", "idle") /\ UNCHANGED <<calls, stamp>>
Panic(g)      == Move(g, "holding", "panicked") /\ UNCHANGED <<calls, stamp>>

Next == \E g \in Goroutine :
          Arrive(g) \/ AcquireNow(g) \/ Acquire(g) \/ Release(g) \/ Panic(g)
Spec == Init /\ [][Next]_vars
=============================================================================
