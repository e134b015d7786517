----------------------------- MODULE GateClient -----------------------------
(***************************************************************************)
(* The callers of the gates of package syncx: latches, WaitGroup, barriers *)
(* and Once.  pc[g] is "idle" outside a call, "panic" after a panic, or a  *)
(* control point of the gate's own.                                        *)
(***************************************************************************)
EXTENDS Integers, FiniteSets

CONSTANTS
  Goroutine,   (* the goroutines that use the gate                         *)
  MaxCalls     (* bound: calls in one behaviour, over all goroutines       *)

ASSUME GateAssumption == MaxCalls \in Nat /\ IsFiniteSet(Goroutine)

VARIABLES
  pc,          (* control point of each goroutine                          *)
  calls        (* calls started so far                                     *)

clientVars == <<pc, calls>>

ClientInit == pc = [g \in Goroutine |-> "idle"] /\ calls = 0

Start(g, to) ==
  /\ pc[g] = "idle" /\ calls < MaxCalls
  /\ calls' = calls + 1
  /\ pc' = [pc EXCEPT ![g] = to]

Goto(g, from, to) ==
  /\ pc[g] = from
  /\ pc' = [pc EXCEPT ![g] = to]
  /\ UNCHANGED calls

AllIdle == \A g \in Goroutine : pc[g] = "idle"
=============================================================================
