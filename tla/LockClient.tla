----------------------------- MODULE LockClient -----------------------------
(***************************************************************************)
(* What every lock of package syncx has in common: goroutines that call    *)
(* Lock, run a critical section and call Unlock, over and over.  A lock    *)
(* module EXTENDS this one, adds its own words and gives the steps of its  *)
(* Lock and Unlock between the control points of pc.                       *)
(*                                                                         *)
(* pc[g] is the control point goroutine g has reached: "idle" outside the  *)
(* lock, "cs" in the critical section, "panic" once a call has panicked    *)
(* (the goroutine makes no further call), and the points inside Lock and   *)
(* Unlock that the lock module names.                                      *)
(***************************************************************************)
EXTENDS Naturals

CONSTANTS
  Goroutine,   (* the goroutines that share the lock                       *)
  MaxCalls     (* bound: Lock calls in one behaviour, over all goroutines  *)

ASSUME MaxCallsAssumption == MaxCalls \in Nat

VARIABLES
  pc,          (* control point of each goroutine                          *)
  calls,       (* Lock calls started so far; bounds the model              *)
  stamp        (* history: stamp[g] is the value of calls when g last      *)
               (* started Lock, its place in the order of arrival          *)

clientVars == <<pc, calls, stamp>>

ClientInit ==
  /\ pc = [g \in Goroutine |-> "idle"]
  /\ calls = 0
  /\ stamp = [g \in Goroutine |-> 0]

(* g moves from one control point to another inside a call. *)
Goto(g, from, to) ==
  /\ pc[g] = from
  /\ pc' = [pc EXCEPT ![g] = to]
  /\ UNCHANGED <<calls, stamp>>

(* g starts a call of Lock and is at control point to after its first      *)
(* atomic operation, the doorway.                                          *)
StartLock(g, to) ==
  /\ pc[g] = "idle"
  /\ calls < MaxCalls
  /\ calls' = calls + 1
  /\ stamp' = [stamp EXCEPT ![g] = calls]
  /\ pc' = [pc EXCEPT ![g] = to]

ClientTypeOK ==
  /\ calls \in Nat
  /\ stamp \in [Goroutine -> Nat]

(* The abstract phase of a goroutine, from the control points at which it  *)
(* is waiting for the lock and the ones at which it owns it.               *)
PhaseOf(g, trying, holding) ==
  CASE pc[g] = "panic"   -> "panicked"
    [] pc[g] \in trying  -> "trying"
    [] pc[g] \in holding -> "holding"
    [] OTHER             -> "idle"

(* At most one goroutine owns the lock, given the phases of all of them. *)
Exclusive(phase) ==
  \A g, h \in Goroutine :
     phase[g] = "holding" /\ phase[h] = "holding" => g = h
=============================================================================
