----------------------------- MODULE CallClient -----------------------------
(***************************************************************************)
(* The callers of a container: each goroutine puts values in and takes     *)
(* values out, over and over.  A stack or queue module EXTENDS this one    *)
(* and gives the steps of its calls between Start and Leave.               *)
(*                                                                         *)
(* pc[g] is "idle" outside a call, "done" between the step that decides    *)
(* the result and the return, or a control point of the container's own.   *)
(* Every call that puts a value puts another one, the number of the call;  *)
(* 0 is the zero value of T.                                               *)
(***************************************************************************)
EXTENDS Naturals

CONSTANTS
  Goroutine,   (* the goroutines that share the container                  *)
  MaxCalls     (* bound: calls in one behaviour, over all goroutines       *)

ASSUME MaxCallsAssumption == MaxCalls \in Nat

VARIABLES
  pc,          (* control point of each goroutine                          *)
  calls,       (* calls started so far                                     *)
  op,          (* op[g]:  the operation g has called last                  *)
  arg,         (* arg[g]: the value it puts in, 0 if it takes one out      *)
  ret          (* ret[g]: the (T, bool) of a call that is "done"           *)

clientVars == <<pc, calls, op, arg, ret>>

zero == 0
None == <<zero, FALSE>>

ClientInit ==
  /\ pc = [g \in Goroutine |-> "idle"]
  /\ calls = 0
  /\ op = [g \in Goroutine |-> "none"]
  /\ arg = [g \in Goroutine |-> zero]
  /\ ret = [g \in Goroutine |-> None]

Puts == {"push", "enqueue"}

(* g calls operation kind and is at control point to. *)
Start(g, kind, to) ==
  /\ pc[g] = "idle"
  /\ calls < MaxCalls
  /\ calls' = calls + 1
  /\ pc' = [pc EXCEPT ![g] = to]
  /\ op' = [op EXCEPT ![g] = kind]
  /\ arg' = [arg EXCEPT ![g] = IF kind \in Puts THEN calls + 1 ELSE zero]
  /\ UNCHANGED ret

(* g moves between control points inside a call. *)
Goto(g, from, to) ==
  /\ pc[g] = from
  /\ pc' = [pc EXCEPT ![g] = to]
  /\ UNCHANGED <<calls, op, arg, ret>>

(* The result r of g's call is decided. *)
Finish(g, from, r) ==
  /\ pc[g] = from
  /\ pc' = [pc EXCEPT ![g] = "done"]
  /\ ret' = [ret EXCEPT ![g] = r]
  /\ UNCHANGED <<calls, op, arg>>

(* The call returns. *)
Leave(g) ==
  /\ pc[g] = "done"
  /\ pc' = [pc EXCEPT ![g] = "idle"]
  /\ ret' = [ret EXCEPT ![g] = None]
  /\ UNCHANGED <<calls, op, arg>>

ClientTypeOK ==
  /\ calls \in Nat
  /\ op \in [Goroutine -> {"none", "push", "pop", "enqueue", "dequeue"}]
  /\ arg \in [Goroutine -> Nat]
  /\ ret \in [Goroutine -> Nat \X BOOLEAN]
=============================================================================
