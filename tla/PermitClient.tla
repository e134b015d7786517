---------------------------- MODULE PermitClient ----------------------------
(***************************************************************************)
(* The callers of a semaphore of package syncx.  Permits are               *)
(* interchangeable (semaphore.go:15): a goroutine calls Acquire, and       *)
(* Release whenever some Acquire has returned and its permit has not been  *)
(* given back, whoever made that call.                                     *)
(*                                                                         *)
(* pc[g]: "idle" outside a call, "acquire" and "release" at the start of a *)
(* call, "granted" once an Acquire may return, "panic" after a panic, or a *)
(* control point of the semaphore's own.                                   *)
(***************************************************************************)
EXTENDS Integers, FiniteSets, Sequences

CONSTANTS
  Goroutine,   (* the goroutines that share the semaphore                  *)
  Permits,     (* init, the number of permits                              *)
  MaxCalls,    (* bound: Acquire calls in one behaviour                    *)
  Strays       (* Release calls the callers may make beyond their Acquires *)

ASSUME PermitAssumption ==
  /\ IsFiniteSet(Goroutine)
  /\ Permits \in Nat \ {0}
  /\ MaxCalls \in Nat
  /\ Strays \in Nat

VARIABLES
  pc,          (* control point of each goroutine                          *)
  calls,       (* Acquire calls started so far                             *)
  owned        (* Acquires that have returned minus Releases started       *)

clientVars == <<pc, calls, owned>>

ClientInit ==
  /\ pc = [g \in Goroutine |-> "idle"]
  /\ calls = 0
  /\ owned = 0

StartAcquire(g) ==
  /\ pc[g] = "idle" /\ calls < MaxCalls
  /\ calls' = calls + 1
  /\ pc' = [pc EXCEPT ![g] = "acquire"]
  /\ UNCHANGED owned

StartRelease(g) ==
  /\ pc[g] = "idle" /\ owned > -Strays
  /\ owned' = owned - 1
  /\ pc' = [pc EXCEPT ![g] = "release"]
  /\ UNCHANGED calls

StartCall(g) == StartAcquire(g) \/ StartRelease(g)

Goto(g, from, to) ==
  /\ pc[g] = from
  /\ pc' = [pc EXCEPT ![g] = to]
  /\ UNCHANGED <<calls, owned>>

(* Acquire returns: the caller owns a permit. *)
Return(g) ==
  /\ pc[g] = "granted"
  /\ pc' = [pc EXCEPT ![g] = "idle"]
  /\ owned' = owned + 1
  /\ UNCHANGED calls

ClientTypeOK ==
  /\ calls \in Nat
  /\ owned \in Int /\ owned >= -Strays

(* The status of a caller in AbstractSemaphore, from the goroutines in     *)
(* line and the ones that have been handed a permit but have not woken.    *)
StatusOf(waiting, handed) ==
  [g \in Goroutine |->
     CASE pc[g] \in {"idle", "panic"} -> pc[g]
       [] pc[g] \in {"release", "wake", "vacate", "open"} -> "releasing"
       [] pc[g] = "granted" \/ g \in handed -> "granted"
       [] pc[g] \notin {"idle", "panic", "release", "wake", "vacate", "open",
                         "granted"}
          /\ g \in waiting \ handed -> "waiting"
       [] OTHER -> "acquiring"]
=============================================================================
