--------------------------- MODULE AbstractStack ----------------------------
(***************************************************************************)
(* What stack.Stack promises: a LIFO stack whose Push and Pop take effect  *)
(* at one instant between call and return (stack/Index.md:9 asks of every  *)
(* stack that it be linearizable to a LIFO stack).  A pending Push and a   *)
(* pending Pop may take effect back to back, which leaves the stack as it  *)
(* is: that is what elimination does.                                      *)
(***************************************************************************)
EXTENDS Naturals, Sequences

CONSTANT Goroutine

VARIABLES
  stack,     (* the values in the stack, top first                         *)
  status,    (* status[g]: "idle", "push" or "pop" (called), "done"        *)
  calls,     (* calls so far: the n-th call, if a Push, pushes n           *)
  arg,       (* arg[g]: the value g pushes                                 *)
  ret        (* ret[g]: what a Pop that is done returns                    *)

vars == <<stack, status, calls, arg, ret>>

None == <<0, FALSE>>

Init ==
  /\ stack = <<>>
  /\ status = [g \in Goroutine |-> "idle"]
  /\ calls = 0
  /\ arg = [g \in Goroutine |-> 0]
  /\ ret = [g \in Goroutine |-> None]

Call(g, kind) ==
  /\ status[g] = "idle"
  /\ status' = [status EXCEPT ![g] = kind]
  /\ calls' = calls + 1
  /\ arg' = [arg EXCEPT ![g] = IF kind = "push" THEN calls + 1 ELSE 0]
  /\ UNCHANGED <<stack, ret>>

Push(g) ==
  /\ status[g] = "push"
  /\ stack' = <<arg[g]>> \o stack
  /\ status' = [status EXCEPT ![g] = "done"]
  /\ UNCHANGED <<calls, arg, ret>>

Pop(g) ==
  /\ status[g] = "pop"
  /\ status' = [status EXCEPT ![g] = "done"]
  /\ \/ stack = <<>> /\ UNCHANGED <<stack, ret>>
     \/ /\ stack # <<>>
        /\ stack' = Tail(stack)
        /\ ret' = [ret EXCEPT ![g] = <<Head(stack), TRUE>>]
  /\ UNCHANGED <<calls, arg>>

Eliminate(g, h) ==
  /\ status[g] = "push" /\ status[h] = "pop"
  /\ status' = [status EXCEPT ![g] = "done", ![h] = "done"]
  /\ ret' = [ret EXCEPT ![h] = <<arg[g], TRUE>>]
  /\ UNCHANGED <<stack, calls, arg>>

Return(g) ==
  /\ status[g] = "done"
  /\ status' = [status EXCEPT ![g] = "idle"]
  /\ ret' = [ret EXCEPT ![g] = None]
  /\ UNCHANGED <<stack, calls, arg>>

Next ==
  \E g \in Goroutine :
    \/ Call(g, "push") \/ Call(g, "pop")
    \/ Push(g) \/ Pop(g) \/ Return(g)
    \/ \E h \in Goroutine : Eliminate(g, h)
Spec == Init /\ [][Next]_vars
=============================================================================
