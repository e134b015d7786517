---------------------------- MODULE LatchClient -----------------------------
(***************************************************************************)
(* What the callers of a latch or a WaitGroup may rely on: Wait returns    *)
(* only when everything that had been announced before the call is done.   *)
(***************************************************************************)
EXTENDS GateClient

VARIABLES
  added,       (* history: units announced so far                          *)
  finished,    (* history: calls of Done so far                            *)
  due          (* history: due[g] is the value of added when g called Wait *)

history == <<added, finished, due>>

HistoryInit(n) == added = n /\ finished = 0 /\ due = [g \in Goroutine |-> 0]

StartWait(g) ==
  /\ Start(g, "load")
  /\ due' = [due EXCEPT ![g] = added]
  /\ UNCHANGED <<added, finished>>

StartDone(g, to) ==
  /\ Start(g, to)
  /\ finished' = finished + 1
  /\ UNCHANGED <<added, due>>

InWait(g) == pc[g] \in {"load", "register", "park", "verify"}

HistoryTypeOK == {added, finished} \subseteq Nat /\ due \in [Goroutine -> Nat]
=============================================================================
