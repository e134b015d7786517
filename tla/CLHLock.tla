------------------------------ MODULE CLHLock -------------------------------
(***************************************************************************)
(* syncx.CLHLock: a queue lock without next pointers.  Each Lock appends a *)
(* fresh node with one Swap of tail and spins on its predecessor's flag.   *)
(* Goroutines hand back the node Lock returned, so Unlock(nil) (a panic in *)
(* the code) does not arise.                                               *)
(***************************************************************************)
EXTENDS LockClient

CONSTANTS
  Node,       (* addresses a node can be allocated at                      *)
  Nil         (* the nil pointer, not one of them                          *)

VARIABLES
  tail,       (* CLHLock.tail                                              *)
  state,      (* state[n]: clhNode.state, TRUE once its owner released     *)
  node,       (* node[g]: the handle g holds, Nil outside Lock..Unlock     *)
  prev        (* prev[g]: the predecessor g spins on, Nil when not spinning*)

vars == <<clientVars, tail, state, node, prev>>

Init ==
  /\ ClientInit
  /\ tail = Nil
  /\ state = [n \in Node |-> FALSE]
  /\ node = [g \in Goroutine |-> Nil]
  /\ prev = [g \in Goroutine |-> Nil]

(* The garbage collector may reuse every address no pointer reaches. *)
Reachable == {tail} \cup {node[g] : g \in Goroutine}
                    \cup {prev[g] : g \in Goroutine}

Fresh == CHOOSE n \in Node : n \notin Reachable

(* node := &clhNode{}; prev := l.tail.Swap(node); a nil prev means free.   *)
Lock(g) ==
  /\ Node \ Reachable # {}
  /\ StartLock(g, IF tail = Nil THEN "cs" ELSE "spin")
  /\ state' = [state EXCEPT ![Fresh] = FALSE]
  /\ tail' = Fresh
  /\ node' = [node EXCEPT ![g] = Fresh]
  /\ prev' = [prev EXCEPT ![g] = tail]

(* The wait loop ends: prev.state.Load() is true. *)
Acquire(g) ==
  /\ Goto(g, "spin", "cs")
  /\ state[prev[g]]
  /\ prev' = [prev EXCEPT ![g] = Nil]
  /\ UNCHANGED <<tail, state, node>>

(* node.state.Store(true) *)
Unlock(g) ==
  /\ Goto(g, "cs", "idle")
  /\ state' = [state EXCEPT ![node[g]] = TRUE]
  /\ node' = [node EXCEPT ![g] = Nil]
  /\ UNCHANGED <<tail, prev>>

Work(g) == Acquire(g) \/ Unlock(g)
Next    == \E g \in Goroutine : Lock(g) \/ Work(g)
Spec    == Init /\ [][Next]_vars /\ \A g \in Goroutine : WF_vars(Work(g))

Phase == [g \in Goroutine |-> PhaseOf(g, {"spin"}, {"cs"})]

(* At most one goroutine is between the step of Lock that takes the lock   *)
(* and the step of Unlock that gives it up.                                *)
MutualExclusion == Exclusive(Phase)

TypeOK ==
  /\ pc \in [Goroutine -> {"idle", "spin", "cs"}]
  /\ ClientTypeOK
  /\ tail \in Node \cup {Nil}
  /\ state \in [Node -> BOOLEAN]
  /\ node \in [Goroutine -> Node \cup {Nil}]
  /\ prev \in [Goroutine -> Node \cup {Nil}]

Active(g) == pc[g] # "idle"

(* Inductive: the active goroutines hold consecutive stamps from front on, *)
(* each spins on the node of the one before it, the front one on a node    *)
(* that has been released, and tail is the node of the last.               *)
Queued(front) ==
  /\ \A g \in Goroutine : Active(g) => front <= stamp[g]
  /\ \A g \in Goroutine : pc[g] = "cs" => stamp[g] = front
  /\ \A g \in Goroutine : pc[g] = "spin" =>
        \/ stamp[g] = front /\ state[prev[g]]
        \/ \E h \in Goroutine : /\ Active(h) /\ stamp[h] + 1 = stamp[g]
                                /\ node[h] = prev[g]
  /\ \/ front = calls /\ (tail = Nil \/ state[tail])
     \/ \E h \in Goroutine : /\ Active(h) /\ stamp[h] + 1 = calls
                             /\ node[h] = tail

Inv ==
  /\ TypeOK
  /\ \A g \in Goroutine :
        Active(g) => node[g] \in Node /\ ~state[node[g]] /\ stamp[g] < calls
  /\ \A g \in Goroutine : pc[g] = "spin" => prev[g] \in Node
  /\ \A g, h \in Goroutine :
        Active(g) /\ Active(h) /\ (node[g] = node[h] \/ stamp[g] = stamp[h])
          => g = h
  /\ \E front \in Nat : Queued(front)
=============================================================================
