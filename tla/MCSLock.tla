------------------------------ MODULE MCSLock -------------------------------
(***************************************************************************)
(* syncx.MCSLock: a queue lock whose waiters spin on a flag of their own   *)
(* node.  Each atomic operation of Lock and Unlock is one step; a step     *)
(* that touches only the caller's unpublished node is merged into the next *)
(* shared one.                                                             *)
(*                                                                         *)
(* Control points: "link" before prev.next.Store, "spin" in the wait loop  *)
(* of Lock, "own" before owner.Store(node); "next" before the first load   *)
(* of node.next, "cas" before tail.CompareAndSwap, "clear" between a       *)
(* successful CAS and owner.Store(nil), "await" in the loop that waits for *)
(* a successor, "disown" before owner.Store(nil) and "pass" before         *)
(* next.locked.Store(false).                                               *)
(***************************************************************************)
EXTENDS LockClient

CONSTANTS
  Node,       (* addresses a node can be allocated at                      *)
  Nil         (* the nil pointer, not one of them                          *)

VARIABLES
  tail,       (* MCSLock.tail                                              *)
  owner,      (* MCSLock.owner: the node of the current holder             *)
  next,       (* next[n]:   mcsNode.next                                   *)
  locked,     (* locked[n]: mcsNode.locked                                 *)
  node,       (* node[g]: the local node of g's Lock or Unlock call; kept  *)
              (* in between as the identity of the holder, Unlock reads    *)
              (* owner instead                                             *)
  link        (* link[g]: Lock's local prev, then Unlock's local next      *)

mcsVars == <<tail, owner, next, locked, node, link>>
vars    == <<clientVars, mcsVars>>

Init ==
  /\ ClientInit
  /\ tail = Nil
  /\ owner = Nil
  /\ next = [n \in Node |-> Nil]
  /\ locked = [n \in Node |-> FALSE]
  /\ node = [g \in Goroutine |-> Nil]
  /\ link = [g \in Goroutine |-> Nil]

(* The garbage collector may reuse every address no pointer reaches.  A    *)
(* reachable node's successor is the node of a goroutine that waits.       *)
Reachable == {tail, owner} \cup {node[g] : g \in Goroutine}
                           \cup {link[g] : g \in Goroutine}

Fresh == CHOOSE n \in Node : n \notin Reachable

-----------------------------------------------------------------------------
(* Lock *)

(* Mutant: the new node is not marked locked. *)
LockUnmarked(g) ==
  /\ Node \ Reachable # {}
  /\ StartLock(g, IF tail = Nil THEN "own" ELSE "link")
  /\ next' = [next EXCEPT ![Fresh] = Nil]
  /\ locked' = [locked EXCEPT ![Fresh] = FALSE]
  /\ tail' = Fresh
  /\ node' = [node EXCEPT ![g] = Fresh]
  /\ link' = [link EXCEPT ![g] = tail]
  /\ UNCHANGED owner

(* node := &mcsNode{}; node.locked.Store(true); prev := m.tail.Swap(node) *)
Lock(g) ==
  /\ Node \ Reachable # {}
  /\ StartLock(g, IF tail = Nil THEN "own" ELSE "link")
  /\ next' = [next EXCEPT ![Fresh] = Nil]
  /\ locked' = [locked EXCEPT ![Fresh] = TRUE]
  /\ tail' = Fresh
  /\ node' = [node EXCEPT ![g] = Fresh]
  /\ link' = [link EXCEPT ![g] = tail]
  /\ UNCHANGED owner

(* prev.next.Store(node) *)
Link(g) ==
  /\ Goto(g, "link", "spin")
  /\ next' = [next EXCEPT ![link[g]] = node[g]]
  /\ link' = [link EXCEPT ![g] = Nil]
  /\ UNCHANGED <<tail, owner, locked, node>>

(* The wait loop ends: node.locked.Load() is false. *)
SeeHandoff(g) ==
  /\ Goto(g, "spin", "own")
  /\ ~locked[node[g]]
  /\ UNCHANGED mcsVars

(* m.owner.Store(node), and the critical section begins. *)
Own(g) ==
  /\ Goto(g, "own", "cs")
  /\ owner' = node[g]
  /\ UNCHANGED <<tail, next, locked, node, link>>

-----------------------------------------------------------------------------
(* Unlock *)

(* node := m.owner.Load(); a nil owner panics. *)
Unlock(g) ==
  /\ Goto(g, "cs", IF owner = Nil THEN "panic" ELSE "next")
  /\ node' = IF owner = Nil THEN node ELSE [node EXCEPT ![g] = owner]
  /\ UNCHANGED <<tail, owner, next, locked, link>>

(* next := node.next.Load() *)
LoadNext(g) ==
  /\ Goto(g, "next", IF next[node[g]] = Nil THEN "cas" ELSE "disown")
  /\ link' = [link EXCEPT ![g] = next[node[g]]]
  /\ UNCHANGED <<tail, owner, next, locked, node>>

(* Mutant: a failed CAS is taken for a lock that nobody wants. *)
CASTailGivesUp(g) ==
  /\ Goto(g, "cas", IF tail = node[g] THEN "clear" ELSE "idle")
  /\ tail' = IF tail = node[g] THEN Nil ELSE tail
  /\ UNCHANGED <<owner, next, locked, node, link>>

(* m.tail.CompareAndSwap(node, nil): no successor, or one that has not     *)
(* linked itself yet.                                                      *)
CASTail(g) ==
  \/ /\ tail = node[g]
     /\ Goto(g, "cas", "clear")
     /\ tail' = Nil
     /\ UNCHANGED <<owner, next, locked, node, link>>
  \/ /\ tail # node[g]
     /\ Goto(g, "cas", "await")
     /\ UNCHANGED mcsVars

(* m.owner.Store(nil) after the CAS has already freed the lock. *)
ClearOwner(g) ==
  /\ Goto(g, "clear", "idle")
  /\ owner' = Nil
  /\ node' = [node EXCEPT ![g] = Nil]
  /\ UNCHANGED <<tail, next, locked, link>>

(* for next == nil { next = node.next.Load() } *)
AwaitNext(g) ==
  /\ Goto(g, "await", "disown")
  /\ next[node[g]] # Nil
  /\ link' = [link EXCEPT ![g] = next[node[g]]]
  /\ UNCHANGED <<tail, owner, next, locked, node>>

(* m.owner.Store(nil) before the handoff *)
Disown(g) ==
  /\ Goto(g, "disown", "pass")
  /\ owner' = Nil
  /\ UNCHANGED <<tail, next, locked, node, link>>

(* next.locked.Store(false) *)
Pass(g) ==
  /\ Goto(g, "pass", "idle")
  /\ locked' = [locked EXCEPT ![link[g]] = FALSE]
  /\ node' = [node EXCEPT ![g] = Nil]
  /\ link' = [link EXCEPT ![g] = Nil]
  /\ UNCHANGED <<tail, owner, next>>

Work(g) ==
  \/ Link(g)   \/ SeeHandoff(g) \/ Own(g)
  \/ Unlock(g) \/ LoadNext(g)   \/ CASTail(g) \/ ClearOwner(g)
  \/ AwaitNext(g) \/ Disown(g) \/ Pass(g)

Next == \E g \in Goroutine : Lock(g) \/ Work(g)
Spec == Init /\ [][Next]_vars /\ \A g \in Goroutine : WF_vars(Work(g))

Trying  == {"link", "spin"}
Holding == {"own", "cs", "next", "cas", "await", "disown", "pass"}

(* A goroutine owns the lock from the moment its Lock finds tail nil or    *)
(* its flag cleared until the CAS or the store that gives the lock up.     *)
Phase == [g \in Goroutine |-> PhaseOf(g, Trying, Holding)]

(* An Unlock that pairs with a completed Lock never panics: whoever is in  *)
(* the critical section is the recorded owner.  (lock.go:389 panics only   *)
(* for the "unlock of unlocked MCSLock".)                                  *)
PairedUnlockSafe == \A g \in Goroutine : pc[g] # "panic"

(* At most one goroutine is between the step of Lock that takes the lock   *)
(* and the step of Unlock that gives it up.                                *)
MutualExclusion == Exclusive(Phase)

TypeOK ==
  /\ pc \in [Goroutine -> {"idle", "link", "spin", "own", "cs", "next", "cas",
                           "clear", "await", "disown", "pass", "panic"}]
  /\ ClientTypeOK
  /\ {tail, owner} \subseteq Node \cup {Nil}
  /\ next \in [Node -> Node \cup {Nil}]
  /\ locked \in [Node -> BOOLEAN]
  /\ {node, link} \subseteq [Goroutine -> Node \cup {Nil}]

Queued(g)   == pc[g] \in Trying \cup Holding \cup {"panic"}
Precedes(h, g) == Queued(h) /\ stamp[h] + 1 = stamp[g]

(* Inductive: the queued goroutines hold consecutive stamps from front on; *)
(* the front one holds the lock or has been handed it; every other's flag  *)
(* is set, and it is linked, or about to link itself, behind the one       *)
(* before it; tail is the node of the last.                                *)
InLine(front) ==
  /\ \A g \in Goroutine : Queued(g) => front <= stamp[g]
  /\ \A g \in Goroutine : pc[g] \in Holding \cup {"panic"} => stamp[g] = front
  /\ \A g \in Goroutine : pc[g] \in Trying =>
        \/ stamp[g] = front /\ pc[g] = "spin"
        \/ /\ locked[node[g]]
           /\ \E h \in Goroutine : /\ Precedes(h, g)
                                   /\ pc[g] = "link" => link[g] = node[h]
  /\ \/ front = calls /\ tail = Nil
     \/ \E h \in Goroutine : /\ Queued(h) /\ stamp[h] + 1 = calls
                             /\ node[h] = tail

Inv ==
  /\ TypeOK
  /\ \A g \in Goroutine : Queued(g) => node[g] \in Node /\ stamp[g] < calls
  /\ \A g, h \in Goroutine :
        Queued(g) /\ Queued(h) /\ (node[g] = node[h] \/ stamp[g] = stamp[h])
          => g = h
  /\ \A g \in Goroutine : pc[g] = "cs" => owner \in {node[g], Nil}
  /\ \A g \in Goroutine : Queued(g) /\ next[node[g]] # Nil =>
        \E h \in Goroutine : /\ Precedes(g, h) /\ pc[h] = "spin"
                             /\ node[h] = next[node[g]]
  /\ \A g \in Goroutine : pc[g] \in {"disown", "pass"} =>
        \E h \in Goroutine : /\ Precedes(g, h) /\ pc[h] = "spin"
                             /\ node[h] = link[g]
  /\ \E front \in Nat : InLine(front)
=============================================================================
