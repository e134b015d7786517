----------------------------- MODULE ListStacks ------------------------------
(***************************************************************************)
(* stack.LockFreeMPMC, the Treiber stack, whose list is also the one under *)
(* stack.EliminationBackoffMPMC: nodes on a garbage collected heap and the *)
(* atomic head pointer.  An address is allocated again only when no        *)
(* pointer leads to it any more; the code relies on that to be free of the *)
(* ABA problem.                                                            *)
(*                                                                         *)
(* stack.MutexLinkedMPMC and stack.MutexSliceMPMC: a list or a slice under *)
(* one sync.Mutex, so that a call's body is one step.                      *)
(***************************************************************************)
EXTENDS CallClient, FiniteSets, Sequences

CONSTANTS
  Node,      (* addresses a node can be allocated at                       *)
  Nil        (* the nil pointer                                            *)

ASSUME NodeAssumption == IsFiniteSet(Node) /\ Nil \notin Node

VARIABLES
  head,      (* the atomic head pointer                                    *)
  v,         (* v[n]:    node.v                                            *)
  next,      (* next[n]: node.next                                         *)
  node,      (* node[g]: Push's local n                                    *)
  prev,      (* prev[g]: the local prev, the head g has loaded             *)
  top,       (* top[g]:  Pop's locals val, next, read from prev            *)
  linked,    (* MutexLinkedMPMC or MutexSliceMPMC                          *)
  rep        (* the linked stack's list, head first; the slice stack's     *)
             (* arr, its top last                                          *)

headVars == <<head, v, next, node, prev, top>>
mutexVars == <<linked, rep>>

NoTop == [val |-> zero, next |-> Nil]

HeadInit ==
  /\ head = Nil
  /\ v = [n \in Node |-> zero]
  /\ next = [n \in Node |-> Nil]
  /\ node = [g \in Goroutine |-> Nil]
  /\ prev = [g \in Goroutine |-> Nil]
  /\ top = [g \in Goroutine |-> NoTop]

(* The values from node n on. *)
ListFrom[n \in Node \cup {Nil}] ==
  IF n = Nil THEN <<>> ELSE <<v[n]>> \o ListFrom[next[n]]

(* Mutant: the goroutines' own pointers do not keep a node alive, as with *)
(* manual reclamation without hazard pointers.                             *)
OnlyHead == {head} \cup {node[g] : g \in Goroutine}

(* The pointers the program holds outside the heap. *)
Roots == {head} \cup {node[g] : g \in Goroutine} \cup {prev[g] : g \in Goroutine}
                \cup {top[g].next : g \in Goroutine}

(* The nodes the program can still reach. *)
Reachable ==
  LET Within[k \in 0..Cardinality(Node)] ==
        IF k = 0 THEN Roots
        ELSE Within[k - 1] \cup {next[n] : n \in Within[k - 1] \ {Nil}}
  IN  Within[Cardinality(Node)]

Fresh == CHOOSE n \in Node : n \notin Reachable

(* Push: n := &node[T]{v: v}; prev := head.Load(); n.next = prev *)
AllocateAndLoad(g) ==
  /\ Node \ Reachable # {}
  /\ v' = [v EXCEPT ![Fresh] = calls + 1]
  /\ next' = [next EXCEPT ![Fresh] = head]
  /\ node' = [node EXCEPT ![g] = Fresh]
  /\ prev' = [prev EXCEPT ![g] = head]
  /\ UNCHANGED <<head, top>>

(* Push goes round the loop: prev := head.Load(); n.next = prev *)
LoadForPush(g) ==
  /\ prev' = [prev EXCEPT ![g] = head]
  /\ next' = [next EXCEPT ![node[g]] = head]
  /\ UNCHANGED <<head, v, node, top>>

(* Push: head.CompareAndSwap(prev, n) succeeds. *)
SwingForPush(g) ==
  /\ head = prev[g]
  /\ head' = node[g]
  /\ node' = [node EXCEPT ![g] = Nil]
  /\ prev' = [prev EXCEPT ![g] = Nil]
  /\ UNCHANGED <<v, next, top>>

(* Pop: prev := head.Load(), not nil; val, next := prev.v, prev.next.  A   *)
(* published node is never written again.                                  *)
LoadForPop(g) ==
  /\ head # Nil
  /\ prev' = [prev EXCEPT ![g] = head]
  /\ top' = [top EXCEPT ![g] = [val |-> v[head], next |-> next[head]]]
  /\ UNCHANGED <<head, v, next, node>>

(* Mutant: the CAS does not compare; head may be nil or another node. *)
SwingBlindly(g) ==
  /\ head' = IF head = Nil THEN zero ELSE next[head]
  /\ prev' = [prev EXCEPT ![g] = Nil]
  /\ top' = [top EXCEPT ![g] = NoTop]
  /\ UNCHANGED <<v, next, node>>

(* Pop: head.CompareAndSwap(prev, next) succeeds. *)
SwingForPop(g) ==
  /\ head = prev[g]
  /\ head' = top[g].next
  /\ prev' = [prev EXCEPT ![g] = Nil]
  /\ top' = [top EXCEPT ![g] = NoTop]
  /\ UNCHANGED <<v, next, node>>

(* A CompareAndSwap of head fails; the locals die with the iteration. *)
SwingFails(g) ==
  /\ head # prev[g]
  /\ prev' = [prev EXCEPT ![g] = Nil]
  /\ top' = [top EXCEPT ![g] = NoTop]
  /\ UNCHANGED <<head, v, next, node>>

HeadTypeOK ==
  /\ head \in Node \cup {Nil}
  /\ v \in [Node -> Nat]
  /\ next \in [Node -> Node \cup {Nil}]
  /\ {node, prev} \subseteq [Goroutine -> Node \cup {Nil}]
  /\ top \in [Goroutine -> [val : Nat, next : Node \cup {Nil}]]
-----------------------------------------------------------------------------
(* stack.LockFreeMPMC: a CAS that fails loads again. *)

TreiberPush(g) == Start(g, "push", "cas") /\ AllocateAndLoad(g)
TreiberPop(g)  == Start(g, "pop", "load") /\ UNCHANGED headVars

TreiberLoad(g) ==
  \/ op[g] = "push" /\ Goto(g, "load", "cas") /\ LoadForPush(g)
  \/ op[g] = "pop"  /\ Goto(g, "load", "cas") /\ LoadForPop(g)

(* Pop finds head nil and reports an empty stack. *)
TreiberEmpty(g) ==
  /\ op[g] = "pop" /\ head = Nil
  /\ Finish(g, "load", None)
  /\ UNCHANGED headVars

SwingHead(g) ==
  \/ op[g] = "push" /\ Finish(g, "cas", None) /\ SwingForPush(g)
  \/ op[g] = "pop"  /\ Finish(g, "cas", <<top[g].val, TRUE>>) /\ SwingForPop(g)

TreiberCAS(g) ==
  \/ SwingHead(g)
  \/ Goto(g, "cas", "load") /\ SwingFails(g)

TreiberReturn(g) == Leave(g) /\ UNCHANGED headVars

TreiberCall(g) == TreiberPush(g) \/ TreiberPop(g)
TreiberWork(g) ==
  TreiberLoad(g) \/ TreiberEmpty(g) \/ TreiberCAS(g) \/ TreiberReturn(g)

(* Refinement mapping to AbstractStack: the CAS that succeeds is the       *)
(* linearization point.                                                    *)
Contents == ListFrom[head]
ListStatus == [g \in Goroutine |->
                 IF pc[g] \in {"idle", "done"} THEN pc[g] ELSE op[g]]
-----------------------------------------------------------------------------
(* stack.MutexLinkedMPMC, stack.MutexSliceMPMC *)

MutexInit == linked \in BOOLEAN /\ rep = <<>>

MutexCall(g) ==
  /\ \E kind \in {"push", "pop"} : Start(g, kind, "locked")
  /\ UNCHANGED mutexVars

MutexPush(g) ==
  /\ op[g] = "push"
  /\ Finish(g, "locked", None)
  /\ rep' = IF linked THEN <<arg[g]>> \o rep ELSE Append(rep, arg[g])
  /\ UNCHANGED linked

MutexPop(g) ==
  /\ op[g] = "pop"
  /\ \/ rep = <<>> /\ Finish(g, "locked", None) /\ UNCHANGED rep
     \/ /\ rep # <<>> /\ linked
        /\ Finish(g, "locked", <<Head(rep), TRUE>>)
        /\ rep' = Tail(rep)
     \/ /\ rep # <<>> /\ ~linked
        /\ Finish(g, "locked", <<rep[Len(rep)], TRUE>>)
        /\ rep' = SubSeq(rep, 1, Len(rep) - 1)
  /\ UNCHANGED linked

MutexReturn(g) == Leave(g) /\ UNCHANGED mutexVars

MutexWork(g) == MutexPush(g) \/ MutexPop(g) \/ MutexReturn(g)

(* Refinement mapping: the body under the mutex is the linearization point.*)
MutexContents ==
  IF linked THEN rep ELSE [i \in 1..Len(rep) |-> rep[Len(rep) - i + 1]]
=============================================================================
