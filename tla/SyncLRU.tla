------------------------------ MODULE SyncLRU ------------------------------
(***************************************************************************)
(* mapx.SyncLRU: a map and a doubly linked list from the least to the most *)
(* recently used key, between two sentinels.  Put and Get hold the mutex   *)
(* from end to end and are one step each.                                  *)
(*                                                                         *)
(* The node of a key is named by the key: the map has one node a key, and  *)
(* a node taken off both the list and the map is reached by nothing.       *)
(***************************************************************************)
EXTENDS Naturals, Sequences, FiniteSets

CONSTANTS
  Key, Val,
  HeadNode, TailNode, Nil,  (* the sentinels and the nil pointer, none a   *)
                            (* Key                                         *)
  MaxCap                    (* bound: the n of NewSyncLRU                  *)

VARIABLES
  cap,
  cache,             (* the keys of the map                                *)
  list,              (* list[n]: the pointers [prev, next] of node n       *)
  val,               (* val[k]: the value in the node of key k             *)
  answer,            (* the last Get: <<key, value, found>>                *)
  recency, last      (* history: the keys a cache of this capacity has to  *)
                     (* hold, least recently used first, and the value put *)
                     (* last under each key                                *)

vars == <<cap, cache, list, val, answer, recency, last>>

Node == Key \cup {HeadNode, TailNode}
NoVal == 0

Init ==
  /\ cap \in 0 .. MaxCap
  /\ cache = {}
  /\ list = [n \in Node |-> [prev |-> IF n = TailNode THEN HeadNode ELSE Nil,
                             next |-> IF n = HeadNode THEN TailNode ELSE Nil]]
  /\ val = [k \in Key |-> NoVal] /\ answer = <<Nil, NoVal, FALSE>>
  /\ recency = <<>> /\ last = [k \in Key |-> NoVal]

(* Mutant: n.next.prev keeps pointing at n. *)
removeNodeHalf(l, n) ==
  [l EXCEPT ![l[n].prev].next = l[n].next,
            ![n] = [prev |-> Nil, next |-> Nil]]
removeNode(l, n) ==
  [l EXCEPT ![l[n].prev].next = l[n].next,
            ![l[n].next].prev = l[n].prev,
            ![n] = [prev |-> Nil, next |-> Nil]]
appendTail(l, n) ==
  LET before == l[TailNode].prev
  IN  [l EXCEPT ![before].next = n,
                ![n] = [prev |-> before, next |-> TailNode],
                ![TailNode].prev = n]

(* What the calls have to do to the order of the keys. *)
Place(k) ==
  IF \E i \in DOMAIN recency : recency[i] = k
  THEN CHOOSE i \in DOMAIN recency : recency[i] = k ELSE Len(recency) + 1
Without(s, n) == SubSeq(s, 1, n - 1) \o SubSeq(s, n + 1, Len(s))
Touch(k) == Append(Without(recency, Place(k)), k)
Newest(s, n) == SubSeq(s, IF Len(s) > n THEN Len(s) - n + 1 ELSE 1, Len(s))

(* Put of a key that is there, and of one that is not. *)
Update(k, x) ==
  /\ k \in cache
  /\ val' = [val EXCEPT ![k] = x]
  /\ list' = appendTail(removeNode(list, k), k)
  /\ UNCHANGED cache
Insert(k, x) ==
  /\ k \notin cache
  /\ LET evict == list[HeadNode].next
         full  == Cardinality(cache) >= cap
     IN  /\ list' = appendTail(IF full THEN removeNode(list, evict) ELSE list, k)
         /\ cache' = (IF full THEN cache \ {evict} ELSE cache) \cup {k}
  /\ val' = [val EXCEPT ![k] = x]
Put(k, x) ==
  /\ cap # 0
  /\ Update(k, x) \/ Insert(k, x)
  /\ recency' = Newest(Touch(k), cap)
  /\ last' = [last EXCEPT ![k] = x]
  /\ UNCHANGED <<cap, answer>>

Get(k) ==
  /\ \/ /\ k \in cache
        /\ list' = appendTail(removeNode(list, k), k)
        /\ answer' = <<k, val[k], TRUE>>
        /\ recency' = Touch(k)
     \/ /\ k \notin cache
        /\ answer' = <<k, NoVal, FALSE>>
        /\ UNCHANGED <<list, recency>>
  /\ UNCHANGED <<cap, cache, val, last>>

Next == \E k \in Key : Get(k) \/ \E x \in Val : Put(k, x)
Spec == Init /\ [][Next]_vars
-----------------------------------------------------------------------------
TypeOK ==
  /\ cap \in 0 .. MaxCap /\ cache \subseteq Key
  /\ list \in [Node -> [prev : Node \cup {Nil}, next : Node \cup {Nil}]]
  /\ val \in [Key -> Val \cup {NoVal}]
  /\ answer \in (Key \cup {Nil}) \X (Val \cup {NoVal}) \X BOOLEAN
  /\ recency \in Seq(Key) /\ last \in [Key -> Val \cup {NoVal}]

(* The nodes of l from one sentinel to the other are the keys of s.        *)
NodeAt(s, i) == CASE i = 0 -> HeadNode [] i \in DOMAIN s -> s[i] [] OTHER -> TailNode
Linked(l, s) ==
  \A i \in 0 .. Len(s) : /\ l[NodeAt(s, i)].next = NodeAt(s, i + 1)
                         /\ l[NodeAt(s, i + 1)].prev = NodeAt(s, i)

(* The list is the order of recency, read in either direction, the map has *)
(* its keys, at most cap of them, and their nodes the values put last; so  *)
(* what is evicted is what has not been used for longest (lru.go:41-50).   *)
MirrorsRecency ==
  /\ Linked(list, recency)
  /\ cache = {recency[i] : i \in DOMAIN recency}
  /\ Len(recency) = Cardinality(cache) /\ Len(recency) <= cap
  /\ \A k \in cache : val[k] = last[k]

=============================================================================
