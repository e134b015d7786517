-------------------------------- MODULE Ring --------------------------------
(***************************************************************************)
(* What the bounded queues of package queue share: a ring of Size places,  *)
(* a head and a tail position, and 64-bit positions that wrap around.      *)
(***************************************************************************)
EXTENDS CallClient, Integers

CONSTANTS
  Size,        (* BoundedQueueSize                                         *)
  Modulus,     (* positions are words modulo Modulus (2^64)                *)
  Starts       (* positions the queue may have reached when the behaviour  *)
               (* begins: it is empty, as after so many values in and out  *)

ASSUME RingAssumption ==
  /\ Size \in Nat \ {0}
  /\ Modulus \in Nat \ {0}
  /\ Modulus % Size = 0 /\ 2 * Size <= Modulus
  /\ Starts \subseteq 0 .. Modulus - 1

VARIABLES
  val,         (* val[i]: slot.val, or arr[i]                              *)
  head,        (* position of the next Dequeue                             *)
  tail,        (* position of the next Enqueue                             *)
  pos          (* pos[g]: the position g has loaded or claimed             *)

ringVars == <<val, head, tail, pos>>

Index    == 0 .. Size - 1
Idx(p)   == p % Size                    (* p & queueMask *)
PlusUnbounded(p, k) == p + k            (* mutant: the position does not wrap *)
Plus(p, k)  == (p + k) % Modulus
Minus(p, q) == (p - q) % Modulus        (* uint64 subtraction *)
(* int64(p) - int64(q) *)
Diff(p, q)  == IF Minus(p, q) < Modulus \div 2
               THEN Minus(p, q) ELSE Minus(p, q) - Modulus

RingInit ==
  /\ val = [i \in Index |-> zero]
  /\ head \in Starts
  /\ tail = head
  /\ pos = [g \in Goroutine |-> 0]

Yes == <<zero, TRUE>>
No  == <<zero, FALSE>>

RingTypeOK ==
  /\ val \in [Index -> Nat]
  /\ {head, tail} \subseteq 0 .. Modulus - 1
  /\ pos \in [Goroutine -> 0 .. Modulus - 1]
=============================================================================
