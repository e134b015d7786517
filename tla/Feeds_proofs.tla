---------------------------- MODULE Feeds_proofs ----------------------------
(***************************************************************************)
(* Proofs about the channel adapters and Broadcast, for any emitters,      *)
(* subscribers and topics, any first size of the ring and every bound.     *)
(***************************************************************************)
EXTENDS MCFeeds, SequenceTheorems, TLAPS

Wrap(a, c) == IF a < c THEN a ELSE a - c

(* A RingQueue of values of V: tail is size places behind head.            *)
RingOf(q, V) ==
  /\ q = [arr |-> q.arr, head |-> q.head, tail |-> q.tail, size |-> q.size,
          mask |-> q.mask]
  /\ q.mask \in Nat
  /\ q.arr \in [0 .. q.mask -> V]
  /\ q.head \in 0 .. q.mask /\ q.tail \in 0 .. q.mask
  /\ q.size \in 0 .. q.mask + 1
  /\ q.tail = Wrap(q.head + q.size, q.mask + 1)

(* Its i-th value. *)
Nth(q, i) == q.arr[Wrap(q.head + i - 1, q.mask + 1)]
-----------------------------------------------------------------------------
(* RingQueue *)

LEMMA DivUnique ==
  ASSUME NEW q \in Nat, NEW b \in Nat \ {0}, NEW r \in 0 .. b - 1
  PROVE  (b * q + r) % b = r
  OBVIOUS

LEMMA ModWrap ==
  ASSUME NEW c \in Nat \ {0}, NEW a \in Nat, a < 2 * c
  PROVE  a % c = Wrap(a, c)
  <1>1. CASE a < c
    <2>1. (c * 0 + a) % c = a
      BY <1>1, DivUnique
    <2>2. c * 0 + a = a
      OBVIOUS
    <2> QED BY <1>1, <2>1, <2>2 DEF Wrap
  <1>2. CASE a >= c
    <2>1. a - c \in 0 .. c - 1
      BY <1>2
    <2>2. (c * 1 + (a - c)) % c = a - c
      BY <2>1, DivUnique
    <2>3. c * 1 + (a - c) = a
      OBVIOUS
    <2> QED BY <1>2, <2>2, <2>3 DEF Wrap
  <1> QED BY <1>1, <1>2

LEMMA NewRing ==
  ASSUME NEW V, 0 \in V
  PROVE  RingOf(Adapter!NewRingQueue, V) /\ Adapter!NewRingQueue.size = 0
  BY FeedsAssumption DEF RingOf, Adapter!NewRingQueue, Adapter!zero, Wrap

(* Growing a full ring leaves its values where they were in the line.      *)
LEMMA GrowRing ==
  ASSUME NEW V, 0 \in V, NEW q, RingOf(q, V), q.size = q.mask + 1
  PROVE  LET r == Adapter!Grow(q)
         IN  /\ RingOf(r, V) /\ r.size = q.size /\ r.mask + 1 > q.size
             /\ \A i \in 1 .. q.size : Nth(r, i) = Nth(q, i)
  <1> DEFINE r == Adapter!Grow(q)
             c == q.mask + 1
  <1>1. /\ c \in Nat \ {0} /\ q.mask \in Nat
        /\ q.head \in 0 .. c - 1 /\ q.tail = q.head /\ q.size = c
        /\ q.arr \in [0 .. c - 1 -> V]
    BY DEF RingOf, Wrap
  <1>2. /\ r.head = 0 /\ r.tail = c /\ r.size = c /\ r.mask = 2 * c - 1
        /\ r.arr = [i \in 0 .. 2 * c - 1 |->
                      IF i < c - q.head THEN q.arr[q.head + i]
                      ELSE IF i - (c - q.head) < q.tail
                           THEN q.arr[i - (c - q.head)] ELSE 0]
        /\ r = [arr |-> r.arr, head |-> r.head, tail |-> r.tail, size |-> r.size,
                mask |-> r.mask]
    BY <1>1 DEF Adapter!Grow, Adapter!zero
  <1> HIDE DEF r, c
  <1>3. r.arr \in [0 .. 2 * c - 1 -> V]
    <2>1. ASSUME NEW i \in 0 .. 2 * c - 1
          PROVE  (IF i < c - q.head THEN q.arr[q.head + i]
                  ELSE IF i - (c - q.head) < q.tail
                       THEN q.arr[i - (c - q.head)] ELSE 0) \in V
      <3>1. CASE i < c - q.head
        <4>1. q.head + i \in 0 .. c - 1
          BY <1>1, <3>1
        <4> QED BY <1>1, <3>1, <4>1
      <3>2. CASE i >= c - q.head /\ i - (c - q.head) < q.tail
        <4>1. i - (c - q.head) \in 0 .. c - 1
          BY <1>1, <3>2
        <4>2. ~(i < c - q.head)
          BY <1>1, <3>2
        <4> QED BY <1>1, <3>2, <4>1, <4>2
      <3>3. CASE i >= c - q.head /\ ~(i - (c - q.head) < q.tail)
        <4>1. ~(i < c - q.head)
          BY <1>1, <3>3
        <4> QED BY <3>3, <4>1
      <3> QED BY <1>1, <3>1, <3>2, <3>3
    <2> QED BY <1>2, <2>1
  <1>4. RingOf(r, V)
    BY <1>1, <1>2, <1>3 DEF RingOf, Wrap
  <1>5. ASSUME NEW i \in 1 .. q.size
        PROVE  Nth(r, i) = Nth(q, i)
    <2>1. Nth(r, i) = r.arr[i - 1]
      <3>1. r.mask + 1 = 2 * c /\ r.head + i - 1 = i - 1 /\ i - 1 < 2 * c
        BY <1>1, <1>2
      <3> QED BY <3>1 DEF Nth, Wrap
    <2>a. i - 1 \in 0 .. 2 * c - 1 /\ i - 1 \in 0 .. c - 1
      BY <1>1
    <2>2. q.mask + 1 = c
      BY DEF c
    <2>3. CASE i - 1 < c - q.head
      <3>1. r.arr[i - 1] = q.arr[q.head + (i - 1)]
        BY <1>2, <2>a, <2>3
      <3>2. q.head + i - 1 < c /\ q.head + (i - 1) = q.head + i - 1
        BY <1>1, <2>a, <2>3
      <3>3. Wrap(q.head + i - 1, c) = q.head + i - 1
        BY <3>2 DEF Wrap
      <3> QED BY <2>1, <2>2, <3>1, <3>2, <3>3 DEF Nth
    <2>4. CASE i - 1 >= c - q.head
      <3>1. /\ ~(i - 1 < c - q.head) /\ i - 1 - (c - q.head) < q.tail
            /\ ~(q.head + i - 1 < c)
            /\ q.head + i - 1 - c = i - 1 - (c - q.head)
        BY <1>1, <2>a, <2>4
      <3>2. r.arr[i - 1] = q.arr[i - 1 - (c - q.head)]
        BY <1>2, <2>a, <3>1
      <3>3. Wrap(q.head + i - 1, c) = i - 1 - (c - q.head)
        BY <1>1, <2>a, <3>1 DEF Wrap
      <3> QED BY <2>1, <2>2, <3>2, <3>3 DEF Nth
    <2> QED BY <2>3, <2>4, <1>1
  <1> QED BY <1>1, <1>2, <1>4, <1>5 DEF r

(* Push(q, x) where it does not grow the ring.                             *)
Appended(q, x) ==
  [q EXCEPT !.arr[q.tail] = x, !.tail = (@ + 1) % (q.mask + 1), !.size = @ + 1]

LEMMA WrapNext ==
  ASSUME NEW c \in Nat \ {0}, NEW h \in 0 .. c - 1, NEW n \in 0 .. c - 1
  PROVE  /\ Wrap(h + n, c) \in 0 .. c - 1
         /\ Wrap(Wrap(h + n, c) + 1, c) = Wrap(h + (n + 1), c)
         /\ Wrap(Wrap(h + 1, c) + n, c) = Wrap(h + (n + 1), c)
         /\ Wrap(h + (n + 1), c) \in 0 .. c - 1
         /\ Wrap(h + (n + 1), c) = h => n = c - 1
  BY DEF Wrap

LEMMA AppendRing ==
  ASSUME NEW V, NEW x \in V, NEW q, RingOf(q, V), q.size < q.mask + 1
  PROVE  LET r == Appended(q, x)
         IN  /\ RingOf(r, V) /\ r.size = q.size + 1
             /\ \A i \in 1 .. q.size : Nth(r, i) = Nth(q, i)
             /\ Nth(r, r.size) = x
  <1> DEFINE r == Appended(q, x)
             c == q.mask + 1
  <1>1. /\ c \in Nat \ {0} /\ q.mask \in Nat /\ q.mask = c - 1
        /\ q.head \in 0 .. c - 1 /\ q.tail \in 0 .. c - 1 /\ q.size \in 0 .. c - 1
        /\ q.tail = Wrap(q.head + q.size, c)
        /\ q.arr \in [0 .. c - 1 -> V]
    BY DEF RingOf
  <1>2. (q.tail + 1) % c = Wrap(q.tail + 1, c)
    <2>1. q.tail + 1 \in Nat /\ q.tail + 1 < 2 * c
      BY <1>1
    <2> QED BY <1>1, <2>1, ModWrap
  <1>3. /\ r.head = q.head /\ r.tail = Wrap(q.tail + 1, c) /\ r.size = q.size + 1
        /\ r.mask = q.mask /\ r.arr = [q.arr EXCEPT ![q.tail] = x]
        /\ r = [arr |-> r.arr, head |-> r.head, tail |-> r.tail, size |-> r.size,
                mask |-> r.mask]
    <2>1. r = [q EXCEPT !.arr[q.tail] = x, !.tail = (@ + 1) % (q.mask + 1),
                        !.size = @ + 1]
      BY DEF Appended
    <2> HIDE DEF r
    <2> QED BY <1>2, <2>1 DEF RingOf
  <1> HIDE DEF c, r
  <1>4. r.arr \in [0 .. c - 1 -> V] /\ r.arr[q.tail] = x
        /\ \A i \in 0 .. c - 1 : i # q.tail => r.arr[i] = q.arr[i]
    BY <1>1, <1>2, <1>3
  <1>5. RingOf(r, V)
    <2>1. r.tail = Wrap(r.head + r.size, c) /\ r.tail \in 0 .. c - 1
      BY <1>1, <1>3, WrapNext
    <2>2. r.size \in 0 .. c /\ c = r.mask + 1
      BY <1>1, <1>3
    <2> QED BY <1>1, <1>3, <1>4, <2>1, <2>2 DEF RingOf
  <1>6. ASSUME NEW i \in 1 .. q.size
        PROVE  Nth(r, i) = Nth(q, i)
    <2>1. /\ Wrap(q.head + i - 1, c) \in 0 .. c - 1
          /\ Wrap(q.head + i - 1, c) # q.tail
      BY <1>1 DEF Wrap
    <2>2. r.mask + 1 = c /\ q.mask + 1 = c
      BY <1>1, <1>3
    <2> QED BY <1>3, <1>4, <2>1, <2>2 DEF Nth
  <1>7. Nth(r, r.size) = x
    <2>1. r.mask + 1 = c /\ q.head + r.size - 1 = q.head + q.size
      BY <1>1, <1>3
    <2> QED BY <1>1, <1>3, <1>4, <2>1 DEF Nth
  <1> QED BY <1>3, <1>5, <1>6, <1>7 DEF r

(* Push puts x behind the last value, whether or not the ring grows.       *)
LEMMA PushRing ==
  ASSUME NEW V, 0 \in V, NEW x \in V, NEW q, RingOf(q, V)
  PROVE  LET r == Adapter!Push(q, x)
         IN  /\ RingOf(r, V) /\ r.size = q.size + 1
             /\ \A i \in 1 .. q.size : Nth(r, i) = Nth(q, i)
             /\ Nth(r, r.size) = x
  <1>1. CASE q.size = q.mask + 1
    <2> DEFINE p == Adapter!Grow(q)
    <2>1. /\ RingOf(p, V) /\ p.size = q.size /\ p.size < p.mask + 1
          /\ \A i \in 1 .. q.size : Nth(p, i) = Nth(q, i)
      <3>1. q.size \in Nat /\ p.mask \in Nat
        BY GrowRing, <1>1 DEF RingOf
      <3> HIDE DEF p
      <3> QED BY GrowRing, <1>1, <3>1 DEF p
    <2>2. Adapter!Push(q, x) = Appended(p, x)
      BY <1>1 DEF Adapter!Push, Appended
    <2> HIDE DEF p
    <2> DEFINE r == Appended(p, x)
    <2>3. /\ RingOf(r, V) /\ r.size = p.size + 1
          /\ \A i \in 1 .. p.size : Nth(r, i) = Nth(p, i)
          /\ Nth(r, r.size) = x
      BY <2>1, AppendRing
    <2> HIDE DEF r
    <2>4. /\ RingOf(r, V) /\ r.size = q.size + 1
          /\ \A i \in 1 .. q.size : Nth(r, i) = Nth(q, i)
          /\ Nth(r, r.size) = x
      BY <2>1, <2>3
    <2> QED BY <2>2, <2>4 DEF r
  <1>2. CASE q.size # q.mask + 1
    <2>1. q.size < q.mask + 1
      BY <1>2 DEF RingOf
    <2>2. Adapter!Push(q, x) = Appended(q, x)
      BY <1>2 DEF Adapter!Push, Appended
    <2> QED BY <2>1, <2>2, AppendRing
  <1> QED BY <1>1, <1>2

(* Pop takes away the value that Peek shows, the first in line.            *)
LEMMA PopRing ==
  ASSUME NEW V, 0 \in V, NEW q, RingOf(q, V), q.size > 0
  PROVE  LET r == Adapter!Pop(q)
         IN  /\ RingOf(r, V) /\ r.size = q.size - 1
             /\ \A i \in 1 .. r.size : Nth(r, i) = Nth(q, i + 1)
             /\ Adapter!Peek(q) = Nth(q, 1) /\ Adapter!Peek(q) \in V
  <1> DEFINE r == Adapter!Pop(q)
             c == q.mask + 1
  <1>1. /\ c \in Nat \ {0} /\ q.mask \in Nat /\ q.mask = c - 1
        /\ q.head \in 0 .. c - 1 /\ q.tail \in 0 .. c - 1 /\ q.size \in 1 .. c
        /\ q.tail = Wrap(q.head + q.size, c)
        /\ q.arr \in [0 .. c - 1 -> V]
    BY DEF RingOf
  <1>2. (q.head + 1) % c = Wrap(q.head + 1, c)
    <2>1. q.head + 1 \in Nat /\ q.head + 1 < 2 * c
      BY <1>1
    <2> QED BY <1>1, <2>1, ModWrap
  <1>3. /\ r.head = Wrap(q.head + 1, c) /\ r.tail = q.tail /\ r.size = q.size - 1
        /\ r.mask = q.mask /\ r.arr = [q.arr EXCEPT ![q.head] = 0]
        /\ r = [arr |-> r.arr, head |-> r.head, tail |-> r.tail, size |-> r.size,
                mask |-> r.mask]
    <2>1. r = [q EXCEPT !.arr[q.head] = 0, !.head = (@ + 1) % (q.mask + 1),
                        !.size = @ - 1]
      BY DEF Adapter!Pop, Adapter!zero
    <2> HIDE DEF r
    <2> QED BY <1>2, <2>1 DEF RingOf
  <1> HIDE DEF c, r
  <1>4. r.arr \in [0 .. c - 1 -> V]
        /\ \A i \in 0 .. c - 1 : i # q.head => r.arr[i] = q.arr[i]
    BY <1>1, <1>2, <1>3
  <1>5. RingOf(r, V)
    <2>1. r.size \in 0 .. c - 1 /\ c = r.mask + 1 /\ r.size + 1 = q.size
      BY <1>1, <1>3
    <2>2. r.tail = Wrap(r.head + r.size, c) /\ r.head \in 0 .. c - 1
      <3>1. 0 \in 0 .. c - 1 /\ q.head + 0 = q.head /\ 0 + 1 = 1
        BY <1>1
      <3>2. Wrap(q.head + 1, c) \in 0 .. c - 1
        BY <1>1, <3>1, WrapNext
      <3>3. r.size \in 0 .. c - 1
        BY <2>1
      <3>4. Wrap(Wrap(q.head + 1, c) + r.size, c) = Wrap(q.head + (r.size + 1), c)
        BY <1>1, <3>3, WrapNext
      <3> QED BY <1>1, <1>3, <2>1, <3>2, <3>4
    <2>3. r.mask = c - 1 /\ r.mask \in Nat
      BY <1>1, <1>3
    <2>4. /\ r.head \in 0 .. r.mask /\ r.tail \in 0 .. r.mask
          /\ r.size \in 0 .. r.mask + 1 /\ r.arr \in [0 .. r.mask -> V]
      BY <1>1, <1>3, <1>4, <2>1, <2>2, <2>3
    <2> QED BY <1>3, <2>1, <2>2, <2>3, <2>4 DEF RingOf
  <1>6. ASSUME NEW i \in 1 .. r.size
        PROVE  Nth(r, i) = Nth(q, i + 1)
    <2>1. /\ Wrap(r.head + i - 1, c) = Wrap(q.head + (i + 1) - 1, c)
          /\ Wrap(r.head + i - 1, c) \in 0 .. c - 1
          /\ Wrap(r.head + i - 1, c) # q.head
      <3>1. /\ i - 1 \in 0 .. c - 1 /\ i - 1 # c - 1
            /\ q.head + (i + 1) - 1 = q.head + ((i - 1) + 1)
        BY <1>1, <1>3
      <3>2. Wrap(q.head + 1, c) + i - 1 = Wrap(q.head + 1, c) + (i - 1)
        BY <1>1, <1>3 DEF RingOf, Wrap
      <3> DEFINE n == i - 1
      <3>3. n \in 0 .. c - 1 /\ n # c - 1
        BY <3>1
      <3> HIDE DEF n
      <3>4. /\ Wrap(Wrap(q.head + 1, c) + n, c) = Wrap(q.head + (n + 1), c)
            /\ Wrap(q.head + (n + 1), c) \in 0 .. c - 1
            /\ Wrap(q.head + (n + 1), c) # q.head
        BY <1>1, <3>3, WrapNext
      <3> QED BY <1>3, <3>1, <3>2, <3>4 DEF n
    <2>2. r.mask + 1 = c /\ q.mask + 1 = c
      BY <1>1, <1>3
    <2> QED BY <1>3, <1>4, <2>1, <2>2 DEF Nth
  <1>7. Adapter!Peek(q) = Nth(q, 1) /\ Adapter!Peek(q) \in V
    <2>1. q.mask + 1 = c /\ q.head + 1 - 1 = q.head /\ q.head < c
      BY <1>1
    <2> QED BY <1>1, <2>1 DEF Adapter!Peek, Nth, Wrap
  <1> QED BY <1>3, <1>5, <1>6, <1>7 DEF r

(* What Contents lists. *)
LEMMA ContentsRing ==
  ASSUME NEW V, NEW q, RingOf(q, V)
  PROVE  /\ Adapter!Contents(q) \in Seq(V) /\ Len(Adapter!Contents(q)) = q.size
         /\ \A i \in 1 .. q.size : Adapter!Contents(q)[i] = Nth(q, i)
  <1> DEFINE c == q.mask + 1
  <1>1. /\ c \in Nat \ {0} /\ q.mask = c - 1 /\ q.head \in 0 .. c - 1
        /\ q.size \in 0 .. c /\ q.arr \in [0 .. c - 1 -> V]
    BY DEF RingOf
  <1>2. ASSUME NEW i \in 1 .. q.size
        PROVE  /\ (q.head + i - 1) % (q.mask + 1) = Wrap(q.head + i - 1, q.mask + 1)
               /\ Nth(q, i) \in V
    <2>1. q.head + i - 1 \in Nat /\ q.head + i - 1 < 2 * c
      BY <1>1
    <2>2. (q.head + i - 1) % c = Wrap(q.head + i - 1, c)
      <3> HIDE DEF c
      <3> QED BY <1>1, <2>1, ModWrap
    <2>3. Wrap(q.head + i - 1, c) \in 0 .. c - 1
      BY <1>1, <2>1 DEF Wrap
    <2> QED BY <1>1, <2>2, <2>3 DEF Nth
  <1>3. Adapter!Contents(q) = [i \in 1 .. q.size |-> Nth(q, i)]
    BY <1>2 DEF Adapter!Contents, Nth
  <1>4. [i \in 1 .. q.size |-> Nth(q, i)] \in [1 .. q.size -> V]
    BY <1>2
  <1>5. \A s \in [1 .. q.size -> V] : s \in Seq(V) /\ Len(s) = q.size
    BY <1>1
  <1> QED BY <1>3, <1>4, <1>5
-----------------------------------------------------------------------------
(* Sequences *)

LEMMA AppendFacts ==
  ASSUME NEW S, NEW s \in Seq(S), NEW x \in S
  PROVE  /\ Append(s, x) \in Seq(S) /\ Len(Append(s, x)) = Len(s) + 1
         /\ \A i \in 1 .. Len(s) : Append(s, x)[i] = s[i]
         /\ Append(s, x)[Len(s) + 1] = x
         /\ \A y : Cast!InSeq(Append(s, x), y) <=> Cast!InSeq(s, y) \/ y = x
  <1> DEFINE t == Append(s, x)
  <1>1. /\ t \in Seq(S) /\ Len(t) = Len(s) + 1 /\ Len(s) \in Nat
        /\ \A i \in 1 .. Len(s) : t[i] = s[i]
        /\ t[Len(s) + 1] = x
        /\ DOMAIN s = 1 .. Len(s) /\ DOMAIN t = 1 .. Len(s) + 1
    OBVIOUS
  <1> HIDE DEF t
  <1>2. DOMAIN t = DOMAIN s \cup {Len(s) + 1}
    BY <1>1
  <1>3. \A y : Cast!InSeq(t, y) <=> Cast!InSeq(s, y) \/ y = x
    BY <1>1, <1>2 DEF Cast!InSeq
  <1> QED BY <1>1, <1>3 DEF t

LEMMA TailFacts ==
  ASSUME NEW S, NEW s \in Seq(S), s # <<>>
  PROVE  /\ Tail(s) \in Seq(S) /\ Len(Tail(s)) = Len(s) - 1 /\ Len(s) > 0
         /\ Head(s) \in S /\ Head(s) = s[1]
         /\ \A i \in 1 .. Len(s) - 1 : Tail(s)[i] = s[i + 1]
         /\ \A y : Cast!InSeq(s, y) <=> y = Head(s) \/ Cast!InSeq(Tail(s), y)
  <1> DEFINE t == Tail(s)
             x == Head(s)
  <1>1. /\ t \in Seq(S) /\ Len(t) = Len(s) - 1 /\ Len(s) > 0 /\ Len(s) \in Nat
        /\ x \in S /\ x = s[1]
        /\ \A i \in 1 .. Len(s) - 1 : t[i] = s[i + 1]
        /\ DOMAIN s = 1 .. Len(s) /\ DOMAIN t = 1 .. Len(s) - 1
    OBVIOUS
  <1> HIDE DEF t, x
  <1>2. ASSUME NEW y PROVE Cast!InSeq(s, y) <=> y = x \/ Cast!InSeq(t, y)
    <2>1. ASSUME NEW i \in DOMAIN s, s[i] = y PROVE y = x \/ Cast!InSeq(t, y)
      <3>1. i = 1 \/ (i - 1 \in DOMAIN t /\ t[i - 1] = s[i])
        BY <1>1
      <3> QED BY <1>1, <2>1, <3>1 DEF Cast!InSeq
    <2>2. y = x => Cast!InSeq(s, y)
      <3>1. 1 \in DOMAIN s
        BY <1>1
      <3> QED BY <1>1, <3>1 DEF Cast!InSeq
    <2>3. ASSUME NEW i \in DOMAIN t, t[i] = y PROVE Cast!InSeq(s, y)
      <3>1. i + 1 \in DOMAIN s /\ s[i + 1] = y
        BY <1>1, <2>3
      <3> QED BY <3>1 DEF Cast!InSeq
    <2> QED BY <2>1, <2>2, <2>3 DEF Cast!InSeq
  <1> QED BY <1>1, <1>2 DEF t, x
-----------------------------------------------------------------------------
(* The adapters *)

(* The number of values in the forwarder's hand. *)
InHand == IF at \in {"select", "send"} THEN 1 ELSE 0

WordsOK ==
  /\ sent \in 0 .. MaxValues /\ received \in Seq(1 .. sent)
  /\ ordered \in BOOLEAN /\ offer \in BOOLEAN /\ inClosed \in BOOLEAN
  /\ wants \in BOOLEAN /\ outClosed \in BOOLEAN
  /\ at \in {"recv", "select", "drain", "send", "end"}
  /\ hand \in 0 .. sent /\ buf \in Seq(1 .. sent)
  /\ RingOf(ring, 0 .. sent)

(* Which words matter at which control point.                              *)
Stages ==
  /\ at = "select" => ~ordered /\ hand \in 1 .. sent
  /\ at = "send" => ordered /\ hand \in 1 .. sent
  /\ at \in {"drain", "send", "end"} => inClosed
  /\ inClosed => ~offer
  /\ offer => sent < MaxValues
  /\ outClosed <=> at = "end"
  /\ at = "end" => buf = <<>> /\ ring.size = 0
  /\ ordered => buf = <<>>
  /\ ~ordered => ring.size = 0

(* What has been received, the hand and the ring hold 1, 2, 3, ..., sent.  *)
InOrder ==
  /\ Len(received) + InHand + ring.size = sent
  /\ \A i \in 1 .. Len(received) : received[i] = i
  /\ at = "send" => hand = Len(received) + 1
  /\ \A i \in 1 .. ring.size : Nth(ring, i) = Len(received) + InHand + i

(* They and buf hold each of 1 .. sent.                                    *)
InSomeOrder ==
  /\ Len(received) + InHand + Len(buf) = sent
  /\ \A k \in 1 .. sent :
       \/ Cast!InSeq(received, k) \/ Cast!InSeq(buf, k)
       \/ at = "select" /\ hand = k

AdapterInv ==
  /\ WordsOK /\ Stages
  /\ ordered => InOrder
  /\ ~ordered => InSomeOrder

LEMMA RingMore ==
  ASSUME NEW V, NEW W, V \subseteq W, NEW q, RingOf(q, V)
  PROVE  RingOf(q, W)
  BY DEF RingOf

LEMMA AdapterStart == Adapter!Init => AdapterInv
  <1> SUFFICES ASSUME Adapter!Init PROVE AdapterInv
    OBVIOUS
  <1> USE FeedsAssumption DEF Adapter!Init, Adapter!zero
  <1>1. RingOf(ring, 0 .. sent) /\ ring.size = 0
    BY NewRing
  <1>2. WordsOK
    <2>1. 0 \in 0 .. MaxValues /\ hand \in 0 .. sent
      OBVIOUS
    <2>2. received \in Seq(1 .. sent) /\ buf \in Seq(1 .. sent)
      OBVIOUS
    <2>3. at \in {"recv", "select", "drain", "send", "end"}
      OBVIOUS
    <2>4. /\ ordered \in BOOLEAN /\ offer \in BOOLEAN /\ inClosed \in BOOLEAN
          /\ wants \in BOOLEAN /\ outClosed \in BOOLEAN
      OBVIOUS
    <2> QED BY <1>1, <2>1, <2>2, <2>3, <2>4 DEF WordsOK
  <1>a. Stages
    BY <1>1 DEF Stages
  <1>3. InOrder /\ InSomeOrder
    BY <1>1 DEF InOrder, InSomeOrder, InHand
  <1> QED BY <1>2, <1>a, <1>3 DEF AdapterInv

(* A value is taken from the sender: 1 .. sent grows by sent + 1.          *)
LEMMA TakeFacts ==
  ASSUME WordsOK, Stages, Adapter!Take
  PROVE  /\ offer /\ offer' = FALSE /\ ~inClosed /\ sent' = sent + 1 /\ sent' \in 0 .. MaxValues
         /\ sent \in Nat /\ sent' \in 1 .. sent' /\ 1 .. sent \subseteq 1 .. sent'
         /\ 0 .. sent \subseteq 0 .. sent'
         /\ received \in Seq(1 .. sent') /\ buf \in Seq(1 .. sent')
         /\ RingOf(ring, 0 .. sent')
  <1>1. /\ offer /\ offer' = FALSE /\ ~inClosed /\ sent' = sent + 1
        /\ sent' \in 0 .. MaxValues /\ sent \in Nat
    BY FeedsAssumption DEF WordsOK, Stages, Adapter!Take
  <1>2. 1 .. sent \subseteq 1 .. sent' /\ 0 .. sent \subseteq 0 .. sent' /\ sent' \in 1 .. sent'
    BY <1>1
  <1>3. received \in Seq(1 .. sent') /\ buf \in Seq(1 .. sent')
    BY <1>2, SeqMonotonic DEF WordsOK
  <1>4. RingOf(ring, 0 .. sent')
    BY <1>2, RingMore DEF WordsOK
  <1> QED BY <1>1, <1>2, <1>3, <1>4

LEMMA RangeStep ==
  ASSUME AdapterInv, Adapter!Range
  PROVE  AdapterInv'
  <1> USE DEF Adapter!Range, Adapter!Goto, Adapter!Receiver
  <1>1. /\ WordsOK /\ Stages /\ ~ordered /\ ~ordered' /\ at = "recv" /\ at' = "select"
        /\ hand' = sent' /\ InSomeOrder
        /\ UNCHANGED <<inClosed, received, wants, outClosed, buf, ring>>
    BY DEF AdapterInv
  <1>2. Adapter!Take
    OBVIOUS
  <1>3. WordsOK'
    BY <1>1, <1>2, TakeFacts DEF WordsOK
  <1>4. Stages'
    <2>1. ~offer' /\ ~inClosed /\ sent' \in 1 .. sent'
      BY <1>1, <1>2, TakeFacts
    <2> QED BY <1>1, <2>1 DEF Stages
  <1>5. InSomeOrder'
    <2>1. Len(received) \in Nat /\ Len(buf) \in Nat
      BY <1>1 DEF WordsOK
    <2>2. Len(received') + InHand' + Len(buf') = sent'
      BY <1>1, <1>2, <2>1, TakeFacts DEF InSomeOrder, InHand
    <2>3. \A k \in 1 .. sent' : k \in 1 .. sent \/ k = sent'
      BY <1>1, <1>2, TakeFacts
    <2> QED BY <1>1, <2>2, <2>3 DEF InSomeOrder
  <1> QED BY <1>1, <1>3, <1>4, <1>5 DEF AdapterInv

LEMMA ReceiveStep ==
  ASSUME AdapterInv, Adapter!Receive
  PROVE  AdapterInv'
  <1> USE DEF Adapter!Receive, Adapter!Goto, Adapter!Receiver
  <1>1. /\ WordsOK /\ Stages /\ ordered /\ ordered' /\ at = "recv" /\ at' = "recv"
        /\ ring' = Adapter!Push(ring, sent') /\ InOrder
        /\ UNCHANGED <<inClosed, received, wants, outClosed, hand, buf>>
    BY DEF AdapterInv, WordsOK
  <1>2. Adapter!Take
    OBVIOUS
  <1>3. /\ RingOf(ring', 0 .. sent') /\ ring'.size = ring.size + 1
        /\ \A i \in 1 .. ring.size : Nth(ring', i) = Nth(ring, i)
        /\ Nth(ring', ring'.size) = sent'
    <2>1. RingOf(ring, 0 .. sent') /\ 0 \in 0 .. sent' /\ sent' \in 0 .. sent'
      BY <1>1, <1>2, TakeFacts
    <2>2. LET r == Adapter!Push(ring, sent')
          IN  /\ RingOf(r, 0 .. sent') /\ r.size = ring.size + 1
              /\ \A i \in 1 .. ring.size : Nth(r, i) = Nth(ring, i)
              /\ Nth(r, r.size) = sent'
      <3> DEFINE V == 0 .. sent'
                 x == sent'
      <3>1. RingOf(ring, V) /\ 0 \in V /\ x \in V
        BY <2>1
      <3>2. LET r == Adapter!Push(ring, x)
            IN  /\ RingOf(r, V) /\ r.size = ring.size + 1
                /\ \A i \in 1 .. ring.size : Nth(r, i) = Nth(ring, i)
                /\ Nth(r, r.size) = x
        <4> HIDE DEF V, x
        <4> QED BY <3>1, PushRing
      <3> QED BY <3>2
    <2> QED BY <1>1, <2>2
  <1>4. WordsOK'
    BY <1>1, <1>2, <1>3, TakeFacts DEF WordsOK
  <1>5. Stages'
    <2>1. ~offer' /\ ~inClosed
      BY <1>1, <1>2, TakeFacts
    <2> QED BY <1>1, <2>1 DEF Stages
  <1>6. InOrder'
    <2>1. Len(received) \in Nat /\ ring.size \in Nat
      BY <1>1 DEF WordsOK, RingOf
    <2>2. /\ InHand = 0 /\ InHand' = 0 /\ Len(received) + 0 + ring.size = sent
          /\ sent' = sent + 1
      BY <1>1, <1>2, TakeFacts DEF InOrder, InHand
    <2>3. Len(received') + InHand' + ring'.size = sent'
      BY <1>1, <1>3, <2>1, <2>2
    <2>4. ASSUME NEW i \in 1 .. ring'.size
          PROVE  Nth(ring', i) = Len(received') + InHand' + i
      <3>1. i \in 1 .. ring.size \/ i = ring'.size
        BY <1>3, <2>1
      <3>2. CASE i \in 1 .. ring.size
        BY <1>1, <1>3, <2>2, <3>2 DEF InOrder
      <3>3. CASE i = ring'.size
        BY <1>1, <1>3, <2>1, <2>2, <3>3
      <3> QED BY <3>1, <3>2, <3>3
    <2> QED BY <1>1, <2>3, <2>4 DEF InOrder
  <1> QED BY <1>1, <1>4, <1>5, <1>6 DEF AdapterInv

(* A value is given to the receiver.                                       *)
LEMMA GiveFacts ==
  ASSUME WordsOK, NEW x, x \in 1 .. sent, Adapter!Give(x)
  PROVE  /\ wants' = FALSE /\ received' \in Seq(1 .. sent)
         /\ Len(received') = Len(received) + 1 /\ Len(received) \in Nat
         /\ \A i \in 1 .. Len(received) : received'[i] = received[i]
         /\ received'[Len(received) + 1] = x
         /\ \A y : Cast!InSeq(received', y) <=> Cast!InSeq(received, y) \/ y = x
  <1>1. received \in Seq(1 .. sent) /\ received' = Append(received, x) /\ wants' = FALSE
    BY DEF WordsOK, Adapter!Give
  <1>2. Len(received) \in Nat
    BY <1>1
  <1>3. received' \in Seq(1 .. sent) /\ Len(received') = Len(received) + 1
    BY <1>1, AppendFacts
  <1>4. /\ \A i \in 1 .. Len(received) : received'[i] = received[i]
        /\ received'[Len(received) + 1] = x
    BY <1>1
  <1>5. ASSUME NEW y
        PROVE  Cast!InSeq(received', y) <=> Cast!InSeq(received, y) \/ y = x
    <2>1. Cast!InSeq(Append(received, x), y) <=> Cast!InSeq(received, y) \/ y = x
      BY <1>1, AppendFacts
    <2>2. received' = Append(received, x)
      BY <1>1
    <2> QED BY <2>1, <2>2
  <1> QED BY <1>1, <1>2, <1>3, <1>4, <1>5

LEMMA SendOrKeepStep ==
  ASSUME AdapterInv, Adapter!SendOrKeep
  PROVE  AdapterInv'
  <1> USE DEF Adapter!SendOrKeep, Adapter!Goto, Adapter!Receiver, Adapter!Sender,
              Adapter!zero
  <1>1. /\ WordsOK /\ Stages /\ at = "select" /\ at' = "recv"
        /\ ~ordered /\ ~ordered' /\ hand \in 1 .. sent /\ hand' = 0 /\ InSomeOrder
        /\ UNCHANGED <<sent, offer, inClosed, outClosed, ring>>
    BY DEF AdapterInv, Stages
  <1>2. Len(received) \in Nat /\ Len(buf) \in Nat /\ sent \in Nat
        /\ InHand = 1 /\ InHand' = 0 /\ Len(received) + 1 + Len(buf) = sent
    BY <1>1 DEF WordsOK, InSomeOrder, InHand
  <1>3. CASE Adapter!Give(hand) /\ UNCHANGED buf
    <2>1. /\ wants' = FALSE /\ received' \in Seq(1 .. sent)
          /\ Len(received') = Len(received) + 1
          /\ \A y : Cast!InSeq(received', y) <=> Cast!InSeq(received, y) \/ y = hand
      BY <1>1, <1>3, GiveFacts
    <2>2. WordsOK'
      <3>1. hand' \in 0 .. sent'
        BY <1>1, <1>2
      <3>2. /\ received' \in Seq(1 .. sent') /\ buf' \in Seq(1 .. sent')
            /\ RingOf(ring', 0 .. sent')
        BY <1>1, <1>3, <2>1 DEF WordsOK
      <3>3. /\ sent' \in 0 .. MaxValues
            /\ ordered' \in BOOLEAN /\ offer' \in BOOLEAN /\ inClosed' \in BOOLEAN
            /\ wants' \in BOOLEAN /\ outClosed' \in BOOLEAN
            /\ at' \in {"recv", "select", "drain", "send", "end"}
        BY <1>1, <2>1 DEF WordsOK
      <3> QED BY <3>1, <3>2, <3>3 DEF WordsOK
    <2>3. Stages'
      BY <1>1, <1>3 DEF Stages
    <2>4. InSomeOrder'
      BY <1>1, <1>2, <1>3, <2>1 DEF InSomeOrder
    <2> QED BY <1>1, <2>2, <2>3, <2>4 DEF AdapterInv
  <1>4. CASE ~wants /\ buf' = Append(buf, hand) /\ UNCHANGED <<received, wants>>
    <2>1. /\ buf' \in Seq(1 .. sent) /\ Len(buf') = Len(buf) + 1
          /\ \A y : Cast!InSeq(buf', y) <=> Cast!InSeq(buf, y) \/ y = hand
      BY <1>1, <1>4, AppendFacts DEF WordsOK
    <2>2. WordsOK'
      BY <1>1, <1>2, <1>4, <2>1 DEF WordsOK
    <2>3. Stages'
      BY <1>1, <1>4 DEF Stages
    <2>4. InSomeOrder'
      BY <1>1, <1>2, <1>4, <2>1 DEF InSomeOrder
    <2> QED BY <1>1, <2>2, <2>3, <2>4 DEF AdapterInv
  <1> QED BY <1>3, <1>4

LEMMA FlushStep ==
  ASSUME AdapterInv, Adapter!Flush
  PROVE  AdapterInv'
  <1> USE DEF Adapter!Flush, Adapter!Goto, Adapter!Sender
  <1>1. /\ WordsOK /\ Stages /\ at = "drain" /\ at' = "drain" /\ buf # <<>>
        /\ ~ordered /\ ~ordered' /\ InSomeOrder /\ buf' = Tail(buf)
        /\ UNCHANGED <<sent, offer, inClosed, outClosed, hand, ring>>
    BY DEF AdapterInv
  <1>2. /\ buf' \in Seq(1 .. sent) /\ Len(buf') = Len(buf) - 1
        /\ Head(buf) \in 1 .. sent /\ Len(buf) \in Nat
        /\ \A y : Cast!InSeq(buf, y) <=> y = Head(buf) \/ Cast!InSeq(buf', y)
    BY <1>1, TailFacts DEF WordsOK
  <1>3. /\ wants' = FALSE /\ received' \in Seq(1 .. sent) /\ Len(received) \in Nat
        /\ Len(received') = Len(received) + 1
        /\ \A y : Cast!InSeq(received', y) <=> Cast!InSeq(received, y) \/ y = Head(buf)
    BY <1>1, <1>2, GiveFacts
  <1>4. WordsOK'
    BY <1>1, <1>2, <1>3 DEF WordsOK
  <1>5. Stages'
    BY <1>1 DEF Stages
  <1>6. InSomeOrder'
    BY <1>1, <1>2, <1>3 DEF InSomeOrder, InHand
  <1> QED BY <1>1, <1>4, <1>5, <1>6 DEF AdapterInv

(* Pop of a ring in use. *)
LEMMA PopFacts ==
  ASSUME WordsOK, InOrder, ring.size > 0, ring' = Adapter!Pop(ring)
  PROVE  /\ RingOf(ring', 0 .. sent) /\ ring'.size = ring.size - 1 /\ ring.size \in Nat
         /\ \A i \in 1 .. ring'.size :
              Nth(ring', i) = Len(received) + InHand + 1 + i
         /\ Adapter!Peek(ring) = Len(received) + InHand + 1
         /\ Adapter!Peek(ring) \in 1 .. sent
  <1>1. RingOf(ring, 0 .. sent) /\ 0 \in 0 .. sent /\ sent \in Nat /\ ring.size \in Nat
        /\ Len(received) \in Nat /\ InHand \in Nat
    BY FeedsAssumption DEF WordsOK, RingOf, InHand
  <1>2. /\ RingOf(ring', 0 .. sent) /\ ring'.size = ring.size - 1
        /\ \A i \in 1 .. ring'.size : Nth(ring', i) = Nth(ring, i + 1)
        /\ Adapter!Peek(ring) = Nth(ring, 1)
    <2>1. LET r == Adapter!Pop(ring)
          IN  /\ RingOf(r, 0 .. sent) /\ r.size = ring.size - 1
              /\ \A i \in 1 .. r.size : Nth(r, i) = Nth(ring, i + 1)
              /\ Adapter!Peek(ring) = Nth(ring, 1) /\ Adapter!Peek(ring) \in 0 .. sent
      BY <1>1, PopRing
    <2> QED BY <2>1
  <1>3. \A i \in 1 .. ring.size : Nth(ring, i) = Len(received) + InHand + i
    BY DEF InOrder
  <1>4. \A i \in 1 .. ring'.size : Nth(ring', i) = Len(received) + InHand + 1 + i
    <2>1. \A i \in 1 .. ring'.size : i + 1 \in 1 .. ring.size
      BY <1>1, <1>2
    <2> QED BY <1>1, <1>2, <1>3, <2>1
  <1>5. /\ Adapter!Peek(ring) = Len(received) + InHand + 1
        /\ Adapter!Peek(ring) \in 1 .. sent
    <2>1. 1 \in 1 .. ring.size
      BY <1>1
    <2>2. Len(received) + InHand + ring.size = sent
      BY DEF InOrder
    <2> QED BY <1>1, <1>2, <1>3, <2>1, <2>2
  <1> QED BY <1>1, <1>2, <1>4, <1>5

LEMMA SendStep ==
  ASSUME AdapterInv, Adapter!Send
  PROVE  AdapterInv'
  <1>1. /\ WordsOK /\ Stages /\ ordered /\ ordered' /\ at = "recv" /\ at' = "recv"
        /\ ring.size > 0 /\ ring' = Adapter!Pop(ring) /\ InOrder
        /\ Adapter!Give(Adapter!Peek(ring))
        /\ UNCHANGED <<sent, offer, inClosed, outClosed, hand, buf>>
    BY DEF AdapterInv, WordsOK, Adapter!Send, Adapter!Goto, Adapter!Sender
  <1> DEFINE x == Adapter!Peek(ring)
  <1>2. InHand = 0 /\ InHand' = 0
    BY <1>1 DEF InHand
  <1>3. /\ RingOf(ring', 0 .. sent) /\ ring'.size = ring.size - 1 /\ ring.size \in Nat
        /\ \A i \in 1 .. ring'.size : Nth(ring', i) = Len(received) + InHand + 1 + i
        /\ x = Len(received) + InHand + 1
        /\ x \in 1 .. sent
    BY <1>1, PopFacts
  <1>4. Adapter!Give(x)
    BY <1>1
  <1> HIDE DEF x
  <1>5. /\ wants' = FALSE /\ received' \in Seq(1 .. sent)
        /\ Len(received') = Len(received) + 1 /\ Len(received) \in Nat
        /\ \A i \in 1 .. Len(received) : received'[i] = received[i]
        /\ received'[Len(received) + 1] = x
    BY <1>1, <1>3, <1>4, GiveFacts
  <1>6. WordsOK'
    BY <1>1, <1>3, <1>5 DEF WordsOK
  <1>7. Stages'
    BY <1>1 DEF Stages
  <1>8. InOrder'
    <2>1. /\ \A i \in 1 .. Len(received) : received[i] = i
          /\ x = Len(received) + 1
      BY <1>1, <1>2, <1>3, <1>5 DEF InOrder
    <2>2. Len(received') + InHand' + ring'.size = sent'
      <3>1. /\ Len(received) + 0 + ring.size = sent
            /\ sent' = sent /\ Len(received') = Len(received) + 1 /\ InHand' = 0
            /\ ring'.size = ring.size - 1 /\ ring.size \in Nat /\ Len(received) \in Nat
        BY <1>1, <1>2, <1>3, <1>5 DEF InOrder
      <3> QED BY <3>1
    <2>3. \A i \in 1 .. Len(received') : received'[i] = i
      BY <1>5, <2>1
    <2>4. \A i \in 1 .. ring'.size : Nth(ring', i) = Len(received') + InHand' + i
      BY <1>2, <1>3, <1>5
    <2> QED BY <1>1, <2>2, <2>3, <2>4 DEF InOrder
  <1> QED BY <1>1, <1>6, <1>7, <1>8 DEF AdapterInv

LEMMA PopLastStep ==
  ASSUME AdapterInv, Adapter!PopLast
  PROVE  AdapterInv'
  <1>1. /\ WordsOK /\ Stages /\ ordered /\ ordered' /\ at = "drain" /\ at' = "send"
        /\ ring.size > 0 /\ ring' = Adapter!Pop(ring) /\ InOrder
        /\ hand' = Adapter!Peek(ring)
        /\ UNCHANGED <<sent, offer, inClosed, received, wants, outClosed, buf>>
    BY DEF AdapterInv, WordsOK, Adapter!PopLast, Adapter!Goto, Adapter!Sender,
           Adapter!Receiver
  <1>2. InHand = 0 /\ InHand' = 1 /\ Len(received) \in Nat
    BY <1>1 DEF InHand, WordsOK
  <1>3. /\ RingOf(ring', 0 .. sent) /\ ring'.size = ring.size - 1 /\ ring.size \in Nat
        /\ \A i \in 1 .. ring'.size : Nth(ring', i) = Len(received) + InHand + 1 + i
        /\ hand' = Len(received) + InHand + 1
        /\ hand' \in 1 .. sent
    BY <1>1, PopFacts
  <1>4. WordsOK'
    BY <1>1, <1>3 DEF WordsOK
  <1>5. Stages'
    BY <1>1, <1>3 DEF Stages
  <1>6. InOrder'
    <2>1. \A i \in 1 .. Len(received) : received[i] = i
      BY <1>1 DEF InOrder
    <2>2. Len(received') + InHand' + ring'.size = sent'
      <3>1. /\ Len(received) + 0 + ring.size = sent
            /\ sent' = sent /\ received' = received /\ InHand' = 1
            /\ ring'.size = ring.size - 1 /\ ring.size \in Nat /\ Len(received) \in Nat
        BY <1>1, <1>2, <1>3 DEF InOrder
      <3> QED BY <3>1
    <2>3. hand' = Len(received') + 1
      BY <1>1, <1>2, <1>3
    <2>4. \A i \in 1 .. ring'.size : Nth(ring', i) = Len(received') + InHand' + i
      BY <1>1, <1>2, <1>3
    <2> QED BY <1>1, <2>1, <2>2, <2>3, <2>4 DEF InOrder
  <1> QED BY <1>1, <1>4, <1>5, <1>6 DEF AdapterInv

LEMMA SendLastStep ==
  ASSUME AdapterInv, Adapter!SendLast
  PROVE  AdapterInv'
  <1> USE DEF Adapter!SendLast, Adapter!Goto, Adapter!Sender, Adapter!zero
  <1>1. /\ WordsOK /\ Stages /\ ordered /\ ordered' /\ at = "send" /\ at' = "drain"
        /\ Adapter!Give(hand) /\ hand \in 1 .. sent /\ hand' = 0 /\ InOrder
        /\ UNCHANGED <<sent, offer, inClosed, outClosed, buf, ring>>
    BY DEF AdapterInv, WordsOK, Stages
  <1>2. InHand = 1 /\ InHand' = 0 /\ sent \in Nat /\ ring.size \in Nat
    BY <1>1 DEF InHand, WordsOK, RingOf
  <1>3. /\ wants' = FALSE /\ received' \in Seq(1 .. sent)
        /\ Len(received') = Len(received) + 1 /\ Len(received) \in Nat
        /\ \A i \in 1 .. Len(received) : received'[i] = received[i]
        /\ received'[Len(received) + 1] = hand
    BY <1>1, GiveFacts
  <1>4. WordsOK'
    <2>1. hand' \in 0 .. sent'
      BY <1>1, <1>2
    <2>2. /\ sent' \in 0 .. MaxValues /\ received' \in Seq(1 .. sent')
          /\ buf' \in Seq(1 .. sent') /\ RingOf(ring', 0 .. sent')
      BY <1>1, <1>3 DEF WordsOK
    <2>3. /\ ordered' \in BOOLEAN /\ offer' \in BOOLEAN /\ inClosed' \in BOOLEAN
          /\ wants' \in BOOLEAN /\ outClosed' \in BOOLEAN
          /\ at' \in {"recv", "select", "drain", "send", "end"}
      BY <1>1, <1>3 DEF WordsOK
    <2> QED BY <2>1, <2>2, <2>3 DEF WordsOK
  <1>5. Stages'
    BY <1>1 DEF Stages
  <1>6. InOrder'
    <2>1. /\ Len(received) + InHand + ring.size = sent
          /\ \A i \in 1 .. Len(received) : received[i] = i
          /\ hand = Len(received) + 1
          /\ \A i \in 1 .. ring.size : Nth(ring, i) = Len(received) + InHand + i
      BY <1>1 DEF InOrder
    <2>2. Len(received') + InHand' + ring'.size = sent'
      BY <1>1, <1>2, <1>3, <2>1
    <2>3. \A i \in 1 .. Len(received') : received'[i] = i
      BY <1>3, <2>1
    <2>4. \A i \in 1 .. ring'.size : Nth(ring', i) = Len(received') + InHand' + i
      BY <1>1, <1>2, <1>3, <2>1
    <2> QED BY <1>1, <2>2, <2>3, <2>4 DEF InOrder
  <1> QED BY <1>1, <1>4, <1>5, <1>6 DEF AdapterInv

(* The steps that move no value. *)
LEMMA OtherAdapterSteps ==
  ASSUME AdapterInv,
         \/ Adapter!InputEnds \/ Adapter!CloseOut
         \/ Adapter!Offer \/ Adapter!CloseIn
         \/ Adapter!Want \/ Adapter!ReceiveClosed \/ UNCHANGED adapterVars
  PROVE  AdapterInv'
  <1> USE DEF Adapter!InputEnds, Adapter!CloseOut, Adapter!Offer, Adapter!CloseIn,
              Adapter!Want, Adapter!ReceiveClosed, Adapter!Goto, Adapter!Sender,
              Adapter!Receiver, adapterVars
  <1>1. /\ UNCHANGED <<ordered, sent, received, hand, buf, ring>> /\ InHand' = InHand
        /\ at' = at \/ at' \in {"drain", "end"}
        /\ WordsOK /\ Stages
    BY DEF InHand, AdapterInv
  <1>2. WordsOK'
    <2>1. /\ ordered' \in BOOLEAN /\ offer' \in BOOLEAN /\ inClosed' \in BOOLEAN
          /\ wants' \in BOOLEAN /\ outClosed' \in BOOLEAN
      BY <1>1 DEF WordsOK
    <2>2. at' \in {"recv", "select", "drain", "send", "end"}
      BY <1>1 DEF WordsOK
    <2> QED BY <1>1, <2>1, <2>2 DEF WordsOK
  <1>3. Stages'
    <2>1. /\ at' = "select" => at = "select"
          /\ at' = "send" => at = "send"
          /\ at' \in {"drain", "send", "end"} => inClosed'
      BY <1>1 DEF Stages
    <2>2. /\ inClosed' => ~offer'
          /\ offer' => sent' < MaxValues
          /\ outClosed' <=> at' = "end"
          /\ at' = "end" => buf' = <<>> /\ ring'.size = 0
      BY <1>1 DEF Stages
    <2> QED BY <1>1, <2>1, <2>2 DEF Stages
  <1>4. (ordered => InOrder) => (ordered' => InOrder')
    BY <1>1 DEF InOrder
  <1>5. (~ordered => InSomeOrder) => (~ordered' => InSomeOrder')
    <2>1. at' = "select" <=> at = "select"
      BY <1>1 DEF InHand
    <2> QED BY <1>1, <2>1 DEF InSomeOrder
  <1> QED BY <1>2, <1>3, <1>4, <1>5 DEF AdapterInv

LEMMA AdapterStep ==
  ASSUME AdapterInv, Adapter!Next \/ UNCHANGED adapterVars
  PROVE  AdapterInv'
  BY RangeStep, SendOrKeepStep, FlushStep, ReceiveStep, SendStep, PopLastStep,
     SendLastStep, OtherAdapterSteps DEF Adapter!Next, Adapter!Forward

LEMMA ThreeParts ==
  ASSUME NEW S, NEW a \in Seq(S), NEW b \in Seq(S), NEW c \in Seq(S),
         NEW t, t = a \o (b \o c)
  PROVE  /\ Len(t) = Len(a) + Len(b) + Len(c)
         /\ \A i \in 1 .. Len(a) : t[i] = a[i]
         /\ \A i \in 1 .. Len(b) : t[Len(a) + i] = b[i]
         /\ \A i \in 1 .. Len(c) : t[Len(a) + Len(b) + i] = c[i]
  <1> DEFINE d == b \o c
  <1>1. /\ d \in Seq(S) /\ Len(d) = Len(b) + Len(c)
        /\ \A i \in 1 .. Len(b) + Len(c) :
             d[i] = IF i <= Len(b) THEN b[i] ELSE c[i - Len(b)]
    BY ConcatProperties
  <1>2. Len(a) \in Nat /\ Len(b) \in Nat /\ Len(c) \in Nat
    OBVIOUS
  <1>a. t = a \o d
    OBVIOUS
  <1> HIDE DEF d
  <1>b. d \in Seq(S)
    BY <1>1
  <1>c. /\ Len(a \o d) = Len(a) + Len(d)
        /\ \A i \in 1 .. Len(a) + Len(d) :
             (a \o d)[i] = IF i <= Len(a) THEN a[i] ELSE d[i - Len(a)]
    BY <1>b, ConcatProperties
  <1>3. /\ Len(t) = Len(a) + Len(d)
        /\ \A i \in 1 .. Len(a) + Len(d) :
             t[i] = IF i <= Len(a) THEN a[i] ELSE d[i - Len(a)]
    BY <1>a, <1>c
  <1>4. \A i \in 1 .. Len(a) : t[i] = a[i]
    BY <1>1, <1>2, <1>3
  <1>5. ASSUME NEW i \in 1 .. Len(b) PROVE t[Len(a) + i] = b[i]
    <2>1. Len(a) + i \in 1 .. Len(a) + Len(d) /\ ~(Len(a) + i <= Len(a))
          /\ Len(a) + i - Len(a) = i /\ i \in 1 .. Len(b) + Len(c) /\ i <= Len(b)
      BY <1>1, <1>2
    <2> QED BY <1>1, <1>3, <2>1
  <1>6. ASSUME NEW i \in 1 .. Len(c) PROVE t[Len(a) + Len(b) + i] = c[i]
    <2> DEFINE j == Len(b) + i
    <2>1. /\ Len(a) + Len(b) + i = Len(a) + j
          /\ Len(a) + j \in 1 .. Len(a) + Len(d) /\ ~(Len(a) + j <= Len(a))
          /\ Len(a) + j - Len(a) = j /\ j \in 1 .. Len(b) + Len(c) /\ ~(j <= Len(b))
          /\ j - Len(b) = i
      BY <1>1, <1>2
    <2> HIDE DEF j
    <2> QED BY <1>1, <1>3, <2>1
  <1> QED BY <1>1, <1>2, <1>3, <1>4, <1>5, <1>6 DEF d

LEMMA AdapterTypeOK == AdapterInv => Adapter!TypeOK
  <1> SUFFICES ASSUME AdapterInv PROVE Adapter!TypeOK
    OBVIOUS
  <1>1. WordsOK
    BY DEF AdapterInv
  <1>2. /\ ring.arr \in [0 .. ring.mask -> 0 .. sent]
        /\ ring.head \in 0 .. ring.mask /\ ring.tail \in 0 .. ring.mask
        /\ ring.size \in 0 .. ring.mask + 1 /\ ring.mask \in Nat
        /\ ring.tail = Wrap(ring.head + ring.size, ring.mask + 1)
    BY <1>1 DEF WordsOK, RingOf
  <1>3. ring.tail = (ring.head + ring.size) % (ring.mask + 1)
    <2>1. /\ ring.head + ring.size \in Nat /\ ring.mask + 1 \in Nat \ {0}
          /\ ring.head + ring.size < 2 * (ring.mask + 1)
      BY <1>2
    <2> QED BY <1>2, <2>1, ModWrap
  <1>4. /\ sent \in 0 .. MaxValues /\ received \in Seq(1 .. sent)
        /\ {ordered, offer, inClosed, wants, outClosed} \subseteq BOOLEAN
        /\ at \in {"recv", "select", "drain", "send", "end"}
        /\ hand \in 0 .. sent /\ buf \in Seq(1 .. sent)
    BY <1>1 DEF WordsOK
  <1> QED BY <1>2, <1>3, <1>4 DEF Adapter!TypeOK

LEMMA OrderedConserved == AdapterInv /\ ordered => Adapter!Conserved
  <1> SUFFICES ASSUME AdapterInv, ordered PROVE Adapter!Conserved
    OBVIOUS
  <1>1. WordsOK /\ Stages /\ InOrder
    BY DEF AdapterInv
  <1> DEFINE a == received
             b == Adapter!InHand
             c == Adapter!Contents(ring)
             all == a \o (b \o c)
  <1>2. a \in Seq(1 .. sent) /\ sent \in Nat /\ Len(a) \in Nat
    BY <1>1 DEF WordsOK
  <1>3. /\ b \in Seq(1 .. sent) /\ Len(b) = InHand /\ InHand \in Nat
        /\ \A i \in 1 .. Len(b) : b[i] = Len(a) + i
    <2>1. CASE at = "send"
      <3>1. b = <<hand>> /\ hand \in 1 .. sent /\ InHand = 1 /\ hand = Len(a) + 1
        BY <1>1, <2>1 DEF Adapter!InHand, InHand, Stages, InOrder
      <3> QED BY <3>1
    <2>2. CASE at # "send"
      <3>1. b = <<>> /\ InHand = 0
        BY <1>1, <2>2 DEF Adapter!InHand, InHand, Stages
      <3> QED BY <3>1
    <2> QED BY <2>1, <2>2
  <1>4. /\ c \in Seq(0 .. sent) /\ Len(c) = ring.size /\ ring.size \in Nat
        /\ \A i \in 1 .. ring.size : c[i] = Nth(ring, i)
    <2>1. RingOf(ring, 0 .. sent)
      BY <1>1 DEF WordsOK
    <2>2. ring.size \in Nat
      BY <2>1 DEF RingOf
    <2> QED BY <2>1, <2>2, ContentsRing
  <1>5. \A i \in 1 .. Len(c) : c[i] = Len(a) + Len(b) + i
    BY <1>1, <1>3, <1>4 DEF InOrder
  <1>6. Len(a) + Len(b) + Len(c) = sent /\ \A i \in 1 .. Len(a) : a[i] = i
    BY <1>1, <1>3, <1>4 DEF InOrder
  <1>7. /\ Adapter!InTransit = b \o c
        /\ Adapter!InTransit = b \o c => received \o Adapter!InTransit = all
    BY DEF Adapter!InTransit
  <1>8. outClosed => inClosed /\ Adapter!InTransit = <<>>
    <2> SUFFICES ASSUME outClosed PROVE inClosed /\ Adapter!InTransit = <<>>
      OBVIOUS
    <2>1. inClosed /\ b = <<>> /\ ring.size = 0
      BY <1>1 DEF Stages, Adapter!InHand
    <2>2. c = <<>>
      BY <2>1, <1>4
    <2> QED BY <1>7, <2>1, <2>2
  <1> HIDE DEF a, b, c
  <1>9. /\ Len(all) = sent
        /\ \A i \in 1 .. Len(a) : all[i] = a[i]
        /\ \A i \in 1 .. Len(b) : all[Len(a) + i] = b[i]
        /\ \A i \in 1 .. Len(c) : all[Len(a) + Len(b) + i] = c[i]
    <2>1. a \in Seq(0 .. sent) /\ b \in Seq(0 .. sent)
      <3>1. 1 .. sent \subseteq 0 .. sent
        BY <1>2
      <3> QED BY <1>2, <1>3, <3>1, SeqMonotonic
    <2> HIDE DEF all
    <2>2. all = a \o (b \o c)
      BY DEF all
    <2>3. c \in Seq(0 .. sent)
      BY <1>4
    <2>4. /\ Len(all) = Len(a) + Len(b) + Len(c)
          /\ \A i \in 1 .. Len(a) : all[i] = a[i]
          /\ \A i \in 1 .. Len(b) : all[Len(a) + i] = b[i]
          /\ \A i \in 1 .. Len(c) : all[Len(a) + Len(b) + i] = c[i]
      BY <2>1, <2>2, <2>3, ThreeParts
    <2> QED BY <1>6, <2>4
  <1> HIDE DEF all
  <1>10. ASSUME NEW i \in 1 .. sent PROVE all[i] = i
    <2>0. Len(a) \in Nat /\ Len(b) \in Nat /\ Len(c) \in Nat
      BY <1>2, <1>3, <1>4
    <2>1. CASE i \in 1 .. Len(a)
      BY <1>6, <1>9, <2>1
    <2>2. CASE i - Len(a) \in 1 .. Len(b)
      <3>1. all[Len(a) + (i - Len(a))] = Len(a) + (i - Len(a))
        BY <1>3, <1>9, <2>2
      <3>2. Len(a) + (i - Len(a)) = i
        BY <2>0
      <3> QED BY <3>1, <3>2
    <2>3. CASE i - Len(a) - Len(b) \in 1 .. Len(c)
      <3> DEFINE j == i - Len(a) - Len(b)
      <3>1. all[Len(a) + Len(b) + j] = Len(a) + Len(b) + j
        BY <1>5, <1>9, <2>3
      <3>2. Len(a) + Len(b) + j = i
        BY <2>0
      <3> QED BY <3>1, <3>2
    <2> QED BY <1>6, <2>0, <2>1, <2>2, <2>3
  <1>11. \A k \in 1 .. sent : \E i \in 1 .. sent : all[i] = k
    BY <1>10
  <1>12. received \o Adapter!InTransit = all
    BY <1>7 DEF all, a
  <1> QED BY <1>8, <1>9, <1>10, <1>11, <1>12 DEF Adapter!Conserved

LEMMA UnorderedConserved == AdapterInv /\ ~ordered => Adapter!Conserved
  <1> SUFFICES ASSUME AdapterInv, ~ordered PROVE Adapter!Conserved
    OBVIOUS
  <1>1. WordsOK /\ Stages /\ InSomeOrder
    BY DEF AdapterInv
  <1> DEFINE a == received
             b == buf
             c == Adapter!InHand
             all == a \o (b \o c)
  <1>2. /\ a \in Seq(1 .. sent) /\ sent \in Nat /\ Len(a) \in Nat
        /\ b \in Seq(1 .. sent) /\ Len(b) \in Nat
    BY <1>1 DEF WordsOK
  <1>3. /\ c \in Seq(1 .. sent) /\ Len(c) = InHand /\ InHand \in Nat
        /\ at = "select" => 1 \in 1 .. Len(c) /\ c[1] = hand
    <2>1. CASE at = "select"
      <3>1. c = <<hand>> /\ hand \in 1 .. sent /\ InHand = 1
        BY <1>1, <2>1 DEF Adapter!InHand, InHand, Stages
      <3> QED BY <3>1
    <2>2. CASE at # "select"
      <3>1. c = <<>> /\ InHand = 0
        BY <1>1, <2>2 DEF Adapter!InHand, InHand, Stages
      <3> QED BY <2>2, <3>1
    <2> QED BY <2>1, <2>2
  <1>4. Len(a) + Len(b) + Len(c) = sent
    BY <1>1, <1>2, <1>3 DEF InSomeOrder
  <1>5. \A k \in 1 .. sent : \/ \E i \in 1 .. Len(a) : a[i] = k
                             \/ \E i \in 1 .. Len(b) : b[i] = k
                             \/ \E i \in 1 .. Len(c) : c[i] = k
    <2>1. DOMAIN a = 1 .. Len(a) /\ DOMAIN b = 1 .. Len(b)
      BY <1>2
    <2> QED BY <1>1, <1>3, <2>1 DEF InSomeOrder, Cast!InSeq
  <1>6. /\ Adapter!InTransit = b \o c
        /\ Adapter!InTransit = b \o c => received \o Adapter!InTransit = all
    BY DEF Adapter!InTransit
  <1>7. outClosed => inClosed /\ Adapter!InTransit = <<>>
    <2> SUFFICES ASSUME outClosed PROVE inClosed /\ Adapter!InTransit = <<>>
      OBVIOUS
    <2>1. inClosed /\ b = <<>> /\ c = <<>>
      BY <1>1 DEF Stages, Adapter!InHand
    <2> QED BY <1>6, <2>1
  <1> HIDE DEF a, b, c
  <1>8. /\ Len(all) = sent
        /\ \A i \in 1 .. Len(a) : all[i] = a[i]
        /\ \A i \in 1 .. Len(b) : all[Len(a) + i] = b[i]
        /\ \A i \in 1 .. Len(c) : all[Len(a) + Len(b) + i] = c[i]
    <2> HIDE DEF all
    <2>1. all = a \o (b \o c)
      BY DEF all
    <2>2. a \in Seq(1 .. sent) /\ b \in Seq(1 .. sent) /\ c \in Seq(1 .. sent)
      BY <1>2, <1>3
    <2>3. /\ Len(all) = Len(a) + Len(b) + Len(c)
          /\ \A i \in 1 .. Len(a) : all[i] = a[i]
          /\ \A i \in 1 .. Len(b) : all[Len(a) + i] = b[i]
          /\ \A i \in 1 .. Len(c) : all[Len(a) + Len(b) + i] = c[i]
      BY <2>1, <2>2, ThreeParts
    <2> QED BY <1>4, <2>3
  <1> HIDE DEF all
  <1>9. ASSUME NEW k \in 1 .. sent PROVE \E i \in 1 .. sent : all[i] = k
    <2>0. Len(a) \in Nat /\ Len(b) \in Nat /\ Len(c) \in Nat
      BY <1>2, <1>3
    <2>1. CASE \E i \in 1 .. Len(a) : a[i] = k
      <3>1. PICK i \in 1 .. Len(a) : a[i] = k
        BY <2>1
      <3>2. i \in 1 .. sent /\ all[i] = k
        BY <1>4, <1>8, <2>0, <3>1
      <3> QED BY <3>2
    <2>2. CASE \E i \in 1 .. Len(b) : b[i] = k
      <3>1. PICK i \in 1 .. Len(b) : b[i] = k
        BY <2>2
      <3>2. Len(a) + i \in 1 .. sent /\ all[Len(a) + i] = k
        BY <1>4, <1>8, <2>0, <3>1
      <3> QED BY <3>2
    <2>3. CASE \E i \in 1 .. Len(c) : c[i] = k
      <3>1. PICK i \in 1 .. Len(c) : c[i] = k
        BY <2>3
      <3>2. Len(a) + Len(b) + i \in 1 .. sent /\ all[Len(a) + Len(b) + i] = k
        BY <1>4, <1>8, <2>0, <3>1
      <3> QED BY <3>2
    <2> QED BY <1>5, <2>1, <2>2, <2>3
  <1>10. received \o Adapter!InTransit = all
    BY <1>6 DEF all, a
  <1> QED BY <1>7, <1>8, <1>9, <1>10 DEF Adapter!Conserved
-----------------------------------------------------------------------------
(* Broadcast *)

Distinct(q) == \A i, j \in DOMAIN q : q[i] = q[j] => i = j

LEMMA EmptyFacts ==
  Distinct(<<>>) /\ \A y : ~Cast!InSeq(<<>>, y)
  BY DEF Distinct, Cast!InSeq

LEMMA DistinctAppend ==
  ASSUME NEW S, NEW q \in Seq(S), NEW x \in S, Distinct(q), ~Cast!InSeq(q, x)
  PROVE  Distinct(Append(q, x))
  <1> DEFINE t == Append(q, x)
  <1>1. /\ Len(q) \in Nat /\ DOMAIN q = 1 .. Len(q) /\ DOMAIN t = 1 .. Len(q) + 1
        /\ \A i \in 1 .. Len(q) : t[i] = q[i]
        /\ t[Len(q) + 1] = x
    OBVIOUS
  <1> HIDE DEF t
  <1>2. \A i \in 1 .. Len(q) : q[i] # x
    BY <1>1 DEF Cast!InSeq
  <1>3. \A i \in 1 .. Len(q) + 1 : i \in 1 .. Len(q) \/ i = Len(q) + 1
    BY <1>1
  <1>4. ASSUME NEW i \in DOMAIN t, NEW j \in DOMAIN t, t[i] = t[j]
        PROVE  i = j
    <2>1. CASE i \in 1 .. Len(q) /\ j \in 1 .. Len(q)
      BY <1>1, <1>4, <2>1 DEF Distinct
    <2>2. CASE i = Len(q) + 1 \/ j = Len(q) + 1
      BY <1>1, <1>2, <1>3, <1>4, <2>2
    <2> QED BY <1>1, <1>3, <2>1, <2>2
  <1> QED BY <1>4 DEF t, Distinct

LEMMA DistinctTail ==
  ASSUME NEW S, NEW q \in Seq(S), q # <<>>, Distinct(q)
  PROVE  Distinct(Tail(q)) /\ ~Cast!InSeq(Tail(q), Head(q))
  <1> DEFINE t == Tail(q)
  <1>1. /\ Len(q) \in Nat /\ Len(q) > 0 /\ DOMAIN q = 1 .. Len(q)
        /\ DOMAIN t = 1 .. Len(q) - 1 /\ Head(q) = q[1]
        /\ \A i \in 1 .. Len(q) - 1 : t[i] = q[i + 1]
    OBVIOUS
  <1> HIDE DEF t
  <1>2. \A i \in DOMAIN t : i \in Nat /\ i >= 1 /\ i + 1 \in DOMAIN q /\ t[i] = q[i + 1]
    BY <1>1
  <1>3. Distinct(t)
    BY <1>2 DEF Distinct
  <1>4. 1 \in DOMAIN q
    BY <1>1
  <1>5. ~Cast!InSeq(t, Head(q))
    BY <1>1, <1>2, <1>4 DEF Distinct, Cast!InSeq
  <1> QED BY <1>3, <1>5 DEF t

Got(k, s)     == Cast!InSeq(got[s], k)
Astray(k, s)  == <<s, k>> \in strays
Pending(k, s) == \E e \in Emitter : value[e] = k /\ Cast!InSeq(rest[e], s)

(* What one Emit has done, and the others have not.                        *)
Emits ==
  /\ \A t \in Topic : Distinct(topics[t])
  /\ \A e \in Emitter :
       /\ Distinct(rest[e])
       /\ pc[e] = "idle" <=> value[e] = 0
       /\ pc[e] # "loop" => rest[e] = <<>>
       /\ pc[e] = "copy" => copied[value[e]] = <<>>
       /\ \A s \in Subscriber : Cast!InSeq(rest[e], s) => Cast!InSeq(copied[value[e]], s)
       /\ \A f \in Emitter : value[f] = value[e] /\ value[e] # 0 => f = e
  /\ \A k \in 1 .. MaxEmits : k > emits => copied[k] = <<>>

(* What has become of the k-th value for subscriber s.                     *)
Fate(k, s) ==
  /\ Cast!InSeq(copied[k], s) =>
       \/ Got(k, s) /\ ~Astray(k, s) /\ ~Pending(k, s)
       \/ ~Got(k, s) /\ Astray(k, s) /\ ~Pending(k, s)
       \/ ~Got(k, s) /\ ~Astray(k, s) /\ Pending(k, s)
       \/ done /\ ~Got(k, s) /\ ~Astray(k, s) /\ ~Pending(k, s)
  /\ ~Cast!InSeq(copied[k], s) => ~Got(k, s) /\ ~Astray(k, s)

Fates ==
  /\ \A s \in Subscriber : Distinct(got[s])
  /\ \A k \in 1 .. MaxEmits, s \in Subscriber : Fate(k, s)

CastInv == Cast!TypeOK /\ Emits /\ Fates

LEMMA CastStart == Cast!Init => CastInv
  <1> SUFFICES ASSUME Cast!Init PROVE CastInv
    OBVIOUS
  <1> USE FeedsAssumption DEF Cast!Init
  <1>1. Cast!TypeOK
    <2>1. 0 \in 0 .. MaxEmits /\ 0 \in 0 .. emits /\ {} \subseteq Cast!Stray
      OBVIOUS
    <2>2. \A S : <<>> \in Seq(S)
      OBVIOUS
    <2>3. (CHOOSE t \in Topic : TRUE) \in Topic
      OBVIOUS
    <2>4. about \in [Emitter -> Topic]
      BY <2>3
    <2>5. /\ topics \in [Topic -> Seq(Subscriber)] /\ rest \in [Emitter -> Seq(Subscriber)]
          /\ copied \in [1 .. MaxEmits -> Seq(Subscriber)]
          /\ got \in [Subscriber -> Seq(1 .. emits)]
      BY <2>2
    <2>6. /\ pc \in [Emitter -> {"idle", "copy", "loop"}]
          /\ waiting \in [Subscriber -> BOOLEAN] /\ value \in [Emitter -> 0 .. emits]
      BY <2>1
    <2> QED BY <2>1, <2>4, <2>5, <2>6 DEF Cast!TypeOK
  <1>2. Emits
    BY EmptyFacts DEF Emits
  <1>3. Fates
    BY EmptyFacts DEF Fates, Fate, Got, Astray
  <1> QED BY <1>1, <1>2, <1>3 DEF CastInv

(* Nothing that Fate looks at changes. *)
LEMMA FateKept ==
  ASSUME NEW k, NEW s, Fate(k, s), done => done',
         Cast!InSeq(copied[k], s)' <=> Cast!InSeq(copied[k], s),
         Got(k, s)' <=> Got(k, s), Astray(k, s)' <=> Astray(k, s),
         Pending(k, s)' <=> Pending(k, s)
  PROVE  Fate(k, s)'
  BY DEF Fate

(* An Emit that is in its loop goes on with some of what it has left.      *)
LEMMA GotoStep ==
  ASSUME CastInv, NEW e \in Emitter, pc[e] = "loop", NEW left \in Seq(Subscriber),
         Distinct(left), \A y : Cast!InSeq(left, y) => Cast!InSeq(rest[e], y),
         Cast!Goto(e, left)
  PROVE  /\ pc' \in [Emitter -> {"idle", "copy", "loop"}] /\ value' \in [Emitter -> 0 .. emits]
         /\ rest' \in [Emitter -> Seq(Subscriber)] /\ value[e] \in 1 .. MaxEmits
         /\ value[e] \in 1 .. emits
         /\ Emits'
         /\ \A k \in 1 .. MaxEmits, s \in Subscriber :
              /\ Pending(k, s)' <=>
                   \/ k = value[e] /\ Cast!InSeq(left, s)
                   \/ k # value[e] /\ Pending(k, s)
              /\ k = value[e] => (Pending(k, s) <=> Cast!InSeq(rest[e], s))
  <1>1. /\ Cast!TypeOK /\ Emits
        /\ rest' = [rest EXCEPT ![e] = left]
        /\ pc' = [pc EXCEPT ![e] = IF left = <<>> THEN "idle" ELSE "loop"]
        /\ value' = [value EXCEPT ![e] = IF left = <<>> THEN 0 ELSE @]
        /\ UNCHANGED <<topics, done, emits, about, copied>>
    BY DEF CastInv, Cast!Goto
  <1>2. /\ pc \in [Emitter -> {"idle", "copy", "loop"}]
        /\ value \in [Emitter -> 0 .. emits]
        /\ rest \in [Emitter -> Seq(Subscriber)] /\ emits \in 0 .. MaxEmits
    BY <1>1 DEF Cast!TypeOK
  <1>3. value[e] \in 1 .. MaxEmits /\ value[e] \in 1 .. emits
    <2>1. value[e] # 0
      BY <1>1 DEF Emits
    <2> QED BY <1>2, <2>1, FeedsAssumption
  <1>4. /\ pc' \in [Emitter -> {"idle", "copy", "loop"}] /\ value' \in [Emitter -> 0 .. emits]
        /\ rest' \in [Emitter -> Seq(Subscriber)]
    BY <1>1, <1>2
  <1>5. ASSUME NEW f \in Emitter, f # e
        PROVE  /\ rest'[f] = rest[f] /\ pc'[f] = pc[f] /\ value'[f] = value[f]
               /\ value[f] # value[e]
    <2>1. value[f] # value[e]
      BY <1>1, <1>3, <1>5 DEF Emits
    <2> QED BY <1>1, <1>2, <1>5, <2>1
  <1>6. /\ rest'[e] = left
        /\ left = <<>> => pc'[e] = "idle" /\ value'[e] = 0
        /\ left # <<>> => pc'[e] = "loop" /\ value'[e] = value[e]
    BY <1>1, <1>2
  <1>7. Emits'
    <2>1. ASSUME NEW f \in Emitter
          PROVE  /\ Distinct(rest[f])'
                 /\ (pc[f] = "idle" <=> value[f] = 0)'
                 /\ (pc[f] # "loop" => rest[f] = <<>>)'
                 /\ (pc[f] = "copy" => copied[value[f]] = <<>>)'
                 /\ \A s \in Subscriber :
                      (Cast!InSeq(rest[f], s) => Cast!InSeq(copied[value[f]], s))'
                 /\ \A g \in Emitter : (value[g] = value[f] /\ value[f] # 0 => g = f)'
      <3>1. CASE f # e
        <4>1. /\ Distinct(rest[f])
              /\ pc[f] = "idle" <=> value[f] = 0
              /\ pc[f] # "loop" => rest[f] = <<>>
              /\ pc[f] = "copy" => copied[value[f]] = <<>>
              /\ \A s \in Subscriber : Cast!InSeq(rest[f], s) => Cast!InSeq(copied[value[f]], s)
              /\ \A g \in Emitter : value[g] = value[f] /\ value[f] # 0 => g = f
          BY <1>1 DEF Emits
        <4>2. /\ rest'[f] = rest[f] /\ pc'[f] = pc[f] /\ value'[f] = value[f]
              /\ value[f] # value[e] /\ copied' = copied
          BY <1>1, <1>5, <3>1
        <4>3. \A g \in Emitter : (value[g] = value[f] /\ value[f] # 0 => g = f)'
          BY <1>5, <1>6, <4>1, <4>2
        <4> QED BY <4>1, <4>2, <4>3
      <3>2. CASE f = e
        <4>1. /\ Distinct(rest'[e])
              /\ pc'[e] = "idle" <=> value'[e] = 0
              /\ pc'[e] # "loop" => rest'[e] = <<>>
              /\ pc'[e] # "copy"
          BY <1>3, <1>6
        <4>2. \A s \in Subscriber : (Cast!InSeq(rest[e], s) => Cast!InSeq(copied[value[e]], s))'
          <5>1. \A s \in Subscriber : Cast!InSeq(rest[e], s) => Cast!InSeq(copied[value[e]], s)
            BY <1>1 DEF Emits
          <5>2. copied' = copied
            BY <1>1
          <5> QED BY <1>6, <5>1, <5>2, EmptyFacts
        <4>3. \A g \in Emitter : (value[g] = value[e] /\ value[e] # 0 => g = e)'
          BY <1>5, <1>6
        <4> QED BY <3>2, <4>1, <4>2, <4>3
      <3> QED BY <3>1, <3>2
    <2>2. /\ \A t \in Topic : Distinct(topics[t])
          /\ \A k \in 1 .. MaxEmits : k > emits => copied[k] = <<>>
      BY <1>1 DEF Emits
    <2>3. /\ (\A t \in Topic : Distinct(topics[t]))'
          /\ (\A k \in 1 .. MaxEmits : k > emits => copied[k] = <<>>)'
      BY <1>1, <2>2
    <2> QED BY <2>1, <2>3 DEF Emits
  <1>8. ASSUME NEW k \in 1 .. MaxEmits, NEW s \in Subscriber
        PROVE  /\ Pending(k, s)' <=>
                    \/ k = value[e] /\ Cast!InSeq(left, s)
                    \/ k # value[e] /\ Pending(k, s)
               /\ k = value[e] => (Pending(k, s) <=> Cast!InSeq(rest[e], s))
    <2>1. CASE k = value[e]
      <3>1. Pending(k, s) <=> Cast!InSeq(rest[e], s)
        BY <1>5, <2>1 DEF Pending
      <3>2. Pending(k, s)' <=> value'[e] = k /\ Cast!InSeq(rest'[e], s)
        BY <1>5, <2>1 DEF Pending
      <3>3. left = <<>> => ~Cast!InSeq(left, s)
        BY EmptyFacts
      <3> QED BY <1>6, <2>1, <3>1, <3>2, <3>3
    <2>2. CASE k # value[e]
      <3>1. value'[e] # k
        BY <1>6, <2>2
      <3>2. \A f \in Emitter : f # e =>
              (value'[f] = k /\ Cast!InSeq(rest'[f], s) <=> value[f] = k /\ Cast!InSeq(rest[f], s))
        BY <1>5
      <3> QED BY <2>2, <3>1, <3>2 DEF Pending
    <2> QED BY <2>1, <2>2
  <1> QED BY <1>3, <1>4, <1>7, <1>8

LEMMA RegisterStep ==
  ASSUME CastInv, NEW s \in Subscriber, NEW t \in Topic, Cast!Register(s, t)
  PROVE  CastInv'
  <1>1. /\ Cast!TypeOK /\ Emits /\ Fates /\ topics \in [Topic -> Seq(Subscriber)]
        /\ topics' = [topics EXCEPT ![t] = Append(@, s)]
        /\ ~Cast!InSeq(topics[t], s)
        /\ UNCHANGED <<done, emits, pc, about, value, rest, strays, waiting, got, copied>>
    BY DEF CastInv, Cast!Register, Cast!Registered, Cast!emitVars, Cast!subVars,
           Cast!TypeOK
  <1>2. \A u \in Topic : topics'[u] = IF u = t THEN Append(topics[t], s) ELSE topics[u]
    BY <1>1
  <1>3. /\ Append(topics[t], s) \in Seq(Subscriber)
        /\ Distinct(Append(topics[t], s))
    <2>1. topics[t] \in Seq(Subscriber) /\ Distinct(topics[t])
      BY <1>1 DEF Emits
    <2> QED BY <1>1, <2>1, DistinctAppend
  <1>4. topics' \in [Topic -> Seq(Subscriber)]
    BY <1>1, <1>3
  <1>5. Cast!TypeOK'
    BY <1>1, <1>4 DEF Cast!TypeOK
  <1>6. Emits'
    <2>1. \A u \in Topic : Distinct(topics'[u])
      BY <1>1, <1>2, <1>3 DEF Emits
    <2> QED BY <1>1, <2>1 DEF Emits
  <1>7. Fates'
    BY <1>1 DEF Fates, Fate, Got, Astray, Pending
  <1> QED BY <1>5, <1>6, <1>7 DEF CastInv

LEMMA EmitStep ==
  ASSUME CastInv, NEW e \in Emitter, NEW t \in Topic, Cast!Emit(e, t)
  PROVE  CastInv'
  <1>1. /\ Cast!TypeOK /\ Emits /\ Fates /\ pc[e] = "idle" /\ emits < MaxEmits
        /\ emits' = emits + 1 /\ pc' = [pc EXCEPT ![e] = "copy"]
        /\ about' = [about EXCEPT ![e] = t] /\ value' = [value EXCEPT ![e] = emits']
        /\ UNCHANGED <<topics, done, rest, strays, waiting, got, copied>>
    BY DEF CastInv, Cast!Emit, Cast!subVars
  <1>2. /\ pc \in [Emitter -> {"idle", "copy", "loop"}] /\ about \in [Emitter -> Topic]
        /\ value \in [Emitter -> 0 .. emits] /\ emits \in Nat /\ emits' \in 0 .. MaxEmits
        /\ got \in [Subscriber -> Seq(1 .. emits)]
        /\ emits' \in 1 .. MaxEmits
    BY <1>1, FeedsAssumption DEF Cast!TypeOK
  <1>3. Cast!TypeOK'
    <2>1. 0 .. emits \subseteq 0 .. emits' /\ 1 .. emits \subseteq 1 .. emits'
      BY <1>1, <1>2
    <2>2. got' \in [Subscriber -> Seq(1 .. emits')]
      <3>1. Seq(1 .. emits) \subseteq Seq(1 .. emits')
        BY <2>1, SeqMonotonic
      <3>2. got \in [Subscriber -> Seq(1 .. emits')]
        BY <1>2, <3>1
      <3> QED BY <1>1, <3>2
    <2>3. value' \in [Emitter -> 0 .. emits']
      <3>1. emits' \in 0 .. emits'
        BY <1>2
      <3>2. \A f \in Emitter : value[f] \in 0 .. emits'
        BY <1>2, <2>1
      <3> QED BY <1>1, <1>2, <3>1, <3>2
    <2>4. pc' \in [Emitter -> {"idle", "copy", "loop"}] /\ about' \in [Emitter -> Topic]
      BY <1>1, <1>2
    <2> QED BY <1>1, <1>2, <2>2, <2>3, <2>4 DEF Cast!TypeOK
  <1>4. /\ rest[e] = <<>> /\ copied[emits'] = <<>>
        /\ \A f \in Emitter : value[f] # emits' /\ value[f] \in 0 .. emits
        /\ \A f \in Emitter : f # e => value'[f] = value[f] /\ pc'[f] = pc[f]
        /\ value'[e] = emits' /\ pc'[e] = "copy" /\ value[e] = 0
    <2>1. rest[e] = <<>> /\ value[e] = 0
      BY <1>1 DEF Emits
    <2>2. copied[emits'] = <<>>
      <3>1. emits' \in 1 .. MaxEmits /\ emits' > emits
        BY <1>1, <1>2
      <3> QED BY <1>1, <3>1 DEF Emits
    <2>3. \A f \in Emitter : value[f] # emits' /\ value[f] \in 0 .. emits
      BY <1>1, <1>2
    <2> QED BY <1>1, <1>2, <2>1, <2>2, <2>3
  <1>5. Emits'
    <2>1. ASSUME NEW f \in Emitter
          PROVE  /\ Distinct(rest[f])'
                 /\ (pc[f] = "idle" <=> value[f] = 0)'
                 /\ (pc[f] # "loop" => rest[f] = <<>>)'
                 /\ (pc[f] = "copy" => copied[value[f]] = <<>>)'
                 /\ \A s \in Subscriber :
                      (Cast!InSeq(rest[f], s) => Cast!InSeq(copied[value[f]], s))'
                 /\ \A g \in Emitter : (value[g] = value[f] /\ value[f] # 0 => g = f)'
      <3>1. /\ Distinct(rest[f])
            /\ pc[f] = "idle" <=> value[f] = 0
            /\ pc[f] # "loop" => rest[f] = <<>>
            /\ pc[f] = "copy" => copied[value[f]] = <<>>
            /\ \A s \in Subscriber : Cast!InSeq(rest[f], s) => Cast!InSeq(copied[value[f]], s)
            /\ \A g \in Emitter : value[g] = value[f] /\ value[f] # 0 => g = f
        BY <1>1 DEF Emits
      <3>2. CASE f # e
        <4>1. rest' = rest /\ copied' = copied /\ value'[f] = value[f] /\ pc'[f] = pc[f]
          BY <1>1, <1>4, <3>2
        <4>2. \A g \in Emitter : (value[g] = value[f] /\ value[f] # 0 => g = f)'
          BY <1>4, <3>1, <3>2, <4>1
        <4> QED BY <3>1, <4>1, <4>2
      <3>3. CASE f = e
        <4>1. rest'[e] = <<>> /\ copied'[value'[e]] = <<>> /\ value'[e] # 0
          BY <1>1, <1>2, <1>4
        <4>2. \A g \in Emitter : (value[g] = value[e] /\ value[e] # 0 => g = e)'
          BY <1>4
        <4> QED BY <1>4, <3>3, <4>1, <4>2, EmptyFacts
      <3> QED BY <3>2, <3>3
    <2>2. \A k \in 1 .. MaxEmits : k > emits' => copied'[k] = <<>>
      <3>1. \A k \in 1 .. MaxEmits : k > emits' => k > emits
        BY <1>1, <1>2
      <3> QED BY <1>1, <3>1 DEF Emits
    <2>3. \A u \in Topic : Distinct(topics'[u])
      BY <1>1 DEF Emits
    <2> QED BY <2>1, <2>2, <2>3 DEF Emits
  <1>6. Fates'
    <2>1. ASSUME NEW k \in 1 .. MaxEmits, NEW s \in Subscriber
          PROVE  Fate(k, s)'
      <3>1. Pending(k, s)' <=> Pending(k, s)
        <4>1. ~Cast!InSeq(rest[e], s) /\ rest' = rest
          BY <1>1, <1>4, EmptyFacts
        <4> QED BY <1>4, <4>1 DEF Pending
      <3>2. Fate(k, s)
        BY <1>1 DEF Fates
      <3>3. /\ Cast!InSeq(copied[k], s)' <=> Cast!InSeq(copied[k], s)
            /\ Got(k, s)' <=> Got(k, s)
            /\ Astray(k, s)' <=> Astray(k, s)
        BY <1>1 DEF Got, Astray
      <3> QED BY <1>1, <3>1, <3>2, <3>3, FateKept
    <2>2. \A s \in Subscriber : Distinct(got'[s])
      BY <1>1 DEF Fates
    <2> QED BY <2>1, <2>2 DEF Fates
  <1> QED BY <1>3, <1>5, <1>6 DEF CastInv

LEMMA CopyStep ==
  ASSUME CastInv, NEW e \in Emitter, Cast!Copy(e)
  PROVE  CastInv'
  <1> DEFINE chs == topics[about[e]]
             n == value[e]
  <1>1. /\ Cast!TypeOK /\ Emits /\ Fates /\ pc[e] = "copy"
        /\ pc' = [pc EXCEPT ![e] = "loop"] /\ rest' = [rest EXCEPT ![e] = chs]
        /\ copied' = [copied EXCEPT ![n] = chs]
        /\ UNCHANGED <<topics, done, emits, about, value, strays, waiting, got>>
    BY DEF CastInv, Cast!Copy, Cast!subVars
  <1>2. /\ pc \in [Emitter -> {"idle", "copy", "loop"}] /\ about \in [Emitter -> Topic]
        /\ value \in [Emitter -> 0 .. emits] /\ emits \in 0 .. MaxEmits
        /\ rest \in [Emitter -> Seq(Subscriber)] /\ topics \in [Topic -> Seq(Subscriber)]
        /\ copied \in [1 .. MaxEmits -> Seq(Subscriber)]
    BY <1>1 DEF Cast!TypeOK
  <1>3. /\ n \in 1 .. MaxEmits /\ n \in 1 .. emits /\ chs \in Seq(Subscriber)
        /\ Distinct(chs) /\ copied[n] = <<>> /\ rest[e] = <<>>
    <2>1. n # 0 /\ copied[n] = <<>> /\ rest[e] = <<>> /\ Distinct(chs)
      BY <1>1, <1>2 DEF Emits
    <2> QED BY <1>2, <2>1, FeedsAssumption
  <1> HIDE DEF chs
  <1>4. Cast!TypeOK'
    <2>1. /\ pc' \in [Emitter -> {"idle", "copy", "loop"}]
          /\ rest' \in [Emitter -> Seq(Subscriber)]
          /\ copied' \in [1 .. MaxEmits -> Seq(Subscriber)]
      BY <1>1, <1>2, <1>3
    <2> QED BY <1>1, <2>1 DEF Cast!TypeOK
  <1>5. /\ \A f \in Emitter : f # e => value[f] # n /\ rest'[f] = rest[f] /\ pc'[f] = pc[f]
        /\ \A k \in 1 .. MaxEmits : k # n => copied'[k] = copied[k]
        /\ rest'[e] = chs /\ pc'[e] = "loop" /\ copied'[n] = chs /\ value' = value
    <2>1. \A f \in Emitter : f # e => value[f] # n
      <3>1. n # 0
        BY <1>3
      <3> QED BY <1>1, <3>1 DEF Emits
    <2> QED BY <1>1, <1>2, <1>3, <2>1
  <1> HIDE DEF n
  <1>6. Emits'
    <2>1. ASSUME NEW f \in Emitter
          PROVE  /\ Distinct(rest[f])'
                 /\ (pc[f] = "idle" <=> value[f] = 0)'
                 /\ (pc[f] # "loop" => rest[f] = <<>>)'
                 /\ (pc[f] = "copy" => copied[value[f]] = <<>>)'
                 /\ \A s \in Subscriber :
                      (Cast!InSeq(rest[f], s) => Cast!InSeq(copied[value[f]], s))'
                 /\ \A g \in Emitter : (value[g] = value[f] /\ value[f] # 0 => g = f)'
      <3>1. /\ Distinct(rest[f])
            /\ pc[f] = "idle" <=> value[f] = 0
            /\ pc[f] # "loop" => rest[f] = <<>>
            /\ pc[f] = "copy" => copied[value[f]] = <<>>
            /\ \A s \in Subscriber : Cast!InSeq(rest[f], s) => Cast!InSeq(copied[value[f]], s)
            /\ \A g \in Emitter : value[g] = value[f] /\ value[f] # 0 => g = f
        BY <1>1 DEF Emits
      <3>2. CASE f # e
        <4>1. rest'[f] = rest[f] /\ value' = value /\ pc'[f] = pc[f] /\ value[f] # n
              /\ value[f] \in 0 .. MaxEmits
          BY <1>2, <1>5, <3>2, FeedsAssumption
        <4>2. CASE value[f] = 0
          <5>1. rest[f] = <<>> /\ pc[f] = "idle"
            BY <1>1, <3>1, <4>2
          <5> QED BY <3>1, <4>1, <4>2, <5>1, EmptyFacts
        <4>3. CASE value[f] # 0
          <5>1. value[f] \in 1 .. MaxEmits
            BY <4>1, <4>3, FeedsAssumption
          <5>2. copied'[value[f]] = copied[value[f]]
            BY <1>5, <4>1, <5>1
          <5> QED BY <3>1, <4>1, <5>2
        <4> QED BY <4>2, <4>3
      <3>3. CASE f = e
        <4>1. value'[e] = n /\ n # 0
          BY <1>3, <1>5 DEF n
        <4> QED BY <1>3, <1>5, <3>1, <3>3, <4>1
      <3> QED BY <3>2, <3>3
    <2>2. \A k \in 1 .. MaxEmits : k > emits' => copied'[k] = <<>>
      <3>1. \A k \in 1 .. MaxEmits : k > emits => k # n
        BY <1>2, <1>3
      <3> QED BY <1>1, <1>5, <3>1 DEF Emits
    <2>3. \A u \in Topic : Distinct(topics'[u])
      BY <1>1 DEF Emits
    <2> QED BY <2>1, <2>2, <2>3 DEF Emits
  <1>7. Fates'
    <2>1. ASSUME NEW k \in 1 .. MaxEmits, NEW s \in Subscriber
          PROVE  Fate(k, s)'
      <3>1. Fate(k, s) /\ (Got(k, s)' <=> Got(k, s)) /\ (Astray(k, s)' <=> Astray(k, s))
        BY <1>1 DEF Fates, Got, Astray
      <3>2. CASE k # n
        <4>1. Pending(k, s)' <=> Pending(k, s)
          <5>1. value[e] # k
            BY <3>2 DEF n
          <5> QED BY <1>5, <5>1 DEF Pending
        <4>2. Cast!InSeq(copied[k], s)' <=> Cast!InSeq(copied[k], s)
          BY <1>5, <3>2
        <4> QED BY <1>1, <3>1, <4>1, <4>2, FateKept
      <3>3. CASE k = n
        <4>1. ~Got(k, s) /\ ~Astray(k, s)
          <5>1. ~Cast!InSeq(copied[k], s)
            BY <1>3, <3>3, EmptyFacts
          <5> QED BY <3>1, <5>1 DEF Fate
        <4>2. Pending(k, s)' <=> Cast!InSeq(chs, s)
          <5>1. value[e] = k
            BY <3>3 DEF n
          <5> QED BY <1>5, <3>3, <5>1 DEF Pending
        <4>3. Cast!InSeq(copied[k], s)' <=> Cast!InSeq(chs, s)
          BY <1>5, <3>3
        <4> QED BY <3>1, <4>1, <4>2, <4>3 DEF Fate
      <3> QED BY <3>2, <3>3
    <2>2. \A s \in Subscriber : Distinct(got'[s])
      BY <1>1 DEF Fates
    <2> QED BY <2>1, <2>2 DEF Fates
  <1> QED BY <1>4, <1>6, <1>7 DEF CastInv

(* The Emit of e returns: at its end, or because of a Close.               *)
LEMMA ReturnStep ==
  ASSUME CastInv, NEW e \in Emitter, Cast!StopEmit(e) \/ Cast!NobodyThere(e)
  PROVE  CastInv'
  <1>1. /\ Cast!TypeOK /\ Emits /\ Fates /\ pc[e] = "loop" /\ (done \/ rest[e] = <<>>)
        /\ Cast!Goto(e, <<>>)
        /\ UNCHANGED <<topics, done, emits, about, copied, strays, waiting, got>>
    BY DEF CastInv, Cast!StopEmit, Cast!NobodyThere, Cast!AtSelect, Cast!subVars, Cast!Goto
  <1>2. <<>> \in Seq(Subscriber)
    OBVIOUS
  <1> DEFINE none == <<>>
  <1>a. /\ none \in Seq(Subscriber) /\ Distinct(none)
        /\ \A y : ~Cast!InSeq(none, y)
    BY <1>2, EmptyFacts
  <1>b. Cast!Goto(e, none)
    BY <1>1
  <1> HIDE DEF none
  <1>3. /\ pc' \in [Emitter -> {"idle", "copy", "loop"}] /\ value' \in [Emitter -> 0 .. emits]
        /\ rest' \in [Emitter -> Seq(Subscriber)] /\ Emits'
        /\ \A k \in 1 .. MaxEmits, s \in Subscriber :
             /\ Pending(k, s)' <=> k # value[e] /\ Pending(k, s)
             /\ k = value[e] => (Pending(k, s) <=> Cast!InSeq(rest[e], s))
    BY <1>1, <1>a, <1>b, GotoStep
  <1>4. Cast!TypeOK'
    BY <1>1, <1>3 DEF Cast!TypeOK
  <1>5. Fates'
    <2>1. ASSUME NEW k \in 1 .. MaxEmits, NEW s \in Subscriber
          PROVE  Fate(k, s)'
      <3>1. /\ Fate(k, s) /\ done' = done
            /\ Cast!InSeq(copied[k], s)' <=> Cast!InSeq(copied[k], s)
            /\ Got(k, s)' <=> Got(k, s)
            /\ Astray(k, s)' <=> Astray(k, s)
        BY <1>1 DEF Fates, Got, Astray
      <3>2. CASE ~(k = value[e] /\ Pending(k, s))
        <4>1. Pending(k, s)' <=> Pending(k, s)
          BY <1>3, <3>2
        <4> QED BY <3>1, <4>1, FateKept
      <3>3. CASE k = value[e] /\ Pending(k, s)
        <4>1. Cast!InSeq(rest[e], s) /\ ~Pending(k, s)'
          BY <1>3, <3>3
        <4>2. rest[e] # <<>>
          BY <4>1, EmptyFacts
        <4>3. done
          BY <1>1, <4>2
        <4>4. Cast!InSeq(copied[k], s)
          BY <1>1, <3>3, <4>1 DEF Emits
        <4> QED BY <3>1, <3>3, <4>1, <4>3, <4>4 DEF Fate
      <3> QED BY <3>2, <3>3
    <2>2. \A s \in Subscriber : Distinct(got'[s])
      BY <1>1 DEF Fates
    <2> QED BY <2>1, <2>2 DEF Fates
  <1> QED BY <1>3, <1>4, <1>5 DEF CastInv

(* The Emit of e goes on behind the first channel it has left. *)
LEMMA NextChannel ==
  ASSUME CastInv, NEW e \in Emitter, Cast!AtSelect(e), Cast!Goto(e, Tail(rest[e])),
         NEW h, h = Head(rest[e]), NEW n, n = value[e]
  PROVE  /\ pc' \in [Emitter -> {"idle", "copy", "loop"}]
         /\ value' \in [Emitter -> 0 .. emits]
         /\ rest' \in [Emitter -> Seq(Subscriber)] /\ Emits'
         /\ h \in Subscriber /\ n \in 1 .. MaxEmits /\ n \in 1 .. emits
         /\ Cast!InSeq(copied[n], h)
         /\ ~Got(n, h) /\ ~Astray(n, h) /\ ~Pending(n, h)'
         /\ \A k \in 1 .. MaxEmits, s \in Subscriber :
              k # n \/ s # h => (Pending(k, s)' <=> Pending(k, s))
  <1> DEFINE q == rest[e]
             left == Tail(q)
  <1>1. /\ Cast!TypeOK /\ Emits /\ Fates /\ pc[e] = "loop" /\ q # <<>>
        /\ q \in Seq(Subscriber) /\ Distinct(q) /\ Cast!Goto(e, left)
    BY DEF CastInv, Cast!AtSelect, Cast!TypeOK, Emits
  <1>2. /\ left \in Seq(Subscriber) /\ h \in Subscriber
        /\ \A y : Cast!InSeq(q, y) <=> y = h \/ Cast!InSeq(left, y)
        /\ Distinct(left) /\ ~Cast!InSeq(left, h)
    <2>1. h = Head(q)
      OBVIOUS
    <2> HIDE DEF q
    <2> QED BY <1>1, <2>1, TailFacts, DistinctTail
  <1>3. \A y : Cast!InSeq(left, y) => Cast!InSeq(rest[e], y)
    BY <1>2
  <1> HIDE DEF left
  <1>4. /\ pc' \in [Emitter -> {"idle", "copy", "loop"}] /\ value' \in [Emitter -> 0 .. emits]
        /\ rest' \in [Emitter -> Seq(Subscriber)]
        /\ n \in 1 .. MaxEmits /\ n \in 1 .. emits /\ Emits'
        /\ \A k \in 1 .. MaxEmits, s \in Subscriber :
             /\ Pending(k, s)' <=>
                  \/ k = n /\ Cast!InSeq(left, s)
                  \/ k # n /\ Pending(k, s)
             /\ k = n => (Pending(k, s) <=> Cast!InSeq(q, s))
    BY <1>1, <1>2, <1>3, GotoStep
  <1>5. Cast!InSeq(q, h)
    BY <1>2
  <1>6. Cast!InSeq(copied[n], h)
    BY <1>1, <1>2, <1>5 DEF Emits
  <1> HIDE DEF q
  <1>7. Pending(n, h) /\ ~Pending(n, h)'
    BY <1>2, <1>4, <1>5
  <1>8. ~Got(n, h) /\ ~Astray(n, h)
    <2>1. Fate(n, h)
      BY <1>1, <1>2, <1>4 DEF Fates
    <2> QED BY <1>6, <1>7, <2>1 DEF Fate
  <1>9. ASSUME NEW k \in 1 .. MaxEmits, NEW s \in Subscriber, k # n \/ s # h
        PROVE  Pending(k, s)' <=> Pending(k, s)
    BY <1>2, <1>4, <1>9
  <1> QED BY <1>2, <1>4, <1>6, <1>7, <1>8, <1>9 DEF q

LEMMA TimeoutStep ==
  ASSUME CastInv, NEW e \in Emitter, Cast!Timeout(e)
  PROVE  CastInv'
  <1>0. PICK h, n : h = Head(rest[e]) /\ n = value[e]
    OBVIOUS
  <1>1. /\ Cast!TypeOK /\ Emits /\ Fates /\ Cast!AtSelect(e)
        /\ strays' = strays \cup {<<h, n>>}
        /\ Cast!Goto(e, Tail(rest[e]))
        /\ UNCHANGED <<topics, done, emits, about, copied, waiting, got>>
    BY <1>0 DEF CastInv, Cast!Timeout, Cast!subVars, Cast!Goto
  <1>2. /\ pc' \in [Emitter -> {"idle", "copy", "loop"}]
        /\ value' \in [Emitter -> 0 .. emits]
        /\ rest' \in [Emitter -> Seq(Subscriber)] /\ Emits'
        /\ h \in Subscriber /\ n \in 1 .. MaxEmits
        /\ Cast!InSeq(copied[n], h)
        /\ ~Got(n, h) /\ ~Astray(n, h) /\ ~Pending(n, h)'
        /\ \A k \in 1 .. MaxEmits, s \in Subscriber :
             k # n \/ s # h => (Pending(k, s)' <=> Pending(k, s))
    BY <1>0, <1>1, NextChannel
  <1>3. Cast!TypeOK'
    <2>1. strays' \subseteq Cast!Stray
      BY <1>1, <1>2 DEF Cast!TypeOK, Cast!Stray
    <2> QED BY <1>1, <1>2, <2>1 DEF Cast!TypeOK
  <1>4. Fates'
    <2>1. ASSUME NEW k \in 1 .. MaxEmits, NEW s \in Subscriber
          PROVE  Fate(k, s)'
      <3>1. /\ Fate(k, s) /\ done' = done
            /\ Cast!InSeq(copied[k], s)' <=> Cast!InSeq(copied[k], s)
            /\ Got(k, s)' <=> Got(k, s)
            /\ Astray(k, s)' <=> Astray(k, s) \/ (k = n /\ s = h)
        BY <1>1 DEF Fates, Got, Astray
      <3>2. CASE k # n \/ s # h
        <4>1. /\ Pending(k, s)' <=> Pending(k, s)
              /\ Astray(k, s)' <=> Astray(k, s)
          BY <1>2, <3>1, <3>2
        <4> QED BY <3>1, <4>1, FateKept
      <3>3. CASE k = n /\ s = h
        <4>1. /\ ~Got(k, s) /\ ~Astray(k, s) /\ ~Pending(k, s)'
              /\ Cast!InSeq(copied[k], s)
          BY <1>2, <3>3
        <4> QED BY <3>1, <3>3, <4>1 DEF Fate
      <3> QED BY <3>2, <3>3
    <2>2. \A s \in Subscriber : Distinct(got'[s])
      BY <1>1 DEF Fates
    <2> QED BY <2>1, <2>2 DEF Fates
  <1> QED BY <1>2, <1>3, <1>4 DEF CastInv

(* Subscriber h gets value n, which it has not got yet.                    *)
LEMMA ReceiveFacts ==
  ASSUME CastInv, NEW h \in Subscriber, NEW n \in 1 .. MaxEmits, n \in 1 .. emits,
         ~Got(n, h), Cast!Receive(h, n)
  PROVE  /\ waiting' \in [Subscriber -> BOOLEAN] /\ got' \in [Subscriber -> Seq(1 .. emits)]
         /\ \A s \in Subscriber : Distinct(got'[s])
         /\ \A k \in 1 .. MaxEmits, s \in Subscriber :
              Got(k, s)' <=> Got(k, s) \/ (k = n /\ s = h)
  <1>1. /\ waiting \in [Subscriber -> BOOLEAN] /\ got \in [Subscriber -> Seq(1 .. emits)]
        /\ waiting' = [waiting EXCEPT ![h] = FALSE]
        /\ got' = [got EXCEPT ![h] = Append(@, n)]
        /\ \A s \in Subscriber : Distinct(got[s])
    BY DEF CastInv, Cast!TypeOK, Fates, Cast!Receive
  <1> DEFINE q == got[h]
             t == Append(q, n)
  <1>2. q \in Seq(1 .. emits) /\ Distinct(q) /\ ~Cast!InSeq(q, n)
    BY <1>1 DEF Got
  <1>3. /\ got'[h] = t
        /\ \A s \in Subscriber : s # h => got'[s] = got[s]
    BY <1>1
  <1> HIDE DEF q
  <1>4. t \in Seq(1 .. emits) /\ Distinct(t)
    <2>1. Distinct(Append(q, n))
      BY <1>2, DistinctAppend
    <2>2. Append(q, n) \in Seq(1 .. emits)
      BY <1>2, AppendFacts
    <2> QED BY <2>1, <2>2
  <1>5. ASSUME NEW y PROVE Cast!InSeq(t, y) <=> Cast!InSeq(q, y) \/ y = n
    BY <1>2, AppendFacts
  <1> HIDE DEF t
  <1>6. waiting' \in [Subscriber -> BOOLEAN] /\ got' \in [Subscriber -> Seq(1 .. emits)]
    <2>1. got' = [got EXCEPT ![h] = t]
      BY <1>1 DEF t, q
    <2> QED BY <1>1, <1>4, <2>1
  <1>7. \A s \in Subscriber : Distinct(got'[s])
    BY <1>1, <1>3, <1>4
  <1>8. ASSUME NEW k \in 1 .. MaxEmits, NEW s \in Subscriber
        PROVE  Got(k, s)' <=> Got(k, s) \/ (k = n /\ s = h)
    BY <1>3, <1>5 DEF Got, q
  <1> QED BY <1>6, <1>7, <1>8

LEMMA DeliverStep ==
  ASSUME CastInv, NEW e \in Emitter, Cast!Deliver(e)
  PROVE  CastInv'
  <1>0. PICK h, n : h = Head(rest[e]) /\ n = value[e]
    OBVIOUS
  <1>1. /\ Cast!TypeOK /\ Emits /\ Fates /\ Cast!AtSelect(e)
        /\ Cast!Receive(h, n) /\ Cast!Goto(e, Tail(rest[e]))
        /\ UNCHANGED <<topics, done, emits, about, copied, strays>>
    BY <1>0 DEF CastInv, Cast!Deliver, Cast!Goto
  <1>2. /\ pc' \in [Emitter -> {"idle", "copy", "loop"}]
        /\ value' \in [Emitter -> 0 .. emits]
        /\ rest' \in [Emitter -> Seq(Subscriber)] /\ Emits'
        /\ h \in Subscriber /\ n \in 1 .. MaxEmits /\ n \in 1 .. emits
        /\ Cast!InSeq(copied[n], h)
        /\ ~Got(n, h) /\ ~Astray(n, h) /\ ~Pending(n, h)'
        /\ \A k \in 1 .. MaxEmits, s \in Subscriber :
             k # n \/ s # h => (Pending(k, s)' <=> Pending(k, s))
    BY <1>0, <1>1, NextChannel
  <1>3. /\ waiting' \in [Subscriber -> BOOLEAN] /\ got' \in [Subscriber -> Seq(1 .. emits)]
        /\ \A s \in Subscriber : Distinct(got'[s])
        /\ \A k \in 1 .. MaxEmits, s \in Subscriber :
             Got(k, s)' <=> Got(k, s) \/ (k = n /\ s = h)
    BY <1>1, <1>2, ReceiveFacts
  <1>4. Cast!TypeOK'
    BY <1>1, <1>2, <1>3 DEF Cast!TypeOK
  <1>5. ASSUME NEW k \in 1 .. MaxEmits, NEW s \in Subscriber
        PROVE  Fate(k, s)'
    <2>1. /\ Fate(k, s) /\ done' = done
          /\ Cast!InSeq(copied[k], s)' <=> Cast!InSeq(copied[k], s)
          /\ Astray(k, s)' <=> Astray(k, s)
          /\ Got(k, s)' <=> Got(k, s) \/ (k = n /\ s = h)
      BY <1>1, <1>3 DEF Fates, Astray
    <2>2. CASE k # n \/ s # h
      <3>1. /\ Pending(k, s)' <=> Pending(k, s)
            /\ Got(k, s)' <=> Got(k, s)
        BY <1>2, <2>1, <2>2
      <3> QED BY <2>1, <3>1, FateKept
    <2>3. CASE k = n /\ s = h
      <3>1. /\ ~Got(k, s) /\ ~Astray(k, s) /\ ~Pending(k, s)'
            /\ Cast!InSeq(copied[k], s)
        BY <1>2, <2>3
      <3> QED BY <2>1, <2>3, <3>1 DEF Fate
    <2> QED BY <2>2, <2>3
  <1>6. Fates'
    BY <1>3, <1>5 DEF Fates
  <1> QED BY <1>2, <1>4, <1>6 DEF CastInv

(* Emits does not look at what strays and subscribers do. *)
LEMMA EmitsKept ==
  ASSUME Emits, UNCHANGED <<topics, emits, pc, about, value, rest, copied>>
  PROVE  Emits'
  BY DEF Emits

LEMMA StrayStep ==
  ASSUME CastInv, NEW x \in Cast!Stray, Cast!StrayWork(x)
  PROVE  CastInv'
  <1>1. /\ Cast!TypeOK /\ Emits /\ Fates /\ x \in strays /\ strays' = strays \ {x}
        /\ UNCHANGED <<topics, done, emits, pc, about, value, rest, copied>>
    BY DEF CastInv, Cast!StrayWork, Cast!StrayDelivers, Cast!StrayStops, Cast!emitVars
  <1>2. PICK h \in Subscriber, n \in 1 .. MaxEmits : x = <<h, n>>
    BY DEF Cast!Stray
  <1>3. Astray(n, h) /\ Fate(n, h)
    BY <1>1, <1>2 DEF Astray, Fates
  <1>4. Cast!InSeq(copied[n], h) /\ ~Got(n, h) /\ ~Pending(n, h)
    BY <1>3 DEF Fate
  <1>5. n \in 1 .. emits
    <2>1. ~(n > emits)
      BY <1>1, <1>4, EmptyFacts DEF Emits
    <2>2. emits \in Nat
      BY <1>1, FeedsAssumption DEF Cast!TypeOK
    <2> QED BY <2>1, <2>2
  <1>6. Emits'
    BY <1>1, EmitsKept
  <1>7. ASSUME NEW k \in 1 .. MaxEmits, NEW s \in Subscriber
        PROVE  /\ Fate(k, s) /\ done' = done
               /\ Cast!InSeq(copied[k], s)' <=> Cast!InSeq(copied[k], s)
               /\ Astray(k, s)' <=> Astray(k, s) /\ ~(k = n /\ s = h)
               /\ Pending(k, s)' <=> Pending(k, s)
    BY <1>1, <1>2 DEF Fates, Astray, Pending
  <1>8. CASE Cast!StrayDelivers(x)
    <2>1. Cast!Receive(h, n)
      BY <1>2, <1>8 DEF Cast!StrayDelivers
    <2>2. /\ waiting' \in [Subscriber -> BOOLEAN] /\ got' \in [Subscriber -> Seq(1 .. emits)]
          /\ \A s \in Subscriber : Distinct(got'[s])
          /\ \A k \in 1 .. MaxEmits, s \in Subscriber :
               Got(k, s)' <=> Got(k, s) \/ (k = n /\ s = h)
      BY <1>4, <1>5, <2>1, ReceiveFacts
    <2>3. Cast!TypeOK'
      BY <1>1, <2>2 DEF Cast!TypeOK
    <2>4. ASSUME NEW k \in 1 .. MaxEmits, NEW s \in Subscriber
          PROVE  Fate(k, s)'
      <3>1. Got(k, s)' <=> Got(k, s) \/ (k = n /\ s = h)
        BY <2>2
      <3>2. CASE k # n \/ s # h
        BY <1>7, <3>1, <3>2, FateKept
      <3>3. CASE k = n /\ s = h
        BY <1>4, <1>7, <3>1, <3>3 DEF Fate
      <3> QED BY <3>2, <3>3
    <2> QED BY <1>6, <2>2, <2>3, <2>4 DEF CastInv, Fates
  <1>9. CASE Cast!StrayStops(x)
    <2>1. done /\ waiting' = waiting /\ got' = got
      BY <1>9 DEF Cast!StrayStops, Cast!subVars
    <2>2. Cast!TypeOK'
      BY <1>1, <2>1 DEF Cast!TypeOK
    <2>3. ASSUME NEW k \in 1 .. MaxEmits, NEW s \in Subscriber
          PROVE  Fate(k, s)'
      <3>1. Got(k, s)' <=> Got(k, s)
        BY <2>1 DEF Got
      <3>2. CASE k # n \/ s # h
        BY <1>7, <3>1, <3>2, FateKept
      <3>3. CASE k = n /\ s = h
        BY <1>4, <1>7, <2>1, <3>1, <3>3 DEF Fate
      <3> QED BY <3>2, <3>3
    <2>4. \A s \in Subscriber : Distinct(got'[s])
      BY <1>1, <2>1 DEF Fates
    <2> QED BY <1>6, <2>2, <2>3, <2>4 DEF CastInv, Fates
  <1> QED BY <1>8, <1>9 DEF Cast!StrayWork

LEMMA OtherCastSteps ==
  ASSUME CastInv,
         \/ Cast!Close
         \/ \E s \in Subscriber : Cast!Want(s)
         \/ UNCHANGED castVars
  PROVE  CastInv'
  <1>1. /\ Cast!TypeOK /\ Emits /\ Fates /\ done' \in BOOLEAN /\ (done => done')
        /\ waiting' \in [Subscriber -> BOOLEAN]
        /\ UNCHANGED <<topics, emits, pc, about, value, rest, strays, got, copied>>
    BY DEF CastInv, Cast!TypeOK, Cast!Close, Cast!Want, Cast!emitVars, Cast!subVars,
           castVars
  <1>2. Cast!TypeOK'
    BY <1>1 DEF Cast!TypeOK
  <1>3. Emits'
    BY <1>1, EmitsKept
  <1>4. ASSUME NEW k \in 1 .. MaxEmits, NEW s \in Subscriber
        PROVE  Fate(k, s)'
    <2>1. /\ Fate(k, s)
          /\ Cast!InSeq(copied[k], s)' <=> Cast!InSeq(copied[k], s)
          /\ Got(k, s)' <=> Got(k, s)
          /\ Astray(k, s)' <=> Astray(k, s)
          /\ Pending(k, s)' <=> Pending(k, s)
      BY <1>1 DEF Fates, Got, Astray, Pending
    <2> QED BY <1>1, <2>1, FateKept
  <1>5. \A s \in Subscriber : Distinct(got'[s])
    BY <1>1 DEF Fates
  <1> QED BY <1>2, <1>3, <1>4, <1>5 DEF CastInv, Fates

LEMMA CastStep ==
  ASSUME CastInv, Cast!Next \/ UNCHANGED castVars
  PROVE  CastInv'
  <1>1. CASE \E s \in Subscriber, t \in Topic : Cast!Register(s, t)
    BY <1>1, RegisterStep
  <1>2. CASE \E e \in Emitter, t \in Topic : Cast!Emit(e, t)
    BY <1>2, EmitStep
  <1>3. CASE \E e \in Emitter : Cast!EmitWork(e)
    BY <1>3, CopyStep, ReturnStep, DeliverStep, TimeoutStep DEF Cast!EmitWork
  <1>4. CASE \E x \in Cast!Stray : Cast!StrayWork(x)
    BY <1>4, StrayStep
  <1>5. CASE \/ Cast!Close
             \/ \E s \in Subscriber : Cast!Want(s)
             \/ UNCHANGED castVars
    BY <1>5, OtherCastSteps
  <1> QED BY <1>1, <1>2, <1>3, <1>4, <1>5 DEF Cast!Next

LEMMA CastDelivers == CastInv => Cast!DeliveredOnce
  <1> SUFFICES ASSUME CastInv, NEW k \in 1 .. MaxEmits, NEW s \in Subscriber
               PROVE  LET has     == {i \in DOMAIN got[s] : got[s][i] = k}
                          stray   == <<s, k>> \in strays
                          pending == \E e \in Emitter : value[e] = k /\ Cast!InSeq(rest[e], s)
                      IN  /\ \A i, j \in has : i = j
                          /\ Cast!InSeq(copied[k], s) =>
                               \/ /\ has # {} \/ stray \/ pending
                                  /\ ~(has # {} /\ stray)
                                  /\ ~(stray /\ pending)
                                  /\ ~(has # {} /\ pending)
                               \/ done /\ has = {} /\ ~stray /\ ~pending
                          /\ ~Cast!InSeq(copied[k], s) => has = {} /\ ~stray
    BY DEF Cast!DeliveredOnce
  <1> DEFINE has == {i \in DOMAIN got[s] : got[s][i] = k}
  <1>1. Distinct(got[s]) /\ Fate(k, s)
    BY DEF CastInv, Fates
  <1>2. \A i, j \in has : i = j
    BY <1>1 DEF Distinct
  <1>3. has # {} <=> Got(k, s)
    BY DEF Got, Cast!InSeq
  <1> HIDE DEF has
  <1>4. /\ Cast!InSeq(copied[k], s) =>
             \/ /\ has # {} \/ Astray(k, s) \/ Pending(k, s)
                /\ ~(has # {} /\ Astray(k, s))
                /\ ~(Astray(k, s) /\ Pending(k, s))
                /\ ~(has # {} /\ Pending(k, s))
             \/ done /\ has = {} /\ ~Astray(k, s) /\ ~Pending(k, s)
        /\ ~Cast!InSeq(copied[k], s) => has = {} /\ ~Astray(k, s)
    BY <1>1, <1>3 DEF Fate
  <1> QED BY <1>2, <1>4 DEF has, Astray, Pending
-----------------------------------------------------------------------------
FeedsInv == AdapterInv /\ CastInv

LEMMA FeedsInvariant == Spec => []FeedsInv
  <1>1. Init => FeedsInv
    BY AdapterStart, CastStart DEF Init, FeedsInv
  <1>2. FeedsInv /\ [Next]_vars => FeedsInv'
    <2> SUFFICES ASSUME FeedsInv, [Next]_vars PROVE FeedsInv'
      OBVIOUS
    <2>1. /\ Adapter!Next \/ UNCHANGED adapterVars
          /\ Cast!Next \/ UNCHANGED castVars
      BY DEF Next, vars, UsesAdapter, UsesCast
    <2> QED BY <2>1, AdapterStep, CastStep DEF FeedsInv
  <1> QED BY <1>1, <1>2, PTL DEF Spec

(* Every word of the feeds has its type, and a ring's tail is size places  *)
(* behind its head round the end of its array (ringqueue.go).              *)
THEOREM TypeCorrectness == Spec => []TypeOK
  <1>1. FeedsInv => TypeOK
    BY AdapterTypeOK DEF FeedsInv, CastInv, TypeOK
  <1> QED BY <1>1, FeedsInvariant, PTL

(* However long the ring has been in use and however often it has grown,   *)
(* what is received, held and buffered is what was sent, in order if the   *)
(* channel is ordered, and out is closed behind the last value.            *)
THEOREM NothingIsLost == Spec => []Conserved
  <1>1. FeedsInv => Conserved
    BY OrderedConserved, UnorderedConserved DEF FeedsInv, Conserved
  <1> QED BY <1>1, FeedsInvariant, PTL

(* Emit gives a value once to each subscriber it copied, by itself or by a *)
(* stray, and to nobody else, for any number of concurrent Emits.          *)
THEOREM EverySubscriberOnce == Spec => []DeliveredOnce
  <1>1. FeedsInv => DeliveredOnce
    BY CastDelivers DEF FeedsInv, DeliveredOnce
  <1> QED BY <1>1, FeedsInvariant, PTL
=============================================================================
