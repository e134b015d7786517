---------------------------- MODULE Queues_proofs ---------------------------
(***************************************************************************)
(* Proofs about the queues, for any goroutines, any size of the ring and   *)
(* any width of its positions.                                             *)
(***************************************************************************)
EXTENDS MCQueues, FiniteSetTheorems, SequenceTheorems, TLAPS

Word == 0 .. Modulus - 1
-----------------------------------------------------------------------------
(* Remainders *)

LEMMA DivUnique ==
  ASSUME NEW c \in Nat \ {0}, NEW q \in Int, NEW r \in 0 .. c - 1
  PROVE  (c * q + r) % c = r
  OBVIOUS

LEMMA DivFacts ==
  ASSUME NEW c \in Nat \ {0}, NEW a \in Int
  PROVE  a % c \in 0 .. c - 1 /\ \E q \in Int : a = c * q + (a % c)
  <1>1. a % c \in 0 .. c - 1
    OBVIOUS
  <1>2. a \div c \in Int /\ a = c * (a \div c) + (a % c)
    OBVIOUS
  <1> QED BY <1>1, <1>2

(* Multiples of c do not matter. *)
LEMMA ModShift ==
  ASSUME NEW c \in Nat \ {0}, NEW a \in Int, NEW q \in Int
  PROVE  (c * q + a) % c = a % c
  <1>1. PICK p \in Int : a = c * p + (a % c)
    BY DivFacts
  <1> DEFINE r == a % c
  <1>2. r \in 0 .. c - 1 /\ a = c * p + r
    BY <1>1, DivFacts
  <1> HIDE DEF r
  <1>3. c * q + a = c * (q + p) + r
    BY <1>2
  <1>4. q + p \in Int
    OBVIOUS
  <1>5. (c * (q + p) + r) % c = r
    BY <1>2, <1>4, DivUnique
  <1> QED BY <1>3, <1>5 DEF r

LEMMA ModSum ==
  ASSUME NEW c \in Nat \ {0}, NEW a \in Int, NEW b \in Int
  PROVE  ((a % c) + b) % c = (a + b) % c
  <1>1. PICK p \in Int : a = c * p + (a % c)
    BY DivFacts
  <1> DEFINE r == a % c
  <1>2. r \in Int /\ a = c * p + r
    BY <1>1, DivFacts
  <1> HIDE DEF r
  <1>3. a + b = c * p + (r + b) /\ r + b \in Int
    BY <1>2
  <1>4. (c * p + (r + b)) % c = (r + b) % c
    BY <1>3, ModShift
  <1> QED BY <1>3, <1>4 DEF r

LEMMA ModSmall ==
  ASSUME NEW c \in Nat \ {0}, NEW a \in 0 .. c - 1
  PROVE  a % c = a
  <1>1. (c * 0 + a) % c = a
    BY DivUnique
  <1> QED BY <1>1

LEMMA ModDifferent ==
  ASSUME NEW c \in Nat \ {0}, NEW a \in Int, NEW k \in 1 .. c - 1
  PROVE  (a + k) % c # a % c
  <1>1. PICK p \in Int : a = c * p + (a % c)
    BY DivFacts
  <1> DEFINE r == a % c
  <1>2. r \in 0 .. c - 1 /\ a = c * p + r
    BY <1>1, DivFacts
  <1> HIDE DEF r
  <1>3. (a + k) % c = (r + k) % c
    <2>1. a + k = c * p + (r + k) /\ r + k \in Int
      BY <1>2
    <2> QED BY <2>1, ModShift
  <1>4. CASE r + k < c
    <2>1. r + k \in 0 .. c - 1
      BY <1>2, <1>4
    <2>2. (r + k) % c = r + k
      BY <2>1, ModSmall
    <2> QED BY <1>2, <1>3, <2>2 DEF r
  <1>5. CASE r + k >= c
    <2>1. r + k - c \in 0 .. c - 1 /\ r + k = c * 1 + (r + k - c)
      BY <1>2, <1>5
    <2> DEFINE s == r + k - c
    <2>2. s \in 0 .. c - 1 /\ r + k = c * 1 + s /\ s # r
      BY <1>2, <2>1
    <2> HIDE DEF s
    <2>3. (c * 1 + s) % c = s
      BY <2>2, DivUnique
    <2> QED BY <1>3, <2>2, <2>3 DEF r
  <1> QED BY <1>2, <1>4, <1>5
-----------------------------------------------------------------------------
(* Positions *)

LEMMA PlusType ==
  ASSUME NEW t \in Nat, NEW n \in Nat
  PROVE  Plus(t, n) \in Word
  <1>1. t + n \in Int /\ Modulus \in Nat \ {0}
    BY RingAssumption
  <1> QED BY <1>1, DivFacts DEF Plus, Word

LEMMA PlusPlus ==
  ASSUME NEW t \in Nat, NEW n \in Nat, NEW k \in Nat
  PROVE  Plus(Plus(t, n), k) = Plus(t, n + k)
  <1>1. t + n \in Int /\ Modulus \in Nat \ {0} /\ k \in Int /\ (t + n) + k = t + (n + k)
    BY RingAssumption
  <1>2. (((t + n) % Modulus) + k) % Modulus = ((t + n) + k) % Modulus
    BY <1>1, ModSum
  <1> QED BY <1>1, <1>2 DEF Plus

LEMMA PlusZero ==
  ASSUME NEW t \in Word
  PROVE  Plus(t, 0) = t
  <1>1. t + 0 = t /\ Modulus \in Nat \ {0} /\ t \in 0 .. Modulus - 1
    BY RingAssumption DEF Word
  <1> QED BY <1>1, ModSmall DEF Plus

LEMMA PlusInjective ==
  ASSUME NEW t \in Nat, NEW n \in 0 .. Modulus - 1, NEW m \in 0 .. Modulus - 1,
         Plus(t, n) = Plus(t, m)
  PROVE  n = m
  <1>1. Modulus \in Nat \ {0}
    BY RingAssumption
  <1>2. ASSUME NEW i \in 0 .. Modulus - 1, NEW j \in 0 .. Modulus - 1, i < j
        PROVE  Plus(t, i) # Plus(t, j)
    <2>1. j - i \in 1 .. Modulus - 1 /\ t + i \in Int /\ (t + i) + (j - i) = t + j
      BY <1>1, <1>2
    <2>2. ((t + i) + (j - i)) % Modulus # (t + i) % Modulus
      BY <1>1, <2>1, ModDifferent
    <2> QED BY <2>1, <2>2 DEF Plus
  <1>3. ~(n < m) /\ ~(m < n)
    BY <1>2
  <1> QED BY <1>1, <1>3

LEMMA MinusPlus ==
  ASSUME NEW p \in Word, NEW n \in 0 .. Modulus - 1
  PROVE  Minus(Plus(p, n), p) = n
  <1>1. Modulus \in Nat \ {0} /\ p \in Nat /\ n \in Nat /\ n \in 0 .. Modulus - 1
    BY RingAssumption DEF Word
  <1>2. (p + n) + (0 - p) = n /\ p + n \in Int /\ 0 - p \in Int
    BY <1>1
  <1>3. (((p + n) % Modulus) + (0 - p)) % Modulus = ((p + n) + (0 - p)) % Modulus
    BY <1>1, <1>2, ModSum
  <1>4. ((p + n) % Modulus) + (0 - p) = ((p + n) % Modulus) - p
    <2>1. (p + n) % Modulus \in Int
      BY <1>1, <1>2, DivFacts
    <2> QED BY <1>1, <2>1
  <1>5. n % Modulus = n
    BY <1>1, ModSmall
  <1> QED BY <1>2, <1>3, <1>4, <1>5 DEF Minus, Plus

(* The place of a position is not disturbed by the wrap-around.            *)
LEMMA IdxPlus ==
  ASSUME NEW t \in Nat, NEW n \in Nat
  PROVE  Idx(Plus(t, n)) = (t + n) % Size /\ Idx(Plus(t, n)) \in Index
  <1>1. Modulus \in Nat \ {0} /\ Size \in Nat \ {0} /\ Modulus % Size = 0 /\ t + n \in Int
    BY RingAssumption
  <1>2. PICK m \in Int : Modulus = Size * m
    <2>1. Modulus \in Int
      BY <1>1
    <2>2. \E m \in Int : Modulus = Size * m + (Modulus % Size)
      BY <1>1, <2>1, DivFacts
    <2>3. PICK m \in Int : Modulus = Size * m + (Modulus % Size)
      BY <2>2
    <2>4. Size * m \in Int
      BY <1>1
    <2>5. Modulus = Size * m
      BY <1>1, <2>3, <2>4
    <2> QED BY <2>5
  <1>3. PICK q \in Int : t + n = Modulus * q + ((t + n) % Modulus)
    BY <1>1, DivFacts
  <1> DEFINE w == (t + n) % Modulus
  <1>4. w \in Int /\ t + n = Modulus * q + w
    BY <1>1, <1>3, DivFacts
  <1> HIDE DEF w
  <1>5. t + n = Size * (m * q) + w /\ m * q \in Int
    BY <1>1, <1>2, <1>4
  <1>6. (Size * (m * q) + w) % Size = w % Size
    BY <1>1, <1>4, <1>5, ModShift
  <1>7. w % Size \in 0 .. Size - 1
    BY <1>1, <1>4, DivFacts
  <1> QED BY <1>5, <1>6, <1>7 DEF Idx, Plus, w, Index

LEMMA IdxNear ==
  ASSUME NEW t \in Nat, NEW n \in Nat, NEW k \in 1 .. Size - 1
  PROVE  Idx(Plus(t, n)) # Idx(Plus(t, n + k))
  <1>1. Size \in Nat \ {0} /\ t + n \in Int /\ t + (n + k) = (t + n) + k
    BY RingAssumption
  <1>2. ((t + n) + k) % Size # (t + n) % Size
    BY <1>1, ModDifferent
  <1>3. n + k \in Nat
    BY <1>1
  <1> QED BY <1>1, <1>2, <1>3, IdxPlus

LEMMA IdxAgain ==
  ASSUME NEW t \in Nat, NEW n \in Nat
  PROVE  Idx(Plus(t, n + Size)) = Idx(Plus(t, n))
  <1>1. /\ Size \in Nat \ {0} /\ t + n \in Int /\ n + Size \in Nat
        /\ t + (n + Size) = Size * 1 + (t + n)
    BY RingAssumption
  <1> DEFINE a == t + n
  <1>2. a \in Int
    BY <1>1
  <1> HIDE DEF a
  <1>3. (Size * 1 + a) % Size = a % Size
    <2>1. \A q \in Int : (Size * q + a) % Size = a % Size
      BY <1>1, <1>2, ModShift
    <2>2. 1 \in Int
      OBVIOUS
    <2> QED BY <2>1, <2>2, Zenon
  <1> QED BY <1>1, <1>3, IdxPlus DEF a
-----------------------------------------------------------------------------
(* The two instances have copies of the operators of CallClient and Ring.  *)

LEMMA SlotsCopies ==
  /\ \A g, kind, to : Slots!Start(g, kind, to) <=> Start(g, kind, to)
  /\ \A g, from, to : Slots!Goto(g, from, to) <=> Goto(g, from, to)
  /\ \A g, from, r : Slots!Finish(g, from, r) <=> Finish(g, from, r)
  /\ \A g : Slots!Leave(g) <=> Leave(g)
  /\ Slots!ClientInit <=> ClientInit
  /\ Slots!RingInit <=> RingInit
  BY DEF Slots!Start, Start, Slots!Goto, Goto, Slots!Finish, Finish, Slots!Leave, Leave,
         Slots!ClientInit, ClientInit, Slots!RingInit, RingInit, Slots!Puts, Puts,
         Slots!zero, zero, Slots!None, None, Slots!Index, Index

LEMMA StrictCopies ==
  /\ \A g, kind, to : Strict!Start(g, kind, to) <=> Start(g, kind, to)
  /\ \A g, from, to : Strict!Goto(g, from, to) <=> Goto(g, from, to)
  /\ \A g, from, r : Strict!Finish(g, from, r) <=> Finish(g, from, r)
  /\ \A g : Strict!Leave(g) <=> Leave(g)
  /\ Strict!ClientInit <=> ClientInit
  /\ Strict!RingInit <=> RingInit
  BY DEF Strict!Start, Start, Strict!Goto, Goto, Strict!Finish, Finish, Strict!Leave, Leave,
         Strict!ClientInit, ClientInit, Strict!RingInit, RingInit, Strict!Puts, Puts,
         Strict!zero, zero, Strict!None, None, Strict!Index, Index

LEMMA SlotsWords ==
  /\ \A p, k : Slots!Plus(p, k) = Plus(p, k) /\ Slots!Minus(p, k) = Minus(p, k)
  /\ \A p, q : Slots!Diff(p, q) = Diff(p, q)
  /\ \A p : Slots!Idx(p) = Idx(p)
  /\ Slots!Index = Index /\ Slots!zero = zero
  /\ Slots!Yes = Yes /\ Slots!No = No /\ Slots!None = None
  BY DEF Slots!Plus, Plus, Slots!Minus, Minus, Slots!Diff, Diff, Slots!Idx, Idx,
         Slots!Index, Index, Slots!Yes, Yes, Slots!No, No, Slots!None, None,
         Slots!zero, zero

LEMMA StrictWords ==
  /\ \A p, k : Strict!Plus(p, k) = Plus(p, k) /\ Strict!Minus(p, k) = Minus(p, k)
  /\ \A p : Strict!Idx(p) = Idx(p)
  /\ Strict!Index = Index /\ Strict!zero = zero
  /\ Strict!Yes = Yes /\ Strict!No = No /\ Strict!None = None
  BY DEF Strict!Plus, Plus, Strict!Minus, Minus, Strict!Idx, Idx,
         Strict!Index, Index, Strict!Yes, Yes, Strict!No, No, Strict!None, None,
         Strict!zero, zero
-----------------------------------------------------------------------------
(* Types *)

Points == {"idle", "load", "seq", "cas", "write", "publish", "read", "release",
           "check", "refresh", "copy", "store", "locked", "done"}

ClientTypes == ClientTypeOK /\ pc \in [Goroutine -> Points]

Words ==
  /\ val \in [Index -> Nat] /\ head \in Word /\ tail \in Word
  /\ pos \in [Goroutine -> Word]
  /\ seq \in [Index -> Word] /\ cached \in BOOLEAN
  /\ cachedHead \in Word /\ cachedTail \in Word

Types == ClientTypes /\ Words /\ impl \in Impl

LEMMA StartTypes ==
  ASSUME ClientTypes, NEW g \in Goroutine, NEW kind \in {"enqueue", "dequeue"},
         NEW to \in Points, Start(g, kind, to)
  PROVE  ClientTypes'
  BY DEF ClientTypes, ClientTypeOK, Start, zero

LEMMA GotoTypes ==
  ASSUME ClientTypes, NEW g \in Goroutine, NEW from, NEW to \in Points, Goto(g, from, to)
  PROVE  ClientTypes'
  BY DEF ClientTypes, ClientTypeOK, Goto

LEMMA FinishTypes ==
  ASSUME ClientTypes, NEW g \in Goroutine, NEW from, NEW r \in Nat \X BOOLEAN,
         Finish(g, from, r)
  PROVE  ClientTypes'
  BY DEF ClientTypes, ClientTypeOK, Finish, Points

LEMMA LeaveTypes ==
  ASSUME ClientTypes, NEW g \in Goroutine, Leave(g)
  PROVE  ClientTypes'
  BY DEF ClientTypes, ClientTypeOK, Leave, Points, None, zero

(* A value is read into ret. *)
LEMMA ReadTypes ==
  ASSUME ClientTypes, NEW g \in Goroutine, NEW to \in Points, NEW x \in Nat,
         pc' = [pc EXCEPT ![g] = to], ret' = [ret EXCEPT ![g] = <<x, TRUE>>],
         UNCHANGED <<calls, op, arg>>
  PROVE  ClientTypes'
  BY DEF ClientTypes, ClientTypeOK

LEMMA WordFacts ==
  /\ Modulus \in Nat \ {0} /\ Size \in Nat \ {0} /\ Word \subseteq Nat
  /\ \A p \in Word, k \in Nat : Plus(p, k) \in Word
  /\ \A p \in Word : Idx(p) \in Index
  <1>1. Modulus \in Nat \ {0} /\ Size \in Nat \ {0} /\ Word \subseteq Nat
    BY RingAssumption DEF Word
  <1>2. ASSUME NEW p \in Word, NEW k \in Nat PROVE Plus(p, k) \in Word
    BY <1>1, PlusType
  <1>3. ASSUME NEW p \in Word PROVE Idx(p) \in Index
    <2>1. p \in Int
      BY <1>1
    <2> QED BY <1>1, <2>1, DivFacts DEF Idx, Index
  <1> QED BY <1>1, <1>2, <1>3

LEMMA TypesStart == Init => Types
  <1> SUFFICES ASSUME Init PROVE Types
    OBVIOUS
  <1>1. ClientTypes
    <2>1. ClientInit
      BY SlotsCopies DEF Init, Slots!Init
    <2>2. <<0, FALSE>> \in Nat \X BOOLEAN
      OBVIOUS
    <2> QED BY <2>1, <2>2 DEF ClientInit, ClientTypes, ClientTypeOK, Points, zero, None
  <1>2. head \in Word /\ tail = head /\ val = [i \in Index |-> zero]
        /\ pos = [g \in Goroutine |-> 0]
        /\ seq = [i \in Index |-> Plus(head, (i - head) % Size)]
        /\ cachedHead = head /\ cachedTail = tail /\ cached \in BOOLEAN /\ impl \in Impl
    BY RingAssumption, SlotsCopies, SlotsWords
       DEF Init, Slots!Init, Strict!Init, RingInit, Word
  <1>3. ASSUME NEW i \in Index PROVE Plus(head, (i - head) % Size) \in Word
    <2>1. i - head \in Int
      BY <1>2, WordFacts DEF Index
    <2>2. (i - head) % Size \in Nat
      BY <2>1, WordFacts, DivFacts
    <2> QED BY <1>2, <2>2, WordFacts
  <1>4. 0 \in Word
    BY WordFacts DEF Word
  <1>5. Words
    BY <1>2, <1>3, <1>4 DEF Words, zero
  <1> QED BY <1>1, <1>2, <1>5 DEF Types

(* The words of the ring and of the positions, one action at a time.       *)
LEMMA SlotTypes ==
  ASSUME Types, NEW g \in Goroutine,
         \/ impl = "MPMC" /\ (Slots!MPMCCall(g) \/ Slots!MPMCWork(g))
         \/ impl = "MPSC" /\ (Slots!MPSCCall(g) \/ Slots!MPSCWork(g)),
         UNCHANGED <<impl, spscOnly>>
  PROVE  Types'
  <1>1. /\ ClientTypes /\ Words /\ impl' \in Impl /\ Size \in Nat
        /\ pos[g] \in Word /\ arg[g] \in Nat /\ ret[g] \in Nat \X BOOLEAN
        /\ Idx(pos[g]) \in Index /\ val[Idx(pos[g])] \in Nat
        /\ UNCHANGED <<cached, cachedHead, cachedTail>>
    BY WordFacts DEF Types, Words, ClientTypes, ClientTypeOK, spscOnly
  <1>2. /\ Plus(pos[g], 1) \in Word /\ Plus(pos[g], Size) \in Word
        /\ Plus(head, 1) \in Word /\ Plus(tail, 1) \in Word
    BY <1>1, WordFacts DEF Words
  <1> USE SlotsCopies, SlotsWords DEF Slots!slotVars, Slots!ringVars
  <1>3. CASE \/ Slots!StartEnqueue(g) \/ Slots!StartDequeue(g) \/ Slots!ConsumerStart(g)
    <2>1. ClientTypes'
      BY <1>1, <1>3, StartTypes
         DEF Slots!StartEnqueue, Slots!StartDequeue, Slots!ConsumerStart, Points
    <2>2. Words'
      BY <1>1, <1>3
         DEF Slots!StartEnqueue, Slots!StartDequeue, Slots!ConsumerStart, Words
    <2> QED BY <1>1, <2>1, <2>2 DEF Types
  <1>4. CASE Slots!LoadTail(g) \/ Slots!LoadHead(g)
    <2>1. ClientTypes'
      BY <1>1, <1>4, GotoTypes DEF Slots!LoadTail, Slots!LoadHead, Points
    <2>2. Words'
      BY <1>1, <1>4 DEF Slots!LoadTail, Slots!LoadHead, Words
    <2> QED BY <1>1, <2>1, <2>2 DEF Types
  <1>5. CASE \/ Slots!CompareForEnqueue(g) \/ Slots!CompareForDequeue(g)
             \/ Slots!ConsumerCompare(g)
    <2>1. No \in Nat \X BOOLEAN
      BY DEF No, zero
    <2>2. \/ Finish(g, "seq", No) \/ Goto(g, "seq", "cas")
          \/ Goto(g, "seq", "load") \/ Goto(g, "seq", "read")
      BY <1>5 DEF Slots!CompareForEnqueue, Slots!CompareForDequeue, Slots!ConsumerCompare
    <2>3. ClientTypes'
      BY <1>1, <2>1, <2>2, GotoTypes, FinishTypes DEF Points
    <2>4. Words'
      BY <1>1, <1>5
         DEF Slots!CompareForEnqueue, Slots!CompareForDequeue, Slots!ConsumerCompare, Words
    <2> QED BY <1>1, <2>3, <2>4 DEF Types
  <1>6. CASE Slots!ClaimTail(g) \/ Slots!ClaimHead(g)
    <2>1. \/ Goto(g, "cas", "write") \/ Goto(g, "cas", "read") \/ Goto(g, "cas", "load")
      BY <1>6 DEF Slots!ClaimTail, Slots!ClaimHead
    <2>2. ClientTypes'
      BY <1>1, <2>1, GotoTypes DEF Points
    <2>3. Words'
      BY <1>1, <1>2, <1>6 DEF Slots!ClaimTail, Slots!ClaimHead, Words
    <2> QED BY <1>1, <2>2, <2>3 DEF Types
  <1>7. CASE Slots!Write(g)
    <2>1. ClientTypes'
      BY <1>1, <1>7, GotoTypes DEF Slots!Write, Points
    <2>2. Words'
      BY <1>1, <1>7 DEF Slots!Write, Words
    <2> QED BY <1>1, <2>1, <2>2 DEF Types
  <1>8. CASE Slots!Publish(g) \/ Slots!Release(g)
    <2>1. Yes \in Nat \X BOOLEAN
      BY DEF Yes, zero
    <2>2. ClientTypes'
      BY <1>1, <1>8, <2>1, FinishTypes DEF Slots!Publish, Slots!Release
    <2>3. Words'
      BY <1>1, <1>2, <1>8 DEF Slots!Publish, Slots!Release, Words
    <2> QED BY <1>1, <2>2, <2>3 DEF Types
  <1>9. CASE Slots!Read(g) \/ Slots!ConsumerRead(g)
    <2>1. ClientTypes'
      BY <1>1, <1>9, ReadTypes DEF Slots!Read, Slots!ConsumerRead, Points
    <2>2. Words'
      <3>1. /\ val' = [val EXCEPT ![Idx(pos[g])] = 0]
            /\ head' = head \/ head' = Plus(head, 1)
            /\ UNCHANGED <<tail, pos, seq>>
        BY <1>9, SlotsWords DEF Slots!Read, Slots!ConsumerRead, zero
      <3> QED BY <1>1, <1>2, <3>1 DEF Words
    <2> QED BY <1>1, <2>1, <2>2 DEF Types
  <1>10. CASE Slots!Return(g)
    <2>1. ClientTypes'
      BY <1>1, <1>10, LeaveTypes DEF Slots!Return
    <2>2. Words'
      BY <1>1, <1>10 DEF Slots!Return, Words
    <2> QED BY <1>1, <2>1, <2>2 DEF Types
  <1> QED BY <1>3, <1>4, <1>5, <1>6, <1>7, <1>8, <1>9, <1>10
             DEF Slots!MPMCCall, Slots!MPMCWork, Slots!MPSCCall, Slots!MPSCWork,
                 Slots!Enqueuing

LEMMA StrictTypes ==
  ASSUME Types, NEW g \in Goroutine,
         \/ Strict!SPSCCall(g) \/ Strict!SPSCWork(g)
         \/ Strict!MutexCall(g) \/ Strict!MutexWork(g),
         UNCHANGED <<impl, seq>>
  PROVE  Types'
  <1>1. /\ ClientTypes /\ Words /\ impl' \in Impl /\ UNCHANGED seq
        /\ pos[g] \in Word /\ arg[g] \in Nat /\ ret[g] \in Nat \X BOOLEAN
        /\ Idx(pos[g]) \in Index /\ val[Idx(pos[g])] \in Nat
        /\ Idx(head) \in Index /\ val[Idx(head)] \in Nat /\ Idx(tail) \in Index
        /\ Yes \in Nat \X BOOLEAN /\ No \in Nat \X BOOLEAN
    BY WordFacts DEF Types, Words, ClientTypes, ClientTypeOK, Yes, No, zero
  <1>2. /\ Plus(pos[g], 1) \in Word
        /\ Plus(head, 1) \in Word /\ Plus(tail, 1) \in Word
    BY <1>1, WordFacts DEF Words
  <1> USE StrictCopies, StrictWords DEF Strict!spscVars, Strict!ringVars
  <1>3. CASE Strict!StartEnqueue(g) \/ Strict!StartDequeue(g)
    <2>1. ClientTypes'
      <3>1. (IF cached THEN "check" ELSE "refresh") \in Points
        BY DEF Points
      <3> QED BY <1>1, <1>3, <3>1, StartTypes DEF Strict!StartEnqueue, Strict!StartDequeue
    <2>2. Words'
      BY <1>1, <1>3 DEF Strict!StartEnqueue, Strict!StartDequeue, Words
    <2> QED BY <1>1, <2>1, <2>2 DEF Types
  <1>4. CASE Strict!Check(g)
    <2>1. Goto(g, "check", "refresh") \/ Goto(g, "check", "copy")
      BY <1>4 DEF Strict!Check
    <2>2. ClientTypes'
      BY <1>1, <2>1, GotoTypes DEF Points
    <2>3. Words'
      BY <1>1, <1>4 DEF Strict!Check, Words
    <2> QED BY <1>1, <2>2, <2>3 DEF Types
  <1>5. CASE Strict!RefreshHead(g) \/ Strict!RefreshTail(g)
    <2>1. Finish(g, "refresh", No) \/ Goto(g, "refresh", "copy")
      BY <1>5 DEF Strict!RefreshHead, Strict!RefreshTail
    <2>2. ClientTypes'
      BY <1>1, <2>1, GotoTypes, FinishTypes DEF Points
    <2>3. Words'
      BY <1>1, <1>5 DEF Strict!RefreshHead, Strict!RefreshTail, Words
    <2> QED BY <1>1, <2>2, <2>3 DEF Types
  <1>6. CASE Strict!WriteArr(g)
    <2>1. ClientTypes'
      BY <1>1, <1>6, GotoTypes DEF Strict!WriteArr, Points
    <2>2. Words'
      BY <1>1, <1>6 DEF Strict!WriteArr, Words
    <2> QED BY <1>1, <2>1, <2>2 DEF Types
  <1>7. CASE Strict!ReadArr(g)
    <2>1. ClientTypes'
      BY <1>1, <1>7, ReadTypes DEF Strict!ReadArr, Points
    <2>2. Words'
      BY <1>1, <1>7 DEF Strict!ReadArr, Words
    <2> QED BY <1>1, <2>1, <2>2 DEF Types
  <1>8. CASE Strict!StoreTail(g) \/ Strict!StoreHead(g)
    <2>1. ClientTypes'
      BY <1>1, <1>8, FinishTypes DEF Strict!StoreTail, Strict!StoreHead
    <2>2. Words'
      BY <1>1, <1>2, <1>8 DEF Strict!StoreTail, Strict!StoreHead, Words
    <2> QED BY <1>1, <2>1, <2>2 DEF Types
  <1>9. CASE Strict!Return(g)
    <2>1. ClientTypes'
      BY <1>1, <1>9, LeaveTypes DEF Strict!Return
    <2>2. Words'
      BY <1>1, <1>9 DEF Strict!Return, Words
    <2> QED BY <1>1, <2>1, <2>2 DEF Types
  <1>10. CASE Strict!MutexCall(g)
    <2>1. ClientTypes'
      BY <1>1, <1>10, StartTypes DEF Strict!MutexCall, Points
    <2>2. Words'
      BY <1>1, <1>10 DEF Strict!MutexCall, Words
    <2> QED BY <1>1, <2>1, <2>2 DEF Types
  <1>11. CASE Strict!MutexEnqueue(g)
    <2>1. ClientTypes'
      BY <1>1, <1>11, FinishTypes DEF Strict!MutexEnqueue
    <2>2. Words'
      BY <1>1, <1>2, <1>11 DEF Strict!MutexEnqueue, Words
    <2> QED BY <1>1, <2>1, <2>2 DEF Types
  <1>12. CASE Strict!MutexDequeue(g)
    <2>1. ClientTypes'
      <3>1. <<val[Idx(head)], TRUE>> \in Nat \X BOOLEAN
        BY <1>1
      <3> QED BY <1>1, <1>12, <3>1, FinishTypes DEF Strict!MutexDequeue
    <2>2. Words'
      BY <1>1, <1>2, <1>12 DEF Strict!MutexDequeue, Words, zero
    <2> QED BY <1>1, <2>1, <2>2 DEF Types
  <1> QED BY <1>3, <1>4, <1>5, <1>6, <1>7, <1>8, <1>9, <1>10, <1>11, <1>12
             DEF Strict!SPSCCall, Strict!SPSCWork, Strict!MutexCall, Strict!MutexWork

LEMMA TypesStep == Types /\ [Next]_vars => Types'
  <1> SUFFICES ASSUME Types, [Next]_vars PROVE Types'
    OBVIOUS
  <1>1. CASE UNCHANGED vars
    <2>1. ClientTypes' /\ Words' /\ impl' = impl
      BY <1>1 DEF vars, clientVars, ringVars, spscOnly, Types, ClientTypes, ClientTypeOK,
                  Words
    <2> QED BY <2>1 DEF Types
  <1>2. ASSUME NEW g \in Goroutine, Call(g) \/ Work(g) PROVE Types'
    BY <1>2, SlotTypes, StrictTypes DEF Call, Work, Uses
  <1> QED BY <1>1, <1>2 DEF Next

LEMMA TypesInvariant == Spec => []Types
  BY TypesStart, TypesStep, PTL DEF Spec

(* The words of every queue keep their types: positions stay words when    *)
(* they wrap (queue/*.go).                                                 *)
THEOREM TypeCorrectness == Spec => []TypeOK
  <1>1. Types => TypeOK
    BY DEF Types, ClientTypes, Words, Word, TypeOK, RingTypeOK
  <1> QED BY <1>1, TypesInvariant, PTL
-----------------------------------------------------------------------------
(* The single-producer queues.  How far the two sides and their copies of  *)
(* each other's position are apart, which bounds what the copies may be    *)
(* behind, and what a call knows once it has compared.                     *)

SPSCBusy(g) == pc[g] \in {"check", "refresh", "copy", "store"}

Window(n, a, b) ==
  /\ tail = Plus(head, n) /\ tail = Plus(cachedHead, a) /\ cachedTail = Plus(head, b)
  /\ b <= n /\ n <= a
  /\ \A g \in Goroutine : SPSCBusy(g) =>
       \/ /\ op[g] = "enqueue" /\ g = Producer /\ pos[g] = tail
          /\ pc[g] \in {"copy", "store"} => a < Size
       \/ /\ op[g] = "dequeue" /\ g = Consumer /\ pos[g] = head
          /\ pc[g] \in {"copy", "store"} => b > 0

SPSCInv == impl = "SPSC" => \E n, a, b \in 0 .. Size : Window(n, a, b)

LEMMA WindowStart == Init => SPSCInv
  <1> SUFFICES ASSUME Init PROVE \E n, a, b \in 0 .. Size : Window(n, a, b)
    BY DEF SPSCInv
  <1>1. /\ head \in Word /\ tail = head /\ cachedHead = head /\ cachedTail = tail
        /\ pc = [g \in Goroutine |-> "idle"]
    BY RingAssumption, SlotsCopies
       DEF Init, Slots!Init, Strict!Init, RingInit, ClientInit, Word
  <1>2. Plus(head, 0) = head
    BY <1>1, PlusZero
  <1>3. Window(0, 0, 0)
    BY <1>1, <1>2 DEF Window, SPSCBusy
  <1> QED BY <1>3, WordFacts

LEMMA WindowStep ==
  ASSUME Types, NEW n \in 0 .. Size, NEW a \in 0 .. Size, NEW b \in 0 .. Size,
         Window(n, a, b),
         NEW g \in Goroutine, Strict!SPSCCall(g) \/ Strict!SPSCWork(g)
  PROVE  \E i, j, k \in 0 .. Size : Window(i, j, k)'
  <1>1. /\ Size \in Nat \ {0} /\ Size \in 0 .. Modulus - 1
        /\ {n, a, b} \subseteq 0 .. Modulus - 1
        /\ head \in Word /\ tail \in Word /\ cachedHead \in Word /\ cachedTail \in Word
        /\ Word \subseteq Nat /\ n \in Nat /\ a \in Nat /\ b \in Nat
    BY RingAssumption, WordFacts DEF Types, Words
  <1>2. /\ Minus(tail, head) = n /\ Minus(tail, cachedHead) = a /\ Minus(cachedTail, head) = b
    BY <1>1, MinusPlus DEF Window
  <1>3. /\ pc \in [Goroutine -> Points] /\ pos \in [Goroutine -> Word]
        /\ DOMAIN op = Goroutine
    BY DEF Types, ClientTypes, ClientTypeOK, Words
  <1> USE StrictCopies, StrictWords DEF Strict!spscVars, Strict!ringVars
  <1>4. CASE Strict!StartEnqueue(g)
    <2>1. /\ g = Producer /\ pc'[g] \in {"check", "refresh"} /\ op'[g] = "enqueue"
          /\ pos'[g] = tail /\ UNCHANGED <<head, tail, cachedHead, cachedTail>>
          /\ \A h \in Goroutine :
               h # g => pc'[h] = pc[h] /\ op'[h] = op[h] /\ pos'[h] = pos[h]
      BY <1>3, <1>4 DEF Strict!StartEnqueue, Start
    <2>2. Window(n, a, b)'
      BY <2>1 DEF Window, SPSCBusy
    <2> QED BY <2>2
  <1>5. CASE Strict!StartDequeue(g)
    <2>1. /\ g = Consumer /\ pc'[g] \in {"check", "refresh"} /\ op'[g] = "dequeue"
          /\ pos'[g] = head /\ UNCHANGED <<head, tail, cachedHead, cachedTail>>
          /\ \A h \in Goroutine :
               h # g => pc'[h] = pc[h] /\ op'[h] = op[h] /\ pos'[h] = pos[h]
      BY <1>3, <1>5 DEF Strict!StartDequeue, Start
    <2>2. Window(n, a, b)'
      BY <2>1 DEF Window, SPSCBusy
    <2> QED BY <2>2
  <1>6. CASE Strict!Check(g)
    <2>1. pc[g] = "check" /\ pc'[g] \in {"refresh", "copy"}
      BY <1>3, <1>6 DEF Strict!Check, Goto
    <2>2. op[g] = "enqueue" /\ pc'[g] = "copy" => a < Size
      <3> SUFFICES ASSUME op[g] = "enqueue", pc'[g] = "copy" PROVE a < Size
        OBVIOUS
      <3>1. pos[g] = tail
        BY <2>1 DEF Window, SPSCBusy
      <3>2. ~(Minus(pos[g], cachedHead) >= Size)
        BY <1>3, <1>6 DEF Strict!Check, Goto, Strict!LooksFull
      <3> QED BY <1>1, <1>2, <3>1, <3>2
    <2>3. op[g] = "dequeue" /\ pc'[g] = "copy" => b > 0
      <3> SUFFICES ASSUME op[g] = "dequeue", pc'[g] = "copy" PROVE b > 0
        OBVIOUS
      <3>1. pos[g] = head
        BY <2>1 DEF Window, SPSCBusy
      <3>2. ~(Minus(cachedTail, pos[g]) = 0)
        BY <1>3, <1>6 DEF Strict!Check, Goto, Strict!LooksEmpty
      <3> QED BY <1>1, <1>2, <3>1, <3>2
    <2>4. Window(n, a, b)'
      <3>1. UNCHANGED <<op, pos, head, tail, cachedHead, cachedTail>>
        BY <1>6 DEF Strict!Check, Goto
      <3>2. \A h \in Goroutine : h # g => pc'[h] = pc[h]
        BY <1>3, <1>6 DEF Strict!Check, Goto
      <3> QED BY <2>1, <2>2, <2>3, <3>1, <3>2 DEF Window, SPSCBusy
    <2> QED BY <2>4
  <1>7. CASE Strict!RefreshHead(g)
    <2>1. /\ op[g] = "enqueue" /\ pc[g] = "refresh" /\ cachedHead' = head
          /\ UNCHANGED <<op, pos, head, tail, cachedTail>>
          /\ \A h \in Goroutine : h # g => pc'[h] = pc[h]
          /\ pc'[g] = "done" \/ (pc'[g] = "copy" /\ Minus(pos[g], head) < Size)
      BY <1>3, <1>7 DEF Strict!RefreshHead, Goto, Finish
    <2>2. pos[g] = tail /\ g = Producer
      BY <2>1 DEF Window, SPSCBusy
    <2>3. pc'[g] = "copy" => n < Size
      BY <1>1, <1>2, <2>1, <2>2
    <2>4. Window(n, n, b)'
      <3>1. ASSUME NEW h \in Goroutine, h # g, SPSCBusy(h)'
            PROVE  /\ op[h] = "dequeue" /\ h = Consumer /\ pos[h] = head
                   /\ pc'[h] \in {"copy", "store"} => b > 0
        BY <2>1, <2>2, <3>1 DEF Window, SPSCBusy
      <3>2. b <= n /\ n <= n
        BY <1>1 DEF Window
      <3> QED BY <2>1, <2>2, <2>3, <3>1, <3>2 DEF Window, SPSCBusy
    <2> QED BY <2>4
  <1>8. CASE Strict!RefreshTail(g)
    <2>1. /\ op[g] = "dequeue" /\ pc[g] = "refresh" /\ cachedTail' = tail
          /\ UNCHANGED <<op, pos, head, tail, cachedHead>>
          /\ \A h \in Goroutine : h # g => pc'[h] = pc[h]
          /\ pc'[g] = "done" \/ (pc'[g] = "copy" /\ Minus(tail, pos[g]) # 0)
      BY <1>3, <1>8 DEF Strict!RefreshTail, Goto, Finish
    <2>2. pos[g] = head /\ g = Consumer
      BY <2>1 DEF Window, SPSCBusy
    <2>3. pc'[g] = "copy" => n > 0
      BY <1>1, <1>2, <2>1, <2>2
    <2>4. Window(n, a, n)'
      <3>1. ASSUME NEW h \in Goroutine, h # g, SPSCBusy(h)'
            PROVE  /\ op[h] = "enqueue" /\ h = Producer /\ pos[h] = tail
                   /\ pc'[h] \in {"copy", "store"} => a < Size
        BY <2>1, <2>2, <3>1 DEF Window, SPSCBusy
      <3>2. n <= a /\ n <= n
        BY <1>1 DEF Window
      <3> QED BY <2>1, <2>2, <2>3, <3>1, <3>2 DEF Window, SPSCBusy
    <2> QED BY <2>4
  <1>9. CASE Strict!WriteArr(g) \/ Strict!ReadArr(g)
    <2>1. /\ pc[g] = "copy" /\ pc'[g] = "store"
          /\ UNCHANGED <<op, pos, head, tail, cachedHead, cachedTail>>
          /\ \A h \in Goroutine : h # g => pc'[h] = pc[h]
      BY <1>3, <1>9 DEF Strict!WriteArr, Strict!ReadArr, Goto
    <2>2. Window(n, a, b)'
      BY <2>1 DEF Window, SPSCBusy
    <2> QED BY <2>2
  <1>10. CASE Strict!StoreTail(g)
    <2>1. /\ op[g] = "enqueue" /\ pc[g] = "store" /\ pc'[g] = "done"
          /\ tail' = Plus(pos[g], 1)
          /\ UNCHANGED <<op, pos, head, cachedHead, cachedTail>>
          /\ \A h \in Goroutine : h # g => pc'[h] = pc[h]
      BY <1>3, <1>10 DEF Strict!StoreTail, Finish
    <2>2. pos[g] = tail /\ a < Size /\ g = Producer
      BY <2>1 DEF Window, SPSCBusy
    <2>3. tail' = Plus(head, n + 1) /\ tail' = Plus(cachedHead, a + 1)
      <3>1. head \in Nat /\ cachedHead \in Nat /\ 1 \in Nat
        BY <1>1
      <3>2. Plus(Plus(head, n), 1) = Plus(head, n + 1)
        BY <1>1, <3>1, PlusPlus
      <3>3. Plus(Plus(cachedHead, a), 1) = Plus(cachedHead, a + 1)
        BY <1>1, <3>1, PlusPlus
      <3> QED BY <2>1, <2>2, <3>2, <3>3 DEF Window
    <2>4. Window(n + 1, a + 1, b)'
      BY <1>1, <2>1, <2>2, <2>3 DEF Window, SPSCBusy
    <2>5. n + 1 \in 0 .. Size /\ a + 1 \in 0 .. Size
      BY <1>1, <2>2 DEF Window
    <2> QED BY <2>4, <2>5
  <1>11. CASE Strict!StoreHead(g)
    <2>1. /\ op[g] = "dequeue" /\ pc[g] = "store" /\ pc'[g] = "done"
          /\ head' = Plus(pos[g], 1)
          /\ UNCHANGED <<op, pos, tail, cachedHead, cachedTail>>
          /\ \A h \in Goroutine : h # g => pc'[h] = pc[h]
      BY <1>3, <1>11 DEF Strict!StoreHead, Finish
    <2>2. pos[g] = head /\ b > 0 /\ g = Consumer
      BY <2>1 DEF Window, SPSCBusy
    <2>3. /\ n - 1 \in 0 .. Size /\ b - 1 \in 0 .. Size
          /\ n - 1 \in Nat /\ b - 1 \in Nat /\ 1 + (n - 1) = n /\ 1 + (b - 1) = b
      BY <1>1, <2>2 DEF Window
    <2>4. Plus(head', n - 1) = Plus(head, n) /\ Plus(head', b - 1) = Plus(head, b)
      <3>1. head \in Nat /\ 1 \in Nat
        BY <1>1
      <3>2. Plus(Plus(head, 1), n - 1) = Plus(head, 1 + (n - 1))
        BY <2>3, <3>1, PlusPlus
      <3>3. Plus(Plus(head, 1), b - 1) = Plus(head, 1 + (b - 1))
        BY <2>3, <3>1, PlusPlus
      <3> QED BY <2>1, <2>2, <2>3, <3>2, <3>3
    <2>5. Window(n - 1, a, b - 1)'
      BY <1>1, <2>1, <2>2, <2>3, <2>4 DEF Window, SPSCBusy
    <2> QED BY <2>3, <2>5
  <1>12. CASE Strict!Return(g)
    <2>1. Window(n, a, b)'
      BY <1>3, <1>12 DEF Strict!Return, Leave, Window, SPSCBusy
    <2> QED BY <2>1
  <1> QED BY <1>4, <1>5, <1>6, <1>7, <1>8, <1>9, <1>10, <1>11, <1>12
             DEF Strict!SPSCCall, Strict!SPSCWork

LEMMA SPSCInvStep == Types /\ SPSCInv /\ [Next]_vars => SPSCInv'
  <1> SUFFICES ASSUME Types, SPSCInv, [Next]_vars, impl' = "SPSC"
               PROVE  \E n, a, b \in 0 .. Size : Window(n, a, b)'
    BY DEF SPSCInv
  <1>1. impl = "SPSC"
    BY DEF Next, Call, Work, Uses, vars
  <1>2. PICK n \in 0 .. Size, a \in 0 .. Size, b \in 0 .. Size : Window(n, a, b)
    BY <1>1 DEF SPSCInv
  <1>3. CASE UNCHANGED vars
    <2>1. Window(n, a, b)'
      BY <1>2, <1>3 DEF vars, clientVars, ringVars, spscOnly, Window, SPSCBusy
    <2> QED BY <2>1
  <1>4. ASSUME NEW g \in Goroutine, Call(g) \/ Work(g)
        PROVE  \E n_1, a_1, b_1 \in 0 .. Size : Window(n_1, a_1, b_1)'
    <2>1. Strict!SPSCCall(g) \/ Strict!SPSCWork(g)
      BY <1>1, <1>4 DEF Call, Work, Uses
    <2> QED BY <1>2, <2>1, WindowStep
  <1> QED BY <1>3, <1>4 DEF Next

LEMMA WindowExclusive == Types /\ SPSCInv /\ impl = "SPSC" => Strict!PlaceExclusive
  <1> SUFFICES ASSUME Types, SPSCInv, impl = "SPSC",
                      NEW g \in Goroutine, NEW h \in Goroutine,
                      pc[g] = "copy", pc[h] = "copy", Idx(pos[g]) = Idx(pos[h]), g # h
               PROVE  FALSE
    BY StrictWords DEF Strict!PlaceExclusive
  <1>1. PICK n \in 0 .. Size, a \in 0 .. Size, b \in 0 .. Size : Window(n, a, b)
    BY DEF SPSCInv
  <1>2. \/ op[g] = "enqueue" /\ op[h] = "dequeue"
        \/ op[g] = "dequeue" /\ op[h] = "enqueue"
    BY <1>1 DEF Window, SPSCBusy
  <1>3. a < Size /\ b > 0 /\ {pos[g], pos[h]} = {tail, head}
    BY <1>1, <1>2 DEF Window, SPSCBusy
  <1>4. Idx(head) = Idx(tail)
    BY <1>3
  <1>5. Size \in Nat /\ n \in 1 .. Size - 1 /\ head \in Word /\ head \in Nat
    BY <1>1, <1>3, WordFacts DEF Window, Types, Words
  <1>6. Idx(Plus(head, 0)) # Idx(Plus(head, 0 + n))
    BY <1>5, IdxNear
  <1>7. Plus(head, 0) = head /\ 0 + n = n
    BY <1>5, PlusZero
  <1> QED BY <1>1, <1>4, <1>6, <1>7 DEF Window
-----------------------------------------------------------------------------
(* The sequence-numbered rings.  The positions are words that wrap; the    *)
(* proof counts them without wrapping from the position t where the        *)
(* behaviour began: N and H are the positions claimed at the tail and at   *)
(* the head so far, M[g] is the one goroutine g is at, P[i] the one place  *)
(* i is for, F[i] says that i is full, and K holds the calls that claimed  *)
(* a position at the tail, so that N is bounded by the calls made.         *)

At(t, m) == Idx(Plus(t, m))

Busy(g)    == pc[g] \notin {"idle", "done"}
Writer(g)  == pc[g] \in {"write", "publish"}
Reader(g)  == pc[g] \in {"read", "release"}
Pending(g) == op[g] = "enqueue" /\ pc[g] \in {"load", "seq", "cas"}

Counts(t, N, H, M, P, F) ==
  /\ t \in Word /\ N \in Nat /\ H \in 0 .. N
  /\ M \in [Goroutine -> Nat] /\ P \in [Index -> Nat] /\ F \in [Index -> BOOLEAN]
  /\ tail = Plus(t, N) /\ head = Plus(t, H)

Claims(N, K) ==
  /\ K \subseteq 1 .. calls /\ IsFiniteSet(K) /\ Cardinality(K) = N
  /\ \A g \in Goroutine : Pending(g) => arg[g] \in (1 .. calls) \ K
  /\ \A g, h \in Goroutine : Pending(g) /\ Pending(h) /\ arg[g] = arg[h] => g = h

Places(t, N, P, F) ==
  \A i \in Index :
    /\ At(t, P[i]) = i
    /\ seq[i] = Plus(t, IF F[i] THEN P[i] + 1 ELSE P[i])
    /\ P[i] <= N + Size
    /\ F[i] => P[i] < N

Positions(t, N, M) ==
  \A g \in Goroutine : Busy(g) => pos[g] = Plus(t, M[g]) /\ M[g] <= N

(* A place belongs to the goroutine at its position; one that is about to  *)
(* claim the tail's position has seen its place free.                      *)
Users(t, N, M, P, F) ==
  \A g \in Goroutine :
    /\ Writer(g) => ~F[At(t, M[g])] /\ P[At(t, M[g])] = M[g] /\ M[g] < N
    /\ Reader(g) => F[At(t, M[g])] /\ P[At(t, M[g])] = M[g]
    /\ pc[g] = "cas" /\ op[g] = "enqueue" /\ M[g] = N
         => ~F[At(t, M[g])] /\ P[At(t, M[g])] = N

Apart(M) ==
  \A g, h \in Goroutine :
    /\ M[g] = M[h] /\ Writer(g) /\ Writer(h) => g = h
    /\ M[g] = M[h] /\ Reader(g) /\ Reader(h) => g = h

(* The same for the head's position of the MPMC rings; that of the MPSC    *)
(* ring is its only consumer's own.                                        *)
Dequeuers(t, H, M, P, F) ==
  /\ impl = "MPMC" => \A g \in Goroutine :
       /\ Busy(g) /\ op[g] = "dequeue" => M[g] <= H
       /\ Reader(g) => M[g] < H
       /\ pc[g] = "cas" /\ op[g] = "dequeue" /\ M[g] = H
            => F[At(t, M[g])] /\ P[At(t, M[g])] = H
  /\ impl = "MPSC" => \A g \in Goroutine :
       /\ Reader(g) => g = Consumer
       /\ Busy(g) /\ op[g] = "dequeue" => g = Consumer
       /\ (op[g] = "dequeue" /\ pc[g] = "seq") \/ pc[g] = "read" => M[g] = H

Shape(t, N, H, M, P, F, K) ==
  /\ Counts(t, N, H, M, P, F)
  /\ Claims(N, K)
  /\ Places(t, N, P, F)
  /\ Positions(t, N, M)
  /\ Users(t, N, M, P, F)
  /\ Apart(M)
  /\ Dequeuers(t, H, M, P, F)

(* The positions in use are fewer than the words: none stands for two.     *)
LEMMA Unwrapped ==
  ASSUME NEW t \in Word, NEW N \in Nat, Size > 1, N + Size < Modulus
  PROVE  /\ \A x, y \in 0 .. N + Size : Plus(t, x) = Plus(t, y) => x = y
         /\ \A m \in Nat : /\ At(t, m) \in Index
                           /\ At(t, m + 1) # At(t, m)
                           /\ At(t, m + Size) = At(t, m)
                           /\ Plus(Plus(t, m), 1) = Plus(t, m + 1)
                           /\ Plus(Plus(t, m), Size) = Plus(t, m + Size)
  <1>1. /\ Modulus \in Nat \ {0} /\ Size \in Nat \ {0} /\ t \in Nat
        /\ 0 .. N + Size \subseteq 0 .. Modulus - 1 /\ 1 \in 1 .. Size - 1 /\ 1 \in Nat
    BY WordFacts
  <1>2. \A x, y \in 0 .. N + Size : Plus(t, x) = Plus(t, y) => x = y
    BY <1>1, PlusInjective
  <1>3. ASSUME NEW m \in Nat
        PROVE  /\ At(t, m) \in Index
               /\ At(t, m + 1) # At(t, m)
               /\ At(t, m + Size) = At(t, m)
               /\ Plus(Plus(t, m), 1) = Plus(t, m + 1)
               /\ Plus(Plus(t, m), Size) = Plus(t, m + Size)
    <2>1. At(t, m) \in Index
      BY <1>1, IdxPlus DEF At
    <2>2. At(t, m + 1) # At(t, m)
      BY <1>1, IdxNear DEF At
    <2>3. At(t, m + Size) = At(t, m)
      BY <1>1, IdxAgain DEF At
    <2>4. Plus(Plus(t, m), 1) = Plus(t, m + 1)
      BY <1>1, PlusPlus
    <2>5. Plus(Plus(t, m), Size) = Plus(t, m + Size)
      BY <1>1, PlusPlus
    <2> QED BY <2>1, <2>2, <2>3, <2>4, <2>5
  <1> QED BY <1>2, <1>3

LEMMA DiffZero ==
  ASSUME NEW p \in Word, NEW q \in Word, Diff(p, q) = 0
  PROVE  p = q
  <1>1. Modulus \in Nat \ {0} /\ p \in 0 .. Modulus - 1 /\ q \in 0 .. Modulus - 1
    BY WordFacts DEF Word
  <1>2. p - q \in Int /\ Minus(p, q) \in 0 .. Modulus - 1
    BY <1>1, DivFacts DEF Minus
  <1>3. Minus(p, q) = 0
    BY <1>1, <1>2 DEF Diff
  <1>4. CASE p > q
    <2>1. p - q \in 0 .. Modulus - 1
      BY <1>1, <1>4
    <2>2. (p - q) % Modulus = p - q
      BY <1>1, <2>1, ModSmall
    <2> QED BY <1>1, <1>3, <1>4, <2>2 DEF Minus
  <1>5. CASE p < q
    <2> DEFINE d == p - q + Modulus
    <2>1. d \in 0 .. Modulus - 1 /\ d # 0 /\ p - q = Modulus * (0 - 1) + d
      BY <1>1, <1>5
    <2> HIDE DEF d
    <2>2. 0 - 1 \in Int
      OBVIOUS
    <2>3. (Modulus * (0 - 1) + d) % Modulus = d
      BY <1>1, <2>1, <2>2, DivUnique
    <2> QED BY <1>3, <2>1, <2>3 DEF Minus
  <1> QED BY <1>1, <1>4, <1>5

LEMMA ClaimsBound ==
  ASSUME calls \in Nat, NEW N \in Nat, NEW K, Claims(N, K)
  PROVE  N <= calls
  <1>1. IsFiniteSet(1 .. calls) /\ Cardinality(1 .. calls) = calls
    <2>1. 1 \in Int /\ calls \in Int
      OBVIOUS
    <2> QED BY <2>1, FS_Interval
  <1>2. Cardinality(K) <= Cardinality(1 .. calls)
    BY <1>1, FS_Subset DEF Claims
  <1> QED BY <1>1, <1>2 DEF Claims

(* What a step of g leaves alone. *)
Others(g) ==
  \A h \in Goroutine \ {g} :
    pc'[h] = pc[h] /\ op'[h] = op[h] /\ arg'[h] = arg[h] /\ pos'[h] = pos[h]

(* A call loads the tail's or the head's position, the first time with the *)
(* call itself.                                                            *)
LEMMA Reload ==
  ASSUME NEW t \in Word, NEW N \in Nat, NEW H \in Nat, NEW M \in [Goroutine -> Nat],
         NEW P \in [Index -> Nat], NEW F \in [Index -> BOOLEAN], NEW K \in SUBSET Nat,
         Shape(t, N, H, M, P, F, K), Types, Size > 1, N + Size < Modulus,
         NEW g \in Goroutine, UNCHANGED impl,
         Others(g), UNCHANGED <<head, tail, seq>>, Claims(N, K)',
         pc'[g] = "seq", NEW x \in {N, H}, pos'[g] = Plus(t, x),
         op'[g] = "dequeue" => x = H /\ (impl = "MPSC" => g = Consumer)
  PROVE  Shape(t, N, H, [M EXCEPT ![g] = x], P, F, K)'
  <1> DEFINE L == [M EXCEPT ![g] = x]
  <1>1. /\ L \in [Goroutine -> Nat] /\ L[g] = x /\ x <= N
        /\ \A h \in Goroutine : h # g => L[h] = M[h]
    BY DEF Shape, Counts
  <1> HIDE DEF L
  <1>2. Counts(t, N, H, L, P, F)'
    BY <1>1 DEF Shape, Counts
  <1>3. Places(t, N, P, F)'
    BY DEF Shape, Places
  <1>4. Positions(t, N, L)'
    BY <1>1 DEF Shape, Positions, Busy, Others
  <1>5. Users(t, N, L, P, F)'
    BY <1>1 DEF Shape, Users, Writer, Reader, Others
  <1>6. Apart(L)'
    BY <1>1 DEF Shape, Apart, Writer, Reader, Others
  <1>7. Dequeuers(t, H, L, P, F)'
    BY <1>1 DEF Shape, Dequeuers, Counts, Busy, Reader, Others
  <1> QED BY <1>2, <1>3, <1>4, <1>5, <1>6, <1>7 DEF Shape, L

(* A step within a call that changes no position and no sequence number.   *)
LEMMA Move ==
  ASSUME NEW t \in Word, NEW N \in Nat, NEW H \in Nat, NEW M \in [Goroutine -> Nat],
         NEW P \in [Index -> Nat], NEW F \in [Index -> BOOLEAN], NEW K \in SUBSET Nat,
         Shape(t, N, H, M, P, F, K), Types, Size > 1, N + Size < Modulus,
         NEW g \in Goroutine, UNCHANGED impl,
         \A h \in Goroutine \ {g} : pc'[h] = pc[h],
         UNCHANGED <<calls, op, arg, pos, head, tail, seq>>,
         Busy(g)' => Busy(g), Pending(g)' => Pending(g), pc'[g] # "seq",
         Writer(g)' => Writer(g),
         Reader(g)' =>
           \/ Reader(g) /\ pc'[g] # "read"
           \/ /\ impl = "MPSC" /\ g = Consumer /\ M[g] = H
              /\ F[At(t, M[g])] /\ P[At(t, M[g])] = M[g],
         pc'[g] = "cas" =>
           /\ op[g] = "enqueue" => ~F[At(t, M[g])] /\ P[At(t, M[g])] = M[g]
           /\ op[g] = "dequeue" => F[At(t, M[g])] /\ P[At(t, M[g])] = M[g]
  PROVE  Shape(t, N, H, M, P, F, K)'
  <1>1. Counts(t, N, H, M, P, F)'
    BY DEF Shape, Counts
  <1>2. Claims(N, K)'
    BY DEF Shape, Claims, Pending
  <1>3. Places(t, N, P, F)'
    BY DEF Shape, Places
  <1>4. Positions(t, N, M)'
    BY DEF Shape, Positions, Busy
  <1>5. Users(t, N, M, P, F)'
    BY DEF Shape, Users, Writer, Reader
  <1>6. Apart(M)'
    <2>1. ASSUME impl = "MPSC", NEW h \in Goroutine, Reader(h) PROVE h = Consumer
      BY <2>1 DEF Shape, Dequeuers
    <2> QED BY <2>1 DEF Shape, Apart, Writer, Reader
  <1>7. Dequeuers(t, H, M, P, F)'
    <2>1. CASE impl = "MPMC"
      BY <2>1 DEF Shape, Dequeuers, Busy, Reader
    <2>2. CASE impl # "MPMC"
      BY <2>2 DEF Shape, Dequeuers, Busy, Reader
    <2> QED BY <2>1, <2>2
  <1> QED BY <1>1, <1>2, <1>3, <1>4, <1>5, <1>6, <1>7 DEF Shape

(* A goroutine claims the position at the tail. *)
LEMMA TailClaimed ==
  ASSUME NEW t \in Word, NEW N \in Nat, NEW H \in Nat, NEW M \in [Goroutine -> Nat],
         NEW P \in [Index -> Nat], NEW F \in [Index -> BOOLEAN], NEW K \in SUBSET Nat,
         Shape(t, N, H, M, P, F, K), Types, Size > 1, N + Size < Modulus,
         NEW g \in Goroutine, UNCHANGED impl,
         Others(g), UNCHANGED <<calls, op, arg, pos, head, seq>>,
         pc[g] = "cas", op[g] = "enqueue", tail = pos[g],
         pc'[g] = "write", tail' = Plus(tail, 1)
  PROVE  Shape(t, N + 1, H, M, P, F, K \cup {arg[g]})'
  <1>1. Pending(g) /\ Busy(g)
    BY DEF Pending, Busy
  <1>2. M[g] = N
    <2>1. tail = Plus(t, N) /\ pos[g] = Plus(t, M[g]) /\ M[g] <= N
      BY <1>1 DEF Shape, Counts, Positions
    <2>2. M[g] \in 0 .. N + Size /\ N \in 0 .. N + Size
      BY <2>1, WordFacts
    <2> QED BY <2>1, <2>2, Unwrapped
  <1>3. ~F[At(t, N)] /\ P[At(t, N)] = N
    BY <1>2 DEF Shape, Users
  <1>4. Counts(t, N + 1, H, M, P, F)'
    <2>1. Plus(Plus(t, N), 1) = Plus(t, N + 1)
      BY Unwrapped
    <2> QED BY <2>1 DEF Shape, Counts
  <1>5. Claims(N + 1, K \cup {arg[g]})'
    <2>1. arg[g] \in (1 .. calls) \ K /\ K \subseteq 1 .. calls
          /\ IsFiniteSet(K) /\ Cardinality(K) = N
      BY <1>1 DEF Shape, Claims
    <2>2. IsFiniteSet(K \cup {arg[g]}) /\ Cardinality(K \cup {arg[g]}) = N + 1
      BY <2>1, FS_AddElement
    <2>3. \A h \in Goroutine : Pending(h)' => h # g /\ Pending(h)
      BY DEF Pending, Others
    <2>4. \A h \in Goroutine : Pending(h)' => arg[h] \in (1 .. calls) \ (K \cup {arg[g]})
      BY <1>1, <2>3 DEF Shape, Claims
    <2> QED BY <2>1, <2>2, <2>3, <2>4 DEF Shape, Claims
  <1>6. Places(t, N + 1, P, F)'
    BY WordFacts DEF Shape, Places
  <1>7. Positions(t, N + 1, M)'
    BY <1>1 DEF Shape, Positions, Busy, Others
  <1>8. Users(t, N + 1, M, P, F)'
    <2>1. ASSUME NEW h \in Goroutine, h # g, (pc[h] = "cas" /\ op[h] = "enqueue")'
          PROVE  M[h] # N + 1
      <3>1. Busy(h)
        BY <2>1 DEF Busy, Others
      <3> QED BY <3>1 DEF Shape, Positions
    <2> QED BY <1>2, <1>3, <2>1 DEF Shape, Users, Writer, Reader, Others
  <1>9. Apart(M)'
    <2>1. ASSUME NEW h \in Goroutine, Writer(h) PROVE M[h] # N
      BY <2>1 DEF Shape, Users
    <2> QED BY <1>2, <2>1 DEF Shape, Apart, Writer, Reader, Others
  <1>10. Dequeuers(t, H, M, P, F)'
    BY <1>1 DEF Shape, Dequeuers, Busy, Reader, Others
  <1> QED BY <1>4, <1>5, <1>6, <1>7, <1>8, <1>9, <1>10 DEF Shape

(* A goroutine of an MPMC ring claims the position at the head. *)
LEMMA HeadClaimed ==
  ASSUME NEW t \in Word, NEW N \in Nat, NEW H \in Nat, NEW M \in [Goroutine -> Nat],
         NEW P \in [Index -> Nat], NEW F \in [Index -> BOOLEAN], NEW K \in SUBSET Nat,
         Shape(t, N, H, M, P, F, K), Types, Size > 1, N + Size < Modulus,
         NEW g \in Goroutine, UNCHANGED impl,
         Others(g), UNCHANGED <<calls, op, arg, pos, tail, seq>>,
         impl = "MPMC", pc[g] = "cas", op[g] = "dequeue", head = pos[g],
         pc'[g] = "read", head' = Plus(head, 1)
  PROVE  Shape(t, N, H + 1, M, P, F, K)'
  <1>1. Busy(g) /\ ~Pending(g)
    BY DEF Pending, Busy
  <1>2. M[g] = H
    <2>1. head = Plus(t, H) /\ pos[g] = Plus(t, M[g]) /\ M[g] <= H /\ H <= N
      BY <1>1 DEF Shape, Counts, Positions, Dequeuers
    <2>2. M[g] \in 0 .. N + Size /\ H \in 0 .. N + Size
      BY <2>1, WordFacts
    <2> QED BY <2>1, <2>2, Unwrapped
  <1>3. F[At(t, H)] /\ P[At(t, H)] = H
    BY <1>2 DEF Shape, Dequeuers
  <1>4. H < N
    <2>1. At(t, H) \in Index
      BY Unwrapped
    <2> QED BY <1>3, <2>1 DEF Shape, Places
  <1>5. Counts(t, N, H + 1, M, P, F)'
    <2>1. Plus(Plus(t, H), 1) = Plus(t, H + 1)
      BY Unwrapped
    <2> QED BY <1>4, <2>1 DEF Shape, Counts
  <1>6. Claims(N, K)'
    BY DEF Shape, Claims, Pending, Others
  <1>7. Places(t, N, P, F)'
    BY DEF Shape, Places
  <1>8. Positions(t, N, M)'
    BY <1>1 DEF Shape, Positions, Busy, Others
  <1>9. Users(t, N, M, P, F)'
    BY <1>2, <1>3 DEF Shape, Users, Writer, Reader, Others
  <1>10. Apart(M)'
    <2>1. ASSUME NEW h \in Goroutine, Reader(h) PROVE M[h] # H
      BY <2>1 DEF Shape, Dequeuers
    <2> QED BY <1>2, <2>1 DEF Shape, Apart, Writer, Reader, Others
  <1>11. Dequeuers(t, H + 1, M, P, F)'
    <2>1. ASSUME NEW h \in Goroutine, h # g, Busy(h), op[h] = "dequeue"
          PROVE  M[h] <= H
      BY <2>1 DEF Shape, Dequeuers
    <2> QED BY <1>2, <2>1 DEF Shape, Dequeuers, Busy, Reader, Others
  <1> QED BY <1>5, <1>6, <1>7, <1>8, <1>9, <1>10, <1>11 DEF Shape

(* The consumer of an MPSC ring takes the value at the head. *)
LEMMA HeadTaken ==
  ASSUME NEW t \in Word, NEW N \in Nat, NEW H \in Nat, NEW M \in [Goroutine -> Nat],
         NEW P \in [Index -> Nat], NEW F \in [Index -> BOOLEAN], NEW K \in SUBSET Nat,
         Shape(t, N, H, M, P, F, K), Types, Size > 1, N + Size < Modulus,
         NEW g \in Goroutine, UNCHANGED impl,
         Others(g), UNCHANGED <<calls, op, arg, pos, tail, seq>>,
         impl = "MPSC", pc[g] = "read",
         pc'[g] = "release", head' = Plus(head, 1)
  PROVE  Shape(t, N, H + 1, M, P, F, K)'
  <1>1. Busy(g) /\ ~Pending(g) /\ Reader(g)
    BY DEF Pending, Busy, Reader
  <1>2. M[g] = H /\ g = Consumer
    BY <1>1 DEF Shape, Dequeuers
  <1>3. F[At(t, H)] /\ P[At(t, H)] = H
    BY <1>1, <1>2 DEF Shape, Users
  <1>4. H < N
    <2>1. At(t, H) \in Index
      BY Unwrapped
    <2> QED BY <1>3, <2>1 DEF Shape, Places
  <1>5. Counts(t, N, H + 1, M, P, F)'
    <2>1. Plus(Plus(t, H), 1) = Plus(t, H + 1)
      BY Unwrapped
    <2> QED BY <1>4, <2>1 DEF Shape, Counts
  <1>6. Claims(N, K)'
    BY DEF Shape, Claims, Pending, Others
  <1>7. Places(t, N, P, F)'
    BY DEF Shape, Places
  <1>8. Positions(t, N, M)'
    BY <1>1 DEF Shape, Positions, Busy, Others
  <1>9. Users(t, N, M, P, F)'
    BY <1>1 DEF Shape, Users, Writer, Reader, Others
  <1>10. Apart(M)'
    BY <1>1 DEF Shape, Apart, Writer, Reader, Others
  <1>11. Dequeuers(t, H + 1, M, P, F)'
    BY <1>1, <1>2 DEF Shape, Dequeuers, Busy, Reader, Others
  <1> QED BY <1>5, <1>6, <1>7, <1>8, <1>9, <1>10, <1>11 DEF Shape

(* A goroutine hands its place on: the value is there, or has been taken.  *)
LEMMA Published ==
  ASSUME NEW t \in Word, NEW N \in Nat, NEW H \in Nat, NEW M \in [Goroutine -> Nat],
         NEW P \in [Index -> Nat], NEW F \in [Index -> BOOLEAN], NEW K \in SUBSET Nat,
         Shape(t, N, H, M, P, F, K), Types, Size > 1, N + Size < Modulus,
         NEW g \in Goroutine, UNCHANGED impl,
         Others(g), UNCHANGED <<calls, op, arg, pos, head, tail>>,
         pc[g] = "publish", pc'[g] = "done",
         seq' = [seq EXCEPT ![Idx(pos[g])] = Plus(pos[g], 1)]
  PROVE  Shape(t, N, H, M, P, [F EXCEPT ![At(t, M[g])] = TRUE], K)'
  <1> DEFINE i == At(t, M[g])
             E == [F EXCEPT ![i] = TRUE]
  <1>1. /\ i \in Index /\ E \in [Index -> BOOLEAN] /\ E[i]
        /\ \A j \in Index : j # i => E[j] = F[j]
    BY Unwrapped
  <1>2. Busy(g) /\ ~Pending(g) /\ Writer(g) /\ pos[g] = Plus(t, M[g]) /\ Idx(pos[g]) = i
    BY DEF Busy, Pending, Writer, Shape, Positions, At
  <1>3. ~F[i] /\ P[i] = M[g] /\ M[g] < N
    BY <1>2 DEF Shape, Users
  <1>4. /\ seq'[i] = Plus(t, P[i] + 1)
        /\ \A j \in Index : j # i => seq'[j] = seq[j]
    <2>1. Plus(Plus(t, M[g]), 1) = Plus(t, M[g] + 1)
      BY Unwrapped
    <2>2. DOMAIN seq = Index
      BY DEF Types, Words
    <2> QED BY <1>1, <1>2, <1>3, <2>1, <2>2
  <1>5. \A h \in Goroutine : At(t, M[h]) \in Index
    BY Unwrapped
  <1> HIDE DEF i, E
  <1>6. Counts(t, N, H, M, P, E)'
    BY <1>1 DEF Shape, Counts
  <1>7. Claims(N, K)'
    BY DEF Shape, Claims, Pending, Others
  <1>8. Places(t, N, P, E)'
    BY <1>1, <1>3, <1>4 DEF Shape, Places
  <1>9. Positions(t, N, M)'
    BY <1>2 DEF Shape, Positions, Busy, Others
  <1>10. Users(t, N, M, P, E)'
    <2>1. ASSUME NEW h \in Goroutine, h # g, Writer(h) PROVE At(t, M[h]) # i
      BY <1>2, <1>3, <2>1 DEF Shape, Users, Apart
    <2>2. ASSUME NEW h \in Goroutine, h # g, pc[h] = "cas", op[h] = "enqueue", M[h] = N
          PROVE  At(t, M[h]) # i
      BY <1>3, <2>2 DEF Shape, Users
    <2>3. ASSUME NEW h \in Goroutine, h # g
          PROVE  /\ Writer(h)' => ~E[At(t, M[h])] /\ P[At(t, M[h])] = M[h] /\ M[h] < N
                 /\ Reader(h)' => E[At(t, M[h])] /\ P[At(t, M[h])] = M[h]
                 /\ (pc[h] = "cas" /\ op[h] = "enqueue")' /\ M[h] = N
                      => ~E[At(t, M[h])] /\ P[At(t, M[h])] = N
      BY <1>1, <1>5, <2>1, <2>2, <2>3 DEF Shape, Users, Writer, Reader, Others
    <2> QED BY <2>3 DEF Users, Writer, Reader
  <1>11. Apart(M)'
    BY <1>2 DEF Shape, Apart, Writer, Reader, Others
  <1>12. Dequeuers(t, H, M, P, E)'
    BY <1>1, <1>2, <1>5 DEF Shape, Dequeuers, Busy, Reader, Others
  <1> QED BY <1>6, <1>7, <1>8, <1>9, <1>10, <1>11, <1>12 DEF Shape, E, i

LEMMA Released ==
  ASSUME NEW t \in Word, NEW N \in Nat, NEW H \in Nat, NEW M \in [Goroutine -> Nat],
         NEW P \in [Index -> Nat], NEW F \in [Index -> BOOLEAN], NEW K \in SUBSET Nat,
         Shape(t, N, H, M, P, F, K), Types, Size > 1, N + Size < Modulus,
         NEW g \in Goroutine, UNCHANGED impl,
         Others(g), UNCHANGED <<calls, op, arg, pos, head, tail>>,
         impl \in {"MPMC", "MPSC"}, pc[g] = "release", pc'[g] = "done",
         seq' = [seq EXCEPT ![Idx(pos[g])] = Plus(pos[g], Size)]
  PROVE  Shape(t, N, H, M, [P EXCEPT ![At(t, M[g])] = M[g] + Size],
               [F EXCEPT ![At(t, M[g])] = FALSE], K)'
  <1> DEFINE i == At(t, M[g])
             Q == [P EXCEPT ![i] = M[g] + Size]
             E == [F EXCEPT ![i] = FALSE]
  <1>1. /\ i \in Index /\ E \in [Index -> BOOLEAN] /\ ~E[i]
        /\ Q \in [Index -> Nat] /\ Q[i] = M[g] + Size
        /\ \A j \in Index : j # i => E[j] = F[j] /\ Q[j] = P[j]
    <2>1. i \in Index
      BY Unwrapped
    <2>2. M[g] + Size \in Nat
      <3>1. Size \in Nat /\ M[g] \in Nat
        BY WordFacts
      <3> QED BY <3>1
    <2> HIDE DEF i
    <2> QED BY <2>1, <2>2
  <1>2. /\ Busy(g) /\ ~Pending(g) /\ Reader(g)
        /\ pos[g] = Plus(t, M[g]) /\ M[g] <= N /\ Idx(pos[g]) = i
    BY DEF Busy, Pending, Reader, Shape, Positions, At
  <1>3. F[i] /\ P[i] = M[g]
    BY <1>2 DEF Shape, Users
  <1>4. /\ seq'[i] = Plus(t, Q[i])
        /\ \A j \in Index : j # i => seq'[j] = seq[j]
    <2>1. Plus(Plus(t, M[g]), Size) = Plus(t, M[g] + Size)
      BY Unwrapped
    <2>2. DOMAIN seq = Index
      BY DEF Types, Words
    <2> QED BY <1>1, <1>2, <2>1, <2>2
  <1>5. At(t, Q[i]) = i /\ \A h \in Goroutine : At(t, M[h]) \in Index
    BY <1>1, Unwrapped
  <1> HIDE DEF i, E, Q
  <1>6. Counts(t, N, H, M, Q, E)'
    BY <1>1 DEF Shape, Counts
  <1>7. Claims(N, K)'
    BY DEF Shape, Claims, Pending, Others
  <1>8. Places(t, N, Q, E)'
    <2>1. Q[i] <= N + Size
      BY <1>1, <1>2, WordFacts
    <2> QED BY <1>1, <1>4, <1>5, <2>1 DEF Shape, Places
  <1>9. Positions(t, N, M)'
    BY <1>2 DEF Shape, Positions, Busy, Others
  <1>10. Users(t, N, M, Q, E)'
    <2>1. ASSUME NEW h \in Goroutine, h # g, Reader(h) PROVE At(t, M[h]) # i
      BY <1>2, <1>3, <2>1 DEF Shape, Users, Apart
    <2>2. ASSUME NEW h \in Goroutine, Writer(h) \/ (pc[h] = "cas" /\ op[h] = "enqueue" /\ M[h] = N)
          PROVE  At(t, M[h]) # i
      BY <1>3, <2>2 DEF Shape, Users
    <2>3. ASSUME NEW h \in Goroutine, h # g
          PROVE  /\ Writer(h)' => ~E[At(t, M[h])] /\ Q[At(t, M[h])] = M[h] /\ M[h] < N
                 /\ Reader(h)' => E[At(t, M[h])] /\ Q[At(t, M[h])] = M[h]
                 /\ (pc[h] = "cas" /\ op[h] = "enqueue")' /\ M[h] = N
                      => ~E[At(t, M[h])] /\ Q[At(t, M[h])] = N
      BY <1>1, <1>5, <2>1, <2>2, <2>3 DEF Shape, Users, Writer, Reader, Others
    <2> QED BY <2>3 DEF Users, Writer, Reader
  <1>11. Apart(M)'
    BY <1>2 DEF Shape, Apart, Writer, Reader, Others
  <1>12. Dequeuers(t, H, M, Q, E)'
    <2>1. ASSUME impl = "MPMC",
                 NEW h \in Goroutine, pc[h] = "cas", op[h] = "dequeue", M[h] = H
          PROVE  At(t, M[h]) # i
      BY <1>2, <1>3, <2>1 DEF Shape, Dequeuers
    <2>2. CASE impl = "MPMC"
      BY <1>1, <1>2, <1>5, <2>1, <2>2 DEF Shape, Dequeuers, Busy, Reader, Others
    <2>3. CASE impl = "MPSC"
      BY <1>1, <1>2, <1>5, <2>3 DEF Shape, Dequeuers, Busy, Reader, Others
    <2> QED BY <2>2, <2>3
  <1> QED BY <1>6, <1>7, <1>8, <1>9, <1>10, <1>11, <1>12 DEF Shape, E, Q, i

(* No call starts beyond the bound on calls. *)
LEMMA CallsBounded ==
  ASSUME Types, calls <= MaxCalls, NEW g \in Goroutine,
         \/ Strict!SPSCCall(g) \/ Strict!SPSCWork(g)
         \/ Strict!MutexCall(g) \/ Strict!MutexWork(g)
  PROVE  calls' <= MaxCalls
  <1>1. calls \in Nat /\ MaxCalls \in Nat
    BY MaxCallsAssumption DEF Types, ClientTypes, ClientTypeOK
  <1>2. CASE Strict!StartEnqueue(g) \/ Strict!StartDequeue(g) \/ Strict!MutexCall(g)
    <2>1. PICK kind, to : Start(g, kind, to)
      BY <1>2, StrictCopies
         DEF Strict!StartEnqueue, Strict!StartDequeue, Strict!MutexCall
    <2> QED BY <1>1, <2>1 DEF Start
  <1>3. CASE \/ Strict!Check(g) \/ Strict!RefreshHead(g) \/ Strict!RefreshTail(g)
             \/ Strict!WriteArr(g) \/ Strict!ReadArr(g)
             \/ Strict!StoreTail(g) \/ Strict!StoreHead(g)
             \/ Strict!MutexEnqueue(g) \/ Strict!MutexDequeue(g) \/ Strict!Return(g)
    <2>1. UNCHANGED calls
      BY <1>3, StrictCopies
         DEF Strict!Check, Strict!RefreshHead, Strict!RefreshTail, Strict!WriteArr,
             Strict!ReadArr, Strict!StoreTail, Strict!StoreHead, Strict!MutexEnqueue,
             Strict!MutexDequeue, Strict!Return, Goto, Finish, Leave
    <2> QED BY <2>1
  <1> QED BY <1>2, <1>3
             DEF Strict!SPSCCall, Strict!SPSCWork, Strict!MutexCall, Strict!MutexWork

(* A place has one user. *)
LEMMA ShapeExclusive ==
  ASSUME Types, NEW t \in Word, NEW N \in Nat, NEW H \in Nat, NEW M \in [Goroutine -> Nat],
         NEW P \in [Index -> Nat], NEW F \in [Index -> BOOLEAN], NEW K \in SUBSET Nat,
         Shape(t, N, H, M, P, F, K)
  PROVE  Slots!SlotExclusive
  <1> SUFFICES ASSUME NEW g \in Goroutine, NEW h \in Goroutine,
                      Writer(g) \/ Reader(g), Writer(h) \/ Reader(h),
                      Idx(pos[g]) = Idx(pos[h])
               PROVE  g = h
    BY SlotsWords DEF Slots!SlotExclusive, Slots!InSlot, Writer, Reader
  <1>1. Idx(pos[g]) = At(t, M[g]) /\ Idx(pos[h]) = At(t, M[h])
    BY DEF Shape, Positions, Busy, Writer, Reader, At
  <1>2. M[g] = M[h]
    BY <1>1 DEF Shape, Users
  <1>3. (Writer(g) /\ Writer(h)) \/ (Reader(g) /\ Reader(h))
    BY <1>1 DEF Shape, Users
  <1> QED BY <1>2, <1>3 DEF Shape, Apart

-----------------------------------------------------------------------------
(* Every queue implements AbstractQueue.  First, the line as a function of *)
(* the places in it.                                                       *)

Entries == [val : Nat, ready : BOOLEAN]

(* Lines are sequences of entries. *)
LEMMA LineLength ==
  ASSUME NEW n \in Nat, NEW s \in [1 .. n -> Entries]
  PROVE  s \in Seq(Entries) /\ Len(s) = n
  <1>1. s \in Seq(Entries)
    BY SeqDef
  <1>2. Len(s) \in Nat /\ DOMAIN s = 1 .. Len(s)
    BY <1>1, LenProperties
  <1>3. 1 .. n = 1 .. Len(s)
    BY <1>2
  <1> QED BY <1>1, <1>2, <1>3

(* A line that is one entry longer, and a line without its head. *)
LEMMA LineGrows ==
  ASSUME NEW n \in Nat, NEW s \in [1 .. n -> Entries], NEW r \in [1 .. n + 1 -> Entries],
         NEW e, r[n + 1] = e, \A i \in 1 .. n : r[i] = s[i]
  PROVE  r = Append(s, e)
  <1>1. s \in Seq(Entries) /\ Len(s) = n /\ r \in Seq(Entries) /\ Len(r) = n + 1
    BY LineLength
  <1>2. n + 1 \in 1 .. n + 1
    OBVIOUS
  <1>3. e \in Entries
    BY <1>2
  <1>4. /\ Append(s, e) \in Seq(Entries) /\ Len(Append(s, e)) = n + 1
        /\ \A i \in 1 .. n : Append(s, e)[i] = s[i]
        /\ Append(s, e)[n + 1] = e
    BY <1>1, <1>3, AppendProperties
  <1>5. Append(s, e) \in [1 .. n + 1 -> Entries]
    BY <1>4, LenProperties
  <1>6. \A i \in 1 .. n + 1 : i \in 1 .. n \/ i = n + 1
    OBVIOUS
  <1>7. \A i \in 1 .. n + 1 : r[i] = Append(s, e)[i]
    BY <1>4, <1>6
  <1> QED BY <1>5, <1>7

LEMMA LineShrinks ==
  ASSUME NEW n \in Nat \ {0}, NEW s \in [1 .. n -> Entries],
         NEW r \in [1 .. n - 1 -> Entries], \A i \in 1 .. n - 1 : r[i] = s[i + 1]
  PROVE  r = Tail(s) /\ s # <<>> /\ Head(s) = s[1]
  <1>1. n - 1 \in Nat /\ n \in Nat
    OBVIOUS
  <1>2. s \in Seq(Entries) /\ Len(s) = n
    BY <1>1, LineLength
  <1>3. s # <<>> /\ Head(s) = s[1]
    BY <1>2, EmptySeq
  <1>4. /\ Tail(s) \in Seq(Entries) /\ Len(Tail(s)) = n - 1
        /\ \A i \in 1 .. n - 1 : Tail(s)[i] = s[i + 1]
    BY <1>2, <1>3, HeadTailProperties
  <1>5. Tail(s) \in [1 .. n - 1 -> Entries]
    BY <1>4, LenProperties
  <1>6. \A i \in 1 .. n - 1 : r[i] = Tail(s)[i]
    BY <1>4
  <1> QED BY <1>3, <1>5, <1>6

(* The line of no entries. *)
LEMMA LineEmpty ==
  ASSUME NEW n \in Nat, NEW s \in [1 .. n -> Entries]
  PROVE  s = <<>> <=> n = 0
  <1>1. s \in Seq(Entries) /\ Len(s) = n
    BY LineLength
  <1>2. Len(<<>>) = 0
    BY EmptySeq
  <1>3. s # <<>> => Len(s) # 0
    BY <1>1, EmptySeq
  <1> QED BY <1>1, <1>2, <1>3
-----------------------------------------------------------------------------
(* The steps of AbstractQueue, with its variables replaced by what         *)
(* ImplementsQueue puts for them.                                          *)

TheLine   == IF impl \in {"MPMC", "MPSC"} THEN Slots!Line ELSE Strict!Line
TheStatus == CASE impl = "MPMC"  -> Slots!Status
               [] impl = "MPSC"  -> Slots!Consuming
               [] OTHER          -> Strict!Status
TheRet    == CASE impl = "MPMC"  -> Slots!Result
               [] impl = "SPSC"  -> Strict!Result
               [] OTHER          -> ret
IsStrict  == impl \in {"SPSC", "Mutex"}

AbstractStep == [Abstract!Next]_(Abstract!vars)

StatusOf(h) ==
  IF pc[h] \in {"idle", "done"} THEN pc[h]
  ELSE IF impl \in {"MPMC", "MPSC"} /\ pc[h] \in {"write", "publish"} THEN "claimed"
  ELSE IF impl = "MPMC" /\ pc[h] \in {"read", "release"} THEN "done"
  ELSE IF impl = "MPSC" /\ pc[h] = "read" THEN "dequeue"
  ELSE IF impl = "MPSC" /\ pc[h] = "release" THEN "done"
  ELSE op[h]
RetOf(h) ==
  IF impl = "MPMC" /\ pc[h] = "read" THEN <<val[Idx(pos[h])], TRUE>>
  ELSE IF impl = "SPSC" /\ pc[h] = "store" THEN No
  ELSE ret[h]

(* The refinement mapping, goroutine by goroutine. *)
LEMMA Mapped ==
  ASSUME impl \in Impl, DOMAIN ret = Goroutine, ret = [h \in Goroutine |-> ret[h]]
  PROVE  /\ TheStatus = [h \in Goroutine |-> StatusOf(h)]
         /\ TheRet = [h \in Goroutine |-> RetOf(h)]
  <1> USE SlotsWords, StrictWords
          DEF TheStatus, TheRet, StatusOf, RetOf, Impl, Slots!Status, Slots!Consuming,
              Slots!Result, Strict!Status, Strict!Result
  <1>1. CASE impl = "MPMC"
    BY <1>1
  <1>2. CASE impl = "MPSC"
    BY <1>2
  <1>3. CASE impl = "SPSC"
    BY <1>3
  <1>4. CASE impl = "Mutex"
    BY <1>4
  <1> QED BY <1>1, <1>2, <1>3, <1>4

LEMMA MappedStep ==
  ASSUME Types, Types', UNCHANGED impl, NEW g \in Goroutine,
         \A h \in Goroutine \ {g} : StatusOf(h)' = StatusOf(h) /\ RetOf(h)' = RetOf(h)
  PROVE  /\ TheStatus' = [TheStatus EXCEPT ![g] = StatusOf(g)']
         /\ TheRet' = [TheRet EXCEPT ![g] = RetOf(g)']
         /\ TheStatus[g] = StatusOf(g) /\ TheRet[g] = RetOf(g)
         /\ StatusOf(g)' = StatusOf(g) => TheStatus' = TheStatus
         /\ RetOf(g)' = RetOf(g) => TheRet' = TheRet
  <1>1. /\ TheStatus = [h \in Goroutine |-> StatusOf(h)]
        /\ TheRet = [h \in Goroutine |-> RetOf(h)]
    BY Mapped DEF Types, ClientTypes, ClientTypeOK
  <1>2. /\ TheStatus' = [h \in Goroutine |-> StatusOf(h)']
        /\ TheRet' = [h \in Goroutine |-> RetOf(h)']
    <2>1. impl' \in Impl /\ DOMAIN ret' = Goroutine /\ ret' = [h \in Goroutine |-> ret'[h]]
      BY DEF Types, ClientTypes, ClientTypeOK
    <2> USE SlotsWords, StrictWords
            DEF TheStatus, TheRet, StatusOf, RetOf, Impl, Slots!Status, Slots!Consuming,
                Slots!Result, Strict!Status, Strict!Result
    <2>2. CASE impl' = "MPMC"
      BY <2>1, <2>2
    <2>3. CASE impl' = "MPSC"
      BY <2>1, <2>3
    <2>4. CASE impl' = "SPSC"
      BY <2>1, <2>4
    <2>5. CASE impl' = "Mutex"
      BY <2>1, <2>5
    <2> QED BY <2>1, <2>2, <2>3, <2>4, <2>5
  <1> QED BY <1>1, <1>2

(* One lemma for each action of AbstractQueue: what a step has to do to    *)
(* the line and to its goroutine.                                          *)
LEMMA AbstractNothing ==
  ASSUME UNCHANGED <<impl, calls, arg>>, TheLine' = TheLine,
         TheStatus' = TheStatus, TheRet' = TheRet
  PROVE  AbstractStep
  BY DEF AbstractStep, Abstract!vars, TheLine, TheStatus, TheRet

LEMMA AbstractCall ==
  ASSUME UNCHANGED impl, NEW g \in Goroutine, NEW k \in {"enqueue", "dequeue"},
         TheLine' = TheLine, TheRet' = TheRet, TheStatus[g] = "idle",
         TheStatus' = [TheStatus EXCEPT ![g] = k], calls' = calls + 1,
         arg' = [arg EXCEPT ![g] = IF k = "enqueue" THEN calls + 1 ELSE 0]
  PROVE  AbstractStep
  BY DEF AbstractStep, Abstract!Next, Abstract!Call, TheLine, TheStatus, TheRet

LEMMA AbstractReturn ==
  ASSUME UNCHANGED <<impl, calls, arg>>, NEW g \in Goroutine,
         TheLine' = TheLine, TheStatus[g] = "done",
         TheRet' = [TheRet EXCEPT ![g] = No],
         TheStatus' = [TheStatus EXCEPT ![g] = "idle"]
  PROVE  AbstractStep
  BY DEF AbstractStep, Abstract!Next, Abstract!Return, Abstract!Move, Abstract!No,
         No, zero, TheLine, TheStatus, TheRet

LEMMA AbstractEnqueue ==
  ASSUME UNCHANGED <<impl, calls, arg>>, NEW g \in Goroutine, Len(TheLine) < Size,
         TheLine' = Append(TheLine, [val |-> arg[g], ready |-> TRUE]),
         TheStatus[g] = "enqueue",
         TheRet' = [TheRet EXCEPT ![g] = Yes],
         TheStatus' = [TheStatus EXCEPT ![g] = "done"]
  PROVE  AbstractStep
  BY DEF AbstractStep, Abstract!Next, Abstract!Enqueue, Abstract!Room, Abstract!Move,
         Abstract!Yes, Yes, zero, TheLine, TheStatus, TheRet

LEMMA AbstractDequeue ==
  ASSUME UNCHANGED <<impl, calls, arg>>, NEW g \in Goroutine,
         TheLine # <<>>, Head(TheLine).ready, TheLine' = Tail(TheLine),
         TheStatus[g] = "dequeue",
         TheRet' = [TheRet EXCEPT ![g] = <<Head(TheLine).val, TRUE>>],
         TheStatus' = [TheStatus EXCEPT ![g] = "done"]
  PROVE  AbstractStep
  BY DEF AbstractStep, Abstract!Next, Abstract!Dequeue, Abstract!Move,
         TheLine, TheStatus, TheRet

LEMMA AbstractFull ==
  ASSUME UNCHANGED <<impl, calls, arg>>, NEW g \in Goroutine,
         \/ ~(Len(TheLine) < Size)
         \/ ~IsStrict /\ \E h \in Goroutine : TheStatus[h] = "done" /\ TheRet[h][1] # 0,
         TheLine' = TheLine, TheStatus[g] = "enqueue",
         TheRet' = [TheRet EXCEPT ![g] = No],
         TheStatus' = [TheStatus EXCEPT ![g] = "done"]
  PROVE  AbstractStep
  BY DEF AbstractStep, Abstract!Next, Abstract!ReportFull, Abstract!Room, Abstract!Move,
         Abstract!Leaving, Abstract!No, No, zero, IsStrict, TheLine, TheStatus, TheRet

LEMMA AbstractEmpty ==
  ASSUME UNCHANGED <<impl, calls, arg>>, NEW g \in Goroutine,
         TheLine = <<>> \/ (~IsStrict /\ ~Head(TheLine).ready),
         TheLine' = TheLine, TheStatus[g] = "dequeue",
         TheRet' = [TheRet EXCEPT ![g] = No],
         TheStatus' = [TheStatus EXCEPT ![g] = "done"]
  PROVE  AbstractStep
  BY DEF AbstractStep, Abstract!Next, Abstract!ReportEmpty, Abstract!Move,
         Abstract!No, No, zero, IsStrict, TheLine, TheStatus, TheRet

LEMMA AbstractClaim ==
  ASSUME UNCHANGED <<impl, calls, arg>>, NEW g \in Goroutine, ~IsStrict,
         Len(TheLine) < Size,
         TheLine' = Append(TheLine, [val |-> arg[g], ready |-> FALSE]),
         TheStatus[g] = "enqueue",
         TheRet' = [TheRet EXCEPT ![g] = No],
         TheStatus' = [TheStatus EXCEPT ![g] = "claimed"]
  PROVE  AbstractStep
  BY DEF AbstractStep, Abstract!Next, Abstract!Claim, Abstract!Room, Abstract!Move,
         Abstract!No, No, zero, IsStrict, TheLine, TheStatus, TheRet

LEMMA AbstractPublish ==
  ASSUME UNCHANGED <<impl, calls, arg>>, NEW g \in Goroutine,
         TheLine' = [i \in 1 .. Len(TheLine) |->
                       IF TheLine[i].val = arg[g] THEN [TheLine[i] EXCEPT !.ready = TRUE]
                                                  ELSE TheLine[i]],
         TheStatus[g] = "claimed",
         TheRet' = [TheRet EXCEPT ![g] = Yes],
         TheStatus' = [TheStatus EXCEPT ![g] = "done"]
  PROVE  AbstractStep
  BY DEF AbstractStep, Abstract!Next, Abstract!Publish, Abstract!Move,
         Abstract!Yes, Yes, zero, TheLine, TheStatus, TheRet
-----------------------------------------------------------------------------
(* The strict queues.  Their line is the values from head on.              *)

LineOf(w, h, n) == [i \in 1 .. n |-> [val |-> w[Idx(Plus(h, i - 1))], ready |-> TRUE]]

(* The places of the positions in a line, and what the line holds. *)
LEMMA LinePlaces ==
  ASSUME NEW h \in Word, NEW n \in 0 .. Size
  PROVE  /\ \A i \in 1 .. n : Idx(Plus(h, i - 1)) \in Index
         /\ \A i, j \in 1 .. n : i # j => Idx(Plus(h, i - 1)) # Idx(Plus(h, j - 1))
         /\ n > 0 => Idx(Plus(h, 0)) = Idx(h)
         /\ n > 0 => \A i \in 1 .. n - 1 : Plus(Plus(h, 1), i - 1) = Plus(h, i)
  <1>1. h \in Nat /\ Size \in Nat \ {0} /\ n \in Nat
    BY WordFacts
  <1>2. ASSUME NEW i \in 1 .. n PROVE Idx(Plus(h, i - 1)) \in Index
    <2>1. i - 1 \in Nat
      BY <1>1
    <2> QED BY <1>1, <2>1, IdxPlus
  <1>3. ASSUME NEW i \in 1 .. n, NEW j \in 1 .. n, i < j
        PROVE  Idx(Plus(h, i - 1)) # Idx(Plus(h, j - 1))
    <2>1. i - 1 \in Nat /\ j - i \in 1 .. Size - 1 /\ (i - 1) + (j - i) = j - 1
      BY <1>1, <1>3
    <2>2. Idx(Plus(h, i - 1)) # Idx(Plus(h, (i - 1) + (j - i)))
      BY <1>1, <2>1, IdxNear
    <2> QED BY <2>1, <2>2
  <1>4. \A i, j \in 1 .. n : i # j => Idx(Plus(h, i - 1)) # Idx(Plus(h, j - 1))
    <2> SUFFICES ASSUME NEW i \in 1 .. n, NEW j \in 1 .. n, i # j
                 PROVE  Idx(Plus(h, i - 1)) # Idx(Plus(h, j - 1))
      OBVIOUS
    <2>1. i < j \/ j < i
      BY <1>1
    <2>2. CASE i < j
      BY <1>3, <2>2
    <2>3. CASE j < i
      <3>1. Idx(Plus(h, j - 1)) # Idx(Plus(h, i - 1))
        BY <1>3, <2>3
      <3> QED BY <3>1
    <2> QED BY <2>1, <2>2, <2>3
  <1>5. Idx(Plus(h, 0)) = Idx(h)
    BY PlusZero
  <1>6. ASSUME NEW i \in 1 .. n - 1 PROVE Plus(Plus(h, 1), i - 1) = Plus(h, i)
    <2>1. i - 1 \in Nat /\ 1 \in Nat /\ 1 + (i - 1) = i
      BY <1>1
    <2>2. Plus(Plus(h, 1), i - 1) = Plus(h, 1 + (i - 1))
      BY <1>1, <2>1, PlusPlus
    <2> QED BY <2>1, <2>2
  <1> QED BY <1>2, <1>4, <1>5, <1>6

LEMMA LineOfType ==
  ASSUME NEW w \in [Index -> Nat], NEW h \in Word, NEW n \in 0 .. Size
  PROVE  LineOf(w, h, n) \in [1 .. n -> Entries]
  BY LinePlaces DEF LineOf, Entries

(* A value at the tail, the head taken, and a change elsewhere. *)
LEMMA LineOfGrows ==
  ASSUME NEW w \in [Index -> Nat], NEW u \in [Index -> Nat], NEW h \in Word,
         NEW n \in 0 .. Size, n < Size,
         \A j \in Index : j # Idx(Plus(h, n)) => u[j] = w[j]
  PROVE  LineOf(u, h, n + 1) =
           Append(LineOf(w, h, n), [val |-> u[Idx(Plus(h, n))], ready |-> TRUE])
  <1>1. /\ n \in Nat /\ n + 1 \in 0 .. Size /\ (n + 1) - 1 = n /\ n + 1 \in 1 .. n + 1
        /\ 1 .. n \subseteq 1 .. n + 1 /\ \A i \in 1 .. n : i # n + 1
    BY WordFacts
  <1> DEFINE s == LineOf(w, h, n)
             r == LineOf(u, h, n + 1)
  <1>2. s \in [1 .. n -> Entries] /\ r \in [1 .. n + 1 -> Entries]
    BY <1>1, LineOfType
  <1>3. r[n + 1] = [val |-> u[Idx(Plus(h, n))], ready |-> TRUE]
    BY <1>1 DEF LineOf
  <1>4. ASSUME NEW i \in 1 .. n PROVE r[i] = s[i]
    <2>1. Idx(Plus(h, i - 1)) \in Index /\ Idx(Plus(h, i - 1)) # Idx(Plus(h, (n + 1) - 1))
      BY <1>1, LinePlaces
    <2>2. u[Idx(Plus(h, i - 1))] = w[Idx(Plus(h, i - 1))]
      BY <1>1, <2>1
    <2> QED BY <1>1, <2>2 DEF LineOf
  <1> HIDE DEF s, r
  <1>5. r = Append(s, [val |-> u[Idx(Plus(h, n))], ready |-> TRUE])
    BY <1>1, <1>2, <1>3, <1>4, LineGrows
  <1> QED BY <1>5 DEF s, r

(* u is w but for place i. *)
SameBut(u, w, i) == \A j \in Index : j # i => u[j] = w[j]

LEMMA LineOfShrinks ==
  ASSUME NEW w \in [Index -> Nat], NEW u \in [Index -> Nat], NEW h \in Word,
         NEW n \in 0 .. Size, n > 0, SameBut(u, w, Idx(h))
  PROVE  /\ LineOf(u, Plus(h, 1), n - 1) = Tail(LineOf(w, h, n))
         /\ LineOf(w, h, n) # <<>>
         /\ Head(LineOf(w, h, n)) = [val |-> w[Idx(h)], ready |-> TRUE]
  <1>1. /\ n \in Nat \ {0} /\ n - 1 \in 0 .. Size /\ Plus(h, 1) \in Word
        /\ 1 \in 1 .. n /\ \A i \in 1 .. n - 1 : i + 1 \in 1 .. n /\ i + 1 # 1 /\ (i + 1) - 1 = i
    BY WordFacts
  <1> DEFINE s == LineOf(w, h, n)
             r == LineOf(u, Plus(h, 1), n - 1)
  <1>2. s \in [1 .. n -> Entries] /\ r \in [1 .. n - 1 -> Entries]
    BY <1>1, LineOfType
  <1>3. ASSUME NEW i \in 1 .. n - 1 PROVE r[i] = s[i + 1]
    <2>1. Plus(Plus(h, 1), i - 1) = Plus(h, i)
      BY LinePlaces
    <2>2. Idx(Plus(h, (i + 1) - 1)) \in Index /\ Idx(Plus(h, (i + 1) - 1)) # Idx(Plus(h, 1 - 1))
      <3>1. i + 1 \in 1 .. n /\ 1 \in 1 .. n /\ i + 1 # 1
        BY <1>1
      <3>2. /\ \A a \in 1 .. n : Idx(Plus(h, a - 1)) \in Index
            /\ \A a, c \in 1 .. n : a # c => Idx(Plus(h, a - 1)) # Idx(Plus(h, c - 1))
        BY LinePlaces
      <3> QED BY <3>1, <3>2, Zenon
    <2>3. Idx(Plus(h, i)) \in Index /\ Idx(Plus(h, i)) # Idx(h)
      BY <1>1, <2>2, LinePlaces
    <2>4. u[Idx(Plus(h, i))] = w[Idx(Plus(h, i))]
      BY <2>3 DEF SameBut
    <2> QED BY <1>1, <2>1, <2>4 DEF LineOf
  <1>4. s[1] = [val |-> w[Idx(h)], ready |-> TRUE]
    <2>1. Idx(Plus(h, 0)) = Idx(h) /\ 1 - 1 = 0
      BY LinePlaces
    <2> QED BY <1>1, <2>1 DEF LineOf
  <1> HIDE DEF s, r
  <1>5. r = Tail(s) /\ s # <<>> /\ Head(s) = s[1]
    BY <1>1, <1>2, <1>3, LineShrinks
  <1> QED BY <1>4, <1>5 DEF s, r

LEMMA LineOfSame ==
  ASSUME NEW w \in [Index -> Nat], NEW u \in [Index -> Nat], NEW h \in Word,
         NEW n \in 0 .. Size, n < Size, SameBut(u, w, Idx(Plus(h, n)))
  PROVE  LineOf(u, h, n) = LineOf(w, h, n)
  <1>1. /\ n \in Nat /\ n + 1 \in 0 .. Size /\ (n + 1) - 1 = n /\ n + 1 \in 1 .. n + 1
        /\ 1 .. n \subseteq 1 .. n + 1 /\ \A i \in 1 .. n : i # n + 1
    BY WordFacts
  <1>2. ASSUME NEW i \in 1 .. n
        PROVE  u[Idx(Plus(h, i - 1))] = w[Idx(Plus(h, i - 1))]
    <2>1. Idx(Plus(h, i - 1)) \in Index /\ Idx(Plus(h, i - 1)) # Idx(Plus(h, (n + 1) - 1))
      BY <1>1, LinePlaces
    <2> QED BY <1>1, <2>1 DEF SameBut
  <1> QED BY <1>2 DEF LineOf

(* The lines of the module and of the mapping are the same. *)
LEMMA StrictLine ==
  /\ Strict!Line = LineOf(val, head, Minus(tail, head))
  /\ Strict!Line' = LineOf(val', head', Minus(tail', head'))
  BY StrictWords DEF Strict!Line, LineOf

(* A call has no result before it has one. *)
Quiet == \A g \in Goroutine : pc[g] \notin {"done", "release", "store"} => ret[g] = No

LEMMA QuietStart == Init => Quiet
  BY SlotsCopies DEF Init, Slots!Init, ClientInit, Quiet, No, None

(* A call gets its result when it finishes, or at the place it dequeues    *)
(* from.                                                                   *)
LEMMA QuietStep ==
  ASSUME Types, Quiet, NEW g \in Goroutine,
         \/ \E kind, to : Start(g, kind, to)
         \/ \E from, to : from \notin {"done", "release", "store"} /\ Goto(g, from, to)
         \/ \E from, r : Finish(g, from, r)
         \/ Leave(g)
         \/ \E to, r : to \in {"release", "store"} /\
              pc' = [pc EXCEPT ![g] = to] /\ ret' = [ret EXCEPT ![g] = r]
  PROVE  Quiet'
  <1>1. /\ pc \in [Goroutine -> Points] /\ DOMAIN ret = Goroutine
    BY DEF Types, ClientTypes, ClientTypeOK
  <1>2. CASE \/ \E kind, to : Start(g, kind, to)
             \/ \E from, to : from \notin {"done", "release", "store"} /\ Goto(g, from, to)
    <2>1. ret[g] = No /\ ret' = ret /\ \A h \in Goroutine : h # g => pc'[h] = pc[h]
      BY <1>1, <1>2 DEF Start, Goto, Quiet
    <2> QED BY <2>1 DEF Quiet
  <1>3. CASE \E from, r : Finish(g, from, r)
    BY <1>1, <1>3 DEF Finish, Quiet
  <1>4. CASE Leave(g)
    BY <1>1, <1>4 DEF Leave, Quiet, No, None
  <1>5. CASE \E to, r : to \in {"release", "store"} /\
               pc' = [pc EXCEPT ![g] = to] /\ ret' = [ret EXCEPT ![g] = r]
    BY <1>1, <1>5 DEF Quiet
  <1> QED BY <1>2, <1>3, <1>4, <1>5

StrictInv ==
  /\ impl = "Mutex" => \E n \in 0 .. Size : tail = Plus(head, n)
  /\ impl = "SPSC" => \A g \in Goroutine : pc[g] = "store" =>
       /\ op[g] = "enqueue" => val[Idx(pos[g])] = arg[g]
       /\ op[g] = "dequeue" => ret[g] = <<val[Idx(pos[g])], TRUE>>

LEMMA StrictStart == Init => StrictInv
  <1> SUFFICES ASSUME Init PROVE StrictInv
    OBVIOUS
  <1>1. head \in Word /\ tail = head /\ pc = [g \in Goroutine |-> "idle"]
    BY RingAssumption, SlotsCopies DEF Init, Slots!Init, RingInit, ClientInit, Word
  <1>2. tail = Plus(head, 0) /\ 0 \in 0 .. Size
    BY <1>1, PlusZero, WordFacts
  <1> QED BY <1>1, <1>2 DEF StrictInv

(* What the line of a strict queue is, if n positions are between head and *)
(* tail.                                                                   *)
LEMMA TheStrictLine ==
  ASSUME IsStrict, head \in Word, NEW n \in 0 .. Size, tail = Plus(head, n)
  PROVE  TheLine = LineOf(val, head, n) /\ Minus(tail, head) = n
  <1>1. n \in 0 .. Modulus - 1
    BY RingAssumption
  <1>2. Minus(tail, head) = n
    BY <1>1, MinusPlus
  <1> QED BY <1>2, StrictLine DEF TheLine, IsStrict

LEMMA TheStrictLineNext ==
  ASSUME IsStrict', head' \in Word, NEW n \in 0 .. Size, tail' = Plus(head', n)
  PROVE  TheLine' = LineOf(val', head', n)
  <1>1. n \in 0 .. Modulus - 1
    BY RingAssumption
  <1>2. Minus(tail', head') = n
    BY <1>1, MinusPlus
  <1> QED BY <1>2, StrictLine DEF TheLine, IsStrict

(* The place after the line is not in it, unless the line is full. *)
LEMMA NextPlace ==
  ASSUME NEW h \in Word, NEW n \in 0 .. Size
  PROVE  /\ Plus(Plus(h, n), 1) = Plus(h, n + 1)
         /\ n > 0 => Plus(h, n) = Plus(Plus(h, 1), n - 1)
  <1>1. h \in Nat /\ n \in Nat /\ 1 \in Nat
    BY WordFacts
  <1>2. ASSUME n > 0 PROVE Plus(h, n) = Plus(Plus(h, 1), n - 1)
    <2>1. n - 1 \in Nat /\ 1 + (n - 1) = n
      BY <1>1, <1>2
    <2>2. Plus(Plus(h, 1), n - 1) = Plus(h, 1 + (n - 1))
      BY <1>1, <2>1, PlusPlus
    <2> QED BY <2>1, <2>2
  <1> QED BY <1>1, <1>2, PlusPlus

(* The mutex queues: enqueue and dequeue under the lock are one step. *)
LEMMA MutexRefines ==
  ASSUME Types, Types', Quiet, StrictInv, impl = "Mutex", UNCHANGED impl, NEW g \in Goroutine,
         Strict!MutexCall(g) \/ Strict!MutexWork(g)
  PROVE  AbstractStep /\ StrictInv' /\ Quiet'
  <1>1. PICK n \in 0 .. Size : tail = Plus(head, n)
    BY DEF StrictInv
  <1>2. /\ head \in Word /\ tail \in Word /\ val \in [Index -> Nat] /\ val' \in [Index -> Nat]
        /\ head' \in Word /\ impl' = "Mutex" /\ IsStrict /\ IsStrict' /\ n \in Nat
        /\ Size \in Nat \ {0}
        /\ pc \in [Goroutine -> Points] /\ DOMAIN op = Goroutine /\ DOMAIN ret = Goroutine
        /\ DOMAIN arg = Goroutine
    <2>1. /\ head \in Word /\ tail \in Word /\ val \in [Index -> Nat]
          /\ pc \in [Goroutine -> Points] /\ DOMAIN op = Goroutine
          /\ DOMAIN ret = Goroutine /\ DOMAIN arg = Goroutine
      BY DEF Types, Words, ClientTypes, ClientTypeOK
    <2>2. val' \in [Index -> Nat] /\ head' \in Word
      BY DEF Types, Words
    <2>3. IsStrict /\ IsStrict' /\ impl' = "Mutex"
      BY DEF IsStrict
    <2> QED BY <2>1, <2>2, <2>3, WordFacts
  <1>3. TheLine = LineOf(val, head, n) /\ Minus(tail, head) = n
    BY <1>1, <1>2, TheStrictLine
  <1>4. TheLine \in [1 .. n -> Entries]
    BY <1>2, <1>3, LineOfType
  <1> USE StrictCopies, StrictWords DEF Strict!spscVars, Strict!ringVars
  <1>5. CASE Strict!MutexCall(g)
    <2>1. PICK k \in {"enqueue", "dequeue"} : Start(g, k, "locked")
      BY <1>5 DEF Strict!MutexCall
    <2>2. UNCHANGED <<val, head, tail, pos>>
      BY <1>5 DEF Strict!MutexCall
    <2>3. TheLine' = TheLine
      BY <1>1, <1>2, <1>3, <2>2, TheStrictLineNext
    <2>4. \A h \in Goroutine \ {g} : StatusOf(h)' = StatusOf(h) /\ RetOf(h)' = RetOf(h)
      BY <1>2, <2>1 DEF Start, StatusOf, RetOf
    <2>5. StatusOf(g) = "idle" /\ StatusOf(g)' = k /\ RetOf(g)' = RetOf(g)
      BY <1>2, <2>1 DEF Start, StatusOf, RetOf
    <2>6. arg' = [arg EXCEPT ![g] = IF k = "enqueue" THEN calls + 1 ELSE 0]
      BY <2>1 DEF Start, Puts, zero
    <2>7. AbstractStep
      BY <2>1, <2>3, <2>4, <2>5, <2>6, MappedStep, AbstractCall DEF Start
    <2>8. Quiet'
      BY <2>1, QuietStep
    <2> QED BY <1>1, <1>2, <2>2, <2>7, <2>8 DEF StrictInv
  <1>6. CASE Strict!MutexEnqueue(g)
    <2>1. /\ op[g] = "enqueue" /\ pc[g] = "locked" /\ head' = head /\ pc'[g] = "done"
          /\ UNCHANGED <<calls, op, arg, pos>>
          /\ \A h \in Goroutine \ {g} : pc'[h] = pc[h] /\ ret'[h] = ret[h]
      BY <1>2, <1>6 DEF Strict!MutexEnqueue, Finish
    <2>2. Quiet'
      BY <1>6, QuietStep DEF Strict!MutexEnqueue
    <2>3. \A h \in Goroutine \ {g} : StatusOf(h)' = StatusOf(h) /\ RetOf(h)' = RetOf(h)
      BY <1>2, <2>1 DEF StatusOf, RetOf
    <2>4. StatusOf(g) = "enqueue" /\ StatusOf(g)' = "done" /\ RetOf(g)' = ret'[g]
      BY <1>2, <2>1 DEF StatusOf, RetOf
    <2>5. CASE /\ Minus(tail, head) = Size
               /\ Finish(g, "locked", No)
               /\ UNCHANGED <<val, tail>>
      <3>1. ret'[g] = No
        BY <1>2, <2>5 DEF Finish
      <3>2. TheLine' = TheLine
        BY <1>1, <1>2, <1>3, <2>1, <2>5, TheStrictLineNext
      <3>3. ~(Len(TheLine) < Size)
        BY <1>2, <1>3, <1>4, <2>5, LineLength
      <3>4. AbstractStep
        BY <2>1, <2>3, <2>4, <3>1, <3>2, <3>3, MappedStep, AbstractFull
      <3> QED BY <1>1, <1>2, <2>1, <2>2, <2>5, <3>4 DEF StrictInv
    <2>6. CASE /\ Minus(tail, head) # Size
               /\ Finish(g, "locked", Yes)
               /\ val' = [val EXCEPT ![Idx(tail)] = arg[g]]
               /\ tail' = Plus(tail, 1)
      <3>1. ret'[g] = Yes /\ n < Size /\ n + 1 \in 0 .. Size
        BY <1>2, <1>3, <2>6 DEF Finish
      <3>2. tail' = Plus(head', n + 1)
        BY <1>1, <1>2, <2>1, <2>6, NextPlace
      <3>3. TheLine' = LineOf(val', head, n + 1)
        BY <1>2, <2>1, <3>1, <3>2, TheStrictLineNext
      <3>4. Idx(tail) \in Index /\ val'[Idx(tail)] = arg[g]
            /\ \A j \in Index : j # Idx(tail) => val'[j] = val[j]
        BY <1>2, <2>6, WordFacts
      <3>5. TheLine' = Append(TheLine, [val |-> arg[g], ready |-> TRUE])
        BY <1>1, <1>2, <1>3, <3>1, <3>3, <3>4, LineOfGrows
      <3>6. Len(TheLine) < Size
        BY <1>2, <1>4, <3>1, LineLength
      <3>7. AbstractStep
        BY <2>1, <2>3, <2>4, <3>1, <3>5, <3>6, MappedStep, AbstractEnqueue
      <3> QED BY <1>2, <2>2, <3>1, <3>2, <3>7 DEF StrictInv
    <2> QED BY <1>6, <2>5, <2>6 DEF Strict!MutexEnqueue
  <1>7. CASE Strict!MutexDequeue(g)
    <2>1. /\ op[g] = "dequeue" /\ pc[g] = "locked" /\ tail' = tail /\ pc'[g] = "done"
          /\ UNCHANGED <<calls, op, arg, pos>>
          /\ \A h \in Goroutine \ {g} : pc'[h] = pc[h] /\ ret'[h] = ret[h]
      BY <1>2, <1>7 DEF Strict!MutexDequeue, Finish
    <2>2. Quiet'
      BY <1>7, QuietStep DEF Strict!MutexDequeue
    <2>3. \A h \in Goroutine \ {g} : StatusOf(h)' = StatusOf(h) /\ RetOf(h)' = RetOf(h)
      BY <1>2, <2>1 DEF StatusOf, RetOf
    <2>4. StatusOf(g) = "dequeue" /\ StatusOf(g)' = "done" /\ RetOf(g)' = ret'[g]
      BY <1>2, <2>1 DEF StatusOf, RetOf
    <2>5. CASE /\ tail = head
               /\ Finish(g, "locked", No)
               /\ UNCHANGED <<val, head>>
      <3>1. ret'[g] = No
        BY <1>2, <2>5 DEF Finish
      <3>2. TheLine' = TheLine
        BY <1>1, <1>2, <1>3, <2>1, <2>5, TheStrictLineNext
      <3>3. TheLine = <<>>
        <4>1. Plus(head, 0) = Plus(head, n)
          BY <1>1, <1>2, <2>5, PlusZero
        <4>2. n = 0
          <5>1. n \in 0 .. Modulus - 1 /\ 0 \in 0 .. Modulus - 1 /\ head \in Nat
            BY <1>2, RingAssumption, WordFacts
          <5> QED BY <4>1, <5>1, PlusInjective
        <4> QED BY <1>2, <1>4, <4>2, LineEmpty
      <3>4. AbstractStep
        BY <2>1, <2>3, <2>4, <3>1, <3>2, <3>3, MappedStep, AbstractEmpty
      <3> QED BY <1>1, <1>2, <2>1, <2>2, <2>5, <3>4 DEF StrictInv
    <2>6. CASE /\ tail # head
               /\ Finish(g, "locked", <<val[Idx(head)], TRUE>>)
               /\ val' = [val EXCEPT ![Idx(head)] = zero]
               /\ head' = Plus(head, 1)
      <3>1. n > 0 /\ n - 1 \in 0 .. Size /\ ret'[g] = <<val[Idx(head)], TRUE>>
        <4>1. n # 0
          BY <1>1, <1>2, <2>6, PlusZero
        <4>2. n > 0 /\ n - 1 \in 0 .. Size
          BY <1>2, <4>1
        <4>3. ret'[g] = <<val[Idx(head)], TRUE>>
          BY <1>2, <2>6 DEF Finish
        <4> QED BY <4>2, <4>3
      <3>2. tail' = Plus(head', n - 1)
        BY <1>1, <1>2, <2>1, <2>6, <3>1, NextPlace
      <3>3. TheLine' = LineOf(val', Plus(head, 1), n - 1)
        BY <1>2, <2>6, <3>1, <3>2, TheStrictLineNext
      <3>4. SameBut(val', val, Idx(head))
        BY <1>2, <2>6 DEF SameBut
      <3>5. /\ TheLine' = Tail(TheLine) /\ TheLine # <<>>
            /\ Head(TheLine) = [val |-> val[Idx(head)], ready |-> TRUE]
        <4> DEFINE u == val'
        <4>1. u \in [Index -> Nat] /\ SameBut(u, val, Idx(head))
          BY <1>2, <3>4
        <4> HIDE DEF u
        <4>2. /\ LineOf(u, Plus(head, 1), n - 1) = Tail(LineOf(val, head, n))
              /\ LineOf(val, head, n) # <<>>
              /\ Head(LineOf(val, head, n)) = [val |-> val[Idx(head)], ready |-> TRUE]
          BY <1>2, <3>1, <4>1, LineOfShrinks
        <4> QED BY <1>3, <3>3, <4>2 DEF u
      <3>6. Head(TheLine).ready /\ RetOf(g)' = <<Head(TheLine).val, TRUE>>
        BY <2>4, <3>1, <3>5
      <3>7. AbstractStep
        BY <2>1, <2>3, <2>4, <3>5, <3>6, MappedStep, AbstractDequeue
      <3> QED BY <1>2, <2>2, <3>1, <3>2, <3>7 DEF StrictInv
    <2> QED BY <1>7, <2>5, <2>6 DEF Strict!MutexDequeue
  <1>8. CASE Strict!Return(g)
    <2>1. Leave(g) /\ UNCHANGED <<val, head, tail, pos>>
      BY <1>8 DEF Strict!Return
    <2>2. Quiet'
      BY <2>1, QuietStep
    <2>3. TheLine' = TheLine
      BY <1>1, <1>2, <1>3, <2>1, TheStrictLineNext
    <2>4. \A h \in Goroutine \ {g} : StatusOf(h)' = StatusOf(h) /\ RetOf(h)' = RetOf(h)
      BY <1>2, <2>1 DEF Leave, StatusOf, RetOf
    <2>5. StatusOf(g) = "done" /\ StatusOf(g)' = "idle" /\ RetOf(g)' = No
      BY <1>2, <2>1 DEF Leave, StatusOf, RetOf, None, No
    <2>6. AbstractStep
      BY <2>1, <2>3, <2>4, <2>5, MappedStep, AbstractReturn DEF Leave
    <2> QED BY <1>1, <1>2, <2>1, <2>2, <2>6 DEF StrictInv
  <1> QED BY <1>5, <1>6, <1>7, <1>8 DEF Strict!MutexWork

(* A step that keeps arr and leaves its goroutine outside "store".         *)
LEMMA StoresKept ==
  ASSUME StrictInv, impl = "SPSC", UNCHANGED <<impl, val>>, NEW g \in Goroutine,
         pc'[g] # "store",
         \A h \in Goroutine \ {g} : /\ pc'[h] = pc[h] /\ op'[h] = op[h] /\ arg'[h] = arg[h]
                                    /\ ret'[h] = ret[h] /\ pos'[h] = pos[h]
  PROVE  StrictInv'
  BY DEF StrictInv

(* The SPSC queues: a call takes effect at the store of its position, and  *)
(* an answer full or empty is true at the load of the other one.           *)
LEMMA SPSCRefines ==
  ASSUME Types, Types', Quiet, StrictInv, SPSCInv, impl = "SPSC", UNCHANGED impl,
         SPSCInv', NEW g \in Goroutine,
         Strict!SPSCCall(g) \/ Strict!SPSCWork(g)
  PROVE  AbstractStep /\ StrictInv' /\ Quiet'
  <1>1. PICK n \in 0 .. Size, a \in 0 .. Size, b \in 0 .. Size : Window(n, a, b)
    BY DEF SPSCInv
  <1>2. /\ head \in Word /\ tail \in Word /\ val \in [Index -> Nat]
        /\ pc \in [Goroutine -> Points] /\ pos \in [Goroutine -> Word]
        /\ DOMAIN op = Goroutine /\ DOMAIN ret = Goroutine /\ DOMAIN arg = Goroutine
    BY DEF Types, Words, ClientTypes, ClientTypeOK
  <1>3. /\ val' \in [Index -> Nat] /\ head' \in Word
        /\ impl' = "SPSC" /\ IsStrict /\ IsStrict'
        /\ n \in Nat /\ a \in Nat /\ b \in Nat /\ Size \in Nat \ {0}
    BY WordFacts DEF Types, Words, IsStrict
  <1>4. /\ tail = Plus(head, n) /\ b <= n /\ n <= a
        /\ TheLine = LineOf(val, head, n) /\ Minus(tail, head) = n
        /\ TheLine \in [1 .. n -> Entries]
    <2>1. tail = Plus(head, n) /\ b <= n /\ n <= a
      BY <1>1 DEF Window
    <2>2. TheLine = LineOf(val, head, n) /\ Minus(tail, head) = n
      BY <1>2, <1>3, <2>1, TheStrictLine
    <2> QED BY <1>2, <2>1, <2>2, LineOfType
  <1>5. ASSUME UNCHANGED <<val, head, tail>> PROVE TheLine' = TheLine
    BY <1>3, <1>4, <1>5, TheStrictLineNext
  <1>15. ASSUME NEW u \in [Index -> Nat], n < Size, SameBut(u, val, Idx(tail))
         PROVE  LineOf(u, head, n) = LineOf(val, head, n)
    <2>1. SameBut(u, val, Idx(Plus(head, n)))
      BY <1>4, <1>15, Zenon
    <2> QED BY <1>2, <1>15, <2>1, LineOfSame
  <1> USE StrictCopies, StrictWords DEF Strict!spscVars, Strict!ringVars
  <1>6. CASE Strict!SPSCCall(g)
    <2>1. PICK k \in {"enqueue", "dequeue"}, to \in {"check", "refresh"} : Start(g, k, to)
      BY <1>6 DEF Strict!SPSCCall, Strict!StartEnqueue, Strict!StartDequeue
    <2>2. UNCHANGED <<val, head, tail>> /\ \A h \in Goroutine \ {g} : pos'[h] = pos[h]
      BY <1>2, <1>6 DEF Strict!SPSCCall, Strict!StartEnqueue, Strict!StartDequeue
    <2>3. /\ pc[g] = "idle" /\ pc'[g] = to /\ op'[g] = k /\ ret' = ret
          /\ \A h \in Goroutine \ {g} : pc'[h] = pc[h] /\ op'[h] = op[h] /\ arg'[h] = arg[h]
      BY <1>2, <2>1 DEF Start
    <2>4. \A h \in Goroutine \ {g} : StatusOf(h)' = StatusOf(h) /\ RetOf(h)' = RetOf(h)
      BY <1>3, <2>3 DEF StatusOf, RetOf
    <2>5. StatusOf(g) = "idle" /\ StatusOf(g)' = k /\ RetOf(g)' = RetOf(g)
      BY <1>3, <2>3 DEF StatusOf, RetOf
    <2>6. calls' = calls + 1 /\ arg' = [arg EXCEPT ![g] = IF k = "enqueue" THEN calls + 1 ELSE 0]
      BY <2>1 DEF Start, Puts, zero
    <2>7. AbstractStep
      BY <1>5, <2>2, <2>4, <2>5, <2>6, MappedStep, AbstractCall
    <2>8. Quiet'
      BY <2>1, QuietStep
    <2> QED BY <2>2, <2>3, <2>7, <2>8, StoresKept
  <1>7. CASE Strict!Check(g)
    <2>1. PICK to \in {"refresh", "copy"} : Goto(g, "check", to)
      BY <1>7 DEF Strict!Check
    <2>2. UNCHANGED <<val, head, tail, pos>>
      BY <1>7 DEF Strict!Check
    <2>3. /\ pc[g] = "check" /\ pc'[g] = to /\ UNCHANGED <<calls, op, arg, ret>>
          /\ \A h \in Goroutine \ {g} : pc'[h] = pc[h]
      BY <1>2, <2>1 DEF Goto
    <2>4. \A h \in Goroutine : StatusOf(h)' = StatusOf(h) /\ RetOf(h)' = RetOf(h)
      BY <1>3, <2>3 DEF StatusOf, RetOf
    <2>5. AbstractStep
      BY <1>5, <2>2, <2>3, <2>4, MappedStep, AbstractNothing
    <2>6. Quiet'
      BY <2>1, QuietStep
    <2> QED BY <2>2, <2>3, <2>5, <2>6, StoresKept
  <1>8. CASE Strict!RefreshHead(g) \/ Strict!RefreshTail(g)
    <2>1. /\ pc[g] = "refresh" /\ UNCHANGED <<val, head, tail, pos, calls, op, arg>>
          /\ \A h \in Goroutine \ {g} : pc'[h] = pc[h] /\ ret'[h] = ret[h]
      BY <1>2, <1>8 DEF Strict!RefreshHead, Strict!RefreshTail, Goto, Finish
    <2>2. \/ op[g] = "enqueue" /\ pos[g] = tail
          \/ op[g] = "dequeue" /\ pos[g] = head
      BY <1>1, <2>1 DEF Window, SPSCBusy
    <2>3. \A h \in Goroutine \ {g} : StatusOf(h)' = StatusOf(h) /\ RetOf(h)' = RetOf(h)
      BY <1>3, <2>1 DEF StatusOf, RetOf
    <2>4. CASE Goto(g, "refresh", "copy")
      <3>1. pc'[g] = "copy" /\ ret' = ret
        BY <1>2, <2>4 DEF Goto
      <3>2. StatusOf(g)' = StatusOf(g) /\ RetOf(g)' = RetOf(g)
        BY <1>3, <2>1, <3>1 DEF StatusOf, RetOf
      <3>3. AbstractStep
        BY <1>5, <2>1, <2>3, <3>2, MappedStep, AbstractNothing
      <3>4. Quiet'
        BY <2>4, QuietStep
      <3> QED BY <2>1, <3>1, <3>3, <3>4, StoresKept
    <2>5. CASE Finish(g, "refresh", No)
      <3>1. pc'[g] = "done" /\ ret'[g] = No
        BY <1>2, <2>5 DEF Finish
      <3>2. StatusOf(g) = op[g] /\ StatusOf(g)' = "done" /\ RetOf(g)' = No
        BY <1>3, <2>1, <3>1 DEF StatusOf, RetOf
      <3>3. op[g] = "enqueue" => ~(Len(TheLine) < Size)
        <4>1. op[g] = "enqueue" => Minus(pos[g], head) >= Size
          BY <1>2, <1>8, <3>1 DEF Strict!RefreshHead, Strict!RefreshTail, Goto
        <4>2. Len(TheLine) = n
          BY <1>3, <1>4, LineLength
        <4> QED BY <1>3, <1>4, <2>2, <4>1, <4>2
      <3>4. op[g] = "dequeue" => TheLine = <<>>
        <4>1. op[g] = "dequeue" => Minus(tail, pos[g]) = 0
          BY <1>2, <1>8, <3>1 DEF Strict!RefreshHead, Strict!RefreshTail, Goto
        <4> QED BY <1>3, <1>4, <2>2, <4>1, LineEmpty
      <3>5. AbstractStep
        BY <1>5, <2>1, <2>2, <2>3, <3>2, <3>3, <3>4, MappedStep, AbstractFull, AbstractEmpty
      <3>6. Quiet'
        BY <2>5, QuietStep
      <3> QED BY <2>1, <3>1, <3>5, <3>6, StoresKept
    <2> QED BY <1>8, <2>4, <2>5 DEF Strict!RefreshHead, Strict!RefreshTail
  <1>9. CASE Strict!WriteArr(g)
    <2>1. /\ pc[g] = "copy" /\ op[g] = "enqueue" /\ pc'[g] = "store"
          /\ UNCHANGED <<head, tail, pos, calls, op, arg, ret>>
          /\ \A h \in Goroutine \ {g} : pc'[h] = pc[h]
      BY <1>2, <1>9 DEF Strict!WriteArr, Goto
    <2>0. val' = [val EXCEPT ![Idx(pos[g])] = arg[g]]
      BY <1>9 DEF Strict!WriteArr
    <2>2. pos[g] = tail /\ a < Size /\ g = Producer
      BY <1>1, <2>1 DEF Window, SPSCBusy
    <2>3. Idx(tail) \in Index /\ n < Size
      BY <1>2, <1>3, <1>4, <2>2, WordFacts
    <2>4. val'[Idx(tail)] = arg[g] /\ SameBut(val', val, Idx(tail))
      BY <1>2, <2>0, <2>2, <2>3 DEF SameBut
    <2>5. TheLine' = TheLine
      <3>1. LineOf(val', head, n) = LineOf(val, head, n)
        BY <1>3, <1>15, <2>3, <2>4
      <3> QED BY <1>3, <1>4, <2>1, <3>1, TheStrictLineNext
    <2>6. ret[g] = No
      BY <2>1 DEF Quiet
    <2>7. \A h \in Goroutine : StatusOf(h)' = StatusOf(h) /\ RetOf(h)' = RetOf(h)
      BY <1>3, <2>1, <2>6 DEF StatusOf, RetOf
    <2>8. AbstractStep
      BY <2>1, <2>5, <2>7, MappedStep, AbstractNothing
    <2>9. Quiet'
      BY <2>1 DEF Quiet
    <2>10. ASSUME NEW h \in Goroutine, h # g, pc[h] = "store"
           PROVE  op[h] = "dequeue" /\ val'[Idx(pos[h])] = val[Idx(pos[h])]
      <3>1. op[h] = "dequeue" /\ pos[h] = head /\ b > 0
        BY <1>1, <2>2, <2>10 DEF Window, SPSCBusy
      <3>2. n \in 1 .. Size - 1 /\ head \in Nat /\ 0 \in Nat /\ 0 + n = n
        BY <1>2, <1>3, <1>4, <2>3, <3>1, WordFacts
      <3>3. Idx(Plus(head, 0)) # Idx(Plus(head, n))
        BY <3>2, IdxNear
      <3>4. Idx(head) # Idx(tail) /\ Idx(head) \in Index
        BY <1>2, <1>4, <3>3, PlusZero, WordFacts
      <3> QED BY <2>4, <3>1, <3>4 DEF SameBut
    <2>11. StrictInv'
      BY <1>3, <2>1, <2>2, <2>4, <2>10 DEF StrictInv
    <2> QED BY <2>8, <2>9, <2>11
  <1>10. CASE Strict!ReadArr(g)
    <2>1. /\ pc[g] = "copy" /\ op[g] = "dequeue" /\ pc'[g] = "store"
          /\ UNCHANGED <<val, head, tail, pos, calls, op, arg>>
          /\ ret'[g] = <<val[Idx(pos[g])], TRUE>>
          /\ \A h \in Goroutine \ {g} : pc'[h] = pc[h] /\ ret'[h] = ret[h]
      BY <1>2, <1>10 DEF Strict!ReadArr
    <2>2. ret[g] = No
      BY <2>1 DEF Quiet
    <2>3. \A h \in Goroutine : StatusOf(h)' = StatusOf(h) /\ RetOf(h)' = RetOf(h)
      BY <1>3, <2>1, <2>2 DEF StatusOf, RetOf
    <2>4. AbstractStep
      BY <1>5, <2>1, <2>3, MappedStep, AbstractNothing
    <2>5. Quiet'
      BY <2>1 DEF Quiet
    <2>6. StrictInv'
      BY <1>3, <2>1 DEF StrictInv
    <2> QED BY <2>4, <2>5, <2>6
  <1>11. CASE Strict!StoreTail(g)
    <2>1. /\ pc[g] = "store" /\ op[g] = "enqueue" /\ pc'[g] = "done" /\ ret'[g] = Yes
          /\ UNCHANGED <<val, head, pos, calls, op, arg>>
          /\ tail' = Plus(pos[g], 1)
          /\ \A h \in Goroutine \ {g} : pc'[h] = pc[h] /\ ret'[h] = ret[h]
      BY <1>2, <1>11 DEF Strict!StoreTail, Finish
    <2>2. pos[g] = tail /\ a < Size
      BY <1>1, <2>1 DEF Window, SPSCBusy
    <2>3. n < Size /\ n + 1 \in 0 .. Size /\ val[Idx(tail)] = arg[g]
      <3>1. n < Size /\ n + 1 \in 0 .. Size
        BY <1>3, <1>4, <2>2
      <3>2. val[Idx(tail)] = arg[g]
        BY <2>1, <2>2 DEF StrictInv
      <3> QED BY <3>1, <3>2
    <2>4. tail' = Plus(head', n + 1)
      BY <1>2, <1>4, <2>1, <2>2, NextPlace
    <2>5. TheLine' = LineOf(val', head, n + 1)
      BY <1>3, <2>1, <2>3, <2>4, TheStrictLineNext
    <2>6. TheLine' = Append(TheLine, [val |-> arg[g], ready |-> TRUE])
      BY <1>2, <1>3, <1>4, <2>1, <2>3, <2>5, LineOfGrows
    <2>7. Len(TheLine) < Size
      BY <1>3, <1>4, <2>3, LineLength
    <2>8. \A h \in Goroutine \ {g} : StatusOf(h)' = StatusOf(h) /\ RetOf(h)' = RetOf(h)
      BY <1>3, <2>1 DEF StatusOf, RetOf
    <2>9. StatusOf(g) = "enqueue" /\ StatusOf(g)' = "done" /\ RetOf(g)' = Yes
      BY <1>3, <2>1 DEF StatusOf, RetOf
    <2>10. AbstractStep
      BY <2>1, <2>6, <2>7, <2>8, <2>9, MappedStep, AbstractEnqueue
    <2>11. Quiet'
      BY <2>1 DEF Quiet
    <2> QED BY <2>1, <2>10, <2>11, StoresKept
  <1>12. CASE Strict!StoreHead(g)
    <2>1. /\ pc[g] = "store" /\ op[g] = "dequeue" /\ pc'[g] = "done" /\ ret'[g] = ret[g]
          /\ UNCHANGED <<val, tail, pos, calls, op, arg>>
          /\ head' = Plus(pos[g], 1)
          /\ \A h \in Goroutine \ {g} : pc'[h] = pc[h] /\ ret'[h] = ret[h]
      BY <1>2, <1>12 DEF Strict!StoreHead, Finish
    <2>2. pos[g] = head /\ b > 0
      BY <1>1, <2>1 DEF Window, SPSCBusy
    <2>3. n > 0 /\ n - 1 \in 0 .. Size /\ ret[g] = <<val[Idx(head)], TRUE>>
      <3>1. n > 0 /\ n - 1 \in 0 .. Size
        BY <1>3, <1>4, <2>2
      <3>2. ret[g] = <<val[Idx(head)], TRUE>>
        BY <2>1, <2>2 DEF StrictInv
      <3> QED BY <3>1, <3>2
    <2>4. tail' = Plus(head', n - 1)
      BY <1>2, <1>4, <2>1, <2>2, <2>3, NextPlace
    <2>5. TheLine' = LineOf(val, Plus(head, 1), n - 1)
      BY <1>3, <2>1, <2>2, <2>3, <2>4, TheStrictLineNext
    <2>6. /\ TheLine' = Tail(TheLine) /\ TheLine # <<>>
          /\ Head(TheLine) = [val |-> val[Idx(head)], ready |-> TRUE]
      <3>1. SameBut(val, val, Idx(head))
        BY DEF SameBut
      <3>2. /\ LineOf(val, Plus(head, 1), n - 1) = Tail(LineOf(val, head, n))
            /\ LineOf(val, head, n) # <<>>
            /\ Head(LineOf(val, head, n)) = [val |-> val[Idx(head)], ready |-> TRUE]
        BY <1>2, <1>4, <2>3, <3>1, LineOfShrinks
      <3> QED BY <1>4, <2>5, <3>2
    <2>7. \A h \in Goroutine \ {g} : StatusOf(h)' = StatusOf(h) /\ RetOf(h)' = RetOf(h)
      BY <1>3, <2>1 DEF StatusOf, RetOf
    <2>8. StatusOf(g) = "dequeue" /\ StatusOf(g)' = "done" /\ RetOf(g)' = ret[g]
      BY <1>3, <2>1 DEF StatusOf, RetOf
    <2>9. Head(TheLine).ready /\ RetOf(g)' = <<Head(TheLine).val, TRUE>>
      BY <2>3, <2>6, <2>8
    <2>10. AbstractStep
      BY <2>1, <2>6, <2>7, <2>8, <2>9, MappedStep, AbstractDequeue
    <2>11. Quiet'
      BY <2>1 DEF Quiet
    <2> QED BY <2>1, <2>10, <2>11, StoresKept
  <1>13. CASE Strict!Return(g)
    <2>1. Leave(g) /\ UNCHANGED <<val, head, tail, pos>>
      BY <1>13 DEF Strict!Return
    <2>2. /\ pc[g] = "done" /\ pc'[g] = "idle" /\ ret'[g] = No /\ UNCHANGED <<calls, op, arg>>
          /\ \A h \in Goroutine \ {g} : pc'[h] = pc[h] /\ ret'[h] = ret[h]
      BY <1>2, <2>1 DEF Leave, None, No
    <2>3. \A h \in Goroutine \ {g} : StatusOf(h)' = StatusOf(h) /\ RetOf(h)' = RetOf(h)
      BY <1>3, <2>2 DEF StatusOf, RetOf
    <2>4. StatusOf(g) = "done" /\ StatusOf(g)' = "idle" /\ RetOf(g)' = No
      BY <1>3, <2>2 DEF StatusOf, RetOf
    <2>5. AbstractStep
      BY <1>5, <2>1, <2>2, <2>3, <2>4, MappedStep, AbstractReturn
    <2>6. Quiet'
      BY <2>1, QuietStep
    <2> QED BY <2>1, <2>2, <2>5, <2>6, StoresKept
  <1> QED BY <1>6, <1>7, <1>8, <1>9, <1>10, <1>11, <1>12, <1>13 DEF Strict!SPSCWork

-----------------------------------------------------------------------------
(* The values in a sequence-numbered ring.  A[m] is the value enqueued at  *)
(* position m, the m-th claimed at the tail.                               *)

Filled(t, P, F, m) == F[At(t, m)] /\ P[At(t, m)] = m

RingLine(t, N, H, P, F, A) ==
  [i \in 1 .. N - H |->
     [val |-> A[H + i - 1], ready |-> Filled(t, P, F, H + i - 1)]]

Numbered(N, K, A) ==
  /\ A \in [Nat -> Nat]
  /\ \A m \in 0 .. N - 1 : A[m] \in K
  /\ \A m, n \in 0 .. N - 1 : A[m] = A[n] => m = n

(* What a place holds, and who is at it if it is behind the head. *)
Held(H, M, P, F, A) ==
  \A i \in Index :
    /\ P[i] < H + Size /\ H <= P[i] + Size
    /\ ~F[i] => H <= P[i]
    /\ F[i] /\ H <= P[i] => val[i] = A[P[i]]
    /\ F[i] /\ P[i] < H => \E r \in Goroutine : Reader(r) /\ M[r] = P[i]

(* A position in line that is not filled has a writer.  What the users of  *)
(* the places know of the values.                                          *)
Awaited(t, N, H, M, P, F) ==
  \A m \in Nat : H <= m /\ m < N /\ ~Filled(t, P, F, m) =>
    \E w \in Goroutine : Writer(w) /\ M[w] = m

Known(t, H, M, A) ==
  \A g \in Goroutine :
    /\ Writer(g) => arg[g] = A[M[g]]
    /\ pc[g] \in {"publish", "read"} => val[At(t, M[g])] = A[M[g]]
    /\ pc[g] = "release" => ret[g] = <<A[M[g]], TRUE>> /\ M[g] < H

Values(t, N, H, M, P, F, K, A) ==
  /\ Numbered(N, K, A)
  /\ Held(H, M, P, F, A)
  /\ Awaited(t, N, H, M, P, F)
  /\ Known(t, H, M, A)

(* The line of a ring is a sequence of entries. *)
LEMMA RingLineType ==
  ASSUME NEW t \in Word, NEW N \in Nat, NEW H \in Nat, NEW P \in [Index -> Nat],
         NEW F \in [Index -> BOOLEAN], NEW A \in [Nat -> Nat], H <= N, Size > 1,
         N + Size < Modulus
  PROVE  /\ N - H \in Nat
         /\ RingLine(t, N, H, P, F, A) \in [1 .. N - H -> Entries]
         /\ \A i \in 1 .. N - H : H + i - 1 \in Nat /\ H <= H + i - 1 /\ H + i - 1 < N
  <1>1. N - H \in Nat /\ \A i \in 1 .. N - H : H + i - 1 \in Nat /\ H <= H + i - 1 /\ H + i - 1 < N
    OBVIOUS
  <1>2. ASSUME NEW i \in 1 .. N - H
        PROVE  [val |-> A[H + i - 1], ready |-> Filled(t, P, F, H + i - 1)] \in Entries
    <2>1. At(t, H + i - 1) \in Index /\ A[H + i - 1] \in Nat
      BY <1>1, Unwrapped
    <2>2. Filled(t, P, F, H + i - 1) \in BOOLEAN
      BY <2>1 DEF Filled
    <2> QED BY <2>1, <2>2 DEF Entries
  <1> QED BY <1>1, <1>2 DEF RingLine

(* A sequence number tells whether its place is filled for a position.     *)
LEMMA FilledIs ==
  ASSUME NEW t \in Word, NEW N \in Nat, NEW P \in [Index -> Nat],
         NEW F \in [Index -> BOOLEAN], NEW m \in Nat, m <= N,
         Size > 1, N + Size < Modulus, Places(t, N, P, F)
  PROVE  (seq[At(t, m)] = Plus(t, m + 1)) = Filled(t, P, F, m)
  <1> DEFINE i == At(t, m)
  <1>1. /\ i \in Index /\ At(t, m + 1) # i
        /\ \A x, y \in 0 .. N + Size : Plus(t, x) = Plus(t, y) => x = y
    BY Unwrapped
  <1>2. /\ At(t, P[i]) = i /\ P[i] \in Nat /\ P[i] <= N + Size /\ (F[i] => P[i] < N)
        /\ seq[i] = Plus(t, IF F[i] THEN P[i] + 1 ELSE P[i]) /\ F[i] \in BOOLEAN
    BY <1>1 DEF Places
  <1>3. Filled(t, P, F, m) = (F[i] /\ P[i] = m)
    BY DEF Filled
  <1> HIDE DEF i
  <1>4. F[i] /\ P[i] = m => seq[i] = Plus(t, m + 1)
    BY <1>2
  <1>5. ASSUME seq[i] = Plus(t, m + 1) PROVE F[i] /\ P[i] = m
    <2>1. (IF F[i] THEN P[i] + 1 ELSE P[i]) = m + 1
      <3>1. /\ (IF F[i] THEN P[i] + 1 ELSE P[i]) \in 0 .. N + Size
            /\ m + 1 \in 0 .. N + Size
        BY <1>2, WordFacts
      <3> QED BY <1>1, <1>2, <1>5, <3>1
    <2>2. F[i]
      BY <1>1, <1>2, <2>1
    <2> QED BY <1>2, <2>1, <2>2
  <1> QED BY <1>3, <1>4, <1>5 DEF i

(* The invariant of a sequence-numbered ring, of the state with these      *)
(* unwrapped positions and values.                                         *)
Ring(t, N, H, M, P, F, K, A) ==
  /\ impl \in {"MPMC", "MPSC"} /\ Types /\ Quiet /\ calls <= MaxCalls
  /\ Shape(t, N, H, M, P, F, K)
  /\ Values(t, N, H, M, P, F, K, A)

(* What the invariant says of the types. *)
LEMMA RingTypes ==
  ASSUME NEW t, NEW N, NEW H, NEW M, NEW P, NEW F, NEW K, NEW A,
         Ring(t, N, H, M, P, F, K, A)
  PROVE  /\ t \in Word /\ N \in Nat /\ H \in Nat /\ M \in [Goroutine -> Nat]
         /\ P \in [Index -> Nat] /\ F \in [Index -> BOOLEAN] /\ K \in SUBSET Nat
         /\ A \in [Nat -> Nat]
  <1>1. /\ t \in Word /\ N \in Nat /\ H \in Nat /\ M \in [Goroutine -> Nat]
        /\ P \in [Index -> Nat] /\ F \in [Index -> BOOLEAN] /\ K \in SUBSET Nat
    BY DEF Ring, Shape, Counts, Claims
  <1>2. A \in [Nat -> Nat]
    BY DEF Ring, Values, Numbered
  <1> QED BY <1>1, <1>2

(* What the mapping makes of the state: the line is that of the positions  *)
(* from H to N.                                                            *)
RingFacts(t, N, H, M, P, F, K, A) ==
  /\ TheLine = RingLine(t, N, H, P, F, A)
  /\ N + Size < Modulus /\ N <= calls

RingLineIs ==
  Size > 1 /\ MaxCalls + Size < Modulus =>
    \A t \in Word, N \in Nat, H \in Nat, M \in [Goroutine -> Nat], P \in [Index -> Nat],
       F \in [Index -> BOOLEAN], K \in SUBSET Nat, A \in [Nat -> Nat] :
         Ring(t, N, H, M, P, F, K, A) => RingFacts(t, N, H, M, P, F, K, A)

LEMMA RingLineState == RingLineIs
  <1> SUFFICES ASSUME Size > 1, MaxCalls + Size < Modulus,
                      NEW t \in Word, NEW N \in Nat, NEW H \in Nat,
                      NEW M \in [Goroutine -> Nat], NEW P \in [Index -> Nat],
                      NEW F \in [Index -> BOOLEAN], NEW K \in SUBSET Nat,
                      NEW A \in [Nat -> Nat], Ring(t, N, H, M, P, F, K, A)
               PROVE  RingFacts(t, N, H, M, P, F, K, A)
    BY DEF RingLineIs
  <1>1. N <= calls /\ N + Size < Modulus
    <2>1. calls \in Nat /\ calls <= MaxCalls /\ MaxCalls \in Nat
          /\ Size \in Nat /\ Modulus \in Nat
      BY MaxCallsAssumption, WordFacts DEF Ring, Types, ClientTypes, ClientTypeOK
    <2>2. N <= calls
      BY <2>1, ClaimsBound DEF Ring, Shape
    <2> QED BY <2>1, <2>2
  <1>2. tail = Plus(t, N) /\ head = Plus(t, H) /\ H <= N /\ N - H \in Nat
        /\ N - H \in 0 .. Modulus - 1 /\ t \in Nat
    BY <1>1, WordFacts DEF Ring, Shape, Counts
  <1>3. Minus(tail, head) = N - H
    <2>1. Plus(Plus(t, H), N - H) = Plus(t, N)
      <3>1. H + (N - H) = N
        BY <1>2
      <3>2. Plus(Plus(t, H), N - H) = Plus(t, H + (N - H))
        BY <1>2, PlusPlus
      <3> QED BY <3>1, <3>2
    <2>2. head \in Word
      BY DEF Ring, Types, Words
    <2> QED BY <1>2, <2>1, <2>2, MinusPlus
  <1> DEFINE W == Slots!InSlot
  <1>4. \A w \in W : w \in Goroutine /\ (Writer(w) \/ Reader(w)) /\ pos[w] = Plus(t, M[w])
                     /\ M[w] <= N
    BY DEF Slots!InSlot, Writer, Reader, Ring, Shape, Positions, Busy
  <1>5. ASSUME NEW i \in 1 .. N - H
        PROVE  Slots!Entry(Plus(head, i - 1))
                 = [val |-> A[H + i - 1], ready |-> Filled(t, P, F, H + i - 1)]
    <2> DEFINE m == H + i - 1
               p == Plus(head, i - 1)
    <2>1. m \in Nat /\ H <= m /\ m < N /\ i - 1 \in Nat /\ H + (i - 1) = m
      BY <1>2
    <2>2. p = Plus(t, m)
      <3>1. Plus(Plus(t, H), i - 1) = Plus(t, H + (i - 1))
        BY <1>2, <2>1, PlusPlus
      <3> QED BY <1>2, <2>1, <3>1
    <2> HIDE DEF m, p
    <2>3. Plus(p, 1) = Plus(t, m + 1) /\ Idx(p) = At(t, m)
      BY <1>1, <2>1, <2>2, Unwrapped DEF At
    <2>4. Filled(t, P, F, m) => val[At(t, m)] = A[m]
      <3>1. At(t, m) \in Index
        BY <1>1, <2>1, Unwrapped
      <3> QED BY <2>1, <3>1 DEF Ring, Values, Held, Filled
    <2>5. ~Filled(t, P, F, m) => \E w \in W : pos[w] = Plus(t, m)
      <3> SUFFICES ASSUME ~Filled(t, P, F, m) PROVE \E w \in W : pos[w] = Plus(t, m)
        OBVIOUS
      <3>1. PICK w \in Goroutine : Writer(w) /\ M[w] = m
        BY <2>1 DEF Ring, Values, Awaited
      <3>2. w \in W
        BY <3>1 DEF Slots!InSlot, Writer
      <3> HIDE DEF W
      <3> QED BY <1>4, <3>1, <3>2
    <2>6. ASSUME NEW w \in W, ~Filled(t, P, F, m), pos[w] = Plus(t, m)
          PROVE  arg[w] = A[m]
      <3>1. w \in Goroutine /\ (Writer(w) \/ Reader(w)) /\ M[w] \in 0 .. N + Size
            /\ Plus(t, M[w]) = Plus(t, m) /\ m \in 0 .. N + Size
        BY <1>4, <2>1, <2>6, WordFacts
      <3>2. M[w] = m
        BY <1>1, <3>1, Unwrapped
      <3>3. Reader(w) => Filled(t, P, F, m)
        BY <3>1, <3>2 DEF Ring, Shape, Users, Filled
      <3> QED BY <2>6, <3>1, <3>2, <3>3 DEF Ring, Values, Known
    <2> HIDE DEF W
    <2>7. (seq[Idx(p)] = Plus(p, 1)) = Filled(t, P, F, m)
      BY <1>1, <2>1, <2>3, FilledIs DEF Ring, Shape
    <2>8. CASE Filled(t, P, F, m)
      BY <2>3, <2>4, <2>7, <2>8, SlotsWords DEF Slots!Entry, m, p
    <2>9. CASE ~Filled(t, P, F, m)
      <3>1. \E w \in W : pos[w] = p
        BY <2>2, <2>5, <2>9
      <3>2. arg[CHOOSE w \in W : pos[w] = p] = A[m]
        BY <2>2, <2>6, <2>9, <3>1
      <3>3. Slots!Entry(p) = [val |-> A[m], ready |-> FALSE]
        BY <2>7, <2>9, <3>2, SlotsWords DEF Slots!Entry, W
      <3>4. Filled(t, P, F, m) = FALSE
        BY <2>9 DEF Filled
      <3> QED BY <3>3, <3>4 DEF m, p
    <2> QED BY <2>8, <2>9
  <1>6. Slots!Line = RingLine(t, N, H, P, F, A)
    BY <1>3, <1>5, SlotsWords DEF Slots!Line, RingLine
  <1> QED BY <1>1, <1>6 DEF RingFacts, TheLine, Ring

(* The same of the next state. *)
LEMMA RingLines ==
  ASSUME Size > 1, MaxCalls + Size < Modulus, NEW t \in Word, NEW N \in Nat, NEW H \in Nat,
         NEW M \in [Goroutine -> Nat], NEW P \in [Index -> Nat],
         NEW F \in [Index -> BOOLEAN], NEW K \in SUBSET Nat, NEW A \in [Nat -> Nat]
  PROVE  /\ Ring(t, N, H, M, P, F, K, A) => RingFacts(t, N, H, M, P, F, K, A)
         /\ Ring(t, N, H, M, P, F, K, A)' => RingFacts(t, N, H, M, P, F, K, A)'
  <1>1. RingLineIs
    BY RingLineState
  <1>2. RingLineIs'
    BY RingLineState, PTL
  <1> QED BY <1>1, <1>2 DEF RingLineIs

(* Two goroutines at places are at different places. *)
LEMMA PlacesApart ==
  ASSUME NEW t, NEW N, NEW H, NEW M, NEW P, NEW F, NEW K, NEW A,
         Ring(t, N, H, M, P, F, K, A), NEW g \in Goroutine, NEW h \in Goroutine, g # h,
         Writer(g) \/ Reader(g), Writer(h) \/ Reader(h)
  PROVE  At(t, M[h]) # At(t, M[g])
  <1> SUFFICES ASSUME At(t, M[h]) = At(t, M[g]) PROVE FALSE
    OBVIOUS
  <1>1. M[g] = M[h] /\ ((Writer(g) /\ Writer(h)) \/ (Reader(g) /\ Reader(h)))
    BY DEF Ring, Shape, Users
  <1> QED BY <1>1 DEF Ring, Shape, Apart

(* What a step of g leaves alone, the values included: only a goroutine at *)
(* a place, its reader after the head has passed it, changes the value     *)
(* there.                                                                  *)
Bystanders(g) == Others(g) /\ \A h \in Goroutine \ {g} : ret'[h] = ret[h]

Touches(t, H, M, g) ==
  \/ val' = val
  \/ /\ Writer(g) \/ (Reader(g) /\ M[g] < H)
     /\ \A j \in Index : j # At(t, M[g]) => val'[j] = val[j]

(* A step of g leaves what the mapping makes of the others. *)
LEMMA RingOthers ==
  ASSUME NEW t, NEW N, NEW H, NEW M, NEW P, NEW F, NEW K, NEW A,
         Ring(t, N, H, M, P, F, K, A), NEW g \in Goroutine, UNCHANGED impl,
         Bystanders(g), Touches(t, H, M, g)
  PROVE  \A h \in Goroutine \ {g} : StatusOf(h)' = StatusOf(h) /\ RetOf(h)' = RetOf(h)
  <1> SUFFICES ASSUME NEW h \in Goroutine \ {g}
               PROVE  StatusOf(h)' = StatusOf(h) /\ RetOf(h)' = RetOf(h)
    OBVIOUS
  <1>1. /\ pc'[h] = pc[h] /\ op'[h] = op[h] /\ arg'[h] = arg[h] /\ pos'[h] = pos[h]
        /\ ret'[h] = ret[h]
    BY DEF Bystanders, Others
  <1>2. pc[h] = "read" => val'[Idx(pos[h])] = val[Idx(pos[h])]
    <2> SUFFICES ASSUME pc[h] = "read", val' # val
                 PROVE  val'[Idx(pos[h])] = val[Idx(pos[h])]
      OBVIOUS
    <2>1. Idx(pos[h]) = At(t, M[h]) /\ Reader(h)
      BY DEF Ring, Shape, Positions, Busy, Reader, At
    <2>2. Idx(pos[h]) \in Index
      BY WordFacts DEF Ring, Types, Words
    <2>3. At(t, M[h]) # At(t, M[g])
      BY <2>1, PlacesApart DEF Touches
    <2> QED BY <2>1, <2>2, <2>3 DEF Touches
  <1> QED BY <1>1, <1>2 DEF StatusOf, RetOf

(* A step that claims, publishes and releases nothing. *)
LEMMA ValuesKept ==
  ASSUME NEW t \in Word, NEW N \in Nat, NEW H \in Nat, NEW M \in [Goroutine -> Nat],
         NEW P \in [Index -> Nat], NEW F \in [Index -> BOOLEAN], NEW K \in SUBSET Nat,
         NEW A \in [Nat -> Nat], Ring(t, N, H, M, P, F, K, A),
         NEW g \in Goroutine, UNCHANGED impl, Bystanders(g), Touches(t, H, M, g),
         NEW L \in [Goroutine -> Nat], \A h \in Goroutine \ {g} : L[h] = M[h],
         Writer(g)' => Writer(g), Writer(g) => Writer(g)' /\ arg'[g] = arg[g],
         Reader(g) => Reader(g)',
         Writer(g)' \/ Reader(g)' => L[g] = M[g],
         pc'[g] \in {"publish", "read"} => val'[At(t, M[g])] = A[M[g]],
         pc'[g] = "release" => ret'[g] = <<A[M[g]], TRUE>> /\ M[g] < H
  PROVE  Values(t, N, H, L, P, F, K, A)'
  <1>1. \A h \in Goroutine \ {g} :
          /\ Writer(h)' = Writer(h) /\ Reader(h)' = Reader(h)
          /\ pc'[h] = pc[h] /\ arg'[h] = arg[h] /\ ret'[h] = ret[h] /\ L[h] = M[h]
    BY DEF Bystanders, Others, Writer, Reader
  <1>2. Numbered(N, K, A)'
    BY DEF Ring, Values, Numbered
  <1>3. Held(H, L, P, F, A)'
    <2> SUFFICES ASSUME NEW i \in Index
                 PROVE  /\ F[i] /\ H <= P[i] => val'[i] = A[P[i]]
                        /\ F[i] /\ P[i] < H => \E r \in Goroutine : Reader(r)' /\ L[r] = P[i]
      BY DEF Ring, Values, Held
    <2>1. ASSUME F[i], H <= P[i] PROVE val'[i] = A[P[i]]
      <3>1. val[i] = A[P[i]]
        BY <2>1 DEF Ring, Values, Held
      <3>2. val' # val => i # At(t, M[g])
        <4>1. Writer(g) => ~F[At(t, M[g])]
          BY DEF Ring, Shape, Users
        <4>2. Reader(g) => P[At(t, M[g])] = M[g]
          BY DEF Ring, Shape, Users
        <4> QED BY <2>1, <4>1, <4>2 DEF Touches
      <3> QED BY <3>1, <3>2 DEF Touches
    <2>2. ASSUME F[i], P[i] < H PROVE \E r \in Goroutine : Reader(r)' /\ L[r] = P[i]
      <3>1. PICK r \in Goroutine : Reader(r) /\ M[r] = P[i]
        BY <2>2 DEF Ring, Values, Held
      <3>2. Reader(r)' /\ L[r] = P[i]
        BY <1>1, <3>1
      <3> QED BY <3>2
    <2> QED BY <2>1, <2>2
  <1>4. Awaited(t, N, H, L, P, F)'
    <2> SUFFICES ASSUME NEW m \in Nat, H <= m, m < N, ~Filled(t, P, F, m)
                 PROVE  \E w \in Goroutine : Writer(w)' /\ L[w] = m
      BY DEF Awaited
    <2>1. PICK w \in Goroutine : Writer(w) /\ M[w] = m
      BY DEF Ring, Values, Awaited
    <2>2. Writer(w)' /\ L[w] = m
      BY <1>1, <2>1
    <2> QED BY <2>2
  <1>5. Known(t, H, L, A)'
    <2> SUFFICES ASSUME NEW h \in Goroutine
                 PROVE  /\ Writer(h)' => arg'[h] = A[L[h]]
                        /\ pc'[h] \in {"publish", "read"} => val'[At(t, L[h])] = A[L[h]]
                        /\ pc'[h] = "release" => ret'[h] = <<A[L[h]], TRUE>> /\ L[h] < H
      BY DEF Known
    <2>1. CASE h = g
      <3>1. pc'[g] \in {"publish", "read", "release"} => L[g] = M[g]
        BY DEF Writer, Reader
      <3>2. Writer(g) => arg[g] = A[M[g]]
        BY DEF Ring, Values, Known
      <3> QED BY <2>1, <3>1, <3>2
    <2>2. CASE h # g
      <3>1. /\ Writer(h) => arg[h] = A[M[h]]
            /\ pc[h] \in {"publish", "read"} => val[At(t, M[h])] = A[M[h]]
            /\ pc[h] = "release" => ret[h] = <<A[M[h]], TRUE>> /\ M[h] < H
        BY DEF Ring, Values, Known
      <3>2. pc[h] \in {"publish", "read"} => val'[At(t, M[h])] = val[At(t, M[h])]
        <4> SUFFICES ASSUME pc[h] \in {"publish", "read"}, val' # val
                     PROVE  val'[At(t, M[h])] = val[At(t, M[h])]
          OBVIOUS
        <4>1. Writer(h) \/ Reader(h)
          BY DEF Writer, Reader
        <4>2. At(t, M[h]) # At(t, M[g])
          BY <2>2, <4>1, PlacesApart DEF Touches
        <4>3. At(t, M[h]) \in Index
          BY WordFacts, IdxPlus DEF At
        <4> QED BY <4>2, <4>3 DEF Touches
      <3> QED BY <1>1, <2>2, <3>1, <3>2
    <2> QED BY <2>1, <2>2
  <1> QED BY <1>2, <1>3, <1>4, <1>5 DEF Values

(* g claims the position at the tail. *)
LEMMA TailValues ==
  ASSUME NEW t \in Word, NEW N \in Nat, NEW H \in Nat, NEW M \in [Goroutine -> Nat],
         NEW P \in [Index -> Nat], NEW F \in [Index -> BOOLEAN], NEW K \in SUBSET Nat,
         NEW A \in [Nat -> Nat], Ring(t, N, H, M, P, F, K, A),
         NEW g \in Goroutine, UNCHANGED impl, Bystanders(g), val' = val, arg' = arg,
         pc[g] = "cas", op[g] = "enqueue", pc'[g] = "write", M[g] = N,
         NEW x, x = arg[g]
  PROVE  Values(t, N + 1, H, M, P, F, K \cup {x}, [A EXCEPT ![N] = x])'
  <1> DEFINE B == [A EXCEPT ![N] = x]
  <1>1. /\ x \in Nat /\ x \notin K
        /\ ~Writer(g) /\ ~Reader(g) /\ Writer(g)' /\ ~Reader(g)'
    BY DEF Ring, Types, ClientTypes, ClientTypeOK, Shape, Claims, Pending, Writer, Reader
  <1>2. B \in [Nat -> Nat] /\ B[N] = x /\ \A m \in Nat : m # N => B[m] = A[m]
    BY <1>1
  <1> HIDE DEF B
  <1>3. \A h \in Goroutine \ {g} :
          /\ Writer(h)' = Writer(h) /\ Reader(h)' = Reader(h)
          /\ pc'[h] = pc[h] /\ arg'[h] = arg[h] /\ ret'[h] = ret[h]
    BY DEF Bystanders, Others, Writer, Reader
  <1>4. H <= N /\ \A i \in Index : F[i] => P[i] < N
    BY DEF Ring, Shape, Counts, Places
  <1>5. Numbered(N + 1, K \cup {x}, B)'
    <2>1. \A m \in 0 .. (N + 1) - 1 : m \in 0 .. N - 1 \/ m = N
      OBVIOUS
    <2>2. \A m \in 0 .. N - 1 : A[m] \in K /\ B[m] = A[m] /\ m # N
      BY <1>2 DEF Ring, Values, Numbered
    <2>3. \A m, n \in 0 .. N - 1 : A[m] = A[n] => m = n
      BY DEF Ring, Values, Numbered
    <2>4. \A m, n \in 0 .. (N + 1) - 1 : B[m] = B[n] => m = n
      <3>1. \A m \in 0 .. N - 1 : B[m] # x /\ m # N
        BY <1>1, <2>2
      <3>2. \A m, n \in 0 .. N - 1 : B[m] = B[n] => m = n
        BY <2>2, <2>3
      <3> QED BY <1>2, <2>1, <3>1, <3>2
    <2>5. \A m \in 0 .. (N + 1) - 1 : B[m] \in K \cup {x}
      BY <1>2, <2>1, <2>2
    <2> QED BY <1>2, <2>4, <2>5 DEF Numbered
  <1>6. Held(H, M, P, F, B)'
    <2> SUFFICES ASSUME NEW i \in Index
                 PROVE  /\ F[i] /\ H <= P[i] => val[i] = B[P[i]]
                        /\ F[i] /\ P[i] < H => \E r \in Goroutine : Reader(r)' /\ M[r] = P[i]
      BY DEF Ring, Values, Held
    <2>1. F[i] => B[P[i]] = A[P[i]]
      BY <1>2, <1>4
    <2>2. F[i] /\ H <= P[i] => val[i] = B[P[i]]
      BY <2>1 DEF Ring, Values, Held
    <2>3. ASSUME F[i], P[i] < H PROVE \E r \in Goroutine : Reader(r)' /\ M[r] = P[i]
      <3>1. PICK r \in Goroutine : Reader(r) /\ M[r] = P[i]
        BY <2>3 DEF Ring, Values, Held
      <3> QED BY <1>1, <1>3, <3>1
    <2> QED BY <2>2, <2>3
  <1>7. Awaited(t, N + 1, H, M, P, F)'
    <2> SUFFICES ASSUME NEW m \in Nat, H <= m, m < N + 1, ~Filled(t, P, F, m)
                 PROVE  \E w \in Goroutine : Writer(w)' /\ M[w] = m
      BY DEF Awaited
    <2>1. CASE m = N
      BY <1>1, <2>1
    <2>2. CASE m < N
      <3>1. PICK w \in Goroutine : Writer(w) /\ M[w] = m
        BY <2>2 DEF Ring, Values, Awaited
      <3> QED BY <1>1, <1>3, <3>1
    <2> QED BY <2>1, <2>2
  <1>8. Known(t, H, M, B)'
    <2> SUFFICES ASSUME NEW h \in Goroutine
                 PROVE  /\ Writer(h)' => arg'[h] = B[M[h]]
                        /\ pc'[h] \in {"publish", "read"} => val[At(t, M[h])] = B[M[h]]
                        /\ pc'[h] = "release" => ret'[h] = <<B[M[h]], TRUE>> /\ M[h] < H
      BY DEF Known
    <2>1. CASE h = g
      BY <1>2, <2>1
    <2>2. CASE h # g
      <3>1. Writer(h) \/ Reader(h) => M[h] < N
        <4>1. Reader(h) => F[At(t, M[h])] /\ P[At(t, M[h])] = M[h]
          BY DEF Ring, Shape, Users
        <4>2. At(t, M[h]) \in Index
          BY WordFacts, IdxPlus DEF At
        <4>3. Writer(h) => M[h] < N
          BY DEF Ring, Shape, Users
        <4> QED BY <1>4, <4>1, <4>2, <4>3
      <3>2. Writer(h) \/ Reader(h) => B[M[h]] = A[M[h]]
        BY <1>2, <3>1
      <3>3. /\ Writer(h) => arg[h] = A[M[h]]
            /\ pc[h] \in {"publish", "read"} => val[At(t, M[h])] = A[M[h]]
            /\ pc[h] = "release" => ret[h] = <<A[M[h]], TRUE>> /\ M[h] < H
        BY DEF Ring, Values, Known
      <3> QED BY <1>3, <2>2, <3>2, <3>3 DEF Writer, Reader
    <2> QED BY <2>1, <2>2
  <1> QED BY <1>5, <1>6, <1>7, <1>8 DEF Values, B

(* The position at the head is passed: g claims it, or has read it. *)
LEMMA HeadValues ==
  ASSUME Size > 1, NEW t \in Word, NEW N \in Nat, NEW H \in Nat, N + Size < Modulus,
         NEW M \in [Goroutine -> Nat],
         NEW P \in [Index -> Nat], NEW F \in [Index -> BOOLEAN], NEW K \in SUBSET Nat,
         NEW A \in [Nat -> Nat], Ring(t, N, H, M, P, F, K, A),
         NEW g \in Goroutine, UNCHANGED impl, Bystanders(g), ~Writer(g), Reader(g)',
         M[g] = H, F[At(t, H)], P[At(t, H)] = H,
         \/ pc'[g] = "read" /\ val' = val
         \/ /\ pc[g] = "read" /\ pc'[g] = "release"
            /\ ret'[g] = <<val[At(t, H)], TRUE>>
            /\ \A j \in Index : j # At(t, H) => val'[j] = val[j]
  PROVE  Values(t, N, H + 1, M, P, F, K, A)'
  <1>1. \A h \in Goroutine \ {g} :
          /\ Writer(h)' = Writer(h) /\ Reader(h)' = Reader(h)
          /\ pc'[h] = pc[h] /\ arg'[h] = arg[h] /\ ret'[h] = ret[h]
    BY DEF Bystanders, Others, Writer, Reader
  <1>2. ~Writer(g)' /\ At(t, H) \in Index /\ Size \in Nat \ {0} /\ val[At(t, H)] = A[H]
    <2>1. At(t, H) \in Index
      BY Unwrapped
    <2> QED BY <2>1, WordFacts DEF Writer, Reader, Ring, Values, Held
  <1>3. \A i \in Index : At(t, P[i]) = i
    BY DEF Ring, Shape, Places
  <1>4. Numbered(N, K, A)'
    BY DEF Ring, Values, Numbered
  <1>5. Held(H + 1, M, P, F, A)'
    <2> SUFFICES ASSUME NEW i \in Index
                 PROVE  /\ P[i] < H + 1 + Size /\ H + 1 <= P[i] + Size
                        /\ ~F[i] => H + 1 <= P[i]
                        /\ F[i] /\ H + 1 <= P[i] => val'[i] = A[P[i]]
                        /\ F[i] /\ P[i] < H + 1 =>
                             \E r \in Goroutine : Reader(r)' /\ M[r] = P[i]
      BY DEF Held
    <2>1. /\ P[i] < H + Size /\ H <= P[i] + Size /\ (~F[i] => H <= P[i]) /\ P[i] \in Nat
          /\ F[i] /\ H <= P[i] => val[i] = A[P[i]]
          /\ F[i] /\ P[i] < H => \E r \in Goroutine : Reader(r) /\ M[r] = P[i]
      BY DEF Ring, Values, Held
    <2>2. P[i] = H => i = At(t, H)
      BY <1>3
    <2>3. P[i] + Size # H
      <3> SUFFICES ASSUME P[i] + Size = H PROVE FALSE
        OBVIOUS
      <3>1. At(t, P[i] + Size) = At(t, P[i])
        BY <2>1, Unwrapped
      <3>2. i = At(t, H)
        BY <1>3, <3>1
      <3> QED BY <1>2, <2>1, <3>2
    <2>4. ASSUME F[i], P[i] < H + 1 PROVE \E r \in Goroutine : Reader(r)' /\ M[r] = P[i]
      <3>1. CASE P[i] = H
        BY <3>1
      <3>2. CASE P[i] < H
        <4>1. PICK r \in Goroutine : Reader(r) /\ M[r] = P[i]
          BY <2>1, <2>4, <3>2
        <4>2. r # g
          BY <3>2, <4>1
        <4> QED BY <1>1, <4>1, <4>2
      <3> QED BY <2>1, <2>4, <3>1, <3>2
    <2>5. ~F[i] => H + 1 <= P[i]
      BY <2>1, <2>2
    <2>6. F[i] /\ H + 1 <= P[i] => val'[i] = A[P[i]]
      <3> SUFFICES ASSUME F[i], H + 1 <= P[i] PROVE val'[i] = A[P[i]]
        OBVIOUS
      <3>1. i # At(t, H) /\ H <= P[i]
        BY <2>1
      <3>2. val'[i] = val[i]
        BY <3>1
      <3> QED BY <2>1, <3>1, <3>2
    <2> QED BY <1>2, <2>1, <2>3, <2>4, <2>5, <2>6
  <1>6. Awaited(t, N, H + 1, M, P, F)'
    <2> SUFFICES ASSUME NEW m \in Nat, H + 1 <= m, m < N, ~Filled(t, P, F, m)
                 PROVE  \E w \in Goroutine : Writer(w)' /\ M[w] = m
      BY DEF Awaited
    <2>1. PICK w \in Goroutine : Writer(w) /\ M[w] = m
      BY DEF Ring, Values, Awaited
    <2> QED BY <1>1, <2>1
  <1>7. Known(t, H + 1, M, A)'
    <2> SUFFICES ASSUME NEW h \in Goroutine
                 PROVE  /\ Writer(h)' => arg'[h] = A[M[h]]
                        /\ pc'[h] \in {"publish", "read"} => val'[At(t, M[h])] = A[M[h]]
                        /\ pc'[h] = "release" => ret'[h] = <<A[M[h]], TRUE>> /\ M[h] < H + 1
      BY DEF Known
    <2>1. CASE h = g
      <3>1. pc'[g] # "publish" /\ ~Writer(g)' /\ H < H + 1
        BY <1>2 DEF Writer
      <3>2. pc'[g] = "read" => val'[At(t, H)] = A[H]
        BY <1>2
      <3>3. pc'[g] = "release" => ret'[g] = <<A[H], TRUE>>
        BY <1>2
      <3> QED BY <2>1, <3>1, <3>2, <3>3
    <2>2. CASE h # g
      <3>1. /\ Writer(h) => arg[h] = A[M[h]]
            /\ pc[h] \in {"publish", "read"} => val[At(t, M[h])] = A[M[h]]
            /\ pc[h] = "release" => ret[h] = <<A[M[h]], TRUE>> /\ M[h] < H + 1
        <4>1. M[h] < H => M[h] < H + 1
          <5>1. M[h] \in Nat /\ H \in Nat
            OBVIOUS
          <5> QED BY <5>1
        <4>2. /\ Writer(h) => arg[h] = A[M[h]]
              /\ pc[h] \in {"publish", "read"} => val[At(t, M[h])] = A[M[h]]
              /\ pc[h] = "release" => ret[h] = <<A[M[h]], TRUE>> /\ M[h] < H
          BY DEF Ring, Values, Known
        <4> QED BY <4>1, <4>2, Zenon
      <3>2. pc[h] \in {"publish", "read"} => val'[At(t, M[h])] = val[At(t, M[h])]
        <4> SUFFICES ASSUME pc[h] \in {"publish", "read"}, val' # val
                     PROVE  val'[At(t, M[h])] = val[At(t, M[h])]
          OBVIOUS
        <4>1. (Writer(h) \/ Reader(h)) /\ Reader(g)
          BY DEF Writer, Reader
        <4>2. At(t, M[h]) # At(t, H)
          BY <2>2, <4>1, PlacesApart
        <4>3. At(t, M[h]) \in Index
          BY Unwrapped
        <4> QED BY <4>2, <4>3
      <3> QED BY <1>1, <2>2, <3>1, <3>2
    <2> QED BY <2>1, <2>2
  <1> QED BY <1>4, <1>5, <1>6, <1>7 DEF Values

(* A value is published. *)
LEMMA PublishedValues ==
  ASSUME Size > 1, NEW t \in Word, NEW N \in Nat, NEW H \in Nat, N + Size < Modulus,
         NEW M \in [Goroutine -> Nat],
         NEW P \in [Index -> Nat], NEW F \in [Index -> BOOLEAN], NEW K \in SUBSET Nat,
         NEW A \in [Nat -> Nat], Ring(t, N, H, M, P, F, K, A),
         NEW g \in Goroutine, UNCHANGED impl, Bystanders(g), val' = val,
         pc[g] = "publish", pc'[g] = "done"
  PROVE  Values(t, N, H, M, P, [F EXCEPT ![At(t, M[g])] = TRUE], K, A)'
  <1> DEFINE i == At(t, M[g])
             E == [F EXCEPT ![i] = TRUE]
  <1>1. /\ Writer(g) /\ ~Reader(g) /\ ~Writer(g)' /\ ~Reader(g)'
        /\ i \in Index /\ E[i] = TRUE /\ \A j \in Index : j # i => E[j] = F[j]
    <2>1. i \in Index
      BY Unwrapped
    <2> HIDE DEF i
    <2> QED BY <2>1 DEF Writer, Reader
  <1>2. P[i] = M[g] /\ ~F[i] /\ val[i] = A[M[g]] /\ H <= P[i] /\ At(t, P[i]) = i
    <2>1. P[i] = M[g] /\ ~F[i] /\ val[i] = A[M[g]]
      BY <1>1 DEF Ring, Shape, Users, Values, Known
    <2> HIDE DEF i, E
    <2> QED BY <1>1, <2>1 DEF Ring, Shape, Places, Values, Held
  <1> HIDE DEF i, E
  <1>3. \A h \in Goroutine \ {g} :
          /\ Writer(h)' = Writer(h) /\ Reader(h)' = Reader(h)
          /\ pc'[h] = pc[h] /\ arg'[h] = arg[h] /\ ret'[h] = ret[h]
    BY DEF Bystanders, Others, Writer, Reader
  <1>4. Numbered(N, K, A)'
    BY DEF Ring, Values, Numbered
  <1>5. Held(H, M, P, E, A)'
    <2> SUFFICES ASSUME NEW j \in Index
                 PROVE  /\ P[j] < H + Size /\ H <= P[j] + Size
                        /\ ~E[j] => H <= P[j]
                        /\ E[j] /\ H <= P[j] => val'[j] = A[P[j]]
                        /\ E[j] /\ P[j] < H =>
                             \E r \in Goroutine : Reader(r)' /\ M[r] = P[j]
      BY DEF Held
    <2>1. /\ P[j] < H + Size /\ H <= P[j] + Size /\ (~F[j] => H <= P[j]) /\ P[j] \in Nat
          /\ F[j] /\ H <= P[j] => val[j] = A[P[j]]
          /\ F[j] /\ P[j] < H => \E r \in Goroutine : Reader(r) /\ M[r] = P[j]
      BY DEF Ring, Values, Held
    <2>2. ASSUME E[j], P[j] < H PROVE \E r \in Goroutine : Reader(r)' /\ M[r] = P[j]
      <3>1. F[j]
        BY <1>1, <1>2, <2>1, <2>2
      <3>2. PICK r \in Goroutine : Reader(r) /\ M[r] = P[j]
        BY <2>1, <2>2, <3>1
      <3> QED BY <1>1, <1>3, <3>2
    <2> QED BY <1>1, <1>2, <2>1, <2>2
  <1>6. Awaited(t, N, H, M, P, E)'
    <2> SUFFICES ASSUME NEW m \in Nat, H <= m, m < N, ~Filled(t, P, E, m)
                 PROVE  \E w \in Goroutine : Writer(w)' /\ M[w] = m
      BY DEF Awaited
    <2>1. At(t, m) \in Index
      BY Unwrapped
    <2>2. ~Filled(t, P, F, m) /\ m # M[g]
      BY <1>1, <1>2, <2>1 DEF Filled
    <2>3. PICK w \in Goroutine : Writer(w) /\ M[w] = m
      BY <2>2 DEF Ring, Values, Awaited
    <2> QED BY <1>3, <2>2, <2>3
  <1>7. Known(t, H, M, A)'
    <2> SUFFICES ASSUME NEW h \in Goroutine
                 PROVE  /\ Writer(h)' => arg'[h] = A[M[h]]
                        /\ pc'[h] \in {"publish", "read"} => val'[At(t, M[h])] = A[M[h]]
                        /\ pc'[h] = "release" => ret'[h] = <<A[M[h]], TRUE>> /\ M[h] < H
      BY DEF Known
    <2>1. /\ Writer(h) => arg[h] = A[M[h]]
          /\ pc[h] \in {"publish", "read"} => val[At(t, M[h])] = A[M[h]]
          /\ pc[h] = "release" => ret[h] = <<A[M[h]], TRUE>> /\ M[h] < H
      BY DEF Ring, Values, Known
    <2> QED BY <1>1, <1>3, <2>1
  <1> QED BY <1>4, <1>5, <1>6, <1>7 DEF Values, E, i

(* A place is handed on to the next round. *)
Hands(t, M, P, F, g, Q, E) ==
  /\ Q = [P EXCEPT ![At(t, M[g])] = M[g] + Size]
  /\ E = [F EXCEPT ![At(t, M[g])] = FALSE]

Leaves(N, g) ==
  /\ N + Size < Modulus /\ UNCHANGED <<impl, val>> /\ Bystanders(g)
  /\ pc[g] = "release" /\ pc'[g] = "done"

(* The reader of a place leaves it. *)
LEMMA ReleasedValues ==
  ASSUME Size > 1, NEW t, NEW N, NEW H, NEW M, NEW P, NEW F, NEW K, NEW A,
         Ring(t, N, H, M, P, F, K, A), NEW g \in Goroutine, NEW Q, NEW E,
         Hands(t, M, P, F, g, Q, E), Leaves(N, g)
  PROVE  /\ Values(t, N, H, M, Q, E, K, A)'
         /\ RingLine(t, N, H, Q, E, A) = RingLine(t, N, H, P, F, A)
  <1>0. /\ t \in Word /\ N \in Nat /\ H \in Nat /\ M \in [Goroutine -> Nat]
        /\ P \in [Index -> Nat] /\ F \in [Index -> BOOLEAN] /\ K \in SUBSET Nat
        /\ A \in [Nat -> Nat]
    BY RingTypes
  <1>00. /\ N + Size < Modulus /\ impl' = impl /\ val' = val /\ Bystanders(g)
        /\ pc[g] = "release" /\ pc'[g] = "done"
    BY DEF Leaves
  <1> DEFINE i == At(t, M[g])
  <1>1. /\ i \in Index /\ E \in [Index -> BOOLEAN] /\ E[i] = FALSE
        /\ Q \in [Index -> Nat] /\ Q[i] = M[g] + Size
        /\ \A j \in Index : j # i => E[j] = F[j] /\ Q[j] = P[j]
        /\ Size \in Nat \ {0}
    <2>1. i \in Index
      BY <1>0, <1>00, Unwrapped
    <2>2. M[g] + Size \in Nat /\ Size \in Nat \ {0}
      <3>1. Size \in Nat \ {0} /\ M[g] \in Nat
        BY <1>0, <1>00, WordFacts
      <3> QED BY <3>1
    <2> QED BY <1>0, <1>00, <2>1, <2>2 DEF Hands
  <1>2. Reader(g) /\ ~Writer(g) /\ ~Writer(g)' /\ ~Reader(g)'
    BY <1>0, <1>00 DEF Writer, Reader
  <1>3. F[i] /\ P[i] = M[g] /\ M[g] < H /\ H <= P[i] + Size
    <2>1. F[i] /\ P[i] = M[g] /\ M[g] < H
      BY <1>0, <1>00, <1>2 DEF Ring, Shape, Users, Values, Known
    <2> HIDE DEF i
    <2> QED BY <1>0, <1>00, <1>1, <2>1 DEF Ring, Values, Held
  <1> HIDE DEF i
  <1>4. \A h \in Goroutine \ {g} :
          /\ Writer(h)' = Writer(h) /\ Reader(h)' = Reader(h)
          /\ pc'[h] = pc[h] /\ arg'[h] = arg[h] /\ ret'[h] = ret[h]
    BY <1>0, <1>00 DEF Bystanders, Others, Writer, Reader
  <1>5. Numbered(N, K, A)'
    BY <1>0, <1>00 DEF Ring, Values, Numbered
  <1>6. Held(H, M, Q, E, A)'
    <2> SUFFICES ASSUME NEW j \in Index
                 PROVE  /\ Q[j] < H + Size /\ H <= Q[j] + Size
                        /\ ~E[j] => H <= Q[j]
                        /\ E[j] /\ H <= Q[j] => val'[j] = A[Q[j]]
                        /\ E[j] /\ Q[j] < H =>
                             \E r \in Goroutine : Reader(r)' /\ M[r] = Q[j]
      BY <1>0, <1>00 DEF Held
    <2>1. /\ P[j] < H + Size /\ H <= P[j] + Size /\ (~F[j] => H <= P[j]) /\ P[j] \in Nat
          /\ F[j] /\ H <= P[j] => val[j] = A[P[j]]
          /\ F[j] /\ P[j] < H => \E r \in Goroutine : Reader(r) /\ M[r] = P[j]
      BY <1>0, <1>00 DEF Ring, Values, Held
    <2>2. CASE j = i
      <3>1. Q[j] = M[g] + Size /\ ~E[j] /\ M[g] \in Nat /\ H <= M[g] + Size
        BY <1>0, <1>00, <1>1, <1>3, <2>2
      <3> QED BY <1>0, <1>00, <1>1, <1>3, <3>1
    <2>3. CASE j # i
      <3>1. ASSUME F[j], P[j] < H PROVE \E r \in Goroutine : Reader(r)' /\ M[r] = P[j]
        <4>1. PICK r \in Goroutine : Reader(r) /\ M[r] = P[j]
          BY <1>0, <1>00, <2>1, <3>1
        <4>2. At(t, P[j]) = j
          BY <1>0, <1>00 DEF Ring, Shape, Places
        <4>3. r # g
          BY <1>0, <1>00, <2>3, <4>1, <4>2 DEF i
        <4> QED BY <1>4, <4>1, <4>3
      <3> QED BY <1>0, <1>00, <1>1, <2>1, <2>3, <3>1
    <2> QED BY <1>0, <1>00, <2>2, <2>3
  <1>7. ASSUME NEW m \in Nat, H <= m PROVE Filled(t, Q, E, m) = Filled(t, P, F, m)
    <2>1. At(t, m) \in Index
      BY <1>0, <1>00, Unwrapped
    <2>2. At(t, m) = i => ~Filled(t, P, F, m) /\ ~Filled(t, Q, E, m)
      BY <1>0, <1>00, <1>1, <1>3, <1>7 DEF Filled
    <2> QED BY <1>0, <1>00, <1>1, <2>1, <2>2 DEF Filled
  <1>8. Awaited(t, N, H, M, Q, E)'
    <2> SUFFICES ASSUME NEW m \in Nat, H <= m, m < N, ~Filled(t, P, F, m)
                 PROVE  \E w \in Goroutine : Writer(w)' /\ M[w] = m
      BY <1>7 DEF Awaited
    <2>1. PICK w \in Goroutine : Writer(w) /\ M[w] = m
      BY <1>0, <1>00 DEF Ring, Values, Awaited
    <2> QED BY <1>2, <1>4, <2>1
  <1>9. Known(t, H, M, A)'
    <2> SUFFICES ASSUME NEW h \in Goroutine
                 PROVE  /\ Writer(h)' => arg'[h] = A[M[h]]
                        /\ pc'[h] \in {"publish", "read"} => val'[At(t, M[h])] = A[M[h]]
                        /\ pc'[h] = "release" => ret'[h] = <<A[M[h]], TRUE>> /\ M[h] < H
      BY <1>0, <1>00 DEF Known
    <2>1. /\ Writer(h) => arg[h] = A[M[h]]
          /\ pc[h] \in {"publish", "read"} => val[At(t, M[h])] = A[M[h]]
          /\ pc[h] = "release" => ret[h] = <<A[M[h]], TRUE>> /\ M[h] < H
      BY <1>0, <1>00 DEF Ring, Values, Known
    <2> QED BY <1>00, <1>2, <1>4, <2>1
  <1>10. RingLine(t, N, H, Q, E, A) = RingLine(t, N, H, P, F, A)
    <2>1. \A j \in 1 .. N - H : H + j - 1 \in Nat /\ H <= H + j - 1
      BY <1>0, <1>00 DEF Ring, Shape, Counts
    <2> QED BY <1>7, <2>1 DEF RingLine
  <1> QED BY <1>5, <1>6, <1>8, <1>9, <1>10 DEF Values

-----------------------------------------------------------------------------
(* The steps of the rings are steps of AbstractQueue.                      *)

(* A step that keeps the positions and the filled places keeps the line,   *)
(* and one that also keeps what its goroutine shows stutters.              *)
LEMMA RingKeeps ==
  ASSUME Size > 1, MaxCalls + Size < Modulus, NEW t \in Word, NEW N \in Nat, NEW H \in Nat,
         NEW M \in [Goroutine -> Nat], NEW P \in [Index -> Nat],
         NEW F \in [Index -> BOOLEAN], NEW K \in SUBSET Nat, NEW A \in [Nat -> Nat],
         NEW L \in [Goroutine -> Nat], NEW Q \in [Index -> Nat],
         NEW E \in [Index -> BOOLEAN],
         Ring(t, N, H, M, P, F, K, A), Ring(t, N, H, L, Q, E, K, A)',
         RingLine(t, N, H, Q, E, A) = RingLine(t, N, H, P, F, A)
  PROVE  TheLine' = TheLine
  <1>0. RingFacts(t, N, H, M, P, F, K, A)
    BY RingLines
  <1>1. TheLine = RingLine(t, N, H, P, F, A)
    BY <1>0 DEF RingFacts
  <1>2. RingFacts(t, N, H, L, Q, E, K, A)'
    BY RingLines
  <1>3. TheLine' = RingLine(t, N, H, Q, E, A)
    BY <1>2 DEF RingFacts, RingLine, Filled, At, Plus, Idx
  <1> QED BY <1>1, <1>3

LEMMA RingNothing ==
  ASSUME NEW t, NEW N, NEW H, NEW M, NEW P, NEW F, NEW K, NEW A,
         Ring(t, N, H, M, P, F, K, A), Types', NEW g \in Goroutine, UNCHANGED impl,
         Bystanders(g), Touches(t, H, M, g), TheLine' = TheLine,
         calls' = calls, arg' = arg,
         StatusOf(g)' = StatusOf(g), RetOf(g)' = RetOf(g)
  PROVE  AbstractStep
  <1>1. \A h \in Goroutine \ {g} : StatusOf(h)' = StatusOf(h) /\ RetOf(h)' = RetOf(h)
    BY RingOthers
  <1>2. Types
    BY DEF Ring
  <1>3. TheStatus' = TheStatus /\ TheRet' = TheRet
    BY <1>1, <1>2, MappedStep
  <1> QED BY <1>3, AbstractNothing

(* The line's head, and the line without it. *)
(* H is the first of the positions up to N, and the numbers and functions  *)
(* have their types.                                                       *)
HasHead(t, N, H, P, F, A) ==
  /\ t \in Word /\ N \in Nat /\ H \in Nat /\ P \in [Index -> Nat]
  /\ F \in [Index -> BOOLEAN] /\ A \in [Nat -> Nat]
  /\ H < N /\ Size > 1 /\ N + Size < Modulus

HeadIs(t, N, H, P, F, A) ==
  /\ RingLine(t, N, H, P, F, A) # <<>>
  /\ Head(RingLine(t, N, H, P, F, A)) = [val |-> A[H], ready |-> Filled(t, P, F, H)]
  /\ Tail(RingLine(t, N, H, P, F, A)) = RingLine(t, N, H + 1, P, F, A)

LEMMA RingHead ==
  ASSUME NEW t, NEW N, NEW H, NEW P, NEW F, NEW A, HasHead(t, N, H, P, F, A)
  PROVE  HeadIs(t, N, H, P, F, A)
  <1>0. /\ t \in Word /\ N \in Nat /\ H \in Nat /\ P \in [Index -> Nat]
        /\ F \in [Index -> BOOLEAN] /\ A \in [Nat -> Nat]
        /\ H < N /\ Size > 1 /\ N + Size < Modulus
    BY DEF HasHead
  <1> DEFINE n == N - H
             s == RingLine(t, N, H, P, F, A)
             r == RingLine(t, N, H + 1, P, F, A)
  <1>1. /\ n \in Nat \ {0} /\ N - (H + 1) = n - 1 /\ H + 1 \in Nat /\ H + 1 <= N /\ H <= N
        /\ 1 \in 1 .. n /\ H + 1 - 1 = H
        /\ \A i \in 1 .. n - 1 : i + 1 \in 1 .. n /\ H + (i + 1) - 1 = (H + 1) + i - 1
    BY <1>0
  <1>2. s \in [1 .. n -> Entries] /\ r \in [1 .. n - 1 -> Entries]
    <2>1. s \in [1 .. N - H -> Entries] /\ r \in [1 .. N - (H + 1) -> Entries]
      <3> HIDE DEF n
      <3> QED BY <1>0, <1>1, RingLineType
    <2> HIDE DEF s, r
    <2> QED BY <1>1, <2>1
  <1>3. s[1] = [val |-> A[H], ready |-> Filled(t, P, F, H)]
    BY <1>1 DEF RingLine
  <1>4. \A i \in 1 .. n - 1 : r[i] = s[i + 1]
    BY <1>1 DEF RingLine
  <1> HIDE DEF n, s, r
  <1>5. r = Tail(s) /\ s # <<>> /\ Head(s) = s[1]
    BY <1>1, <1>2, <1>4, LineShrinks
  <1> QED BY <1>3, <1>5 DEF s, r, HeadIs

(* Two positions on one place are a round apart. *)
LEMMA RoundApart ==
  ASSUME NEW t \in Word, NEW x \in Nat, NEW y \in Nat, x < y, At(t, x) = At(t, y)
  PROVE  x + Size <= y
  <1> SUFFICES ASSUME ~(x + Size <= y) PROVE FALSE
    OBVIOUS
  <1>1. t \in Nat /\ Size \in Nat \ {0}
    BY WordFacts
  <1>2. y - x \in 1 .. Size - 1 /\ x + (y - x) = y
    BY <1>1
  <1>3. Idx(Plus(t, x)) # Idx(Plus(t, x + (y - x)))
    BY <1>1, <1>2, IdxNear
  <1> QED BY <1>2, <1>3 DEF At

(* The difference of two positions has the sign it should have.            *)
LEMMA DiffSign ==
  ASSUME NEW t \in Word, NEW x \in Nat, NEW y \in Nat, x < Modulus \div 2,
         Diff(Plus(t, x), Plus(t, y)) < 0
  PROVE  x < y
  <1> SUFFICES ASSUME y <= x PROVE FALSE
    OBVIOUS
  <1>1. Modulus \in Nat \ {0} /\ t \in Nat /\ Modulus \div 2 \in Nat
        /\ Modulus \div 2 <= Modulus
    BY WordFacts
  <1> DEFINE h == Modulus \div 2
  <1>2. h \in Nat /\ h <= Modulus /\ x < h
    BY <1>1
  <1> HIDE DEF h
  <1>3. x - y \in Nat /\ x - y \in 0 .. Modulus - 1 /\ y + (x - y) = x /\ x - y < h
    BY <1>1, <1>2
  <1>4. Plus(Plus(t, y), x - y) = Plus(t, y + (x - y)) /\ Plus(t, y) \in Word
    BY <1>1, <1>3, PlusPlus, PlusType
  <1>5. Minus(Plus(t, x), Plus(t, y)) = x - y
    BY <1>3, <1>4, MinusPlus
  <1>6. Diff(Plus(t, x), Plus(t, y)) = x - y
    BY <1>3, <1>5 DEF Diff, h
  <1> QED BY <1>3, <1>6

-----------------------------------------------------------------------------
(* What a failed comparison tells.  A goroutine that finds the place of    *)
(* its position behind the position has loaded the tail of a full line, or *)
(* the place has a reader that has not left it.                            *)
LEMMA FullNow ==
  ASSUME Size > 1, MaxCalls + Size <= Modulus \div 2, MaxCalls + Size < Modulus,
         NEW t \in Word, NEW N \in Nat, NEW H \in Nat, NEW M \in [Goroutine -> Nat],
         NEW P \in [Index -> Nat], NEW F \in [Index -> BOOLEAN], NEW K \in SUBSET Nat,
         NEW A \in [Nat -> Nat], Ring(t, N, H, M, P, F, K, A),
         NEW g \in Goroutine, pc[g] = "seq", Diff(seq[Idx(pos[g])], pos[g]) < 0
  PROVE  \/ ~(Len(TheLine) < Size)
         \/ \E h \in Goroutine : TheStatus[h] = "done" /\ TheRet[h][1] # 0
  <1> DEFINE i == At(t, M[g])
             S == IF F[i] THEN P[i] + 1 ELSE P[i]
  <1>1. /\ TheLine = RingLine(t, N, H, P, F, A) /\ N + Size < Modulus /\ N <= calls
        /\ calls \in Nat /\ calls <= MaxCalls /\ MaxCalls \in Nat /\ Size \in Nat \ {0}
        /\ Modulus \div 2 \in Nat /\ H <= N
    <2>1. TheLine = RingLine(t, N, H, P, F, A) /\ N + Size < Modulus /\ N <= calls
      BY RingLines DEF RingFacts
    <2>2. calls \in Nat /\ calls <= MaxCalls /\ H <= N
      BY DEF Ring, Types, ClientTypes, ClientTypeOK, Shape, Counts
    <2>3. MaxCalls \in Nat /\ Size \in Nat \ {0} /\ Modulus \in Nat
      BY MaxCallsAssumption, WordFacts
    <2> QED BY <2>1, <2>2, <2>3
  <1>2. pos[g] = Plus(t, M[g]) /\ Idx(pos[g]) = i /\ M[g] <= N
    BY DEF Ring, Shape, Positions, Busy, At
  <1>3. i \in Index
    BY <1>1, Unwrapped
  <1> HIDE DEF i
  <1>4. /\ P[i] \in Nat /\ At(t, P[i]) = i /\ seq[i] = Plus(t, S) /\ P[i] < H + Size
        /\ (F[i] => P[i] < N) /\ (~F[i] => H <= P[i])
        /\ F[i] /\ P[i] < H => \E r \in Goroutine : Reader(r) /\ M[r] = P[i]
    BY <1>3 DEF Ring, Shape, Places, Values, Held
  <1>5. S \in Nat /\ S < Modulus \div 2
    BY <1>1, <1>4
  <1>6. S < M[g]
    <2>1. Diff(Plus(t, S), Plus(t, M[g])) < 0
      BY <1>2, <1>4
    <2> HIDE DEF S
    <2> QED BY <1>5, <2>1, DiffSign
  <1>7. P[i] + Size <= M[g]
    <2>1. P[i] < M[g]
      BY <1>4, <1>6
    <2> QED BY <1>4, <2>1, RoundApart DEF i
  <1>8. CASE H <= P[i]
    <2>1. N - H \in Nat /\ ~(N - H < Size)
      BY <1>1, <1>2, <1>4, <1>7, <1>8
    <2>2. Len(TheLine) = N - H
      BY <1>1, RingLineType, LineLength
    <2> QED BY <2>1, <2>2
  <1>9. CASE P[i] < H
    <2>1. PICK r \in Goroutine : Reader(r) /\ M[r] = P[i]
      BY <1>4, <1>9
    <2>2. /\ Idx(pos[r]) = At(t, M[r]) /\ M[r] < N /\ M[r] \in Nat
          /\ pc[r] = "read" => val[At(t, M[r])] = A[M[r]]
          /\ pc[r] = "release" => ret[r] = <<A[M[r]], TRUE>>
          /\ impl = "MPSC" => pc[r] = "release"
      <3>1. Idx(pos[r]) = At(t, M[r])
        BY <2>1 DEF Ring, Shape, Positions, Busy, Reader, At
      <3>2. M[r] < N
        BY <1>1, <1>9, <2>1
      <3>3. /\ pc[r] = "read" => val[At(t, M[r])] = A[M[r]]
            /\ pc[r] = "release" => ret[r] = <<A[M[r]], TRUE>>
        BY DEF Ring, Values, Known
      <3>4. impl = "MPSC" /\ pc[r] = "read" => M[r] = H
        BY DEF Ring, Shape, Dequeuers
      <3>5. M[r] # H /\ pc[r] \in {"read", "release"}
        BY <1>4, <1>9, <2>1 DEF Reader
      <3> QED BY <3>1, <3>2, <3>3, <3>4, <3>5
    <2>3. A[M[r]] # 0
      <3>1. A[M[r]] \in K
        BY <2>2 DEF Ring, Values, Numbered
      <3> QED BY <3>1 DEF Ring, Shape, Claims
    <2>4. impl \in {"MPMC", "MPSC"}
      BY DEF Ring
    <2>5. StatusOf(r) = "done" /\ RetOf(r) = <<A[M[r]], TRUE>>
      BY <2>1, <2>2, <2>4 DEF StatusOf, RetOf, Reader
    <2>6. TheStatus[r] = StatusOf(r) /\ TheRet[r] = RetOf(r)
      BY Mapped DEF Ring, Types, ClientTypes, ClientTypeOK
    <2>7. TheStatus[r] = "done" /\ TheRet[r] = <<A[M[r]], TRUE>>
      BY <2>5, <2>6
    <2>8. TheRet[r][1] # 0
      BY <2>3, <2>7
    <2> QED BY <2>7, <2>8
  <1>10. H <= P[i] \/ P[i] < H
    BY <1>4
  <1> QED BY <1>8, <1>9, <1>10

(* A goroutine that does not find a value at its position is at the head,  *)
(* and the head of the line is missing or not ready.                       *)
LEMMA EmptyNow ==
  ASSUME Size > 1, MaxCalls + Size <= Modulus \div 2, MaxCalls + Size < Modulus,
         NEW t \in Word, NEW N \in Nat, NEW H \in Nat, NEW M \in [Goroutine -> Nat],
         NEW P \in [Index -> Nat], NEW F \in [Index -> BOOLEAN], NEW K \in SUBSET Nat,
         NEW A \in [Nat -> Nat], Ring(t, N, H, M, P, F, K, A),
         NEW g \in Goroutine, pc[g] = "seq", op[g] = "dequeue",
         \/ impl = "MPMC" /\ Diff(seq[Idx(pos[g])], Plus(pos[g], 1)) < 0
         \/ impl = "MPSC" /\ seq[Idx(pos[g])] # Plus(pos[g], 1)
  PROVE  TheLine = <<>> \/ ~Head(TheLine).ready
  <1> DEFINE i == At(t, M[g])
             S == IF F[i] THEN P[i] + 1 ELSE P[i]
  <1>1. /\ TheLine = RingLine(t, N, H, P, F, A) /\ N + Size < Modulus /\ N <= calls
        /\ calls \in Nat /\ calls <= MaxCalls /\ MaxCalls \in Nat /\ Size \in Nat \ {0}
        /\ Modulus \div 2 \in Nat /\ H <= N
    <2>1. TheLine = RingLine(t, N, H, P, F, A) /\ N + Size < Modulus /\ N <= calls
      BY RingLines DEF RingFacts
    <2>2. calls \in Nat /\ calls <= MaxCalls /\ H <= N
      BY DEF Ring, Types, ClientTypes, ClientTypeOK, Shape, Counts
    <2>3. MaxCalls \in Nat /\ Size \in Nat \ {0} /\ Modulus \in Nat
      BY MaxCallsAssumption, WordFacts
    <2> QED BY <2>1, <2>2, <2>3
  <1>2. pos[g] = Plus(t, M[g]) /\ Idx(pos[g]) = i /\ M[g] <= N
    BY DEF Ring, Shape, Positions, Busy, At
  <1>3. i \in Index /\ Plus(pos[g], 1) = Plus(t, M[g] + 1)
    BY <1>1, <1>2, Unwrapped
  <1> HIDE DEF i
  <1>4. /\ P[i] \in Nat /\ At(t, P[i]) = i /\ seq[i] = Plus(t, S) /\ P[i] < H + Size
        /\ (F[i] => P[i] < N) /\ (~F[i] => H <= P[i]) /\ H <= P[i] + Size
    BY <1>3 DEF Ring, Shape, Places, Values, Held
  <1>5. S \in Nat /\ S < Modulus \div 2
    BY <1>1, <1>4
  <1>6. M[g] = H /\ ~Filled(t, P, F, H)
    <2>1. CASE impl = "MPMC"
      <3>1. S < M[g] + 1
        <4>1. Diff(Plus(t, S), Plus(t, M[g] + 1)) < 0 /\ M[g] + 1 \in Nat
          BY <1>2, <1>3, <1>4, <2>1
        <4> HIDE DEF S
        <4> QED BY <1>5, <4>1, DiffSign
      <3>2. F[i] => P[i] + Size <= M[g]
        <4> SUFFICES ASSUME F[i] PROVE P[i] + Size <= M[g]
          OBVIOUS
        <4>1. P[i] < M[g]
          BY <1>4, <3>1
        <4> QED BY <1>4, <4>1, RoundApart DEF i
      <3>3. M[g] <= H
        BY <2>1 DEF Ring, Shape, Dequeuers, Busy
      <3>4. M[g] = H
        BY <1>1, <1>4, <3>1, <3>2, <3>3
      <3>5. F[i] => P[i] # M[g]
        BY <1>1, <1>4, <3>2
      <3> QED BY <3>4, <3>5 DEF Filled, i
    <2>2. CASE impl = "MPSC"
      <3>1. M[g] = H
        BY <2>2 DEF Ring, Shape, Dequeuers
      <3>2. (seq[At(t, H)] = Plus(t, H + 1)) = Filled(t, P, F, H)
        BY <1>1, FilledIs DEF Ring, Shape
      <3> QED BY <1>2, <1>3, <2>2, <3>1, <3>2 DEF i
    <2>3. impl \in {"MPMC", "MPSC"}
      BY DEF Ring
    <2> QED BY <2>1, <2>2, <2>3
  <1>7. CASE H = N
    <2>1. N - H = 0 /\ N - H \in Nat
      BY <1>7
    <2>2. RingLine(t, N, H, P, F, A) \in [1 .. N - H -> Entries]
      BY <1>1, RingLineType
    <2> QED BY <1>1, <2>1, <2>2, LineEmpty
  <1>8. CASE H < N
    <2>1. Head(RingLine(t, N, H, P, F, A)) = [val |-> A[H], ready |-> Filled(t, P, F, H)]
      <3>1. HasHead(t, N, H, P, F, A)
        BY <1>1, <1>8 DEF HasHead
      <3>2. HeadIs(t, N, H, P, F, A)
        BY <3>1, RingHead
      <3> QED BY <3>2, Zenon DEF HeadIs
    <2> DEFINE e == Head(TheLine)
    <2>2. e = [val |-> A[H], ready |-> Filled(t, P, F, H)]
      BY <1>1, <2>1, Zenon
    <2>3. Filled(t, P, F, H) = FALSE
      BY <1>6 DEF Filled
    <2> HIDE DEF e
    <2>4. e.ready = FALSE
      BY <2>2, <2>3
    <2> QED BY <2>4 DEF e
  <1> QED BY <1>1, <1>7, <1>8

-----------------------------------------------------------------------------
RingInv ==
  impl \in {"MPMC", "MPSC"} =>
    \E t \in Word, N \in Nat, H \in Nat, M \in [Goroutine -> Nat],
       P \in [Index -> Nat], F \in [Index -> BOOLEAN], K \in SUBSET Nat,
       A \in [Nat -> Nat] :
      Ring(t, N, H, M, P, F, K, A)

LEMMA RingSuffices ==
  ASSUME NEW t, NEW N, NEW H, NEW M, NEW P, NEW F, NEW K, NEW A,
         Ring(t, N, H, M, P, F, K, A)'
  PROVE  RingInv'
  <1>1. /\ t \in Word /\ N \in Nat /\ H \in Nat /\ M \in [Goroutine -> Nat]
        /\ P \in [Index -> Nat] /\ F \in [Index -> BOOLEAN] /\ K \in SUBSET Nat
    BY DEF Ring, Shape, Counts, Claims
  <1>2. A \in [Nat -> Nat]
    BY DEF Ring, Values, Numbered
  <1> QED BY <1>1, <1>2 DEF RingInv

(* The facts the steps share. *)
LEMMA RingBasics ==
  ASSUME Size > 1, MaxCalls + Size < Modulus,
         NEW t \in Word, NEW N \in Nat, NEW H \in Nat, NEW M \in [Goroutine -> Nat],
         NEW P \in [Index -> Nat], NEW F \in [Index -> BOOLEAN], NEW K \in SUBSET Nat,
         NEW A \in [Nat -> Nat], Ring(t, N, H, M, P, F, K, A)
  PROVE  /\ Types /\ Quiet /\ calls <= MaxCalls /\ calls \in Nat /\ impl \in {"MPMC", "MPSC"}
         /\ Shape(t, N, H, M, P, F, K) /\ Values(t, N, H, M, P, F, K, A)
         /\ N + Size < Modulus /\ N <= calls /\ H <= N /\ Size \in Nat \ {0}
         /\ TheLine = RingLine(t, N, H, P, F, A)
         /\ pc \in [Goroutine -> Points] /\ pos \in [Goroutine -> Word]
         /\ DOMAIN op = Goroutine /\ DOMAIN arg = Goroutine /\ DOMAIN ret = Goroutine
         /\ val \in [Index -> Nat] /\ seq \in [Index -> Word]
         /\ tail = Plus(t, N) /\ head = Plus(t, H)
         /\ \A g \in Goroutine :
              Busy(g) => pos[g] = Plus(t, M[g]) /\ Idx(pos[g]) = At(t, M[g]) /\ M[g] <= N
         /\ At(t, H) \in Index /\ At(t, N) \in Index
         /\ \A g \in Goroutine : At(t, M[g]) \in Index
         /\ \A x, y \in 0 .. N : Plus(t, x) = Plus(t, y) => x = y
  <1>1. /\ Types /\ Quiet /\ calls <= MaxCalls /\ calls \in Nat /\ impl \in {"MPMC", "MPSC"}
        /\ Shape(t, N, H, M, P, F, K) /\ Values(t, N, H, M, P, F, K, A)
    BY DEF Ring, Types, ClientTypes, ClientTypeOK
  <1>2. N + Size < Modulus /\ N <= calls /\ TheLine = RingLine(t, N, H, P, F, A)
    BY RingLines DEF RingFacts
  <1>3. /\ pc \in [Goroutine -> Points] /\ pos \in [Goroutine -> Word]
        /\ DOMAIN op = Goroutine /\ DOMAIN arg = Goroutine /\ DOMAIN ret = Goroutine
        /\ val \in [Index -> Nat] /\ seq \in [Index -> Word]
    BY <1>1 DEF Types, ClientTypes, ClientTypeOK, Words
  <1>4. H <= N /\ tail = Plus(t, N) /\ head = Plus(t, H)
    BY <1>1 DEF Shape, Counts
  <1>5. \A g \in Goroutine : Busy(g) =>
          pos[g] = Plus(t, M[g]) /\ Idx(pos[g]) = At(t, M[g]) /\ M[g] <= N
    BY <1>1 DEF Shape, Positions, At
  <1>6. /\ At(t, H) \in Index /\ At(t, N) \in Index
        /\ \A g \in Goroutine : At(t, M[g]) \in Index
    BY <1>2, Unwrapped
  <1>7. \A x, y \in 0 .. N : Plus(t, x) = Plus(t, y) => x = y
    BY <1>2, WordFacts, Unwrapped
  <1> QED BY <1>1, <1>2, <1>3, <1>4, <1>5, <1>6, <1>7, WordFacts

(* The line after a step. *)
LEMMA RingLineNext ==
  ASSUME Size > 1, MaxCalls + Size < Modulus, NEW t \in Word, NEW N \in Nat, NEW H \in Nat,
         NEW M \in [Goroutine -> Nat], NEW P \in [Index -> Nat],
         NEW F \in [Index -> BOOLEAN], NEW K \in SUBSET Nat, NEW A \in [Nat -> Nat],
         Ring(t, N, H, M, P, F, K, A)'
  PROVE  TheLine' = RingLine(t, N, H, P, F, A) /\ N + Size < Modulus
  <1>1. RingFacts(t, N, H, M, P, F, K, A)'
    BY RingLines
  <1> QED BY <1>1 DEF RingFacts, RingLine, Filled, At, Plus, Idx

(* A step that claims, publishes and releases nothing does not move the    *)
(* line.                                                                   *)
Moves(t, H, M, L, A, g) ==
  /\ impl' = impl /\ Bystanders(g) /\ Touches(t, H, M, g) /\ calls' <= MaxCalls
  /\ \A h \in Goroutine \ {g} : L[h] = M[h]
  /\ Writer(g)' => Writer(g)
  /\ Writer(g) => Writer(g)' /\ arg'[g] = arg[g]
  /\ Reader(g) => Reader(g)'
  /\ Writer(g)' \/ Reader(g)' => L[g] = M[g]
  /\ pc'[g] \in {"publish", "read"} => val'[At(t, M[g])] = A[M[g]]
  /\ pc'[g] = "release" => ret'[g] = <<A[M[g]], TRUE>> /\ M[g] < H

(* What such a step preserves. *)
LEMMA RingMoves ==
  ASSUME Size > 1, MaxCalls + Size < Modulus,
         NEW t \in Word, NEW N \in Nat, NEW H \in Nat, NEW M \in [Goroutine -> Nat],
         NEW P \in [Index -> Nat], NEW F \in [Index -> BOOLEAN], NEW K \in SUBSET Nat,
         NEW A \in [Nat -> Nat], Ring(t, N, H, M, P, F, K, A),
         NEW g \in Goroutine, NEW L \in [Goroutine -> Nat], Moves(t, H, M, L, A, g),
         Shape(t, N, H, L, P, F, K)', Types', Quiet'
  PROVE  RingInv' /\ TheLine' = TheLine
  <1>1. Values(t, N, H, L, P, F, K, A)'
    BY ValuesKept DEF Moves
  <1>2. impl' \in {"MPMC", "MPSC"} /\ calls' <= MaxCalls
    BY DEF Ring, Moves
  <1>3. Ring(t, N, H, L, P, F, K, A)'
    BY <1>1, <1>2 DEF Ring
  <1>4. TheLine' = TheLine
    BY <1>3, RingKeeps
  <1>5. RingInv'
    BY <1>3, RingSuffices
  <1> QED BY <1>4, <1>5
-----------------------------------------------------------------------------
(* The comparison of the sequence number with the position: the answers    *)
(* full and empty are those of the line.                                   *)
LEMMA CompareRefines ==
  ASSUME Size > 1, MaxCalls + Size < Modulus,
         NEW t \in Word, NEW N \in Nat, NEW H \in Nat, NEW M \in [Goroutine -> Nat],
         NEW P \in [Index -> Nat], NEW F \in [Index -> BOOLEAN], NEW K \in SUBSET Nat,
         NEW A \in [Nat -> Nat], Ring(t, N, H, M, P, F, K, A),
         NEW g \in Goroutine, UNCHANGED impl, Types', Shape(t, N, H, M, P, F, K)',
         \/ Slots!CompareForEnqueue(g)
         \/ Slots!CompareForDequeue(g) /\ impl = "MPMC"
         \/ Slots!ConsumerCompare(g) /\ impl = "MPSC",
         pc'[g] = "read" => F[At(t, M[g])] /\ P[At(t, M[g])] = M[g] /\ M[g] = H
  PROVE  RingInv' /\ (MaxCalls + Size <= Modulus \div 2 => AbstractStep)
  <1>1. /\ Types /\ Quiet /\ calls <= MaxCalls /\ impl \in {"MPMC", "MPSC"}
        /\ pc \in [Goroutine -> Points] /\ DOMAIN ret = Goroutine
    BY RingBasics
  <1>2. /\ pc[g] = "seq" /\ UNCHANGED <<val, head, tail, pos, seq, calls, op, arg>>
        /\ \A h \in Goroutine \ {g} : pc'[h] = pc[h] /\ ret'[h] = ret[h]
        /\ pc'[g] \in {"done", "load", "cas", "read"}
        /\ pc'[g] = "read" => impl = "MPSC"
        /\ pc'[g] # "done" => ret'[g] = ret[g]
        /\ pc'[g] = "done" => ret'[g] = No
        /\ pc'[g] = "done" /\ op[g] = "enqueue" => Diff(seq[Idx(pos[g])], pos[g]) < 0
        /\ pc'[g] = "done" /\ op[g] = "dequeue" =>
             \/ impl = "MPMC" /\ Diff(seq[Idx(pos[g])], Plus(pos[g], 1)) < 0
             \/ impl = "MPSC" /\ seq[Idx(pos[g])] # Plus(pos[g], 1)
    <2>1. CASE Slots!CompareForEnqueue(g)
      BY <1>1, <2>1, SlotsCopies, SlotsWords
         DEF Slots!CompareForEnqueue, Goto, Finish, Slots!slotVars, Slots!ringVars
    <2>2. CASE Slots!CompareForDequeue(g) /\ impl = "MPMC"
      BY <1>1, <2>2, SlotsCopies, SlotsWords
         DEF Slots!CompareForDequeue, Goto, Finish, Slots!slotVars, Slots!ringVars
    <2>3. CASE Slots!ConsumerCompare(g) /\ impl = "MPSC"
      BY <1>1, <2>3, SlotsCopies, SlotsWords
         DEF Slots!ConsumerCompare, Goto, Finish, Slots!slotVars, Slots!ringVars
    <2> QED BY <2>1, <2>2, <2>3
  <1>3. op[g] \in {"enqueue", "dequeue"} /\ (pc'[g] = "read" => op[g] = "dequeue")
    BY <1>1, <1>2, SlotsCopies, SlotsWords
       DEF Slots!CompareForEnqueue, Slots!CompareForDequeue, Slots!ConsumerCompare, Goto, Finish
  <1>4. Quiet'
    <2>1. \/ Finish(g, "seq", No) \/ Goto(g, "seq", "cas")
          \/ Goto(g, "seq", "load") \/ Goto(g, "seq", "read")
      BY SlotsCopies, SlotsWords
         DEF Slots!CompareForEnqueue, Slots!CompareForDequeue, Slots!ConsumerCompare
    <2> QED BY <1>1, <2>1, QuietStep
  <1>5. /\ RingInv' /\ TheLine' = TheLine
        /\ \A h \in Goroutine \ {g} : StatusOf(h)' = StatusOf(h) /\ RetOf(h)' = RetOf(h)
    <2>1. Bystanders(g) /\ Touches(t, H, M, g)
      BY <1>2 DEF Bystanders, Others, Touches
    <2>2. ~Writer(g) /\ ~Reader(g) /\ ~Writer(g)'
          /\ pc'[g] \notin {"publish", "release"}
      BY <1>2 DEF Writer, Reader
    <2>3. pc'[g] = "read" => val'[At(t, M[g])] = A[M[g]]
      <3>1. At(t, M[g]) \in Index
        BY RingBasics
      <3> QED BY <1>2, <3>1 DEF Ring, Values, Held
    <2>4. Moves(t, H, M, M, A, g)
      BY <1>1, <1>2, <2>1, <2>2, <2>3 DEF Moves
    <2>5. RingInv' /\ TheLine' = TheLine
      BY <1>4, <2>4, RingMoves
    <2>6. \A h \in Goroutine \ {g} : StatusOf(h)' = StatusOf(h) /\ RetOf(h)' = RetOf(h)
      BY <2>1, RingOthers
    <2> QED BY <2>5, <2>6
  <1>6. CASE pc'[g] # "done"
    <2>1. StatusOf(g)' = StatusOf(g) /\ RetOf(g)' = RetOf(g)
      BY <1>1, <1>2, <1>3, <1>6 DEF StatusOf, RetOf
    <2> QED BY <1>1, <1>2, <1>5, <2>1, MappedStep, AbstractNothing
  <1>7. CASE pc'[g] = "done" /\ MaxCalls + Size <= Modulus \div 2
    <2>1. StatusOf(g) = op[g] /\ StatusOf(g)' = "done" /\ RetOf(g)' = No
      BY <1>1, <1>2, <1>3, <1>7 DEF StatusOf, RetOf
    <2>2. /\ TheStatus[g] = op[g] /\ TheStatus' = [TheStatus EXCEPT ![g] = "done"]
          /\ TheRet' = [TheRet EXCEPT ![g] = No]
      BY <1>1, <1>5, <2>1, MappedStep
    <2>3. ~IsStrict
      BY <1>1 DEF IsStrict
    <2>4. CASE op[g] = "enqueue"
      <3>1. \/ ~(Len(TheLine) < Size)
            \/ \E h \in Goroutine : TheStatus[h] = "done" /\ TheRet[h][1] # 0
        BY <1>2, <1>7, <2>4, FullNow
      <3> QED BY <1>2, <1>5, <2>2, <2>3, <2>4, <3>1, AbstractFull
    <2>5. CASE op[g] = "dequeue"
      <3>1. TheLine = <<>> \/ ~Head(TheLine).ready
        BY <1>2, <1>7, <2>5, EmptyNow
      <3> QED BY <1>2, <1>5, <2>2, <2>3, <2>5, <3>1, AbstractEmpty
    <2> QED BY <1>3, <1>5, <2>4, <2>5
  <1> QED BY <1>5, <1>6, <1>7

-----------------------------------------------------------------------------
(* The steps that do not move the line. *)
LEMMA RingStays ==
  ASSUME Size > 1, MaxCalls + Size < Modulus,
         NEW t \in Word, NEW N \in Nat, NEW H \in Nat, NEW M \in [Goroutine -> Nat],
         NEW P \in [Index -> Nat], NEW F \in [Index -> BOOLEAN], NEW K \in SUBSET Nat,
         NEW A \in [Nat -> Nat], Ring(t, N, H, M, P, F, K, A),
         NEW g \in Goroutine, NEW L \in [Goroutine -> Nat], Moves(t, H, M, L, A, g),
         Shape(t, N, H, L, P, F, K)', Types', Quiet', calls' = calls, arg' = arg,
         StatusOf(g)' = StatusOf(g), RetOf(g)' = RetOf(g)
  PROVE  RingInv' /\ AbstractStep
  <1>1. RingInv' /\ TheLine' = TheLine
    BY RingMoves
  <1>2. UNCHANGED impl /\ Bystanders(g) /\ Touches(t, H, M, g)
    BY DEF Moves
  <1> QED BY <1>1, <1>2, RingNothing

LEMMA CallRefines ==
  ASSUME Size > 1, MaxCalls + Size < Modulus,
         NEW t \in Word, NEW N \in Nat, NEW H \in Nat, NEW M \in [Goroutine -> Nat],
         NEW P \in [Index -> Nat], NEW F \in [Index -> BOOLEAN], NEW K \in SUBSET Nat,
         NEW A \in [Nat -> Nat], Ring(t, N, H, M, P, F, K, A),
         NEW g \in Goroutine, UNCHANGED impl, Types', NEW x \in Nat, calls' <= MaxCalls,
         Shape(t, N, H, [M EXCEPT ![g] = x], P, F, K)',
         Slots!StartEnqueue(g) \/ Slots!StartDequeue(g) \/ Slots!ConsumerStart(g)
  PROVE  RingInv' /\ AbstractStep
  <1> DEFINE L == [M EXCEPT ![g] = x]
  <1>1. L \in [Goroutine -> Nat] /\ \A h \in Goroutine \ {g} : L[h] = M[h]
    OBVIOUS
  <1> HIDE DEF L
  <1>2. /\ Types /\ Quiet /\ impl \in {"MPMC", "MPSC"}
        /\ pc \in [Goroutine -> Points] /\ pos \in [Goroutine -> Word]
        /\ DOMAIN ret = Goroutine /\ DOMAIN op = Goroutine /\ DOMAIN arg = Goroutine
    BY RingBasics
  <1>3. PICK k \in {"enqueue", "dequeue"} : Start(g, k, "seq")
    BY SlotsCopies DEF Slots!StartEnqueue, Slots!StartDequeue, Slots!ConsumerStart
  <1>4. /\ pc[g] = "idle" /\ pc'[g] = "seq" /\ op'[g] = k /\ ret' = ret /\ calls' = calls + 1
        /\ arg' = [arg EXCEPT ![g] = IF k = "enqueue" THEN calls + 1 ELSE 0]
        /\ \A h \in Goroutine \ {g} : pc'[h] = pc[h] /\ op'[h] = op[h] /\ arg'[h] = arg[h]
    BY <1>2, <1>3 DEF Start, Puts, zero
  <1>5. UNCHANGED val /\ \A h \in Goroutine \ {g} : pos'[h] = pos[h]
    BY <1>2 DEF Slots!StartEnqueue, Slots!StartDequeue, Slots!ConsumerStart
  <1>6. Bystanders(g) /\ Touches(t, H, M, g)
    BY <1>4, <1>5 DEF Bystanders, Others, Touches
  <1>7. Moves(t, H, M, L, A, g)
    BY <1>1, <1>4, <1>6 DEF Moves, Writer, Reader
  <1>8. Quiet'
    BY <1>2, <1>3, QuietStep
  <1>9. Shape(t, N, H, L, P, F, K)'
    BY DEF L
  <1>10. RingInv' /\ TheLine' = TheLine
    BY <1>1, <1>7, <1>8, <1>9, RingMoves
  <1>11. \A h \in Goroutine \ {g} : StatusOf(h)' = StatusOf(h) /\ RetOf(h)' = RetOf(h)
    BY <1>6, RingOthers
  <1>12. StatusOf(g) = "idle" /\ StatusOf(g)' = k /\ RetOf(g)' = RetOf(g)
    BY <1>2, <1>4 DEF StatusOf, RetOf
  <1>13. TheStatus[g] = "idle" /\ TheStatus' = [TheStatus EXCEPT ![g] = k] /\ TheRet' = TheRet
    BY <1>2, <1>11, <1>12, MappedStep
  <1>14. AbstractStep
    BY <1>4, <1>10, <1>13, AbstractCall
  <1> QED BY <1>10, <1>14

LEMMA LoadRefines ==
  ASSUME Size > 1, MaxCalls + Size < Modulus,
         NEW t \in Word, NEW N \in Nat, NEW H \in Nat, NEW M \in [Goroutine -> Nat],
         NEW P \in [Index -> Nat], NEW F \in [Index -> BOOLEAN], NEW K \in SUBSET Nat,
         NEW A \in [Nat -> Nat], Ring(t, N, H, M, P, F, K, A),
         NEW g \in Goroutine, UNCHANGED impl, Types', NEW x \in Nat,
         Shape(t, N, H, [M EXCEPT ![g] = x], P, F, K)',
         Slots!LoadTail(g) \/ Slots!LoadHead(g)
  PROVE  RingInv' /\ AbstractStep
  <1> DEFINE L == [M EXCEPT ![g] = x]
  <1>1. L \in [Goroutine -> Nat] /\ \A h \in Goroutine \ {g} : L[h] = M[h]
    OBVIOUS
  <1> HIDE DEF L
  <1>2. /\ Types /\ Quiet /\ impl \in {"MPMC", "MPSC"} /\ calls <= MaxCalls
        /\ pc \in [Goroutine -> Points] /\ pos \in [Goroutine -> Word]
    BY RingBasics
  <1>3. Goto(g, "load", "seq") /\ op[g] \in {"enqueue", "dequeue"}
    BY SlotsCopies DEF Slots!LoadTail, Slots!LoadHead
  <1>4. /\ pc[g] = "load" /\ pc'[g] = "seq" /\ UNCHANGED <<calls, op, arg, ret>>
        /\ \A h \in Goroutine \ {g} : pc'[h] = pc[h]
    BY <1>2, <1>3 DEF Goto
  <1>5. UNCHANGED val /\ \A h \in Goroutine \ {g} : pos'[h] = pos[h]
    BY <1>2 DEF Slots!LoadTail, Slots!LoadHead
  <1>6. Bystanders(g) /\ Touches(t, H, M, g)
    BY <1>4, <1>5 DEF Bystanders, Others, Touches
  <1>7. Moves(t, H, M, L, A, g)
    BY <1>1, <1>2, <1>4, <1>6 DEF Moves, Writer, Reader
  <1>8. Quiet'
    BY <1>2, <1>3, QuietStep
  <1>9. Shape(t, N, H, L, P, F, K)'
    BY DEF L
  <1>10. StatusOf(g)' = StatusOf(g) /\ RetOf(g)' = RetOf(g)
    BY <1>2, <1>4 DEF StatusOf, RetOf
  <1> QED BY <1>1, <1>4, <1>7, <1>8, <1>9, <1>10, RingStays

(* A CompareAndSwap that fails. *)
LEMMA RetryRefines ==
  ASSUME Size > 1, MaxCalls + Size < Modulus,
         NEW t \in Word, NEW N \in Nat, NEW H \in Nat, NEW M \in [Goroutine -> Nat],
         NEW P \in [Index -> Nat], NEW F \in [Index -> BOOLEAN], NEW K \in SUBSET Nat,
         NEW A \in [Nat -> Nat], Ring(t, N, H, M, P, F, K, A),
         NEW g \in Goroutine, UNCHANGED <<impl, val, pos>>, Types',
         Shape(t, N, H, M, P, F, K)', Goto(g, "cas", "load")
  PROVE  RingInv' /\ AbstractStep
  <1>1. /\ Types /\ Quiet /\ impl \in {"MPMC", "MPSC"} /\ calls <= MaxCalls
        /\ pc \in [Goroutine -> Points]
    BY RingBasics
  <1>2. /\ pc[g] = "cas" /\ pc'[g] = "load" /\ UNCHANGED <<calls, op, arg, ret>>
        /\ \A h \in Goroutine \ {g} : pc'[h] = pc[h]
    BY <1>1 DEF Goto
  <1>3. Bystanders(g) /\ Touches(t, H, M, g)
    BY <1>2 DEF Bystanders, Others, Touches
  <1>4. Moves(t, H, M, M, A, g)
    BY <1>1, <1>2, <1>3 DEF Moves, Writer, Reader
  <1>5. Quiet'
    BY <1>1, QuietStep
  <1>6. StatusOf(g)' = StatusOf(g) /\ RetOf(g)' = RetOf(g)
    BY <1>1, <1>2 DEF StatusOf, RetOf
  <1> QED BY <1>2, <1>4, <1>5, <1>6, RingStays

LEMMA WriteRefines ==
  ASSUME Size > 1, MaxCalls + Size < Modulus,
         NEW t \in Word, NEW N \in Nat, NEW H \in Nat, NEW M \in [Goroutine -> Nat],
         NEW P \in [Index -> Nat], NEW F \in [Index -> BOOLEAN], NEW K \in SUBSET Nat,
         NEW A \in [Nat -> Nat], Ring(t, N, H, M, P, F, K, A),
         NEW g \in Goroutine, UNCHANGED impl, Types', Shape(t, N, H, M, P, F, K)',
         Slots!Write(g)
  PROVE  RingInv' /\ AbstractStep
  <1>1. /\ Types /\ Quiet /\ impl \in {"MPMC", "MPSC"} /\ calls <= MaxCalls
        /\ pc \in [Goroutine -> Points] /\ val \in [Index -> Nat]
    BY RingBasics
  <1>0. (Busy(g) => Idx(pos[g]) = At(t, M[g])) /\ At(t, M[g]) \in Index
    <2>1. Busy(g) => Idx(pos[g]) = At(t, M[g])
      BY DEF Ring, Shape, Positions, At
    <2>2. At(t, M[g]) \in Index
      BY WordFacts, IdxPlus DEF At
    <2> QED BY <2>1, <2>2
  <1>2. Goto(g, "write", "publish")
    BY SlotsCopies DEF Slots!Write
  <1>3. /\ pc[g] = "write" /\ pc'[g] = "publish" /\ UNCHANGED <<calls, op, arg, ret, pos>>
        /\ \A h \in Goroutine \ {g} : pc'[h] = pc[h]
    BY <1>1, <1>2 DEF Goto, Slots!Write
  <1>4. val' = [val EXCEPT ![At(t, M[g])] = arg[g]]
    BY <1>0, <1>1, <1>3, SlotsWords DEF Slots!Write, Busy
  <1>5. /\ val'[At(t, M[g])] = arg[g]
        /\ \A j \in Index : j # At(t, M[g]) => val'[j] = val[j]
    BY <1>0, <1>1, <1>4
  <1>6. Bystanders(g) /\ Touches(t, H, M, g) /\ Writer(g)
    BY <1>3, <1>5 DEF Bystanders, Others, Touches, Writer
  <1>7. arg[g] = A[M[g]]
    BY <1>6 DEF Ring, Values, Known
  <1>8. Moves(t, H, M, M, A, g)
    BY <1>1, <1>3, <1>5, <1>6, <1>7 DEF Moves, Writer, Reader
  <1>9. Quiet'
    BY <1>1, <1>2, QuietStep
  <1>10. StatusOf(g)' = StatusOf(g) /\ RetOf(g)' = RetOf(g)
    BY <1>1, <1>3 DEF StatusOf, RetOf
  <1> QED BY <1>3, <1>8, <1>9, <1>10, RingStays

LEMMA ReadRefines ==
  ASSUME Size > 1, MaxCalls + Size < Modulus,
         NEW t \in Word, NEW N \in Nat, NEW H \in Nat, NEW M \in [Goroutine -> Nat],
         NEW P \in [Index -> Nat], NEW F \in [Index -> BOOLEAN], NEW K \in SUBSET Nat,
         NEW A \in [Nat -> Nat], Ring(t, N, H, M, P, F, K, A),
         NEW g \in Goroutine, UNCHANGED impl, Types', Shape(t, N, H, M, P, F, K)',
         Slots!Read(g), impl = "MPMC"
  PROVE  RingInv' /\ AbstractStep
  <1>1. /\ Types /\ Quiet /\ calls <= MaxCalls
        /\ pc \in [Goroutine -> Points] /\ val \in [Index -> Nat] /\ DOMAIN ret = Goroutine
    BY RingBasics
  <1>0. (Busy(g) => Idx(pos[g]) = At(t, M[g])) /\ At(t, M[g]) \in Index
    <2>1. Busy(g) => Idx(pos[g]) = At(t, M[g])
      BY DEF Ring, Shape, Positions, At
    <2>2. At(t, M[g]) \in Index
      BY WordFacts, IdxPlus DEF At
    <2> QED BY <2>1, <2>2
  <1>2. /\ pc[g] = "read" /\ pc'[g] = "release" /\ UNCHANGED <<calls, op, arg, pos>>
        /\ ret'[g] = <<val[Idx(pos[g])], TRUE>>
        /\ \A h \in Goroutine \ {g} : pc'[h] = pc[h] /\ ret'[h] = ret[h]
    BY <1>1, SlotsWords DEF Slots!Read
  <1>3. val' = [val EXCEPT ![At(t, M[g])] = zero] /\ Reader(g) /\ Idx(pos[g]) = At(t, M[g])
    BY <1>0, <1>1, <1>2, SlotsWords DEF Slots!Read, Busy, Reader
  <1>4. \A j \in Index : j # At(t, M[g]) => val'[j] = val[j]
    BY <1>0, <1>1, <1>3
  <1>5. M[g] < H /\ val[At(t, M[g])] = A[M[g]]
    BY <1>2, <1>3 DEF Ring, Shape, Dequeuers, Values, Known
  <1>6. Bystanders(g) /\ Touches(t, H, M, g)
    BY <1>2, <1>3, <1>4, <1>5 DEF Bystanders, Others, Touches
  <1>7. Moves(t, H, M, M, A, g)
    BY <1>1, <1>2, <1>3, <1>5, <1>6 DEF Moves, Writer, Reader
  <1>8. Quiet'
    BY <1>1, <1>2 DEF Quiet
  <1>9. StatusOf(g)' = StatusOf(g) /\ RetOf(g)' = RetOf(g)
    BY <1>2 DEF StatusOf, RetOf
  <1> QED BY <1>2, <1>7, <1>8, <1>9, RingStays

LEMMA ReturnRefines ==
  ASSUME Size > 1, MaxCalls + Size < Modulus,
         NEW t \in Word, NEW N \in Nat, NEW H \in Nat, NEW M \in [Goroutine -> Nat],
         NEW P \in [Index -> Nat], NEW F \in [Index -> BOOLEAN], NEW K \in SUBSET Nat,
         NEW A \in [Nat -> Nat], Ring(t, N, H, M, P, F, K, A),
         NEW g \in Goroutine, UNCHANGED impl, Types', Shape(t, N, H, M, P, F, K)',
         Slots!Return(g)
  PROVE  RingInv' /\ AbstractStep
  <1>1. /\ Types /\ Quiet /\ impl \in {"MPMC", "MPSC"} /\ calls <= MaxCalls
        /\ pc \in [Goroutine -> Points] /\ DOMAIN ret = Goroutine
    BY RingBasics
  <1>2. Leave(g) /\ UNCHANGED <<val, pos>>
    BY SlotsCopies DEF Slots!Return, Slots!slotVars, Slots!ringVars
  <1>3. /\ pc[g] = "done" /\ pc'[g] = "idle" /\ ret'[g] = No /\ UNCHANGED <<calls, op, arg>>
        /\ \A h \in Goroutine \ {g} : pc'[h] = pc[h] /\ ret'[h] = ret[h]
    BY <1>1, <1>2 DEF Leave, None, No
  <1>4. Bystanders(g) /\ Touches(t, H, M, g)
    BY <1>2, <1>3 DEF Bystanders, Others, Touches
  <1>5. Moves(t, H, M, M, A, g)
    BY <1>1, <1>3, <1>4 DEF Moves, Writer, Reader
  <1>6. Quiet'
    BY <1>1, <1>2, QuietStep
  <1>7. RingInv' /\ TheLine' = TheLine
    BY <1>5, <1>6, RingMoves
  <1>8. \A h \in Goroutine \ {g} : StatusOf(h)' = StatusOf(h) /\ RetOf(h)' = RetOf(h)
    BY <1>4, RingOthers
  <1>9. StatusOf(g) = "done" /\ StatusOf(g)' = "idle" /\ RetOf(g)' = No
    BY <1>3 DEF StatusOf, RetOf
  <1>10. AbstractStep
    BY <1>1, <1>3, <1>7, <1>8, <1>9, MappedStep, AbstractReturn
  <1> QED BY <1>7, <1>10

-----------------------------------------------------------------------------
(* The facts the steps that move the line share. *)
RingBase(t, N, H, M) ==
  /\ Types /\ Quiet /\ calls <= MaxCalls /\ impl \in {"MPMC", "MPSC"}
  /\ N + Size < Modulus /\ H <= N /\ Size \in Nat
  /\ pc \in [Goroutine -> Points] /\ arg \in [Goroutine -> Nat] /\ DOMAIN ret = Goroutine
  /\ val \in [Index -> Nat]
  /\ tail = Plus(t, N) /\ head = Plus(t, H)
  /\ \A g \in Goroutine :
       Busy(g) => pos[g] = Plus(t, M[g]) /\ Idx(pos[g]) = At(t, M[g]) /\ M[g] <= N
  /\ At(t, H) \in Index /\ At(t, N) \in Index /\ \A g \in Goroutine : At(t, M[g]) \in Index
  /\ \A x, y \in 0 .. N : Plus(t, x) = Plus(t, y) => x = y

LEMMA RingBases ==
  ASSUME Size > 1, MaxCalls + Size < Modulus,
         NEW t, NEW N, NEW H, NEW M, NEW P, NEW F, NEW K, NEW A,
         Ring(t, N, H, M, P, F, K, A)
  PROVE  RingBase(t, N, H, M) /\ TheLine = RingLine(t, N, H, P, F, A)
  <1>1. /\ t \in Word /\ N \in Nat /\ H \in Nat /\ M \in [Goroutine -> Nat]
        /\ P \in [Index -> Nat] /\ F \in [Index -> BOOLEAN] /\ K \in SUBSET Nat
        /\ A \in [Nat -> Nat]
    BY RingTypes
  <1>2. /\ Types /\ Quiet /\ calls <= MaxCalls /\ impl \in {"MPMC", "MPSC"}
        /\ N + Size < Modulus /\ H <= N
        /\ pc \in [Goroutine -> Points] /\ DOMAIN ret = Goroutine
        /\ val \in [Index -> Nat] /\ tail = Plus(t, N) /\ head = Plus(t, H)
    BY <1>1, RingBasics
  <1>3. arg \in [Goroutine -> Nat] /\ Size \in Nat
    BY <1>2, WordFacts DEF Types, ClientTypes, ClientTypeOK
  <1>4. /\ \A g \in Goroutine :
             Busy(g) => pos[g] = Plus(t, M[g]) /\ Idx(pos[g]) = At(t, M[g]) /\ M[g] <= N
        /\ At(t, H) \in Index /\ At(t, N) \in Index /\ \A g \in Goroutine : At(t, M[g]) \in Index
        /\ \A x, y \in 0 .. N : Plus(t, x) = Plus(t, y) => x = y
    BY <1>1, RingBasics
  <1>5. TheLine = RingLine(t, N, H, P, F, A)
    BY <1>1, RingLines DEF RingFacts
  <1> QED BY <1>2, <1>3, <1>4, <1>5 DEF RingBase

LEMMA RingLineAfter ==
  ASSUME Size > 1, MaxCalls + Size < Modulus,
         NEW t, NEW N, NEW H, NEW M, NEW P, NEW F, NEW K, NEW A,
         Ring(t, N, H, M, P, F, K, A)'
  PROVE  TheLine' = RingLine(t, N, H, P, F, A) /\ N + Size < Modulus
  <1>1. /\ t \in Word /\ N \in Nat /\ H \in Nat /\ M \in [Goroutine -> Nat]
        /\ P \in [Index -> Nat] /\ F \in [Index -> BOOLEAN] /\ K \in SUBSET Nat
    BY DEF Ring, Shape, Counts, Claims
  <1>2. A \in [Nat -> Nat]
    BY DEF Ring, Values, Numbered
  <1> QED BY <1>1, <1>2, RingLineNext

(* The CompareAndSwap of an enqueue puts its value, not ready, at the end  *)
(* of the line.                                                            *)
TailClaim(t, N, H, M, P, F, K, g) ==
  /\ impl' = impl /\ Types'
  /\ Shape(t, N + 1, H, M, P, F, K \cup {arg[g]})'
  /\ op[g] = "enqueue" /\ tail = pos[g] /\ Goto(g, "cas", "write")
  /\ UNCHANGED <<val, head, pos, seq>>

Longer(n, s, r, e) ==
  /\ n \in Nat /\ s \in [1 .. n -> Entries] /\ r \in [1 .. n + 1 -> Entries]
  /\ r[n + 1] = e /\ \A i \in 1 .. n : r[i] = s[i]

LEMMA LineLonger ==
  ASSUME NEW n, NEW s, NEW r, NEW e, Longer(n, s, r, e)
  PROVE  r = Append(s, e)
  BY LineGrows DEF Longer

Grown(t, N, H, P, F, A, x, n, B, e) ==
  /\ t \in Word /\ N \in Nat /\ H \in Nat /\ P \in [Index -> Nat] /\ F \in [Index -> BOOLEAN]
  /\ A \in [Nat -> Nat] /\ x \in Nat /\ H <= N /\ Size > 1 /\ n + Size < Modulus
  /\ ~Filled(t, P, F, N)
  /\ n = N + 1 /\ B = [A EXCEPT ![N] = x] /\ e = [val |-> x, ready |-> FALSE]

LEMMA RingAppends ==
  ASSUME NEW t, NEW N, NEW H, NEW P, NEW F, NEW A, NEW x, NEW n, NEW B, NEW e,
         Grown(t, N, H, P, F, A, x, n, B, e)
  PROVE  RingLine(t, n, H, P, F, B) = Append(RingLine(t, N, H, P, F, A), e)
  <1> DEFINE l == N - H
             s == RingLine(t, N, H, P, F, A)
             r == RingLine(t, n, H, P, F, B)
  <1>0. /\ t \in Word /\ N \in Nat /\ H \in Nat /\ P \in [Index -> Nat] /\ F \in [Index -> BOOLEAN]
        /\ A \in [Nat -> Nat] /\ x \in Nat /\ H <= N /\ Size > 1 /\ n + Size < Modulus
    BY DEF Grown
  <1>1. B \in [Nat -> Nat] /\ B[N] = x /\ \A m \in Nat : m # N => B[m] = A[m]
    BY <1>0 DEF Grown
  <1>2. /\ l \in Nat /\ n - H = l + 1 /\ n \in Nat /\ H <= n /\ l + 1 \in 1 .. l + 1
        /\ H + (l + 1) - 1 = N /\ Size \in Nat /\ N + Size < Modulus
        /\ \A i \in 1 .. l : i \in 1 .. l + 1 /\ H + i - 1 \in Nat /\ H + i - 1 # N
    BY <1>0, WordFacts DEF Grown
  <1>3. s \in [1 .. l -> Entries] /\ r \in [1 .. l + 1 -> Entries]
    <2>1. s \in [1 .. N - H -> Entries] /\ r \in [1 .. n - H -> Entries]
      <3> HIDE DEF l
      <3> QED BY <1>0, <1>1, <1>2, RingLineType
    <2> HIDE DEF s, r
    <2> QED BY <1>2, <2>1
  <1>4. Filled(t, P, F, N) = FALSE
    BY DEF Filled, Grown
  <1>5. r[l + 1] = e
    BY <1>0, <1>1, <1>2, <1>4 DEF RingLine, Grown
  <1>6. \A i \in 1 .. l : r[i] = s[i]
    BY <1>0, <1>1, <1>2 DEF RingLine
  <1> HIDE DEF l, s, r
  <1>7. r = Append(s, e)
    <2>1. Longer(l, s, r, e)
      BY <1>2, <1>3, <1>5, <1>6 DEF Longer
    <2> QED BY <2>1, LineLonger
  <1> QED BY <1>7 DEF s, r

LEMMA ClaimTailRefines ==
  ASSUME Size > 1, MaxCalls + Size < Modulus,
         NEW t, NEW N, NEW H, NEW M, NEW P, NEW F, NEW K, NEW A,
         Ring(t, N, H, M, P, F, K, A), NEW g \in Goroutine,
         TailClaim(t, N, H, M, P, F, K, g)
  PROVE  RingInv' /\ AbstractStep
  <1>0. /\ t \in Word /\ N \in Nat /\ H \in Nat /\ M \in [Goroutine -> Nat]
        /\ P \in [Index -> Nat] /\ F \in [Index -> BOOLEAN] /\ K \in SUBSET Nat
        /\ A \in [Nat -> Nat]
    BY RingTypes
  <1>1. RingBase(t, N, H, M) /\ TheLine = RingLine(t, N, H, P, F, A)
    BY RingBases
  <1>2. /\ pc[g] = "cas" /\ op[g] = "enqueue" /\ pc'[g] = "write"
        /\ UNCHANGED <<impl, calls, op, arg, ret, val>>
        /\ \A h \in Goroutine \ {g} : pc'[h] = pc[h]
    BY <1>1 DEF TailClaim, Goto, RingBase
  <1>3. M[g] = N
    <2>1. pos[g] = Plus(t, M[g]) /\ M[g] <= N /\ tail = Plus(t, N) /\ tail = pos[g]
      BY <1>1, <1>2 DEF RingBase, TailClaim, Busy
    <2>2. M[g] \in 0 .. N /\ N \in 0 .. N
      BY <1>0, <2>1
    <2> QED BY <1>1, <2>1, <2>2 DEF RingBase
  <1>4. ~F[At(t, N)] /\ P[At(t, N)] = N
    BY <1>2, <1>3 DEF Ring, Shape, Users
  <1>5. N < H + Size
    BY <1>1, <1>4 DEF Ring, Values, Held, RingBase
  <1>6. Bystanders(g) /\ Touches(t, H, M, g)
    BY <1>2 DEF Bystanders, Others, Touches, TailClaim
  <1>7. PICK x \in Nat : x = arg[g]
    BY <1>1 DEF RingBase
  <1> DEFINE B == [A EXCEPT ![N] = x]
             n == N + 1
             k == K \cup {x}
  <1>8. Values(t, n, H, M, P, F, k, B)'
    <2>1. arg' = arg /\ val' = val /\ impl' = impl
      BY <1>2
    <2> HIDE <1>2, <1>4, <1>5
    <2> QED BY <1>0, <1>2, <1>3, <1>6, <1>7, TailValues
  <1>9. Quiet'
    BY <1>1, QuietStep DEF TailClaim, RingBase
  <1>10. Ring(t, n, H, M, P, F, k, B)'
    <2>1. Types' /\ Shape(t, n, H, M, P, F, k)' /\ impl' \in {"MPMC", "MPSC"} /\ calls' <= MaxCalls
      BY <1>1, <1>2, <1>7 DEF TailClaim, RingBase
    <2> QED BY <1>8, <1>9, <2>1 DEF Ring
  <1>11. TheLine' = RingLine(t, n, H, P, F, B) /\ n + Size < Modulus
    <2> HIDE DEF n, k, B
    <2> QED BY <1>10, RingLineAfter
  <1>12. TheLine' = Append(TheLine, [val |-> x, ready |-> FALSE])
    <2>1. ~Filled(t, P, F, N)
      BY <1>4 DEF Filled
    <2>2. H <= N
      BY <1>1 DEF RingBase
    <2> DEFINE e == [val |-> x, ready |-> FALSE]
    <2>3. Grown(t, N, H, P, F, A, x, n, B, e)
      BY <1>0, <1>11, <2>1, <2>2 DEF Grown
    <2> HIDE DEF n, B, e
    <2>4. RingLine(t, n, H, P, F, B) = Append(RingLine(t, N, H, P, F, A), e)
      BY <2>3, RingAppends
    <2> QED BY <1>1, <1>11, <2>4, Zenon DEF e
  <1>13. Len(TheLine) < Size
    <2>1. N - H \in Nat /\ N - H < Size /\ H <= N /\ N + Size < Modulus
      BY <1>0, <1>1, <1>5 DEF RingBase
    <2>2. RingLine(t, N, H, P, F, A) \in [1 .. N - H -> Entries]
      BY <1>0, <2>1, RingLineType
    <2> QED BY <1>1, <2>1, <2>2, LineLength
  <1>14. \A h \in Goroutine \ {g} : StatusOf(h)' = StatusOf(h) /\ RetOf(h)' = RetOf(h)
    BY <1>2, <1>6, RingOthers
  <1>15. StatusOf(g) = "enqueue" /\ StatusOf(g)' = "claimed" /\ RetOf(g)' = No
    <2>1. ret[g] = No /\ impl \in {"MPMC", "MPSC"}
      BY <1>1, <1>2 DEF Quiet, RingBase
    <2> QED BY <1>2, <2>1 DEF StatusOf, RetOf
  <1>16. /\ TheStatus[g] = "enqueue" /\ TheStatus' = [TheStatus EXCEPT ![g] = "claimed"]
         /\ TheRet' = [TheRet EXCEPT ![g] = No]
    <2>1. Types /\ Types' /\ impl' = impl
      BY <1>1 DEF RingBase, TailClaim
    <2> QED BY <1>14, <1>15, <2>1, MappedStep
  <1>17. ~IsStrict
    BY <1>1 DEF IsStrict, RingBase
  <1>18. AbstractStep
    <2>1. UNCHANGED <<impl, calls, arg>> /\ x = arg[g]
      BY <1>2, <1>7
    <2> QED BY <1>12, <1>13, <1>16, <1>17, <2>1, AbstractClaim
  <1> HIDE DEF n, k, B
  <1> QED BY <1>10, <1>18, RingSuffices

(* The position at the head is passed. *)
Passes(t, N, H, M, P, F, K, A, g) ==
  /\ UNCHANGED <<impl, calls, arg>> /\ Types' /\ Quiet' /\ calls' <= MaxCalls
  /\ Shape(t, N, H + 1, M, P, F, K)' /\ Values(t, N, H + 1, M, P, F, K, A)'
  /\ F[At(t, H)] /\ P[At(t, H)] = H
  /\ \A h \in Goroutine \ {g} : StatusOf(h)' = StatusOf(h) /\ RetOf(h)' = RetOf(h)
  /\ StatusOf(g) = "dequeue" /\ StatusOf(g)' = "done" /\ RetOf(g)' = <<A[H], TRUE>>

(* The head of the line leaves it, to the goroutine g. *)
LEMMA HeadRefines ==
  ASSUME Size > 1, MaxCalls + Size < Modulus,
         NEW t, NEW N, NEW H, NEW M, NEW P, NEW F, NEW K, NEW A,
         Ring(t, N, H, M, P, F, K, A), NEW g \in Goroutine,
         Passes(t, N, H, M, P, F, K, A, g)
  PROVE  RingInv' /\ AbstractStep
  <1>0. /\ t \in Word /\ N \in Nat /\ H \in Nat /\ M \in [Goroutine -> Nat]
        /\ P \in [Index -> Nat] /\ F \in [Index -> BOOLEAN] /\ K \in SUBSET Nat
        /\ A \in [Nat -> Nat]
    BY RingTypes
  <1>1. RingBase(t, N, H, M) /\ TheLine = RingLine(t, N, H, P, F, A)
    BY RingBases
  <1>2. H < N
    <2>1. At(t, H) \in Index /\ F[At(t, H)] /\ P[At(t, H)] = H
      BY <1>1 DEF RingBase, Passes
    <2> QED BY <2>1 DEF Ring, Shape, Places
  <1> DEFINE j == H + 1
             e == Head(TheLine)
  <1>3. Ring(t, N, j, M, P, F, K, A)'
    BY <1>1 DEF Ring, RingBase, Passes
  <1>4. TheLine' = RingLine(t, N, j, P, F, A)
    <2> HIDE DEF j
    <2> QED BY <1>3, RingLineAfter
  <1>5. /\ TheLine # <<>> /\ TheLine' = Tail(TheLine)
        /\ e = [val |-> A[H], ready |-> TRUE]
    <2>1. Filled(t, P, F, H) = TRUE
      BY DEF Filled, Passes
    <2>2. N + Size < Modulus
      BY <1>1 DEF RingBase
    <2>3. /\ RingLine(t, N, H, P, F, A) # <<>>
          /\ Head(RingLine(t, N, H, P, F, A)) = [val |-> A[H], ready |-> Filled(t, P, F, H)]
          /\ Tail(RingLine(t, N, H, P, F, A)) = RingLine(t, N, H + 1, P, F, A)
      <3>1. HasHead(t, N, H, P, F, A)
        BY <1>0, <1>2, <2>2 DEF HasHead
      <3>2. HeadIs(t, N, H, P, F, A)
        BY <3>1, RingHead
      <3> QED BY <3>2, Zenon DEF HeadIs
    <2> QED BY <1>1, <1>4, <2>1, <2>3, Zenon
  <1>6. e.ready /\ e.val = A[H]
    <2> HIDE DEF e
    <2> QED BY <1>5
  <1>7. /\ TheStatus[g] = "dequeue" /\ TheStatus' = [TheStatus EXCEPT ![g] = "done"]
        /\ TheRet' = [TheRet EXCEPT ![g] = <<e.val, TRUE>>]
    <2>1. Types /\ Types' /\ impl' = impl
      BY <1>1 DEF RingBase, Passes
    <2> HIDE DEF e
    <2> QED BY <1>6, <2>1, MappedStep DEF Passes
  <1>8. AbstractStep
    <2>1. UNCHANGED <<impl, calls, arg>>
      BY DEF Passes
    <2> QED BY <1>5, <1>6, <1>7, <2>1, AbstractDequeue
  <1> HIDE DEF j
  <1> QED BY <1>3, <1>8, RingSuffices

(* The CompareAndSwap of a dequeue, and the read of the MPSC ring's        *)
(* consumer.                                                               *)
LEMMA ClaimHeadRefines ==
  ASSUME Size > 1, MaxCalls + Size < Modulus,
         NEW t \in Word, NEW N \in Nat, NEW H \in Nat, NEW M \in [Goroutine -> Nat],
         NEW P \in [Index -> Nat], NEW F \in [Index -> BOOLEAN], NEW K \in SUBSET Nat,
         NEW A \in [Nat -> Nat], Ring(t, N, H, M, P, F, K, A),
         NEW g \in Goroutine, UNCHANGED impl, Types', Shape(t, N, H + 1, M, P, F, K)',
         impl = "MPMC", op[g] = "dequeue", head = pos[g], Goto(g, "cas", "read"),
         UNCHANGED <<val, tail, pos, seq>>
  PROVE  RingInv' /\ AbstractStep
  <1>0. RingBase(t, N, H, M)
    BY RingBases
  <1>1. /\ Types /\ Quiet /\ calls <= MaxCalls /\ pc \in [Goroutine -> Points]
    BY <1>0 DEF RingBase
  <1>2. /\ N + Size < Modulus /\ H <= N /\ head = Plus(t, H) /\ At(t, H) \in Index
        /\ Size \in Nat
    BY <1>0 DEF RingBase
  <1>3. /\ pc[g] = "cas" /\ pc'[g] = "read" /\ UNCHANGED <<calls, op, arg, ret>>
        /\ \A h \in Goroutine \ {g} : pc'[h] = pc[h]
    BY <1>1 DEF Goto
  <1>4. M[g] = H /\ Idx(pos[g]) = At(t, H)
    <2>1. pos[g] = Plus(t, M[g]) /\ M[g] <= N
      BY <1>3 DEF Ring, Shape, Positions, Busy
    <2>2. M[g] \in 0 .. N + Size /\ H \in 0 .. N + Size
      BY <1>2, <2>1
    <2>3. M[g] = H
      BY <1>2, <2>1, <2>2, Unwrapped
    <2> QED BY <2>1, <2>3 DEF At
  <1>5. F[At(t, H)] /\ P[At(t, H)] = H
    BY <1>3, <1>4 DEF Ring, Shape, Dequeuers
  <1>6. Bystanders(g) /\ Touches(t, H, M, g)
    BY <1>3 DEF Bystanders, Others, Touches
  <1>7. Values(t, N, H + 1, M, P, F, K, A)'
    <2>1. ~Writer(g) /\ Reader(g)'
      BY <1>3 DEF Writer, Reader
    <2> QED BY <1>2, <1>3, <1>4, <1>5, <1>6, <2>1, HeadValues
  <1>8. Quiet'
    BY <1>1, QuietStep
  <1>9. \A h \in Goroutine \ {g} : StatusOf(h)' = StatusOf(h) /\ RetOf(h)' = RetOf(h)
    BY <1>6, RingOthers
  <1>10. StatusOf(g) = "dequeue" /\ StatusOf(g)' = "done" /\ RetOf(g)' = <<A[H], TRUE>>
    <2>1. val[At(t, H)] = A[H]
      BY <1>2, <1>5 DEF Ring, Values, Held
    <2> QED BY <1>3, <1>4, <2>1 DEF StatusOf, RetOf
  <1>11. Passes(t, N, H, M, P, F, K, A, g)
    BY <1>1, <1>3, <1>5, <1>7, <1>8, <1>9, <1>10 DEF Passes
  <1> QED BY <1>11, HeadRefines

LEMMA ConsumerReadRefines ==
  ASSUME Size > 1, MaxCalls + Size < Modulus,
         NEW t \in Word, NEW N \in Nat, NEW H \in Nat, NEW M \in [Goroutine -> Nat],
         NEW P \in [Index -> Nat], NEW F \in [Index -> BOOLEAN], NEW K \in SUBSET Nat,
         NEW A \in [Nat -> Nat], Ring(t, N, H, M, P, F, K, A),
         NEW g \in Goroutine, UNCHANGED impl, Types', Shape(t, N, H + 1, M, P, F, K)',
         impl = "MPSC", Slots!ConsumerRead(g)
  PROVE  RingInv' /\ AbstractStep
  <1>0. RingBase(t, N, H, M)
    BY RingBases
  <1>1. /\ Types /\ Quiet /\ calls <= MaxCalls /\ pc \in [Goroutine -> Points]
        /\ DOMAIN ret = Goroutine /\ val \in [Index -> Nat]
    BY <1>0 DEF RingBase
  <1>2. N + Size < Modulus /\ At(t, H) \in Index
    BY <1>0 DEF RingBase
  <1>3. /\ pc[g] = "read" /\ pc'[g] = "release" /\ UNCHANGED <<calls, op, arg, pos>>
        /\ ret'[g] = <<val[Idx(pos[g])], TRUE>>
        /\ \A h \in Goroutine \ {g} : pc'[h] = pc[h] /\ ret'[h] = ret[h]
    BY <1>1, SlotsWords DEF Slots!ConsumerRead
  <1>4. M[g] = H /\ Idx(pos[g]) = At(t, H) /\ Reader(g)
    BY <1>3 DEF Ring, Shape, Dequeuers, Positions, Busy, Reader, At
  <1>5. F[At(t, H)] /\ P[At(t, H)] = H
    BY <1>4 DEF Ring, Shape, Users
  <1>6. Bystanders(g) /\ \A j \in Index : j # At(t, H) => val'[j] = val[j]
    <2>1. val' = [val EXCEPT ![At(t, H)] = zero]
      BY <1>4, SlotsWords DEF Slots!ConsumerRead
    <2> QED BY <1>1, <1>3, <2>1 DEF Bystanders, Others
  <1>7. Values(t, N, H + 1, M, P, F, K, A)'
    <2>1. ~Writer(g) /\ Reader(g)' /\ ret'[g] = <<val[At(t, H)], TRUE>>
      BY <1>3, <1>4 DEF Writer, Reader
    <2> QED BY <1>2, <1>3, <1>4, <1>5, <1>6, <2>1, HeadValues
  <1>8. Quiet'
    BY <1>1, <1>3 DEF Quiet
  <1>9. \A h \in Goroutine \ {g} : StatusOf(h)' = StatusOf(h) /\ RetOf(h)' = RetOf(h)
    BY <1>3 DEF StatusOf, RetOf
  <1>10. StatusOf(g) = "dequeue" /\ StatusOf(g)' = "done" /\ RetOf(g)' = <<A[H], TRUE>>
    <2>1. val[At(t, H)] = A[H]
      BY <1>2, <1>5 DEF Ring, Values, Held
    <2> QED BY <1>3, <1>4, <2>1 DEF StatusOf, RetOf
  <1>11. Passes(t, N, H, M, P, F, K, A, g)
    BY <1>1, <1>3, <1>5, <1>7, <1>8, <1>9, <1>10 DEF Passes
  <1> QED BY <1>11, HeadRefines

(* The release of a place is after the effect of its call. *)
Releases(t, N, H, M, P, F, Q, E, K, g) ==
  /\ Hands(t, M, P, F, g, Q, E) /\ impl' = impl /\ Types' /\ Shape(t, N, H, M, Q, E, K)' /\ Slots!Release(g)

LEMMA ReleaseRefines ==
  ASSUME Size > 1, MaxCalls + Size < Modulus,
         NEW t, NEW N, NEW H, NEW M, NEW P, NEW F, NEW K, NEW A,
         Ring(t, N, H, M, P, F, K, A), NEW g \in Goroutine, NEW Q, NEW E,
         Releases(t, N, H, M, P, F, Q, E, K, g)
  PROVE  RingInv' /\ AbstractStep
  <1>0. /\ t \in Word /\ N \in Nat /\ H \in Nat /\ M \in [Goroutine -> Nat]
        /\ P \in [Index -> Nat] /\ F \in [Index -> BOOLEAN] /\ K \in SUBSET Nat
        /\ A \in [Nat -> Nat]
    BY RingTypes
  <1>1. RingBase(t, N, H, M) /\ TheLine = RingLine(t, N, H, P, F, A)
    BY RingBases
  <1>2. Finish(g, "release", ret[g]) /\ UNCHANGED <<val, pos>>
    BY SlotsCopies DEF Slots!Release, Releases
  <1>3. /\ pc[g] = "release" /\ pc'[g] = "done" /\ UNCHANGED <<impl, calls, op, arg, val>>
        /\ \A h \in Goroutine : ret'[h] = ret[h]
        /\ \A h \in Goroutine \ {g} : pc'[h] = pc[h]
    BY <1>1, <1>2 DEF Finish, RingBase, Releases
  <1>4. Bystanders(g) /\ Touches(t, H, M, g)
    BY <1>2, <1>3 DEF Bystanders, Others, Touches
  <1>5. /\ Values(t, N, H, M, Q, E, K, A)'
        /\ RingLine(t, N, H, Q, E, A) = RingLine(t, N, H, P, F, A)
    <2>1. N + Size < Modulus
      BY <1>1 DEF RingBase
    <2>2. Hands(t, M, P, F, g, Q, E) /\ Leaves(N, g)
      BY <1>3, <1>4, <2>1 DEF Releases, Leaves
    <2> QED BY <2>2, ReleasedValues
  <1>6. Quiet' /\ Types' /\ Shape(t, N, H, M, Q, E, K)'
    BY <1>1, <1>2, QuietStep DEF Releases, RingBase
  <1>7. Ring(t, N, H, M, Q, E, K, A)'
    BY <1>1, <1>3, <1>5, <1>6 DEF Ring, RingBase
  <1>8. TheLine' = TheLine
    <2>1. TheLine' = RingLine(t, N, H, Q, E, A)
      BY <1>7, RingLineAfter
    <2> QED BY <1>1, <1>5, <2>1
  <1>9. StatusOf(g)' = StatusOf(g) /\ RetOf(g)' = RetOf(g)
    BY <1>1, <1>3 DEF StatusOf, RetOf, RingBase
  <1>10. AbstractStep
    BY <1>3, <1>4, <1>6, <1>8, <1>9, RingNothing
  <1> QED BY <1>7, <1>10, RingSuffices

(* The store of slot.seq makes the enqueuer's entry ready. *)
Fills(t, M, F, E, g) == E = [F EXCEPT ![At(t, M[g])] = TRUE]

Publishes(t, N, H, M, P, E, K, g) ==
  /\ impl' = impl /\ Types' /\ Shape(t, N, H, M, P, E, K)' /\ Slots!Publish(g)

LEMMA SameEntry ==
  ASSUME NEW e \in Entries, NEW r \in Entries, e.val = r.val, e.ready = r.ready
  PROVE  e = r
  BY DEF Entries

LEMMA EntryReady ==
  ASSUME NEW e \in Entries
  PROVE  [e EXCEPT !.ready = TRUE] = [val |-> e.val, ready |-> TRUE]
  <1>1. [e EXCEPT !.ready = TRUE] \in Entries /\ [val |-> e.val, ready |-> TRUE] \in Entries
    BY DEF Entries
  <1>2. [e EXCEPT !.ready = TRUE].val = e.val /\ [e EXCEPT !.ready = TRUE].ready = TRUE
    BY DEF Entries
  <1> DEFINE r == [e EXCEPT !.ready = TRUE]
             q == [val |-> e.val, ready |-> TRUE]
  <1>3. q.val = e.val /\ q.ready = TRUE
    OBVIOUS
  <1> HIDE DEF r, q
  <1>4. r \in Entries /\ q \in Entries /\ r.val = q.val /\ r.ready = q.ready
    BY <1>1, <1>2, <1>3 DEF r, q
  <1>5. r = q
    BY <1>4, SameEntry
  <1> QED BY <1>5 DEF r, q

(* The entry published is the one that holds the value of g. *)
LEMMA PublishedLine ==
  ASSUME Size > 1, MaxCalls + Size < Modulus,
         NEW t, NEW N, NEW H, NEW M, NEW P, NEW F, NEW K, NEW A,
         Ring(t, N, H, M, P, F, K, A), NEW g \in Goroutine, NEW E,
         Fills(t, M, F, E, g), pc[g] = "publish"
  PROVE  RingLine(t, N, H, P, E, A)
           = [i \in 1 .. Len(TheLine) |->
                IF TheLine[i].val = arg[g] THEN [TheLine[i] EXCEPT !.ready = TRUE]
                                           ELSE TheLine[i]]
  <1>0. /\ t \in Word /\ N \in Nat /\ H \in Nat /\ M \in [Goroutine -> Nat]
        /\ P \in [Index -> Nat] /\ F \in [Index -> BOOLEAN] /\ K \in SUBSET Nat
        /\ A \in [Nat -> Nat]
    BY RingTypes
  <1>1. RingBase(t, N, H, M) /\ TheLine = RingLine(t, N, H, P, F, A)
    BY RingBases
  <1>2. /\ At(t, M[g]) \in Index /\ E[At(t, M[g])] = TRUE
        /\ \A j \in Index : j # At(t, M[g]) => E[j] = F[j]
    BY <1>0, <1>1 DEF RingBase, Fills
  <1>3. P[At(t, M[g])] = M[g] /\ M[g] < N /\ arg[g] = A[M[g]] /\ M[g] \in Nat
    BY <1>0 DEF Ring, Shape, Users, Values, Known, Writer
  <1>4. /\ N - H \in Nat /\ Len(TheLine) = N - H
        /\ \A i \in 1 .. N - H : H + i - 1 \in Nat /\ H <= H + i - 1 /\ H + i - 1 < N
    <2>1. H <= N /\ N + Size < Modulus
      BY <1>1 DEF RingBase
    <2>2. /\ RingLine(t, N, H, P, F, A) \in [1 .. N - H -> Entries] /\ N - H \in Nat
          /\ \A i \in 1 .. N - H : H + i - 1 \in Nat /\ H <= H + i - 1 /\ H + i - 1 < N
      BY <1>0, <2>1, RingLineType
    <2> QED BY <1>1, <2>2, LineLength
  <1>5. ASSUME NEW i \in 1 .. N - H
        PROVE  RingLine(t, N, H, P, E, A)[i]
                 = IF TheLine[i].val = arg[g] THEN [TheLine[i] EXCEPT !.ready = TRUE]
                                              ELSE TheLine[i]
    <2> DEFINE m == H + i - 1
               e == TheLine[i]
    <2>1. m \in Nat /\ m < N
      BY <1>4
    <2>2. /\ e = [val |-> A[m], ready |-> Filled(t, P, F, m)]
          /\ RingLine(t, N, H, P, E, A)[i] = [val |-> A[m], ready |-> Filled(t, P, E, m)]
      BY <1>1 DEF RingLine
    <2> HIDE DEF m, e
    <2>3. A[m] = arg[g] <=> m = M[g]
      <3>1. \A x, y \in 0 .. N - 1 : A[x] = A[y] => x = y
        BY DEF Ring, Values, Numbered
      <3>2. m \in 0 .. N - 1 /\ M[g] \in 0 .. N - 1
        BY <1>0, <1>3, <2>1
      <3> QED BY <1>3, <3>1, <3>2
    <2>4. At(t, m) \in Index
      BY <1>0, <2>1, WordFacts, IdxPlus DEF At
    <2>5. e.val = A[m] /\ [e EXCEPT !.ready = TRUE] = [val |-> A[m], ready |-> TRUE]
      <3>1. e \in Entries
        <4>1. RingLine(t, N, H, P, F, A) \in [1 .. N - H -> Entries]
          BY <1>0, <1>1, RingLineType DEF RingBase
        <4> QED BY <1>1, <4>1 DEF e
      <3>2. e.val = A[m]
        BY <2>2
      <3> QED BY <3>1, <3>2, EntryReady
    <2>6. CASE m = M[g]
      <3>1. Filled(t, P, E, m) = TRUE
        BY <1>2, <1>3, <2>6 DEF Filled
      <3> QED BY <2>2, <2>3, <2>5, <2>6, <3>1 DEF e
    <2>7. CASE m # M[g]
      <3>1. Filled(t, P, E, m) = Filled(t, P, F, m)
        BY <1>2, <1>3, <2>4, <2>7 DEF Filled
      <3> QED BY <2>2, <2>3, <2>5, <2>7, <3>1 DEF e
    <2> QED BY <2>6, <2>7
  <1>6. RingLine(t, N, H, P, E, A) = [i \in 1 .. N - H |-> RingLine(t, N, H, P, E, A)[i]]
    BY DEF RingLine
  <1> QED BY <1>4, <1>5, <1>6

LEMMA PublishRefines ==
  ASSUME Size > 1, MaxCalls + Size < Modulus,
         NEW t, NEW N, NEW H, NEW M, NEW P, NEW F, NEW K, NEW A,
         Ring(t, N, H, M, P, F, K, A), NEW g \in Goroutine, NEW E,
         Fills(t, M, F, E, g),
         Publishes(t, N, H, M, P, E, K, g)
  PROVE  RingInv' /\ AbstractStep
  <1>0. /\ t \in Word /\ N \in Nat /\ H \in Nat /\ M \in [Goroutine -> Nat]
        /\ P \in [Index -> Nat] /\ F \in [Index -> BOOLEAN] /\ K \in SUBSET Nat
        /\ A \in [Nat -> Nat]
    BY RingTypes
  <1>1. RingBase(t, N, H, M) /\ TheLine = RingLine(t, N, H, P, F, A)
    BY RingBases
  <1>2. Finish(g, "publish", Yes) /\ UNCHANGED <<val, pos>>
    BY SlotsCopies, SlotsWords DEF Slots!Publish, Publishes
  <1>3. /\ pc[g] = "publish" /\ pc'[g] = "done" /\ UNCHANGED <<impl, calls, op, arg, val>>
        /\ ret'[g] = Yes /\ \A h \in Goroutine \ {g} : pc'[h] = pc[h] /\ ret'[h] = ret[h]
    BY <1>1, <1>2 DEF Finish, RingBase, Publishes
  <1>4. Bystanders(g) /\ Touches(t, H, M, g)
    BY <1>2, <1>3 DEF Bystanders, Others, Touches
  <1>5. Values(t, N, H, M, P, E, K, A)'
    <2>1. N + Size < Modulus
      BY <1>1 DEF RingBase
    <2>2. Values(t, N, H, M, P, [F EXCEPT ![At(t, M[g])] = TRUE], K, A)'
      BY <1>0, <1>3, <1>4, <2>1, PublishedValues
    <2> QED BY <2>2 DEF Fills
  <1>6. Quiet' /\ Types' /\ Shape(t, N, H, M, P, E, K)'
    BY <1>1, <1>2, QuietStep DEF Publishes, RingBase
  <1>7. Ring(t, N, H, M, P, E, K, A)'
    BY <1>1, <1>3, <1>5, <1>6 DEF Ring, RingBase
  <1>8. TheLine' = [i \in 1 .. Len(TheLine) |->
                      IF TheLine[i].val = arg[g] THEN [TheLine[i] EXCEPT !.ready = TRUE]
                                                 ELSE TheLine[i]]
    <2>1. TheLine' = RingLine(t, N, H, P, E, A)
      BY <1>7, RingLineAfter
    <2> QED BY <1>3, <2>1, PublishedLine
  <1>9. \A h \in Goroutine \ {g} : StatusOf(h)' = StatusOf(h) /\ RetOf(h)' = RetOf(h)
    BY <1>3, <1>4, RingOthers
  <1>10. StatusOf(g) = "claimed" /\ StatusOf(g)' = "done" /\ RetOf(g)' = Yes
    BY <1>1, <1>3 DEF StatusOf, RetOf, RingBase
  <1>11. /\ TheStatus[g] = "claimed" /\ TheStatus' = [TheStatus EXCEPT ![g] = "done"]
         /\ TheRet' = [TheRet EXCEPT ![g] = Yes]
    BY <1>1, <1>3, <1>6, <1>9, <1>10, MappedStep DEF RingBase
  <1>12. AbstractStep
    BY <1>3, <1>8, <1>11, AbstractPublish
  <1> QED BY <1>7, <1>12, RingSuffices

-----------------------------------------------------------------------------
(* Every step of a ring preserves its invariant and is a step of           *)
(* AbstractQueue or a stutter.                                             *)
LEMMA RingStep ==
  ASSUME Size > 1, MaxCalls + Size < Modulus,
         NEW t \in Word, NEW N \in Nat, NEW H \in Nat, NEW M \in [Goroutine -> Nat],
         NEW P \in [Index -> Nat], NEW F \in [Index -> BOOLEAN], NEW K \in SUBSET Nat,
         NEW A \in [Nat -> Nat], Ring(t, N, H, M, P, F, K, A), Types',
         NEW g \in Goroutine, UNCHANGED impl,
         \/ impl = "MPMC" /\ (Slots!MPMCCall(g) \/ Slots!MPMCWork(g))
         \/ impl = "MPSC" /\ (Slots!MPSCCall(g) \/ Slots!MPSCWork(g))
  PROVE  RingInv' /\ (MaxCalls + Size <= Modulus \div 2 => AbstractStep)
  <1>1. Shape(t, N, H, M, P, F, K) /\ Types /\ calls <= MaxCalls
    BY DEF Ring
  <1>2. /\ calls \in Nat /\ calls <= MaxCalls /\ MaxCalls \in Nat
        /\ Size \in Nat \ {0} /\ Modulus \in Nat
    BY <1>1, MaxCallsAssumption, WordFacts DEF Types, ClientTypes, ClientTypeOK
  <1>3. N + Size < Modulus
    <2>1. N <= calls
      BY <1>1, <1>2, ClaimsBound DEF Shape
    <2> QED BY <1>2, <2>1
  <1>4. /\ pc \in [Goroutine -> Points] /\ pos \in [Goroutine -> Word]
        /\ DOMAIN op = Goroutine /\ DOMAIN arg = Goroutine /\ seq \in [Index -> Word]
    BY <1>1 DEF Types, ClientTypes, ClientTypeOK, Words
  <1>5. tail = Plus(t, N) /\ head = Plus(t, H) /\ H <= N /\ N \in {N, H} /\ H \in {N, H}
    BY <1>1 DEF Shape, Counts
  <1>6. Busy(g) => pos[g] = Plus(t, M[g]) /\ Idx(pos[g]) = At(t, M[g]) /\ M[g] <= N
    BY <1>1 DEF Shape, Positions, At
  <1> USE SlotsCopies, SlotsWords DEF Slots!slotVars, Slots!ringVars
  <1>7. CASE Slots!StartEnqueue(g) \/ Slots!StartDequeue(g) \/ Slots!ConsumerStart(g)
    <2>1. PICK x \in {N, H} :
            /\ pc'[g] = "seq" /\ calls' = calls + 1 /\ calls' <= MaxCalls
            /\ pos'[g] = Plus(t, x) /\ Others(g) /\ UNCHANGED <<head, tail, seq>>
            /\ \/ op'[g] = "enqueue" /\ x = N /\ arg'[g] = calls + 1
               \/ op'[g] = "dequeue" /\ x = H
      <3>1. /\ pc'[g] = "seq" /\ calls' = calls + 1 /\ calls' <= MaxCalls
            /\ Others(g) /\ UNCHANGED <<head, tail, seq>>
        BY <1>2, <1>4, <1>7
           DEF Slots!StartEnqueue, Slots!StartDequeue, Slots!ConsumerStart, Start, Others
      <3>2. \/ pos'[g] = tail /\ op'[g] = "enqueue" /\ arg'[g] = calls + 1
            \/ pos'[g] = head /\ op'[g] = "dequeue"
        BY <1>4, <1>7
           DEF Slots!StartEnqueue, Slots!StartDequeue, Slots!ConsumerStart, Start, Puts
      <3>3. CASE pos'[g] = tail /\ op'[g] = "enqueue" /\ arg'[g] = calls + 1
        <4>1. pos'[g] = Plus(t, N)
          BY <1>5, <3>3
        <4> QED BY <1>5, <3>1, <3>3, <4>1, Zenon
      <3>4. CASE pos'[g] = head /\ op'[g] = "dequeue"
        <4>1. pos'[g] = Plus(t, H)
          BY <1>5, <3>4
        <4> QED BY <1>5, <3>1, <3>4, <4>1, Zenon
      <3> QED BY <3>2, <3>3, <3>4
    <2>2. op'[g] = "dequeue" => x = H /\ (impl = "MPSC" => g = Consumer)
      <3>1. op'[g] = "dequeue" /\ impl = "MPSC" => g = Consumer
        <4> SUFFICES ASSUME op'[g] = "dequeue", impl = "MPSC" PROVE g = Consumer
          OBVIOUS
        <4>1. ~Slots!StartEnqueue(g)
          BY <1>4 DEF Slots!StartEnqueue, Start
        <4>2. pc[g] = "idle"
          BY <1>7 DEF Slots!StartEnqueue, Slots!StartDequeue, Slots!ConsumerStart, Start
        <4>3. Slots!ConsumerStart(g)
          BY <4>1, <4>2
             DEF Slots!MPSCCall, Slots!MPSCWork, Slots!Enqueuing, Slots!LoadTail,
                 Slots!CompareForEnqueue, Slots!ClaimTail, Slots!Write, Slots!Publish,
                 Slots!ConsumerCompare, Slots!ConsumerRead, Slots!Release, Slots!Return,
                 Goto, Finish, Leave
        <4> QED BY <4>3 DEF Slots!ConsumerStart
      <3> QED BY <2>1, <3>1
    <2>3. Claims(N, K)'
      <3>1. \A h \in Goroutine : h # g /\ Pending(h)' => Pending(h) /\ arg'[h] = arg[h]
        BY <2>1 DEF Pending, Others
      <3>2. Pending(g)' => arg'[g] = calls + 1
        BY <2>1 DEF Pending
      <3>3. K \subseteq 1 .. calls /\ K \subseteq 1 .. calls + 1 /\ calls + 1 \notin K
            /\ \A h \in Goroutine : Pending(h) => arg[h] \in (1 .. calls) \ K
        BY <1>1, <1>2 DEF Shape, Claims
      <3>4. \A h \in Goroutine : Pending(h)' => arg'[h] \in (1 .. calls + 1) \ K
        BY <1>2, <3>1, <3>2, <3>3
      <3>5. \A h, k \in Goroutine : Pending(h)' /\ Pending(k)' /\ arg'[h] = arg'[k] => h = k
        <4>1. \A h \in Goroutine : h # g /\ Pending(h)' => arg'[h] # calls + 1
          BY <1>2, <3>1, <3>3
        <4> QED BY <1>1, <3>1, <3>2, <4>1 DEF Shape, Claims
      <3> QED BY <1>1, <2>1, <3>3, <3>4, <3>5 DEF Shape, Claims
    <2>4. Shape(t, N, H, [M EXCEPT ![g] = x], P, F, K)'
      BY <1>1, <1>3, <2>1, <2>2, <2>3, Reload
    <2> HIDE SlotsCopies, SlotsWords
    <2>5. x \in Nat /\ calls' <= MaxCalls
      BY <2>1
    <2> QED BY <1>7, <2>4, <2>5, CallRefines
  <1>8. CASE Slots!LoadTail(g) \/ (Slots!LoadHead(g) /\ impl = "MPMC")
    <2>1. PICK x \in {N, H} :
            /\ pc'[g] = "seq" /\ calls' = calls
            /\ pos'[g] = Plus(t, x) /\ Others(g) /\ UNCHANGED <<head, tail, seq, arg, op>>
            /\ \/ op[g] = "enqueue" /\ x = N /\ pc[g] = "load"
               \/ op[g] = "dequeue" /\ x = H /\ impl = "MPMC"
      <3>1. CASE Slots!LoadTail(g)
        <4>1. /\ pc'[g] = "seq" /\ calls' = calls
              /\ pos'[g] = Plus(t, N) /\ Others(g) /\ UNCHANGED <<head, tail, seq, arg, op>>
              /\ op[g] = "enqueue" /\ pc[g] = "load"
          BY <1>4, <1>5, <3>1 DEF Slots!LoadTail, Goto, Others
        <4> QED BY <1>5, <4>1, Zenon
      <3>2. CASE Slots!LoadHead(g) /\ impl = "MPMC"
        <4>1. /\ pc'[g] = "seq" /\ calls' = calls
              /\ pos'[g] = Plus(t, H) /\ Others(g) /\ UNCHANGED <<head, tail, seq, arg, op>>
              /\ op[g] = "dequeue" /\ pc[g] = "load"
          BY <1>4, <1>5, <3>2 DEF Slots!LoadHead, Goto, Others
        <4> QED BY <1>5, <3>2, <4>1, Zenon
      <3> QED BY <1>8, <3>1, <3>2
    <2>2. Claims(N, K)'
      <3>1. \A h \in Goroutine : Pending(h)' => Pending(h)
        BY <2>1 DEF Pending, Others
      <3> QED BY <1>1, <2>1, <3>1 DEF Shape, Claims
    <2>3. op'[g] = "dequeue" => x = H /\ (impl = "MPSC" => g = Consumer)
      BY <2>1
    <2>4. Shape(t, N, H, [M EXCEPT ![g] = x], P, F, K)'
      BY <1>1, <1>3, <2>1, <2>2, <2>3, Reload
    <2>5. x \in Nat
      BY <2>1
    <2> QED BY <1>8, <2>4, <2>5, LoadRefines
  <1>9. CASE \/ Slots!CompareForEnqueue(g)
             \/ (Slots!CompareForDequeue(g) /\ impl = "MPMC")
             \/ (Slots!ConsumerCompare(g) /\ impl = "MPSC")
    <2>1. /\ pc[g] = "seq" /\ \A h \in Goroutine \ {g} : pc'[h] = pc[h]
          /\ UNCHANGED <<calls, op, arg, pos, head, tail, seq>>
          /\ pc'[g] \in {"done", "load", "cas", "read"}
      BY <1>4, <1>9 DEF Slots!CompareForEnqueue, Slots!CompareForDequeue,
                        Slots!ConsumerCompare, Goto, Finish
    <2>2. /\ Busy(g) /\ ~Writer(g) /\ ~Reader(g)
          /\ pos[g] \in Word /\ At(t, M[g]) \in Index /\ seq[Idx(pos[g])] \in Word
          /\ pos[g] = Plus(t, M[g]) /\ Idx(pos[g]) = At(t, M[g]) /\ M[g] <= N
          /\ Plus(pos[g], 1) = Plus(t, M[g] + 1) /\ At(t, M[g] + 1) # At(t, M[g])
          /\ Plus(pos[g], 1) \in Word
      <3>1. Busy(g) /\ ~Writer(g) /\ ~Reader(g)
        BY <2>1 DEF Busy, Writer, Reader
      <3>2. At(t, M[g]) \in Index /\ Plus(Plus(t, M[g]), 1) = Plus(t, M[g] + 1)
            /\ At(t, M[g] + 1) # At(t, M[g])
        BY <1>3, Unwrapped
      <3>3. pos[g] \in Word
        BY <1>4
      <3> QED BY <1>4, <1>6, <3>1, <3>2, <3>3, WordFacts
    <2> DEFINE i == At(t, M[g])
    <2>3. /\ P[i] \in Nat /\ At(t, P[i]) = i /\ P[i] <= N + Size /\ (F[i] => P[i] < N)
          /\ seq[i] = Plus(t, IF F[i] THEN P[i] + 1 ELSE P[i]) /\ F[i] \in BOOLEAN
          /\ At(t, P[i] + 1) # At(t, P[i])
      BY <1>1, <1>3, <2>2, Unwrapped DEF Shape, Places
    <2>4. \A x, y \in 0 .. N + Size : Plus(t, x) = Plus(t, y) => x = y
      BY <1>3, Unwrapped
    <2> HIDE DEF i
    <2>5. seq[i] = Plus(t, M[g]) => ~F[i] /\ P[i] = M[g]
      <3> SUFFICES ASSUME seq[i] = Plus(t, M[g]) PROVE ~F[i] /\ P[i] = M[g]
        OBVIOUS
      <3>1. (IF F[i] THEN P[i] + 1 ELSE P[i]) = M[g]
        <4>1. (IF F[i] THEN P[i] + 1 ELSE P[i]) \in 0 .. N + Size /\ M[g] \in 0 .. N + Size
          BY <1>2, <2>2, <2>3
        <4> QED BY <2>3, <2>4, <4>1
      <3>2. ~F[i]
        BY <2>3, <3>1 DEF i
      <3> QED BY <3>1, <3>2
    <2>6. seq[i] = Plus(t, M[g] + 1) => F[i] /\ P[i] = M[g]
      <3> SUFFICES ASSUME seq[i] = Plus(t, M[g] + 1) PROVE F[i] /\ P[i] = M[g]
        OBVIOUS
      <3>1. (IF F[i] THEN P[i] + 1 ELSE P[i]) = M[g] + 1
        <4>1. /\ (IF F[i] THEN P[i] + 1 ELSE P[i]) \in 0 .. N + Size
              /\ M[g] + 1 \in 0 .. N + Size
          BY <1>2, <2>2, <2>3
        <4> QED BY <2>3, <2>4, <4>1
      <3>2. F[i]
        BY <2>2, <2>3, <3>1 DEF i
      <3> QED BY <2>3, <3>1, <3>2
    <2>7. pc'[g] = "cas" =>
            /\ op[g] = "enqueue" => ~F[i] /\ P[i] = M[g]
            /\ op[g] = "dequeue" => F[i] /\ P[i] = M[g]
      <3>1. ASSUME pc'[g] = "cas", op[g] = "enqueue" PROVE seq[i] = Plus(t, M[g])
        <4>1. Diff(seq[Idx(pos[g])], pos[g]) = 0
          BY <1>4, <1>9, <3>1 DEF Slots!CompareForEnqueue, Slots!CompareForDequeue,
                            Slots!ConsumerCompare, Goto, Finish
        <4> QED BY <2>2, <4>1, DiffZero DEF i
      <3>2. ASSUME pc'[g] = "cas", op[g] = "dequeue" PROVE seq[i] = Plus(t, M[g] + 1)
        <4>1. Diff(seq[Idx(pos[g])], Plus(pos[g], 1)) = 0
          BY <1>4, <1>9, <3>2 DEF Slots!CompareForEnqueue, Slots!CompareForDequeue,
                            Slots!ConsumerCompare, Goto, Finish
        <4> QED BY <2>2, <4>1, DiffZero DEF i
      <3> QED BY <2>5, <2>6, <3>1, <3>2
    <2>8. pc'[g] = "read" => /\ impl = "MPSC" /\ g = Consumer /\ M[g] = H
                             /\ F[i] /\ P[i] = M[g]
      <3> SUFFICES ASSUME pc'[g] = "read"
                   PROVE  impl = "MPSC" /\ g = Consumer /\ M[g] = H /\ F[i] /\ P[i] = M[g]
        OBVIOUS
      <3>1. impl = "MPSC" /\ op[g] = "dequeue" /\ seq[Idx(pos[g])] = Plus(pos[g], 1)
        BY <1>4, <1>9 DEF Slots!CompareForEnqueue, Slots!CompareForDequeue,
                          Slots!ConsumerCompare, Goto, Finish
      <3>2. g = Consumer /\ M[g] = H
        BY <1>1, <2>1, <2>2, <3>1 DEF Shape, Dequeuers
      <3>3. seq[i] = Plus(t, M[g] + 1)
        BY <2>2, <3>1 DEF i
      <3> QED BY <2>6, <3>1, <3>2, <3>3
    <2>9. /\ Busy(g)' => Busy(g)
          /\ Pending(g)' => Pending(g)
          /\ pc'[g] # "seq"
          /\ Writer(g)' => Writer(g)
          /\ Reader(g)' => pc'[g] = "read"
      BY <2>1, <2>2 DEF Busy, Pending, Writer, Reader
    <2>10. Shape(t, N, H, M, P, F, K)'
      BY <1>1, <1>3, <2>1, <2>7, <2>8, <2>9, Move DEF i
    <2>11. pc'[g] = "read" => F[At(t, M[g])] /\ P[At(t, M[g])] = M[g] /\ M[g] = H
      BY <2>8 DEF i
    <2> QED BY <1>9, <2>10, <2>11, CompareRefines
  <1>10. CASE Slots!ClaimTail(g)
    <2>1. /\ op[g] = "enqueue" /\ pc[g] = "cas" /\ Others(g)
          /\ UNCHANGED <<calls, op, arg, pos, head, seq>>
          /\ \/ tail = pos[g] /\ pc'[g] = "write" /\ tail' = Plus(tail, 1)
             \/ pc'[g] = "load" /\ tail' = tail
      BY <1>4, <1>10 DEF Slots!ClaimTail, Goto, Others
    <2>2. CASE tail = pos[g] /\ pc'[g] = "write" /\ tail' = Plus(tail, 1)
      <3>1. Shape(t, N + 1, H, M, P, F, K \cup {arg[g]})'
        BY <1>1, <1>3, <2>1, <2>2, TailClaimed
      <3>2. TailClaim(t, N, H, M, P, F, K, g)
        BY <1>4, <1>10, <2>2, <3>1 DEF TailClaim, Slots!ClaimTail, Goto
      <3> QED BY <3>2, ClaimTailRefines
    <2>3. CASE pc'[g] = "load" /\ tail' = tail
      <3>1. /\ Busy(g)' => Busy(g)
            /\ Pending(g)' => Pending(g)
            /\ pc'[g] # "seq" /\ pc'[g] # "cas" /\ ~Writer(g)' /\ ~Reader(g)'
            /\ \A h \in Goroutine \ {g} : pc'[h] = pc[h]
        BY <2>1, <2>3 DEF Busy, Pending, Writer, Reader, Others
      <3>2. Shape(t, N, H, M, P, F, K)'
        BY <1>1, <1>3, <2>1, <2>3, <3>1, Move
      <3>3. Goto(g, "cas", "load") /\ UNCHANGED <<val, pos>>
        BY <1>4, <1>10, <2>3 DEF Slots!ClaimTail, Goto
      <3> QED BY <3>2, <3>3, RetryRefines
    <2> QED BY <2>1, <2>2, <2>3
  <1>11. CASE Slots!ClaimHead(g) /\ impl = "MPMC"
    <2>1. /\ op[g] = "dequeue" /\ pc[g] = "cas" /\ Others(g)
          /\ UNCHANGED <<calls, op, arg, pos, tail, seq>>
          /\ \/ head = pos[g] /\ pc'[g] = "read" /\ head' = Plus(head, 1)
             \/ pc'[g] = "load" /\ head' = head
      BY <1>4, <1>11 DEF Slots!ClaimHead, Goto, Others
    <2>2. CASE head = pos[g] /\ pc'[g] = "read" /\ head' = Plus(head, 1)
      <3>1. Shape(t, N, H + 1, M, P, F, K)'
        BY <1>1, <1>3, <1>11, <2>1, <2>2, HeadClaimed
      <3>2. Goto(g, "cas", "read") /\ UNCHANGED <<val, tail, pos, seq>>
        BY <1>4, <1>11, <2>2 DEF Slots!ClaimHead, Goto
      <3> QED BY <1>11, <2>1, <2>2, <3>1, <3>2, ClaimHeadRefines
    <2>3. CASE pc'[g] = "load" /\ head' = head
      <3>1. /\ Busy(g)' => Busy(g)
            /\ Pending(g)' => Pending(g)
            /\ pc'[g] # "seq" /\ pc'[g] # "cas" /\ ~Writer(g)' /\ ~Reader(g)'
            /\ \A h \in Goroutine \ {g} : pc'[h] = pc[h]
        BY <2>1, <2>3 DEF Busy, Pending, Writer, Reader, Others
      <3>2. Shape(t, N, H, M, P, F, K)'
        BY <1>1, <1>3, <2>1, <2>3, <3>1, Move
      <3>3. Goto(g, "cas", "load") /\ UNCHANGED <<val, pos>>
        BY <1>4, <1>11, <2>3 DEF Slots!ClaimHead, Goto
      <3> QED BY <3>2, <3>3, RetryRefines
    <2> QED BY <2>1, <2>2, <2>3
  <1>12. CASE Slots!Write(g) \/ (Slots!Read(g) /\ impl = "MPMC") \/ Slots!Return(g)
    <2>1. /\ \A h \in Goroutine \ {g} : pc'[h] = pc[h]
          /\ UNCHANGED <<calls, op, arg, pos, head, tail, seq>>
          /\ \/ pc[g] = "write" /\ pc'[g] = "publish"
             \/ pc[g] = "read" /\ pc'[g] = "release"
             \/ pc[g] = "done" /\ pc'[g] = "idle"
      <3>1. CASE Slots!Write(g)
        BY <1>4, <3>1 DEF Slots!Write, Goto
      <3>2. CASE Slots!Read(g)
        BY <1>4, <3>2 DEF Slots!Read
      <3>3. CASE Slots!Return(g)
        BY <1>4, <3>3 DEF Slots!Return, Leave
      <3> QED BY <1>12, <3>1, <3>2, <3>3
    <2>2. /\ Busy(g)' => Busy(g)
          /\ Pending(g)' => Pending(g)
          /\ pc'[g] # "seq" /\ pc'[g] # "cas"
          /\ Writer(g)' => Writer(g)
          /\ Reader(g)' => Reader(g) /\ pc'[g] # "read"
      BY <2>1 DEF Busy, Pending, Writer, Reader
    <2>3. Shape(t, N, H, M, P, F, K)'
      BY <1>1, <1>3, <2>1, <2>2, Move
    <2> QED BY <1>12, <2>3, WriteRefines, ReadRefines, ReturnRefines
  <1>13. CASE Slots!Publish(g)
    <2>1. /\ pc[g] = "publish" /\ pc'[g] = "done" /\ Others(g)
          /\ UNCHANGED <<calls, op, arg, pos, head, tail>>
          /\ seq' = [seq EXCEPT ![Idx(pos[g])] = Plus(pos[g], 1)]
      <3>1. Slots!Finish(g, "publish", Slots!Yes) /\ UNCHANGED <<val, head, tail, pos>>
        BY <1>13 DEF Slots!Publish
      <3>2. seq' = [seq EXCEPT ![Idx(pos[g])] = Plus(pos[g], 1)]
        BY <1>13 DEF Slots!Publish
      <3>3. Finish(g, "publish", Slots!Yes)
        BY <3>1
      <3> QED BY <1>4, <3>1, <3>2, <3>3 DEF Finish, Others
    <2>2. Shape(t, N, H, M, P, [F EXCEPT ![At(t, M[g])] = TRUE], K)'
      BY <1>1, <1>3, <2>1, Published
    <2> DEFINE E == [F EXCEPT ![At(t, M[g])] = TRUE]
    <2>3. Fills(t, M, F, E, g) /\ Publishes(t, N, H, M, P, E, K, g)
      BY <1>13, <2>2 DEF Fills, Publishes
    <2> HIDE DEF E
    <2> QED BY <2>3, PublishRefines
  <1>14. CASE Slots!Release(g)
    <2>1. /\ pc[g] = "release" /\ pc'[g] = "done" /\ Others(g)
          /\ UNCHANGED <<calls, op, arg, pos, head, tail>>
          /\ seq' = [seq EXCEPT ![Idx(pos[g])] = Plus(pos[g], Size)]
      <3>1. Slots!Finish(g, "release", ret[g]) /\ UNCHANGED <<val, head, tail, pos>>
        BY <1>14 DEF Slots!Release
      <3>2. seq' = [seq EXCEPT ![Idx(pos[g])] = Plus(pos[g], Size)]
        BY <1>14 DEF Slots!Release
      <3>3. Finish(g, "release", ret[g])
        BY <3>1
      <3> QED BY <1>4, <3>1, <3>2, <3>3 DEF Finish, Others
    <2>2. impl \in {"MPMC", "MPSC"}
      OBVIOUS
    <2>3. Shape(t, N, H, M, [P EXCEPT ![At(t, M[g])] = M[g] + Size],
                [F EXCEPT ![At(t, M[g])] = FALSE], K)'
      BY <1>1, <1>3, <2>1, <2>2, Released
    <2> DEFINE Q == [P EXCEPT ![At(t, M[g])] = M[g] + Size]
               E == [F EXCEPT ![At(t, M[g])] = FALSE]
    <2>4. Releases(t, N, H, M, P, F, Q, E, K, g)
      BY <1>14, <2>3 DEF Releases, Hands
    <2> HIDE DEF Q, E
    <2> QED BY <2>4, ReleaseRefines
  <1>15. CASE Slots!ConsumerRead(g) /\ impl = "MPSC"
    <2>1. /\ pc[g] = "read" /\ pc'[g] = "release" /\ Others(g)
          /\ UNCHANGED <<calls, op, arg, pos, tail, seq>> /\ head' = Plus(head, 1)
      BY <1>4, <1>15 DEF Slots!ConsumerRead, Others
    <2>2. Shape(t, N, H + 1, M, P, F, K)'
      BY <1>1, <1>3, <1>15, <2>1, HeadTaken
    <2> QED BY <1>15, <2>2, ConsumerReadRefines
  <1> QED BY <1>7, <1>8, <1>9, <1>10, <1>11, <1>12, <1>13, <1>14, <1>15
             DEF Slots!MPMCCall, Slots!MPMCWork, Slots!MPSCCall, Slots!MPSCWork,
                 Slots!Enqueuing

-----------------------------------------------------------------------------
(* The ring is empty at the start. *)
LEMMA RingStart ==
  ASSUME Init, impl \in {"MPMC", "MPSC"}, Size > 1, MaxCalls + Size < Modulus
  PROVE  RingInv /\ TheLine = <<>>
  <1>1. /\ head \in Word /\ tail = head /\ calls = 0
        /\ pc = [g \in Goroutine |-> "idle"]
        /\ seq = [i \in Index |-> Plus(head, (i - head) % Size)] /\ impl \in {"MPMC", "MPSC"}
    BY RingAssumption, SlotsCopies, SlotsWords
       DEF Init, Slots!Init, RingInit, ClientInit, Word
  <1> DEFINE P == [i \in Index |-> (i - head) % Size]
             M == [g \in Goroutine |-> 0]
             F == [i \in Index |-> FALSE]
             A == [n \in Nat |-> 0]
  <1>2. ASSUME NEW i \in Index
        PROVE  P[i] \in Nat /\ P[i] < Size /\ At(head, P[i]) = i
    <2>1. /\ Size \in Nat \ {0} /\ i \in Int /\ head \in Nat /\ i - head \in Int
          /\ i \in 0 .. Size - 1
      BY <1>1, WordFacts DEF Index
    <2> DEFINE r == (i - head) % Size
    <2>2. r \in 0 .. Size - 1
      BY <2>1, DivFacts
    <2>3. (((i - head) % Size) + head) % Size = ((i - head) + head) % Size
      <3>1. \A a, b \in Int : ((a % Size) + b) % Size = (a + b) % Size
        BY <2>1, ModSum
      <3>2. head \in Int
        BY <2>1
      <3> QED BY <2>1, <3>1, <3>2, Zenon
    <2>4. (r + head) % Size = i % Size
      <3>1. (i - head) + head = i
        BY <2>1
      <3> QED BY <2>3, <3>1
    <2>5. P[i] = r
      OBVIOUS
    <2> HIDE DEF r, P
    <2>6. r \in Nat /\ r < Size /\ r + head = head + r
      BY <2>1, <2>2
    <2>7. At(head, r) = (head + r) % Size
      BY <2>1, <2>6, IdxPlus DEF At
    <2>8. i % Size = i
      BY <2>1, ModSmall
    <2> QED BY <2>4, <2>5, <2>6, <2>7, <2>8
  <1>3. P \in [Index -> Nat] /\ seq = [i \in Index |-> Plus(head, P[i])]
    BY <1>1, <1>2
  <1> HIDE DEF P
  <1>4. Plus(head, 0) = head
    BY <1>1, PlusZero
  <1>5. Counts(head, 0, 0, M, P, F)
    BY <1>1, <1>3, <1>4 DEF Counts
  <1>6. Claims(0, {})
    BY <1>1, FS_EmptySet DEF Claims, Pending
  <1>7. Places(head, 0, P, F)
    BY <1>2, <1>3, WordFacts DEF Places
  <1>8. Positions(head, 0, M) /\ Users(head, 0, M, P, F) /\ Apart(M)
        /\ Dequeuers(head, 0, M, P, F)
    BY <1>1 DEF Positions, Users, Apart, Dequeuers, Busy, Writer, Reader
  <1>9. Shape(head, 0, 0, M, P, F, {})
    BY <1>5, <1>6, <1>7, <1>8 DEF Shape
  <1>10. calls <= MaxCalls /\ Types /\ Quiet
    BY <1>1, MaxCallsAssumption, TypesStart, QuietStart
  <1>11. Values(head, 0, 0, M, P, F, {}, A)
    <2>1. Numbered(0, {}, A) /\ Known(head, 0, M, A) /\ Awaited(head, 0, 0, M, P, F)
      BY <1>1 DEF Numbered, Known, Awaited, Writer
    <2>2. Held(0, M, P, F, A)
      BY <1>2, WordFacts DEF Held
    <2> QED BY <2>1, <2>2 DEF Values
  <1>12. Ring(head, 0, 0, M, P, F, {}, A)
    BY <1>1, <1>9, <1>10, <1>11 DEF Ring
  <1>13. /\ head \in Word /\ M \in [Goroutine -> Nat] /\ F \in [Index -> BOOLEAN]
         /\ A \in [Nat -> Nat] /\ {} \in SUBSET Nat /\ 0 \in Nat
    BY <1>1
  <1> HIDE DEF M, F, A
  <1>14. RingInv
    BY <1>3, <1>12, <1>13 DEF RingInv
  <1>15. TheLine = <<>>
    <2>1. TheLine = RingLine(head, 0, 0, P, F, A)
      BY <1>12, RingBases
    <2>2. RingLine(head, 0, 0, P, F, A) \in [1 .. 0 -> Entries]
      BY DEF RingLine
    <2> QED BY <2>1, <2>2, LineEmpty
  <1> QED BY <1>14, <1>15

(* A step that changes nothing. *)
LEMMA RingStutters ==
  ASSUME RingInv, Types', UNCHANGED vars
  PROVE  RingInv'
  <1> SUFFICES ASSUME impl' \in {"MPMC", "MPSC"} PROVE RingInv'
    BY DEF RingInv
  <1>1. UNCHANGED <<pc, calls, op, arg, ret, val, head, tail, pos, seq, impl>>
    BY DEF vars, clientVars, ringVars
  <1>2. PICK t \in Word, N \in Nat, H \in Nat, M \in [Goroutine -> Nat],
             P \in [Index -> Nat], F \in [Index -> BOOLEAN], K \in SUBSET Nat,
             A \in [Nat -> Nat] : Ring(t, N, H, M, P, F, K, A)
    BY <1>1 DEF RingInv
  <1>3. Shape(t, N, H, M, P, F, K)'
    BY <1>1, <1>2
       DEF Ring, Shape, Counts, Claims, Places, Positions, Users, Apart, Dequeuers,
           Busy, Writer, Reader, Pending
  <1>4. Values(t, N, H, M, P, F, K, A)'
    <2>1. Values(t, N, H, M, P, F, K, A)
      BY <1>2 DEF Ring
    <2>2. Numbered(N, K, A)'
      BY <2>1 DEF Values, Numbered
    <2>3. Held(H, M, P, F, A)'
      BY <1>1, <2>1 DEF Values, Held, Reader
    <2>4. Awaited(t, N, H, M, P, F)'
      BY <1>1, <2>1 DEF Values, Awaited, Writer, Filled, At, Plus, Idx
    <2>5. Known(t, H, M, A)'
      BY <1>1, <2>1 DEF Values, Known, Writer, At, Plus, Idx
    <2> QED BY <2>2, <2>3, <2>4, <2>5 DEF Values
  <1>5. Quiet' /\ calls' <= MaxCalls /\ impl' \in {"MPMC", "MPSC"}
    BY <1>1, <1>2 DEF Ring, Quiet
  <1>6. Ring(t, N, H, M, P, F, K, A)'
    BY <1>3, <1>4, <1>5 DEF Ring
  <1> QED BY <1>6, RingSuffices

(* The inductive invariant of all the queues. *)
QueueInv ==
  /\ Types /\ Quiet /\ calls <= MaxCalls
  /\ SPSCInv /\ StrictInv /\ RingInv

LEMMA QueueInvStart ==
  ASSUME Size > 1, MaxCalls + Size < Modulus, Init
  PROVE  QueueInv
  <1>1. calls <= MaxCalls
    BY MaxCallsAssumption, SlotsCopies DEF Init, Slots!Init, ClientInit
  <1>2. RingInv
    BY RingStart DEF RingInv
  <1> QED BY <1>1, <1>2, TypesStart, QuietStart, WindowStart, StrictStart DEF QueueInv

(* It is kept by every step, and every step is one of AbstractQueue. *)
LEMMA QueueInvStep ==
  ASSUME Size > 1, MaxCalls + Size < Modulus, QueueInv, [Next]_vars
  PROVE  QueueInv' /\ (MaxCalls + Size <= Modulus \div 2 => AbstractStep)
  <1>1. Types' /\ SPSCInv'
    BY TypesStep, SPSCInvStep DEF QueueInv
  <1>2. CASE UNCHANGED vars
    <2>1. UNCHANGED <<pc, calls, op, arg, ret, val, head, tail, pos, seq, impl>>
      BY <1>2 DEF vars, clientVars, ringVars
    <2>2. RingInv'
      BY <1>1, <1>2, RingStutters DEF QueueInv
    <2>3. Quiet' /\ calls' <= MaxCalls /\ StrictInv'
      BY <2>1 DEF QueueInv, Quiet, StrictInv
    <2>4. AbstractStep
      <3>1. UNCHANGED <<impl, calls, arg>>
        BY <2>1
      <3>2. TheLine' = TheLine
        BY <2>1, SlotsWords, StrictWords
           DEF TheLine, Slots!Line, Slots!Entry, Slots!InSlot, Strict!Line
      <3>3. TheStatus' = TheStatus /\ TheRet' = TheRet
        BY <2>1, SlotsWords, StrictWords
           DEF TheStatus, TheRet, Slots!Status, Slots!Consuming, Slots!Result,
               Strict!Status, Strict!Result
      <3> QED BY <3>1, <3>2, <3>3, AbstractNothing
    <2> QED BY <1>1, <2>2, <2>3, <2>4 DEF QueueInv
  <1>3. ASSUME NEW g \in Goroutine, Call(g) \/ Work(g)
        PROVE  QueueInv' /\ (MaxCalls + Size <= Modulus \div 2 => AbstractStep)
    <2>1. UNCHANGED impl
      BY <1>3 DEF Call, Work, Uses
    <2>2. CASE \/ impl = "MPMC" /\ (Slots!MPMCCall(g) \/ Slots!MPMCWork(g))
               \/ impl = "MPSC" /\ (Slots!MPSCCall(g) \/ Slots!MPSCWork(g))
      <3>1. PICK t \in Word, N \in Nat, H \in Nat, M \in [Goroutine -> Nat],
                 P \in [Index -> Nat], F \in [Index -> BOOLEAN], K \in SUBSET Nat,
                 A \in [Nat -> Nat] : Ring(t, N, H, M, P, F, K, A)
        BY <2>2 DEF QueueInv, RingInv
      <3>2. RingInv' /\ (MaxCalls + Size <= Modulus \div 2 => AbstractStep)
        BY <1>1, <2>1, <2>2, <3>1, RingStep
      <3>3. impl' \in {"MPMC", "MPSC"}
        BY <2>1, <2>2
      <3>4. Quiet' /\ calls' <= MaxCalls
        BY <3>2, <3>3 DEF RingInv, Ring
      <3>5. StrictInv'
        BY <3>3 DEF StrictInv
      <3> QED BY <1>1, <3>2, <3>4, <3>5 DEF QueueInv
    <2>3. CASE /\ impl \in {"SPSC", "Mutex"}
               /\ impl = "SPSC" => Strict!SPSCCall(g) \/ Strict!SPSCWork(g)
               /\ impl = "Mutex" => Strict!MutexCall(g) \/ Strict!MutexWork(g)
      <3>1. calls' <= MaxCalls
        BY <2>3, CallsBounded DEF QueueInv
      <3>2. AbstractStep /\ StrictInv' /\ Quiet'
        <4>1. CASE impl = "SPSC"
          BY <1>1, <2>1, <2>3, <4>1, SPSCRefines DEF QueueInv
        <4>2. CASE impl = "Mutex"
          BY <1>1, <2>1, <2>3, <4>2, MutexRefines DEF QueueInv
        <4> QED BY <2>3, <4>1, <4>2
      <3>3. RingInv'
        BY <2>1, <2>3 DEF RingInv
      <3> QED BY <1>1, <3>1, <3>2, <3>3 DEF QueueInv
    <2> QED BY <1>3, <2>2, <2>3 DEF Call, Work, Uses
  <1> QED BY <1>2, <1>3 DEF Next

LEMMA QueueInvariant ==
  ASSUME Size > 1, MaxCalls + Size < Modulus
  PROVE  Spec => []QueueInv
  <1>1. QueueInv /\ [Next]_vars => QueueInv'
    BY QueueInvStep
  <1> QED BY <1>1, QueueInvStart, PTL DEF Spec

(* No data race on a place of a ring: the claim by CompareAndSwap and the  *)
(* hand-over by slot.seq, or the two sides' distance in an SPSC queue,     *)
(* keep every other goroutine from a place while one uses it               *)
(* (queue/*.go).  The ring has at least two places, and the calls of the   *)
(* behaviour do not exhaust the words: with one place a published and a    *)
(* released sequence number would be the same, and a goroutine asleep for  *)
(* 2^64 calls would take the position it has loaded for a fresh one.       *)
THEOREM NoSharedPlace ==
  ASSUME Size > 1, MaxCalls + Size < Modulus
  PROVE  Spec => []PlaceExclusive
  <1>1. QueueInv => PlaceExclusive
    <2> SUFFICES ASSUME QueueInv PROVE PlaceExclusive
      OBVIOUS
    <2>1. CASE impl \in {"MPMC", "MPSC"}
      BY <2>1, ShapeExclusive DEF QueueInv, RingInv, Ring, PlaceExclusive
    <2>2. CASE impl = "SPSC"
      BY <2>2, WindowExclusive DEF QueueInv, PlaceExclusive
    <2> QED BY <2>1, <2>2 DEF PlaceExclusive
  <1> QED BY <1>1, QueueInvariant, PTL

(* The queues start empty and with no calls, as AbstractQueue does. *)
LEMMA AbstractStart ==
  ASSUME Size > 1, MaxCalls + Size < Modulus, Init
  PROVE  Abstract!Init
  <1>1. /\ pc = [g \in Goroutine |-> "idle"] /\ ret = [g \in Goroutine |-> No]
        /\ calls = 0 /\ arg = [g \in Goroutine |-> 0] /\ impl \in Impl
        /\ head \in Word /\ tail = head
    BY RingAssumption, SlotsCopies
       DEF Init, Slots!Init, RingInit, ClientInit, No, None, Word, zero
  <1>2. TheLine = <<>>
    <2>1. CASE impl \in {"MPMC", "MPSC"}
      BY <2>1, RingStart
    <2>2. CASE impl \in {"SPSC", "Mutex"}
      <3>1. tail = Plus(head, 0) /\ 0 \in 0 .. Size /\ IsStrict
        BY <1>1, <2>2, PlusZero, WordFacts DEF IsStrict
      <3>2. TheLine = LineOf(val, head, 0)
        BY <1>1, <3>1, TheStrictLine
      <3>3. LineOf(val, head, 0) \in [1 .. 0 -> Entries]
        BY DEF LineOf
      <3> QED BY <3>2, <3>3, LineEmpty
    <2> QED BY <1>1, <2>1, <2>2 DEF Impl
  <1>3. TheStatus = [g \in Goroutine |-> "idle"] /\ TheRet = [g \in Goroutine |-> No]
    <2>1. /\ TheStatus = [g \in Goroutine |-> StatusOf(g)]
          /\ TheRet = [g \in Goroutine |-> RetOf(g)]
      BY <1>1, Mapped
    <2> QED BY <1>1, <2>1 DEF StatusOf, RetOf
  <1>4. (impl \in {"SPSC", "Mutex"}) \in BOOLEAN
    OBVIOUS
  <1>5. (IF impl \in {"MPMC", "MPSC"} THEN Slots!Line ELSE Strict!Line) = <<>>
    BY <1>2 DEF TheLine
  <1>6. (CASE impl = "MPMC"  -> Slots!Status
           [] impl = "MPSC"  -> Slots!Consuming
           [] OTHER          -> Strict!Status) = [g \in Goroutine |-> "idle"]
    BY <1>3 DEF TheStatus
  <1>7. (CASE impl = "MPMC"  -> Slots!Result
           [] impl = "SPSC"  -> Strict!Result
           [] OTHER          -> ret) = [g \in Goroutine |-> No]
    BY <1>3 DEF TheRet
  <1>8. No = Abstract!No
    BY DEF No, Abstract!No, zero
  <1> QED BY <1>1, <1>4, <1>5, <1>6, <1>7, <1>8, Zenon DEF Abstract!Init

(* Every queue implements AbstractQueue (queue/*.go): values leave in the  *)
(* order they entered, each once; a mutex or SPSC queue answers full or    *)
(* empty only when it is; a sequence-numbered ring also answers empty      *)
(* while its head is claimed and not yet published, and full while a       *)
(* Dequeue is leaving its place. The calls and the ring take up at most    *)
(* half the words, because Enqueue and Dequeue compare a sequence number   *)
(* with a position by the sign of int64(seq - pos).                        *)
THEOREM QueuesImplement ==
  ASSUME Size > 1, MaxCalls + Size <= Modulus \div 2
  PROVE  Spec => ImplementsQueue
  <1>1. MaxCalls + Size < Modulus
    <2>1. MaxCalls \in Nat /\ Size \in Nat /\ Modulus \in Nat \ {0}
      BY MaxCallsAssumption, WordFacts
    <2>2. Modulus \div 2 < Modulus
      BY <2>1, DivFacts
    <2> QED BY <2>1, <2>2
  <1>2. Init => Abstract!Init
    BY <1>1, AbstractStart
  <1>3. QueueInv /\ [Next]_vars => [Abstract!Next]_(Abstract!vars)
    BY <1>1, QueueInvStep DEF AbstractStep
  <1>4. Spec => []QueueInv
    BY <1>1, QueueInvariant
  <1> QED BY <1>2, <1>3, <1>4, PTL DEF Spec, ImplementsQueue, Abstract!Spec
=============================================================================
