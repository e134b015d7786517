---------------------------- MODULE Cells_proofs ----------------------------
(***************************************************************************)
(* Proofs about the words read without a lock, the LRU cache and the token *)
(* bucket, for any goroutines, keys and values, and every bound.           *)
(***************************************************************************)
EXTENDS MCCells, FiniteSetTheorems, SequenceTheorems, TLAPS

-----------------------------------------------------------------------------
(* Words read without a lock *)

Building(g) == pc[g] \in {"first", "second"}
Writing(g)  == pc[g] \in {"first", "second", "publish"}
Inside(g)  == Writing(g) \/ pc[g] \in {"enter", "unlock"}
Reading(g) == pc[g] \in {"read", "reread", "validate"}

(* The value published last, 0 before there is one.                        *)
Current == IF published = <<>> THEN 0 ELSE published[Len(published)]
Holds(words, x) == words[1] = x /\ words[2] = x
(* How far the words g writes have got.                                    *)
Half(g, words) ==
  /\ pc[g] = "second" => words[1] = val[g]
  /\ pc[g] = "publish" => Holds(words, val[g])
(* How far the snapshot g takes of the value x has got.                    *)
Snapped(g, x) ==
  /\ pc[g] = "reread" => snap[g][1] = x
  /\ pc[g] = "validate" => Holds(snap[g], x)

WritersHaveNumbers ==
  \A g \in Goroutine : /\ Inside(g) \/ pc[g] = "lock"
                            => \/ val[g] # 0
                               \/ cell = "PublishedPointer" /\ pc[g] = "publish"
                       /\ pc[g] \in {"lock", "enter", "unlock"} => cell = "SeqLock"

(* The mutex makes the writers one at a time; seq counts their entrances   *)
(* and exits, and a reader's words are those of the value it began with    *)
(* for as long as seq has not moved.                                       *)
OneWriter ==
  /\ \A g \in Goroutine : Inside(g) => writerMu
  /\ \A g, h \in Goroutine : Inside(g) /\ Inside(h) => g = h
Counted ==
  /\ seq \in {2 * Len(published), 2 * Len(published) + 1}
  /\ \A g \in Goroutine : Writing(g) => seq # 2 * Len(published)
  /\ seq # 2 * Len(published) => \E g \in Goroutine : Writing(g)
Written ==
  /\ seq = 2 * Len(published) => Holds(mem[0], Current)
  /\ \A g \in Goroutine : Half(g, mem[0])
Loaded ==
  \A g \in Goroutine :
    Reading(g) => /\ start[g] <= seq
                  /\ ~bracketed[g] => ~Words!Odd(start[g])
                  /\ start[g] = seq /\ seq = 2 * Len(published)
                       => Snapped(g, Current)
SeqLockInv ==
  /\ \A g \in Goroutine : addr[g] = 0
  /\ OneWriter /\ Counted /\ Written /\ Loaded

(* The only writer is done with the data when it sets the flag.            *)
WrittenOnce ==
  /\ writes = 0 \/ writes = 1
  /\ writes = 0 => ~ready
  /\ ready <=> published # <<>>
  /\ \A i \in DOMAIN published : published[i] # 0
  /\ \A g \in Goroutine : Writing(g) => writes = 1 /\ ~ready
  /\ \A g, h \in Goroutine : Writing(g) /\ Writing(h) => g = h
FlagWords ==
  /\ ready => Holds(mem[0], Current)
  /\ \A g \in Goroutine : Half(g, mem[0])
FlagReaders ==
  \A g \in Goroutine : Reading(g) => ready /\ Snapped(g, Current)
ReadyFlagInv ==
  /\ \A g \in Goroutine : addr[g] = 0
  /\ WrittenOnce /\ FlagWords /\ FlagReaders

(* A struct is written by the one goroutine that builds it, before anybody *)
(* publishes it, so every published one is complete.  mem[0], which nil    *)
(* does not have, counts as complete; no reader gets that far.             *)
OwnStruct ==
  /\ \A g \in Goroutine : Writing(g) => addr[g] = val[g]
  /\ \A g \in Goroutine :
       Building(g) => \A i \in DOMAIN published : published[i] # val[g]
  /\ \A g, h \in Goroutine :
       Building(g) /\ Writing(h) /\ val[g] = val[h] => g = h
Complete ==
  /\ Holds(mem[0], 0)
  /\ \A i \in DOMAIN published : Holds(mem[published[i]], published[i])
  /\ \A g \in Goroutine : Half(g, mem[val[g]])
(* A reader has the address of one published no earlier than the last      *)
(* before its call.                                                        *)
Addressed(g) ==
  /\ addr[g] # 0
  /\ \E i \in DOMAIN published : since[g] <= i /\ published[i] = addr[g]
PointerReaders ==
  \A g \in Goroutine : Reading(g) => Addressed(g) /\ Snapped(g, addr[g])
PointerInv == p = Current /\ OwnStruct /\ Complete /\ PointerReaders

WordsInv ==
  /\ Words!TypeOK
  /\ WritersHaveNumbers
  /\ cell = "SeqLock" => SeqLockInv
  /\ cell = "ReadyFlag" => ReadyFlagInv
  /\ cell = "PublishedPointer" => PointerInv
-----------------------------------------------------------------------------
(* The LRU and the bucket *)

Pointers == [LRU!Node -> [prev : LRU!Node \cup {Nil}, next : LRU!Node \cup {Nil}]]
Once(s)  == \A i, j \in DOMAIN s : s[i] = s[j] => i = j
(* The nodes of l are the keys of C, each once, in the order of s.         *)
Mirrors(l, C, s) ==
  /\ l \in Pointers /\ s \in Seq(Key) /\ Once(s) /\ LRU!Linked(l, s)
  /\ C = {s[i] : i \in DOMAIN s}
  /\ IsFiniteSet(C) /\ Len(s) = Cardinality(C)

LRUInv ==
  /\ LRU!TypeOK /\ Mirrors(list, cache, recency)
  /\ Len(recency) <= lruCap
  /\ \A k \in cache : lruVal[k] = last[k]

(* The bucket's invariant also holds while it is not in use, in the        *)
(* initial state it then stays in.                                         *)
BucketInv == Bucket!TypeOK /\ Bucket!AsIfEager

Inv == WordsInv /\ LRUInv /\ BucketInv
-----------------------------------------------------------------------------
LEMMA PublishNext ==
  ASSUME NEW n \in Nat, NEW s \in Seq(0 .. n), NEW x \in 0 .. n
  PROVE  /\ Append(s, x) \in Seq(0 .. n)
         /\ Append(s, x) # <<>>
         /\ Len(s) \in Nat /\ Len(Append(s, x)) = Len(s) + 1
         /\ DOMAIN s = 1 .. Len(s) /\ DOMAIN Append(s, x) = 1 .. Len(s) + 1
         /\ \A i \in DOMAIN s : Append(s, x)[i] = s[i]
         /\ Append(s, x)[Len(s) + 1] = x
  BY AppendProperties

(* Numbers given to writes stay the numbers of writes.                     *)
LEMMA MoreWrites ==
  ASSUME NEW n \in Nat, NEW s \in Seq(0 .. n)
  PROVE  s \in Seq(0 .. n + 1)
  BY SeqDef

LEMMA Bounds == {MaxWrites, MaxReads} \subseteq Nat
  BY CellsAssumption

LEMMA WordsFacts ==
  ASSUME Words!TypeOK
  PROVE  /\ Len(published) \in Nat /\ seq \in Nat /\ writes \in Nat
         /\ DOMAIN published = 1 .. Len(published)
         /\ \A h \in Goroutine : start[h] \in Nat /\ bracketed[h] \in BOOLEAN
         /\ writes <= MaxWrites /\ \A h \in Goroutine : val[h] \in 0 .. MaxWrites
  <1>1. published \in Seq(0 .. writes)
    BY DEF Words!TypeOK
  <1>2. Len(published) \in Nat /\ DOMAIN published = 1 .. Len(published)
    BY <1>1
  <1>3. seq \in Nat /\ writes \in Nat
    BY Bounds DEF Words!TypeOK
  <1>4. \A h \in Goroutine : start[h] \in Nat /\ bracketed[h] \in BOOLEAN
    BY DEF Words!TypeOK
  <1>5. writes <= MaxWrites /\ \A h \in Goroutine : val[h] \in 0 .. writes
    BY Bounds DEF Words!TypeOK
  <1>6. MaxWrites \in Nat
    BY Bounds
  <1> QED BY <1>2, <1>3, <1>4, <1>5, <1>6

(* A position stays one when a value is appended. *)
LEMMA SinceLater ==
  ASSUME NEW n \in Nat, NEW m, m = n + 1, NEW f \in [Goroutine -> 0 .. n]
  PROVE  f \in [Goroutine -> 0 .. m]
  <1>1. 0 .. n \subseteq 0 .. m
    OBVIOUS
  <1> QED BY <1>1

(* Words keep their type when there are more values.                       *)
LEMMA Wider ==
  ASSUME NEW A, NEW W, NEW S, NEW T, S \subseteq T
  PROVE  [A -> [W -> S]] \subseteq [A -> [W -> T]]
  <1> DEFINE X == [W -> S]
             Y == [W -> T]
  <1>1. X \subseteq Y
    OBVIOUS
  <1> HIDE DEF X, Y
  <1>2. [A -> X] \subseteq [A -> Y]
    BY <1>1
  <1> QED BY <1>2 DEF X, Y

(* Where a goroutine of a cell stands. *)
Stops == {"idle", "lock", "enter", "first", "second", "publish", "unlock", "begin",
          "read", "reread", "validate"}

LEMMA StopsIn == Words!TypeOK => pc \in [Goroutine -> Stops]
  BY DEF Words!TypeOK, Stops

LEMMA WordsTypeStep ==
  ASSUME WordsInv, cell \in Words!Kind, Words!Next
  PROVE  Words!TypeOK' /\ WritersHaveNumbers'
  <1> USE Bounds DEF WordsInv, Words!Goto, Words!localVars, Words!sharedVars,
          Words!Word
  <1>1. PICK g \in Goroutine : Words!Call(g) \/ Words!Work(g)
    BY DEF Words!Next
  <1>2. CASE Words!StartWrite(g)
    <2>1. Words!TypeOK'
      <3> DEFINE S == 0 .. writes
                 T == 0 .. writes'
      <3>1. published' \in Seq(0 .. writes')
        BY <1>2, MoreWrites DEF Words!StartWrite, Words!TypeOK
      <3>2. /\ pc' = [pc EXCEPT ![g] = IF cell = "SeqLock" THEN "lock" ELSE "first"]
            /\ val' = [val EXCEPT ![g] = writes']
            /\ addr' = [addr EXCEPT ![g] = IF cell = "PublishedPointer" THEN writes' ELSE 0]
            /\ UNCHANGED <<reads, mem, seq, writerMu, ready, p, bracketed, start, snap,
                            published, since>>
        BY <1>2 DEF Words!StartWrite
      <3>3. writes' \in 0 .. MaxWrites /\ writes' = writes + 1 /\ writes \in Nat
        BY <1>2 DEF Words!StartWrite, Words!TypeOK
      <3>4. S \subseteq T /\ writes' \in T /\ 0 \in T
        BY <3>3
      <3>5. /\ mem \in [0 .. MaxWrites -> [Words!Word -> S]] /\ p \in S
            /\ snap \in [Goroutine -> [Words!Word -> S]]
            /\ val \in [Goroutine -> S] /\ addr \in [Goroutine -> S]
        BY DEF Words!TypeOK
      <3>6. /\ mem' \in [0 .. MaxWrites -> [Words!Word -> T]] /\ p' \in T
            /\ snap' \in [Goroutine -> [Words!Word -> T]]
        <4> HIDE DEF S, T
        <4>0. S \subseteq T
          BY <3>4
        <4>1. [0 .. MaxWrites -> [Words!Word -> S]]
                \subseteq [0 .. MaxWrites -> [Words!Word -> T]]
          BY ONLY <4>0, Wider
        <4>2. [Goroutine -> [Words!Word -> S]]
                \subseteq [Goroutine -> [Words!Word -> T]]
          BY ONLY <4>0, Wider
        <4> QED BY <3>2, <3>4, <3>5, <4>1, <4>2
      <3>7. val' \in [Goroutine -> T] /\ addr' \in [Goroutine -> T]
        <4> HIDE DEF S, T
        <4> QED BY <3>2, <3>4, <3>5
      <3>8. pc' \in [Goroutine -> Stops]
        BY <3>2, StopsIn DEF Stops
      <3> QED
        BY <3>1, <3>2, <3>3, <3>6, <3>7, <3>8 DEF Words!TypeOK, Stops
    <2>2. WritersHaveNumbers'
      <3>1. /\ pc'[g] = IF cell = "SeqLock" THEN "lock" ELSE "first"
            /\ val'[g] # 0 /\ cell' = cell
            /\ \A h \in Goroutine \ {g} : pc'[h] = pc[h] /\ val'[h] = val[h]
        BY <1>2 DEF Words!StartWrite, Words!TypeOK
      <3> QED BY <3>1 DEF WritersHaveNumbers, Inside, Writing
    <2> QED BY <2>1, <2>2
  <1>17. CASE \E v \in 0 .. MaxWrites : Words!Republish(g, v)
    <2>0. PICK v \in 0 .. MaxWrites : Words!Republish(g, v)
      BY <1>17
    <2>1. Words!TypeOK'
      <3> DEFINE S == 0 .. writes
                 T == 0 .. writes'
      <3>1. published' \in Seq(0 .. writes')
        BY <2>0, MoreWrites DEF Words!Republish, Words!TypeOK
      <3>2. /\ pc' = [pc EXCEPT ![g] = "publish"]
            /\ val' = [val EXCEPT ![g] = v] /\ addr' = [addr EXCEPT ![g] = v]
            /\ UNCHANGED <<reads, mem, seq, writerMu, ready, p, bracketed, start, snap,
                            published, since>>
        BY <2>0 DEF Words!Republish
      <3>3. writes' \in 0 .. MaxWrites /\ writes' = writes + 1 /\ writes \in Nat
        BY <2>0 DEF Words!Republish, Words!TypeOK
      <3>4. S \subseteq T /\ v \in T
        <4>1. \A i \in DOMAIN published : published[i] \in S
          BY DEF Words!TypeOK
        <4> QED BY <2>0, <3>3, <4>1 DEF Words!Republish
      <3>5. /\ mem \in [0 .. MaxWrites -> [Words!Word -> S]] /\ p \in S
            /\ snap \in [Goroutine -> [Words!Word -> S]]
            /\ val \in [Goroutine -> S] /\ addr \in [Goroutine -> S]
        BY DEF Words!TypeOK
      <3>6. /\ mem' \in [0 .. MaxWrites -> [Words!Word -> T]] /\ p' \in T
            /\ snap' \in [Goroutine -> [Words!Word -> T]]
        <4> HIDE DEF S, T
        <4>0. S \subseteq T
          BY <3>4
        <4>1. [0 .. MaxWrites -> [Words!Word -> S]]
                \subseteq [0 .. MaxWrites -> [Words!Word -> T]]
          BY ONLY <4>0, Wider
        <4>2. [Goroutine -> [Words!Word -> S]]
                \subseteq [Goroutine -> [Words!Word -> T]]
          BY ONLY <4>0, Wider
        <4> QED BY <3>2, <3>4, <3>5, <4>1, <4>2
      <3>7. val' \in [Goroutine -> T] /\ addr' \in [Goroutine -> T]
        <4> HIDE DEF S, T
        <4> QED BY <3>2, <3>4, <3>5
      <3>8. pc' \in [Goroutine -> Stops]
        BY <3>2, StopsIn DEF Stops
      <3> QED
        BY <3>1, <3>2, <3>3, <3>6, <3>7, <3>8 DEF Words!TypeOK, Stops
    <2>2. WritersHaveNumbers'
      <3>1. /\ pc'[g] = "publish" /\ cell = "PublishedPointer" /\ cell' = cell
            /\ \A h \in Goroutine \ {g} : pc'[h] = pc[h] /\ val'[h] = val[h]
        BY <2>0 DEF Words!Republish, Words!TypeOK
      <3> QED BY <3>1 DEF WritersHaveNumbers, Inside, Writing
    <2> QED BY <2>1, <2>2
  <1>3. CASE \E pairs \in BOOLEAN : Words!StartRead(g, pairs)
    <2>1. Words!TypeOK'
      <3>1. PICK pairs \in BOOLEAN : Words!StartRead(g, pairs)
        BY <1>3
      <3>2. /\ reads < MaxReads /\ reads' = reads + 1
            /\ pc' = [pc EXCEPT ![g] = "begin"]
            /\ bracketed' = [bracketed EXCEPT ![g] = pairs]
            /\ since' = [since EXCEPT ![g] = Len(published)]
            /\ UNCHANGED <<writes, mem, seq, writerMu, ready, p, val, start, addr, snap,
                            published>>
        BY <3>1 DEF Words!StartRead
      <3>3. reads' \in 0 .. MaxReads
        BY <3>2 DEF Words!TypeOK
      <3>4. pc' \in [Goroutine -> {"idle", "lock", "enter", "first", "second", "publish",
                                   "unlock", "begin", "read", "reread", "validate"}]
        BY <3>2 DEF Words!TypeOK
      <3>5. bracketed' \in [Goroutine -> BOOLEAN]
        BY <3>2 DEF Words!TypeOK
      <3>6. since' \in [Goroutine -> 0 .. Len(published)]
        <4>1. Len(published) \in 0 .. Len(published)
          BY DEF Words!TypeOK
        <4> QED BY <3>2, <4>1 DEF Words!TypeOK
      <3> QED BY <3>2, <3>3, <3>4, <3>5, <3>6 DEF Words!TypeOK
    <2>2. WritersHaveNumbers'
      BY <1>3 DEF Words!StartRead, Words!TypeOK, WritersHaveNumbers, Inside, Writing
    <2> QED BY <2>1, <2>2
  <1>4. CASE Words!LockWriter(g)
    <2>1. Words!TypeOK'
      BY <1>4 DEF Words!LockWriter, Words!TypeOK, WritersHaveNumbers, Inside, Writing
    <2>2. WritersHaveNumbers'
      BY <1>4 DEF Words!LockWriter, Words!TypeOK, WritersHaveNumbers, Inside, Writing
    <2> QED BY <2>1, <2>2
  <1>5. CASE Words!Enter(g)
    <2>1. Words!TypeOK'
      <3>1. pc' = [pc EXCEPT ![g] = "first"] /\ seq' = seq + 1
        BY <1>5 DEF Words!Enter
      <3>2. pc' \in [Goroutine -> Stops] /\ seq' \in Nat
        BY <3>1, StopsIn DEF Stops, Words!TypeOK
      <3> QED BY <1>5, <3>2 DEF Words!Enter, Words!TypeOK, Stops
    <2>2. WritersHaveNumbers'
      <3>1. /\ pc[g] = "enter" /\ \A h \in Goroutine : h # g => pc'[h] = pc[h]
            /\ pc'[g] = "first" /\ UNCHANGED <<val, cell>>
        BY <1>5 DEF Words!Enter, Words!TypeOK
      <3> QED BY <3>1 DEF WritersHaveNumbers, Inside, Writing
    <2> QED BY <2>1, <2>2
  <1>6. CASE Words!WriteFirst(g)
    <2>1. Words!TypeOK'
      BY <1>6 DEF Words!WriteFirst, Words!TypeOK, WritersHaveNumbers, Inside, Writing,
         Words!Write
    <2>2. WritersHaveNumbers'
      BY <1>6 DEF Words!WriteFirst, Words!TypeOK, WritersHaveNumbers, Inside, Writing,
         Words!Write
    <2> QED BY <2>1, <2>2
  <1>7. CASE Words!WriteSecond(g)
    <2>1. Words!TypeOK'
      BY <1>7 DEF Words!WriteSecond, Words!TypeOK, WritersHaveNumbers, Inside, Writing,
         Words!Write
    <2>2. WritersHaveNumbers'
      BY <1>7 DEF Words!WriteSecond, Words!TypeOK, WritersHaveNumbers, Inside, Writing,
         Words!Write
    <2> QED BY <2>1, <2>2
  <1>8. CASE Words!Leave(g)
    <2>3. val[g] \in 1 .. writes /\ published' = Append(published, val[g])
      BY <1>8 DEF Words!Leave, Words!TypeOK, WritersHaveNumbers, Inside, Writing,
         Words!Publishing
    <2>4. /\ published' \in Seq(0 .. writes)
          /\ Len(published) \in Nat /\ Len(published') = Len(published) + 1
      BY <2>3, PublishNext DEF Words!TypeOK
    <2>5. since' \in [Goroutine -> 0 .. Len(published')]
      <3>1. since' = since
        BY <1>8 DEF Words!Leave
      <3> QED BY <2>4, <3>1, SinceLater DEF Words!TypeOK
    <2>6. pc' = [pc EXCEPT ![g] = "unlock"] /\ seq' = seq + 1
      BY <1>8 DEF Words!Leave, Words!Publishing
    <2>7. pc' \in [Goroutine -> Stops] /\ seq' \in Nat
      BY <2>6, StopsIn DEF Stops, Words!TypeOK
    <2>8. /\ UNCHANGED <<writes, reads, mem, writerMu, ready, p, val, bracketed, start, addr, snap>>
      BY <1>8 DEF Words!Leave, Words!Publishing, Words!Goto, Words!localVars
    <2>1. Words!TypeOK'
      BY <2>4, <2>5, <2>7, <2>8 DEF Words!TypeOK, Stops
    <2>2. WritersHaveNumbers'
      BY <1>8 DEF Words!Leave, Words!TypeOK, WritersHaveNumbers, Inside, Writing,
         Words!Publishing
    <2> QED BY <2>1, <2>2
  <1>9. CASE Words!UnlockWriter(g)
    <2>1. Words!TypeOK'
      BY <1>9 DEF Words!UnlockWriter, Words!TypeOK, WritersHaveNumbers, Inside, Writing
    <2>2. WritersHaveNumbers'
      BY <1>9 DEF Words!UnlockWriter, Words!TypeOK, WritersHaveNumbers, Inside, Writing
    <2> QED BY <2>1, <2>2
  <1>10. CASE Words!SetReady(g)
    <2>3. val[g] \in 1 .. writes /\ published' = Append(published, val[g])
      BY <1>10 DEF Words!SetReady, Words!TypeOK, WritersHaveNumbers, Inside, Writing,
         Words!Publishing
    <2>4. /\ published' \in Seq(0 .. writes)
          /\ Len(published) \in Nat /\ Len(published') = Len(published) + 1
      BY <2>3, PublishNext DEF Words!TypeOK
    <2>5. since' \in [Goroutine -> 0 .. Len(published')]
      <3>1. since' = since
        BY <1>10 DEF Words!SetReady
      <3> QED BY <2>4, <3>1, SinceLater DEF Words!TypeOK
    <2>6. pc' = [pc EXCEPT ![g] = "idle"]
      BY <1>10 DEF Words!SetReady, Words!Publishing
    <2>7. pc' \in [Goroutine -> Stops]
      BY <2>6, StopsIn DEF Stops
    <2>8. /\ UNCHANGED <<writes, reads, mem, seq, writerMu, p, val, bracketed, start, addr, snap>>
          /\ ready' = TRUE
      BY <1>10 DEF Words!SetReady, Words!Publishing, Words!Goto, Words!localVars
    <2>1. Words!TypeOK'
      BY <2>4, <2>5, <2>7, <2>8 DEF Words!TypeOK, Stops
    <2>2. WritersHaveNumbers'
      BY <1>10 DEF Words!SetReady, Words!TypeOK, WritersHaveNumbers, Inside, Writing,
         Words!Publishing
    <2> QED BY <2>1, <2>2
  <1>11. CASE Words!SetPointer(g)
    <2>3. val[g] \in 0 .. writes /\ published' = Append(published, val[g])
      BY <1>11 DEF Words!SetPointer, Words!TypeOK, WritersHaveNumbers, Inside, Writing,
         Words!Publishing
    <2>4. /\ published' \in Seq(0 .. writes)
          /\ Len(published) \in Nat /\ Len(published') = Len(published) + 1
      BY <2>3, PublishNext DEF Words!TypeOK
    <2>5. since' \in [Goroutine -> 0 .. Len(published')]
      <3>1. since' = since
        BY <1>11 DEF Words!SetPointer
      <3> QED BY <2>4, <3>1, SinceLater DEF Words!TypeOK
    <2>6. pc' = [pc EXCEPT ![g] = "idle"] /\ p' = addr[g]
      BY <1>11 DEF Words!SetPointer, Words!Publishing
    <2>7. pc' \in [Goroutine -> Stops] /\ p' \in 0 .. writes
      BY <2>6, StopsIn DEF Stops, Words!TypeOK
    <2>8. /\ UNCHANGED <<writes, reads, mem, seq, writerMu, ready, val, bracketed, start, addr, snap>>
      BY <1>11 DEF Words!SetPointer, Words!Publishing, Words!Goto, Words!localVars
    <2>1. Words!TypeOK'
      BY <2>4, <2>5, <2>7, <2>8 DEF Words!TypeOK, Stops
    <2>2. WritersHaveNumbers'
      BY <1>11 DEF Words!SetPointer, Words!TypeOK, WritersHaveNumbers, Inside, Writing,
         Words!Publishing
    <2> QED BY <2>1, <2>2
  <1>12. CASE Words!BeginSeq(g)
    <2>1. Words!TypeOK'
      <3>1. /\ pc' = [pc EXCEPT ![g] = "read"] /\ start' = [start EXCEPT ![g] = seq]
            /\ addr' = [addr EXCEPT ![g] = 0]
        BY <1>12 DEF Words!BeginSeq
      <3>2. pc' \in [Goroutine -> Stops]
        BY <3>1, StopsIn DEF Stops
      <3>3. start' \in [Goroutine -> Nat] /\ addr' \in [Goroutine -> 0 .. writes]
        BY <3>1 DEF Words!TypeOK
      <3> QED BY <1>12, <3>2, <3>3 DEF Words!BeginSeq, Words!TypeOK, Stops
    <2>2. WritersHaveNumbers'
      BY <1>12 DEF Words!BeginSeq, Words!TypeOK, WritersHaveNumbers, Inside, Writing
    <2> QED BY <2>1, <2>2
  <1>13. CASE Words!BeginLoad(g)
    <2>1. Words!TypeOK'
      <3>1. CASE cell = "ReadyFlag"
        <4>3. addr' = [addr EXCEPT ![g] = 0] /\ writes' = writes
          BY <3>1, <1>13 DEF Words!BeginLoad
        <4>4. 0 \in 0 .. writes /\ addr \in [Goroutine -> 0 .. writes]
          BY DEF Words!TypeOK
        <4>0. addr' \in [Goroutine -> 0 .. writes] /\ writes' = writes
          BY <4>3, <4>4
        <4>1. CASE ready
          BY <4>0, <4>1, <3>1, <1>13 DEF Words!BeginLoad, Words!TypeOK
        <4>2. CASE ~ready
          BY <4>0, <4>2, <3>1, <1>13 DEF Words!BeginLoad, Words!TypeOK
        <4> QED BY <4>1, <4>2
      <3>2. CASE cell = "PublishedPointer"
        <4>1. /\ pc' = [pc EXCEPT ![g] = IF p # 0 THEN "read" ELSE "idle"]
              /\ addr' = [addr EXCEPT ![g] = p]
          BY <3>2, <1>13 DEF Words!BeginLoad
        <4>2. pc' \in [Goroutine -> Stops]
          BY <4>1, StopsIn DEF Stops
        <4>3. addr' \in [Goroutine -> 0 .. writes]
          BY <4>1 DEF Words!TypeOK
        <4> QED BY <1>13, <4>2, <4>3 DEF Words!BeginLoad, Words!TypeOK, Stops
      <3> QED BY <3>1, <3>2, <1>13 DEF Words!BeginLoad
    <2>2. WritersHaveNumbers'
      BY <1>13 DEF Words!BeginLoad, Words!TypeOK, WritersHaveNumbers, Inside, Writing
    <2> QED BY <2>1, <2>2
  <1>14. CASE Words!Read(g)
    <2> DEFINE word == 1
               new == [snap[g] EXCEPT ![word] = mem[addr[g]][word]]
    <2>3. new \in [1 .. 2 -> 0 .. writes]
      BY DEF Words!TypeOK
    <2>4. snap' = [snap EXCEPT ![g] = new]
      BY <1>14 DEF Words!Read, Words!ReadWord, Words!TypeOK
    <2> HIDE DEF new
    <2>1. Words!TypeOK'
      <3>1. snap' \in [Goroutine -> [1 .. 2 -> 0 .. writes]]
        BY <2>3, <2>4 DEF Words!TypeOK
      <3> QED
        BY <3>1, <1>14 DEF Words!Read, Words!ReadWord, Words!TypeOK
    <2>2. WritersHaveNumbers'
      BY <1>14 DEF Words!Read, Words!TypeOK, WritersHaveNumbers, Inside, Writing,
         Words!ReadWord
    <2> QED BY <2>1, <2>2
  <1>15. CASE Words!Reread(g)
    <2> DEFINE word == 2
               new == [snap[g] EXCEPT ![word] = mem[addr[g]][word]]
    <2>3. new \in [1 .. 2 -> 0 .. writes]
      BY DEF Words!TypeOK
    <2>4. snap' = [snap EXCEPT ![g] = new]
      BY <1>15 DEF Words!Reread, Words!ReadWord, Words!TypeOK
    <2> HIDE DEF new
    <2>1. Words!TypeOK'
      <3>1. snap' \in [Goroutine -> [1 .. 2 -> 0 .. writes]]
        BY <2>3, <2>4 DEF Words!TypeOK
      <3> QED
        BY <3>1, <1>15 DEF Words!Reread, Words!ReadWord, Words!TypeOK
    <2>2. WritersHaveNumbers'
      BY <1>15 DEF Words!Reread, Words!TypeOK, WritersHaveNumbers, Inside, Writing,
         Words!ReadWord
    <2> QED BY <2>1, <2>2
  <1>16. CASE Words!Validate(g)
    <2>1. Words!TypeOK'
      BY <1>16 DEF Words!Validate, Words!TypeOK, WritersHaveNumbers, Inside, Writing
    <2>2. WritersHaveNumbers'
      BY <1>16 DEF Words!Validate, Words!TypeOK, WritersHaveNumbers, Inside, Writing
    <2> QED BY <2>1, <2>2
  <1> QED
    BY <1>1, <1>2, <1>3, <1>4, <1>5, <1>6, <1>7, <1>8, <1>9, <1>10, <1>11, <1>12,
       <1>13, <1>14, <1>15, <1>16, <1>17
       DEF Words!Call, Words!Work

LEMMA SeqLockStep ==
  ASSUME WordsInv, cell = "SeqLock", Words!Next, Words!TypeOK'
  PROVE  SeqLockInv'
  <1> USE Bounds DEF Words!Goto, Words!localVars, Words!sharedVars, Words!Word, Holds,
          Inside, Writing, Reading, Half, Snapped, Current, SeqLockInv
  <1>1. PICK g \in Goroutine : Words!Call(g) \/ Words!Work(g)
    BY DEF Words!Next
  <1>2. Words!TypeOK /\ WritersHaveNumbers /\ SeqLockInv
    BY DEF WordsInv
  <1>0. /\ Len(published) \in Nat /\ seq \in Nat
        /\ \A h \in Goroutine : start[h] \in Nat /\ bracketed[h] \in BOOLEAN
    BY <1>2, WordsFacts
  <1>3. CASE \E pairs \in BOOLEAN : Words!StartRead(g, pairs)
    <2>1. (\A h \in Goroutine : addr[h] = 0)'
      BY <1>3, <1>2 DEF Words!StartRead, Words!TypeOK
    <2>2. OneWriter'
      <3>1. \A h \in Goroutine : Inside(h)' => Inside(h)
        BY <1>3, <1>2 DEF Words!StartRead, Words!TypeOK
      <3>2. UNCHANGED writerMu
        BY <1>3 DEF Words!StartRead
      <3> HIDE DEF Inside
      <3> QED BY <3>1, <3>2, <1>2 DEF OneWriter
    <2>3. Counted'
      BY <1>3, <1>2 DEF Words!StartRead, Words!TypeOK, Counted, OneWriter,
         WritersHaveNumbers
    <2>4. Written'
      BY <1>3, <1>2 DEF Words!StartRead, Words!TypeOK, Written, Counted, OneWriter
    <2>5. Loaded'
      <3>1. \A h \in Goroutine :
              Reading(h)' => /\ Reading(h) /\ bracketed'[h] = bracketed[h]
                             /\ Snapped(h, Current)' = Snapped(h, Current)
        BY <1>3, <1>2 DEF Words!StartRead, Words!TypeOK
      <3>2. UNCHANGED <<seq, published, start>>
        BY <1>3 DEF Words!StartRead
      <3> HIDE DEF Reading, Snapped
      <3> QED
        BY <3>1, <3>2, <1>2, <1>0 DEF Loaded, Words!Odd
    <2> QED BY <2>1, <2>2, <2>3, <2>4, <2>5
  <1>4. CASE Words!StartWrite(g)
    <2>1. (\A h \in Goroutine : addr[h] = 0)'
      BY <1>4, <1>2 DEF Words!StartWrite, Words!TypeOK
    <2>2. OneWriter'
      BY <1>4, <1>2 DEF Words!StartWrite, Words!TypeOK, OneWriter, WritersHaveNumbers
    <2>3. Counted'
      BY <1>4, <1>2 DEF Words!StartWrite, Words!TypeOK, Counted, OneWriter,
         WritersHaveNumbers
    <2>4. Written'
      BY <1>4, <1>2 DEF Words!StartWrite, Words!TypeOK, Written, Counted, OneWriter
    <2>5. Loaded'
      BY <1>4, <1>2 DEF Words!StartWrite, Words!TypeOK, Loaded, Counted, Words!Odd
    <2> QED BY <2>1, <2>2, <2>3, <2>4, <2>5
  <1>5. CASE Words!LockWriter(g)
    <2>1. (\A h \in Goroutine : addr[h] = 0)'
      BY <1>5, <1>2 DEF Words!LockWriter, Words!TypeOK
    <2>2. OneWriter'
      BY <1>5, <1>2 DEF Words!LockWriter, Words!TypeOK, OneWriter, WritersHaveNumbers
    <2>3. Counted'
      BY <1>5, <1>2 DEF Words!LockWriter, Words!TypeOK, Counted, OneWriter,
         WritersHaveNumbers
    <2>4. Written'
      BY <1>5, <1>2 DEF Words!LockWriter, Words!TypeOK, Written, Counted, OneWriter
    <2>5. Loaded'
      BY <1>5, <1>2 DEF Words!LockWriter, Words!TypeOK, Loaded, Counted, Words!Odd
    <2> QED BY <2>1, <2>2, <2>3, <2>4, <2>5
  <1>6. CASE Words!Enter(g)
    <2>1. (\A h \in Goroutine : addr[h] = 0)'
      BY <1>6, <1>2 DEF Words!Enter, Words!TypeOK
    <2>2. OneWriter'
      <3>1. \A h \in Goroutine : Inside(h)' => Inside(h)
        BY <1>6, <1>2 DEF Words!Enter, Words!TypeOK
      <3>2. UNCHANGED writerMu
        BY <1>6 DEF Words!Enter
      <3> HIDE DEF Inside
      <3> QED BY <3>1, <3>2, <1>2 DEF OneWriter
    <2>3. Counted'
      <3>1. seq = 2 * Len(published)
        BY <1>6, <1>2 DEF Words!Enter, Counted, OneWriter
      <3>2. Writing(g)' /\ seq' = 2 * Len(published) + 1 /\ UNCHANGED published
        BY <1>6, <1>2, <3>1 DEF Words!Enter, Words!TypeOK
      <3> QED
        BY <1>0, <3>2 DEF Counted
    <2>4. Written'
      BY <1>6, <1>2 DEF Words!Enter, Words!TypeOK, Written, Counted, OneWriter
    <2>5. Loaded'
      <3>1. \A h \in Goroutine : Reading(h)' => Reading(h)
        BY <1>6, <1>2 DEF Words!Enter, Words!TypeOK
      <3>2. UNCHANGED <<published, start, bracketed>> /\ seq' = seq + 1
        BY <1>6 DEF Words!Enter
      <3> HIDE DEF Reading, Snapped
      <3> QED
        BY <3>1, <3>2, <1>2, <1>0 DEF Loaded, Words!Odd
    <2> QED BY <2>1, <2>2, <2>3, <2>4, <2>5
  <1>7. CASE Words!WriteFirst(g)
    <2>1. (\A h \in Goroutine : addr[h] = 0)'
      BY <1>7, <1>2 DEF Words!WriteFirst, Words!TypeOK, Words!Write
    <2>2. OneWriter'
      BY <1>7, <1>2 DEF Words!WriteFirst, Words!TypeOK, Words!Write, OneWriter,
         WritersHaveNumbers
    <2>3. Counted'
      BY <1>7, <1>2 DEF Words!WriteFirst, Words!TypeOK, Words!Write, Counted, OneWriter,
         WritersHaveNumbers
    <2>4. Written'
      <3>1. seq' # 2 * Len(published')
        BY <1>7, <1>2 DEF Words!WriteFirst, Words!Write, Counted
      <3>4. 0 \in 0 .. MaxWrites /\ mem[0] \in [1 .. 2 -> 0 .. writes]
        BY <1>2 DEF Words!TypeOK
      <3>2. mem'[0] = [mem[0] EXCEPT ![1] = val[g]]
        BY <3>4, <1>7, <1>2 DEF Words!WriteFirst, Words!Write, Words!TypeOK
      <3>5. \A h \in Goroutine \ {g} : ~Writing(h)'
        BY <1>7, <1>2 DEF Words!WriteFirst, Words!Write, Words!TypeOK, OneWriter
      <3>6. pc[g] = "first" /\ pc'[g] = "second" /\ val'[g] = val[g]
        BY <1>7, <1>2 DEF Words!WriteFirst, Words!Write, Words!TypeOK
      <3>3. \A h \in Goroutine : Half(h, mem[0])'
        BY <3>2, <3>4, <3>5, <3>6, <1>2 DEF Written
      <3> QED
        BY <3>1, <3>3 DEF Written
    <2>5. Loaded'
      BY <1>7, <1>2 DEF Words!WriteFirst, Words!TypeOK, Words!Write, Loaded, Counted,
         Words!Odd
    <2> QED BY <2>1, <2>2, <2>3, <2>4, <2>5
  <1>8. CASE Words!WriteSecond(g)
    <2>1. (\A h \in Goroutine : addr[h] = 0)'
      BY <1>8, <1>2 DEF Words!WriteSecond, Words!TypeOK, Words!Write
    <2>2. OneWriter'
      BY <1>8, <1>2 DEF Words!WriteSecond, Words!TypeOK, Words!Write, OneWriter,
         WritersHaveNumbers
    <2>3. Counted'
      BY <1>8, <1>2 DEF Words!WriteSecond, Words!TypeOK, Words!Write, Counted, OneWriter,
         WritersHaveNumbers
    <2>4. Written'
      <3>1. seq' # 2 * Len(published')
        BY <1>8, <1>2 DEF Words!WriteSecond, Words!Write, Counted
      <3>4. 0 \in 0 .. MaxWrites /\ mem[0] \in [1 .. 2 -> 0 .. writes]
        BY <1>2 DEF Words!TypeOK
      <3>2. mem'[0] = [mem[0] EXCEPT ![2] = val[g]]
        BY <3>4, <1>8, <1>2 DEF Words!WriteSecond, Words!Write, Words!TypeOK
      <3>5. \A h \in Goroutine \ {g} : ~Writing(h)'
        BY <1>8, <1>2 DEF Words!WriteSecond, Words!Write, Words!TypeOK, OneWriter
      <3>6. pc[g] = "second" /\ pc'[g] = "publish" /\ val'[g] = val[g]
        BY <1>8, <1>2 DEF Words!WriteSecond, Words!Write, Words!TypeOK
      <3>3. \A h \in Goroutine : Half(h, mem[0])'
        BY <3>2, <3>4, <3>5, <3>6, <1>2 DEF Written
      <3> QED
        BY <3>1, <3>3 DEF Written
    <2>5. Loaded'
      BY <1>8, <1>2 DEF Words!WriteSecond, Words!TypeOK, Words!Write, Loaded, Counted,
         Words!Odd
    <2> QED BY <2>1, <2>2, <2>3, <2>4, <2>5
  <1>9. CASE Words!Leave(g)
    <2>6. val[g] \in 1 .. writes /\ published' = Append(published, val[g])
      BY <1>9, <1>2 DEF Words!Leave, Words!Publishing, Words!TypeOK, WritersHaveNumbers
    <2>7. /\ Len(published') = Len(published) + 1
          /\ Current' = val[g]
      <3>1. writes \in Nat /\ published \in Seq(0 .. writes)
        BY <1>2, WordsFacts DEF Words!TypeOK
      <3> QED
        BY <3>1, <2>6, PublishNext
    <2>8. seq = 2 * Len(published) + 1 /\ seq' = seq + 1
      BY <1>9, <1>2 DEF Words!Leave, Words!Publishing, Counted
    <2>9. seq' = 2 * Len(published')
      BY <2>7, <2>8, <1>0
    <2>1. (\A h \in Goroutine : addr[h] = 0)'
      BY <1>9, <1>2 DEF Words!Leave, Words!TypeOK, Words!Publishing
    <2>2. OneWriter'
      BY <1>9, <1>2 DEF Words!Leave, Words!TypeOK, Words!Publishing, OneWriter,
         WritersHaveNumbers
    <2>3. Counted'
      <3>1. \A h \in Goroutine : ~Writing(h)'
        BY <1>9, <1>2 DEF Words!Leave, Words!TypeOK, Words!Publishing, OneWriter
      <3> QED
        BY <3>1, <2>9 DEF Counted
    <2>4. Written'
      <3>1. Holds(mem[0], val[g])
        BY <1>9, <1>2 DEF Words!Leave, Words!Publishing, Written
      <3>2. \A h \in Goroutine : Half(h, mem[0])'
        BY <1>9, <1>2 DEF Words!Leave, Words!TypeOK, Words!Publishing, Written
      <3>3. Holds(mem[0], Current)'
        BY <1>9, <3>1, <2>7 DEF Words!Leave
      <3> QED
        BY <3>2, <3>3 DEF Written
    <2>5. Loaded'
      <3>1. \A h \in Goroutine : Reading(h)' => Reading(h)
        BY <1>9, <1>2 DEF Words!Leave, Words!TypeOK, Words!Publishing
      <3>2. \A h \in Goroutine : Reading(h)' => start'[h] = start[h] /\ start[h] < seq'
        BY <3>1, <1>9, <1>2, <1>0, <2>8 DEF Words!Leave, Loaded
      <3>3. UNCHANGED <<start, bracketed>>
        BY <1>9 DEF Words!Leave
      <3>4. seq' \in Nat
        BY <1>0, <2>8
      <3> HIDE DEF Reading, Snapped
      <3> QED
        BY <3>1, <3>2, <3>3, <3>4, <1>2, <1>0 DEF Loaded, Words!Odd
    <2> QED BY <2>1, <2>2, <2>3, <2>4, <2>5
  <1>10. CASE Words!UnlockWriter(g)
    <2>1. (\A h \in Goroutine : addr[h] = 0)'
      BY <1>10, <1>2 DEF Words!UnlockWriter, Words!TypeOK
    <2>2. OneWriter'
      BY <1>10, <1>2 DEF Words!UnlockWriter, Words!TypeOK, OneWriter, WritersHaveNumbers
    <2>3. Counted'
      BY <1>10, <1>2 DEF Words!UnlockWriter, Words!TypeOK, Counted, OneWriter,
         WritersHaveNumbers
    <2>4. Written'
      BY <1>10, <1>2 DEF Words!UnlockWriter, Words!TypeOK, Written, Counted, OneWriter
    <2>5. Loaded'
      BY <1>10, <1>2 DEF Words!UnlockWriter, Words!TypeOK, Loaded, Counted, Words!Odd
    <2> QED BY <2>1, <2>2, <2>3, <2>4, <2>5
  <1>11. CASE Words!SetReady(g)
    BY <1>11, <1>2 DEF Words!SetReady, WritersHaveNumbers
  <1>12. CASE Words!SetPointer(g)
    BY <1>12, <1>2 DEF Words!SetPointer, WritersHaveNumbers
  <1>13. CASE Words!BeginSeq(g)
    <2>1. (\A h \in Goroutine : addr[h] = 0)'
      BY <1>13, <1>2 DEF Words!BeginSeq, Words!TypeOK
    <2>2. OneWriter'
      BY <1>13, <1>2 DEF Words!BeginSeq, Words!TypeOK, OneWriter, WritersHaveNumbers
    <2>3. Counted'
      BY <1>13, <1>2 DEF Words!BeginSeq, Words!TypeOK, Counted, OneWriter,
         WritersHaveNumbers
    <2>4. Written'
      BY <1>13, <1>2 DEF Words!BeginSeq, Words!TypeOK, Written, Counted, OneWriter
    <2>5. Loaded'
      <3>1. \A h \in Goroutine \ {g} :
              Reading(h)' => /\ Reading(h) /\ start'[h] = start[h]
                             /\ Snapped(h, Current)' = Snapped(h, Current)
        BY <1>13, <1>2 DEF Words!BeginSeq, Words!TypeOK
      <3>2. UNCHANGED <<seq, published, bracketed>>
        BY <1>13 DEF Words!BeginSeq
      <3>3. start'[g] = seq /\ Snapped(g, Current)'
        BY <1>13, <1>2 DEF Words!BeginSeq, Words!TypeOK
      <3>4. ~bracketed[g] => ~Words!Odd(seq)
        BY <1>13 DEF Words!BeginSeq
      <3> HIDE DEF Reading, Snapped
      <3> QED
        BY <3>1, <3>2, <3>3, <3>4, <1>2, <1>0 DEF Loaded, Words!Odd
    <2> QED BY <2>1, <2>2, <2>3, <2>4, <2>5
  <1>14. CASE Words!BeginLoad(g)
    BY <1>14, <1>2 DEF Words!BeginLoad, WritersHaveNumbers
  <1>15. CASE Words!Read(g)
    <2>1. (\A h \in Goroutine : addr[h] = 0)'
      BY <1>15, <1>2 DEF Words!Read, Words!TypeOK, Words!ReadWord
    <2>2. OneWriter'
      BY <1>15, <1>2 DEF Words!Read, Words!TypeOK, Words!ReadWord, OneWriter,
         WritersHaveNumbers
    <2>3. Counted'
      BY <1>15, <1>2 DEF Words!Read, Words!TypeOK, Words!ReadWord, Counted, OneWriter,
         WritersHaveNumbers
    <2>4. Written'
      BY <1>15, <1>2 DEF Words!Read, Words!TypeOK, Words!ReadWord, Written, Counted,
         OneWriter
    <2>5. Loaded'
      <3>1. \A h \in Goroutine \ {g} :
              Reading(h)' => /\ Reading(h)
                             /\ Snapped(h, Current)' = Snapped(h, Current)
        BY <1>15, <1>2 DEF Words!Read, Words!ReadWord, Words!TypeOK
      <3>2. UNCHANGED <<seq, published, bracketed, start>>
        BY <1>15 DEF Words!Read, Words!ReadWord
      <3>3. snap'[g] = [snap[g] EXCEPT ![1] = mem[0][1]] /\ Reading(g)
        BY <1>15, <1>2 DEF Words!Read, Words!ReadWord, Words!TypeOK
      <3>4. snap[g] \in [1 .. 2 -> 0 .. writes]
        BY <1>2 DEF Words!TypeOK
      <3>5. pc[g] = "read" /\ pc'[g] = "reread"
        BY <1>15, <1>2 DEF Words!Read, Words!ReadWord, Words!TypeOK
      <3>6. start[g] = seq /\ seq = 2 * Len(published) => Snapped(g, Current)'
        BY <3>2, <3>3, <3>4, <3>5, <1>2 DEF Loaded, Written
      <3> HIDE DEF Reading, Snapped
      <3> QED
        BY <3>1, <3>2, <3>3, <3>6, <1>2, <1>0 DEF Loaded, Words!Odd
    <2> QED BY <2>1, <2>2, <2>3, <2>4, <2>5
  <1>16. CASE Words!Reread(g)
    <2>1. (\A h \in Goroutine : addr[h] = 0)'
      BY <1>16, <1>2 DEF Words!Reread, Words!TypeOK, Words!ReadWord
    <2>2. OneWriter'
      BY <1>16, <1>2 DEF Words!Reread, Words!TypeOK, Words!ReadWord, OneWriter,
         WritersHaveNumbers
    <2>3. Counted'
      BY <1>16, <1>2 DEF Words!Reread, Words!TypeOK, Words!ReadWord, Counted, OneWriter,
         WritersHaveNumbers
    <2>4. Written'
      BY <1>16, <1>2 DEF Words!Reread, Words!TypeOK, Words!ReadWord, Written, Counted,
         OneWriter
    <2>5. Loaded'
      <3>1. \A h \in Goroutine \ {g} :
              Reading(h)' => /\ Reading(h)
                             /\ Snapped(h, Current)' = Snapped(h, Current)
        BY <1>16, <1>2 DEF Words!Reread, Words!ReadWord, Words!TypeOK
      <3>2. UNCHANGED <<seq, published, bracketed, start>>
        BY <1>16 DEF Words!Reread, Words!ReadWord
      <3>3. snap'[g] = [snap[g] EXCEPT ![2] = mem[0][2]] /\ Reading(g)
        BY <1>16, <1>2 DEF Words!Reread, Words!ReadWord, Words!TypeOK
      <3>4. snap[g] \in [1 .. 2 -> 0 .. writes]
        BY <1>2 DEF Words!TypeOK
      <3>5. pc[g] = "reread" /\ pc'[g] = "validate"
        BY <1>16, <1>2 DEF Words!Reread, Words!ReadWord, Words!TypeOK
      <3>6. start[g] = seq /\ seq = 2 * Len(published) => Snapped(g, Current)'
        BY <3>2, <3>3, <3>4, <3>5, <1>2 DEF Loaded, Written
      <3> HIDE DEF Reading, Snapped
      <3> QED
        BY <3>1, <3>2, <3>3, <3>6, <1>2, <1>0 DEF Loaded, Words!Odd
    <2> QED BY <2>1, <2>2, <2>3, <2>4, <2>5
  <1>17. CASE Words!Validate(g)
    <2>1. (\A h \in Goroutine : addr[h] = 0)'
      BY <1>17, <1>2 DEF Words!Validate, Words!TypeOK, Words!Valid
    <2>0. /\ UNCHANGED <<mem, seq, writerMu, val, published>>
          /\ \A h \in Goroutine : /\ Inside(h)' = Inside(h) /\ Writing(h)' = Writing(h)
                                  /\ pc'[h] = "second" => pc[h] = "second"
                                  /\ pc'[h] = "publish" => pc[h] = "publish"
      <3>1. /\ pc[g] = "validate" /\ pc'[g] \in {"begin", "idle"}
            /\ \A h \in Goroutine \ {g} : pc'[h] = pc[h]
        BY <1>17, <1>2 DEF Words!Validate, Words!TypeOK
      <3>2. UNCHANGED <<mem, seq, writerMu, val, published>>
        BY <1>17 DEF Words!Validate
      <3> QED BY <3>1, <3>2
    <2>2. OneWriter'
      <3> HIDE DEF Inside
      <3> QED BY <2>0, <1>2 DEF OneWriter
    <2>3. Counted'
      <3> HIDE DEF Writing
      <3> QED BY <2>0, <1>2 DEF Counted
    <2>4. Written'
      BY <2>0, <1>2 DEF Written
    <2>5. Loaded'
      BY <1>17, <1>2 DEF Words!Validate, Words!TypeOK, Words!Valid, Loaded, Counted,
         Words!Odd
    <2> QED BY <2>1, <2>2, <2>3, <2>4, <2>5
  <1>18. CASE \E v \in 0 .. MaxWrites : Words!Republish(g, v)
    BY <1>18 DEF Words!Republish
  <1> QED
    BY <1>1, <1>3, <1>4, <1>5, <1>6, <1>7, <1>8, <1>9, <1>10, <1>11, <1>12, <1>13,
       <1>14, <1>15, <1>16, <1>17, <1>18
       DEF Words!Call, Words!Work

LEMMA ReadyFlagStep ==
  ASSUME WordsInv, cell = "ReadyFlag", Words!Next, Words!TypeOK'
  PROVE  ReadyFlagInv'
  <1> USE Bounds DEF Words!Goto, Words!localVars, Words!sharedVars, Words!Word, Holds,
          Inside, Writing, Reading, Half, Snapped, Current, ReadyFlagInv
  <1>1. PICK g \in Goroutine : Words!Call(g) \/ Words!Work(g)
    BY DEF Words!Next
  <1>2. Words!TypeOK /\ WritersHaveNumbers /\ ReadyFlagInv
    BY DEF WordsInv
  <1>0. /\ Len(published) \in Nat /\ writes \in Nat
        /\ DOMAIN published = 1 .. Len(published)
        /\ published \in Seq(0 .. writes)
    BY <1>2, WordsFacts DEF Words!TypeOK
  <1>3. CASE \E pairs \in BOOLEAN : Words!StartRead(g, pairs)
    <2>1. (\A h \in Goroutine : addr[h] = 0)'
      BY <1>3, <1>2 DEF Words!StartRead, Words!TypeOK
    <2>2. WrittenOnce'
      BY <1>3, <1>2 DEF Words!StartRead, Words!TypeOK, WrittenOnce, WritersHaveNumbers
    <2>3. FlagWords'
      <3>1. \A h \in Goroutine : Half(h, mem[0]) => Half(h, mem[0])'
        BY <1>3, <1>2 DEF Words!StartRead, Words!TypeOK
      <3>2. UNCHANGED <<ready, mem, published>>
        BY <1>3 DEF Words!StartRead
      <3> HIDE DEF Half
      <3> QED
        BY <3>1, <3>2, <1>2 DEF FlagWords
    <2>4. FlagReaders'
      <3>1. \A h \in Goroutine :
              Reading(h)' => /\ Reading(h)
                             /\ Snapped(h, Current)' = Snapped(h, Current)
        BY <1>3, <1>2 DEF Words!StartRead, Words!TypeOK
      <3>2. UNCHANGED ready
        BY <1>3 DEF Words!StartRead
      <3> HIDE DEF Reading, Snapped
      <3> QED
        BY <3>1, <3>2, <1>2 DEF FlagReaders
    <2> QED BY <2>1, <2>2, <2>3, <2>4
  <1>4. CASE Words!StartWrite(g)
    <2>1. (\A h \in Goroutine : addr[h] = 0)'
      BY <1>4, <1>2 DEF Words!StartWrite, Words!TypeOK
    <2>2. WrittenOnce'
      BY <1>4, <1>2 DEF Words!StartWrite, Words!TypeOK, WrittenOnce, WritersHaveNumbers
    <2>3. FlagWords'
      BY <1>4, <1>2 DEF Words!StartWrite, Words!TypeOK, FlagWords, WrittenOnce,
         WritersHaveNumbers
    <2>4. FlagReaders'
      BY <1>4, <1>2 DEF Words!StartWrite, Words!TypeOK, FlagReaders, WrittenOnce,
         FlagWords
    <2> QED BY <2>1, <2>2, <2>3, <2>4
  <1>5. CASE Words!LockWriter(g)
    BY <1>5, <1>2 DEF Words!LockWriter, WritersHaveNumbers
  <1>6. CASE Words!Enter(g)
    BY <1>6, <1>2 DEF Words!Enter, WritersHaveNumbers
  <1>7. CASE Words!WriteFirst(g)
    <2>1. (\A h \in Goroutine : addr[h] = 0)'
      BY <1>7, <1>2 DEF Words!WriteFirst, Words!TypeOK, Words!Write
    <2>2. WrittenOnce'
      BY <1>7, <1>2 DEF Words!WriteFirst, Words!TypeOK, Words!Write, WrittenOnce,
         WritersHaveNumbers
    <2>3. FlagWords'
      <3>1. ~ready' /\ \A h \in Goroutine \ {g} : ~Writing(h)
        BY <1>7, <1>2 DEF Words!WriteFirst, Words!Write, WrittenOnce
      <3>2. Half(g, mem[0])'
        BY <1>7, <1>2 DEF Words!WriteFirst, Words!Write, Words!TypeOK
      <3>3. \A h \in Goroutine \ {g} : Half(h, mem[0])'
        BY <3>1, <1>7, <1>2 DEF Words!WriteFirst, Words!Write, Words!TypeOK
      <3> QED
        BY <3>1, <3>2, <3>3 DEF FlagWords
    <2>4. FlagReaders'
      BY <1>7, <1>2 DEF Words!WriteFirst, Words!TypeOK, Words!Write, FlagReaders,
         WrittenOnce, FlagWords
    <2> QED BY <2>1, <2>2, <2>3, <2>4
  <1>8. CASE Words!WriteSecond(g)
    <2>1. (\A h \in Goroutine : addr[h] = 0)'
      BY <1>8, <1>2 DEF Words!WriteSecond, Words!TypeOK, Words!Write
    <2>2. WrittenOnce'
      BY <1>8, <1>2 DEF Words!WriteSecond, Words!TypeOK, Words!Write, WrittenOnce,
         WritersHaveNumbers
    <2>3. FlagWords'
      <3>1. ~ready' /\ \A h \in Goroutine \ {g} : ~Writing(h)
        BY <1>8, <1>2 DEF Words!WriteSecond, Words!Write, WrittenOnce
      <3>2. Half(g, mem[0])'
        BY <1>8, <1>2 DEF Words!WriteSecond, Words!Write, Words!TypeOK, FlagWords
      <3>3. \A h \in Goroutine \ {g} : Half(h, mem[0])'
        BY <3>1, <1>8, <1>2 DEF Words!WriteSecond, Words!Write, Words!TypeOK
      <3> QED
        BY <3>1, <3>2, <3>3 DEF FlagWords
    <2>4. FlagReaders'
      BY <1>8, <1>2 DEF Words!WriteSecond, Words!TypeOK, Words!Write, FlagReaders,
         WrittenOnce, FlagWords
    <2> QED BY <2>1, <2>2, <2>3, <2>4
  <1>9. CASE Words!Leave(g)
    BY <1>9, <1>2 DEF Words!Leave, WritersHaveNumbers, Words!Publishing
  <1>10. CASE Words!UnlockWriter(g)
    BY <1>10, <1>2 DEF Words!UnlockWriter, WritersHaveNumbers
  <1>11. CASE Words!SetReady(g)
    <2>1. (\A h \in Goroutine : addr[h] = 0)'
      BY <1>11, <1>2 DEF Words!SetReady, Words!TypeOK, Words!Publishing
    <2>2. WrittenOnce'
      BY <1>11, <1>2 DEF Words!SetReady, Words!TypeOK, Words!Publishing, WrittenOnce,
         WritersHaveNumbers
    <2>3. FlagWords'
      BY <1>11, <1>2 DEF Words!SetReady, Words!TypeOK, Words!Publishing, FlagWords,
         WrittenOnce, WritersHaveNumbers
    <2>4. FlagReaders'
      BY <1>11, <1>2 DEF Words!SetReady, Words!TypeOK, Words!Publishing, FlagReaders,
         WrittenOnce, FlagWords
    <2> QED BY <2>1, <2>2, <2>3, <2>4
  <1>12. CASE Words!SetPointer(g)
    BY <1>12, <1>2 DEF Words!SetPointer, WritersHaveNumbers, Words!Publishing
  <1>13. CASE Words!BeginSeq(g)
    BY <1>13, <1>2 DEF Words!BeginSeq, WritersHaveNumbers
  <1>14. CASE Words!BeginLoad(g)
    <2>1. (\A h \in Goroutine : addr[h] = 0)'
      BY <1>14, <1>2 DEF Words!BeginLoad, Words!TypeOK
    <2>2. WrittenOnce'
      <3>1. \A h \in Goroutine : Writing(h)' => Writing(h)
        BY <1>14, <1>2 DEF Words!BeginLoad, Words!TypeOK
      <3>2. UNCHANGED <<writes, ready, published>>
        BY <1>14 DEF Words!BeginLoad
      <3> HIDE DEF Writing
      <3> QED
        BY <3>1, <3>2, <1>2 DEF WrittenOnce
    <2>3. FlagWords'
      BY <1>14, <1>2 DEF Words!BeginLoad, Words!TypeOK, FlagWords, WrittenOnce,
         WritersHaveNumbers
    <2>4. FlagReaders'
      <3>1. \A h \in Goroutine \ {g} :
              Reading(h)' => /\ Reading(h)
                             /\ Snapped(h, Current)' = Snapped(h, Current)
        BY <1>14, <1>2 DEF Words!BeginLoad, Words!TypeOK
      <3>2. Reading(g)' => ready /\ Snapped(g, Current)'
        BY <1>14, <1>2 DEF Words!BeginLoad, Words!TypeOK
      <3>3. UNCHANGED ready
        BY <1>14 DEF Words!BeginLoad
      <3> HIDE DEF Reading, Snapped
      <3> QED
        BY <3>1, <3>2, <3>3, <1>2 DEF FlagReaders
    <2> QED BY <2>1, <2>2, <2>3, <2>4
  <1>15. CASE Words!Read(g)
    <2>1. (\A h \in Goroutine : addr[h] = 0)'
      BY <1>15, <1>2 DEF Words!Read, Words!TypeOK, Words!ReadWord
    <2>2. WrittenOnce'
      BY <1>15, <1>2 DEF Words!Read, Words!TypeOK, Words!ReadWord, WrittenOnce,
         WritersHaveNumbers
    <2>3. FlagWords'
      BY <1>15, <1>2 DEF Words!Read, Words!TypeOK, Words!ReadWord, FlagWords,
         WrittenOnce, WritersHaveNumbers
    <2>4. FlagReaders'
      <3>1. /\ ready /\ Holds(mem[0], Current) /\ Snapped(g, Current)
            /\ UNCHANGED <<ready, published>>
        BY <1>15, <1>2 DEF Words!Read, Words!ReadWord, FlagReaders, FlagWords
      <3>2. \A h \in Goroutine \ {g} : pc'[h] = pc[h] /\ snap'[h] = snap[h]
        BY <1>15, <1>2 DEF Words!Read, Words!ReadWord, Words!TypeOK
      <3>3. Snapped(g, Current)'
        BY <3>1, <1>15, <1>2 DEF Words!Read, Words!ReadWord, Words!TypeOK
      <3>4. \A h \in Goroutine \ {g} : Reading(h)' => Snapped(h, Current)'
        BY <3>1, <3>2, <1>2 DEF FlagReaders
      <3> QED
        BY <3>1, <3>3, <3>4 DEF FlagReaders
    <2> QED BY <2>1, <2>2, <2>3, <2>4
  <1>16. CASE Words!Reread(g)
    <2>1. (\A h \in Goroutine : addr[h] = 0)'
      BY <1>16, <1>2 DEF Words!Reread, Words!TypeOK, Words!ReadWord
    <2>2. WrittenOnce'
      BY <1>16, <1>2 DEF Words!Reread, Words!TypeOK, Words!ReadWord, WrittenOnce,
         WritersHaveNumbers
    <2>3. FlagWords'
      BY <1>16, <1>2 DEF Words!Reread, Words!TypeOK, Words!ReadWord, FlagWords,
         WrittenOnce, WritersHaveNumbers
    <2>4. FlagReaders'
      <3>1. /\ ready /\ Holds(mem[0], Current) /\ Snapped(g, Current)
            /\ UNCHANGED <<ready, published>>
        BY <1>16, <1>2 DEF Words!Reread, Words!ReadWord, FlagReaders, FlagWords
      <3>2. \A h \in Goroutine \ {g} : pc'[h] = pc[h] /\ snap'[h] = snap[h]
        BY <1>16, <1>2 DEF Words!Reread, Words!ReadWord, Words!TypeOK
      <3>3. Snapped(g, Current)'
        BY <3>1, <1>16, <1>2 DEF Words!Reread, Words!ReadWord, Words!TypeOK
      <3>4. \A h \in Goroutine \ {g} : Reading(h)' => Snapped(h, Current)'
        BY <3>1, <3>2, <1>2 DEF FlagReaders
      <3> QED
        BY <3>1, <3>3, <3>4 DEF FlagReaders
    <2> QED BY <2>1, <2>2, <2>3, <2>4
  <1>17. CASE Words!Validate(g)
    <2>1. (\A h \in Goroutine : addr[h] = 0)'
      BY <1>17, <1>2 DEF Words!Validate, Words!TypeOK
    <2>2. WrittenOnce'
      BY <1>17, <1>2 DEF Words!Validate, Words!TypeOK, WrittenOnce, WritersHaveNumbers
    <2>3. FlagWords'
      BY <1>17, <1>2 DEF Words!Validate, Words!TypeOK, FlagWords, WrittenOnce,
         WritersHaveNumbers
    <2>4. FlagReaders'
      BY <1>17, <1>2 DEF Words!Validate, Words!TypeOK, FlagReaders, WrittenOnce, FlagWords
    <2> QED BY <2>1, <2>2, <2>3, <2>4
  <1>18. CASE \E v \in 0 .. MaxWrites : Words!Republish(g, v)
    BY <1>18 DEF Words!Republish
  <1> QED
    BY <1>1, <1>3, <1>4, <1>5, <1>6, <1>7, <1>8, <1>9, <1>10, <1>11, <1>12, <1>13,
       <1>14, <1>15, <1>16, <1>17, <1>18
       DEF Words!Call, Words!Work

LEMMA PointerStep ==
  ASSUME WordsInv, cell = "PublishedPointer", Words!Next, Words!TypeOK'
  PROVE  PointerInv'
  <1> USE Bounds DEF Words!Goto, Words!localVars, Words!sharedVars, Words!Word, Holds,
          Inside, Building, Writing, Reading, Half, Snapped, Current, PointerInv
  <1>1. PICK g \in Goroutine : Words!Call(g) \/ Words!Work(g)
    BY DEF Words!Next
  <1>2. Words!TypeOK /\ WritersHaveNumbers /\ PointerInv
    BY DEF WordsInv
  <1>0. /\ Len(published) \in Nat /\ writes \in Nat
        /\ DOMAIN published = 1 .. Len(published)
        /\ published \in Seq(0 .. writes)
        /\ \A h \in Goroutine : val[h] \in 0 .. MaxWrites
    BY <1>2, WordsFacts DEF Words!TypeOK
  <1>3. CASE \E pairs \in BOOLEAN : Words!StartRead(g, pairs)
    <2>1. (p = Current)'
      BY <1>3, <1>2 DEF Words!StartRead, Words!TypeOK, WritersHaveNumbers
    <2>2. OwnStruct'
      <3>1. \A h \in Goroutine :
              (Writing(h)' => Writing(h)) /\ (Building(h)' => Building(h))
        BY <1>3, <1>2 DEF Words!StartRead, Words!TypeOK
      <3>2. UNCHANGED <<addr, val, published>>
        BY <1>3 DEF Words!StartRead
      <3> HIDE DEF Writing, Building
      <3> QED
        BY <3>1, <3>2, <1>2 DEF OwnStruct
    <2>3. Complete'
      <3>1. \A h \in Goroutine :
              /\ pc'[h] = "second" => pc[h] = "second"
              /\ pc'[h] = "publish" => pc[h] = "publish"
        BY <1>3, <1>2 DEF Words!StartRead, Words!TypeOK
      <3>2. UNCHANGED <<mem, val, published>>
        BY <1>3 DEF Words!StartRead
      <3> QED BY <3>1, <3>2, <1>2 DEF Complete
    <2>4. PointerReaders'
      <3>1. \A h \in Goroutine :
              Reading(h)' => /\ Reading(h) /\ since'[h] = since[h]
                             /\ Snapped(h, addr[h])' = Snapped(h, addr[h])
        BY <1>3, <1>2 DEF Words!StartRead, Words!TypeOK
      <3>2. UNCHANGED <<addr, published>>
        BY <1>3 DEF Words!StartRead
      <3> HIDE DEF Reading, Snapped
      <3> QED
        BY <3>1, <3>2, <1>2 DEF PointerReaders, Addressed
    <2> QED BY <2>1, <2>2, <2>3, <2>4
  <1>4. CASE Words!StartWrite(g)
    <2>1. (p = Current)'
      BY <1>4, <1>2 DEF Words!StartWrite, Words!TypeOK, WritersHaveNumbers
    <2>2. OwnStruct'
      <3>1. \A h \in Goroutine \ {g} :
              /\ Writing(h)' = Writing(h) /\ Building(h)' = Building(h)
              /\ val'[h] = val[h] /\ addr'[h] = addr[h]
              /\ val[h] \in 0 .. writes
        BY <1>4, <1>2 DEF Words!StartWrite, Words!TypeOK
      <3>2. val'[g] = writes + 1 /\ addr'[g] = writes + 1 /\ UNCHANGED published
        BY <1>4, <1>2 DEF Words!StartWrite, Words!TypeOK
      <3>3. \A i \in DOMAIN published : published[i] \in 0 .. writes
        BY <1>0
      <3> HIDE DEF Writing, Building
      <3>4. \A h \in Goroutine : val[h] \in 0 .. writes
        BY <1>2 DEF Words!TypeOK
      <3>5. ASSUME NEW h \in Goroutine, NEW i \in Goroutine, Building(h)', Writing(i)',
                   val'[h] = val'[i]
            PROVE  h = i
        BY <3>1, <3>2, <3>4, <3>5, <1>0, <1>2 DEF OwnStruct
      <3>6. ASSUME NEW h \in Goroutine, Writing(h)'
            PROVE  addr'[h] = val'[h]
        BY <3>1, <3>2, <3>6, <1>2 DEF OwnStruct
      <3>7. ASSUME NEW h \in Goroutine, Building(h)'
            PROVE  \A i \in DOMAIN published' : published'[i] # val'[h]
        BY <3>1, <3>2, <3>3, <3>7, <1>0, <1>2 DEF OwnStruct
      <3> QED
        BY <3>5, <3>6, <3>7 DEF OwnStruct
    <2>3. Complete'
      <3>1. \A h \in Goroutine :
              /\ pc'[h] = "second" => pc[h] = "second" /\ h # g
              /\ pc'[h] = "publish" => pc[h] = "publish" /\ h # g
              /\ h # g => val'[h] = val[h]
        BY <1>4, <1>2 DEF Words!StartWrite, Words!TypeOK
      <3>2. UNCHANGED <<mem, published>>
        BY <1>4 DEF Words!StartWrite
      <3> QED BY <3>1, <3>2, <1>2 DEF Complete
    <2>4. PointerReaders'
      <3>1. \A h \in Goroutine :
              Reading(h)' => /\ Reading(h) /\ since'[h] = since[h] /\ addr'[h] = addr[h]
                             /\ pc'[h] = pc[h] /\ snap'[h] = snap[h]
        BY <1>4, <1>2 DEF Words!StartWrite, Words!TypeOK
      <3>2. UNCHANGED published
        BY <1>4 DEF Words!StartWrite
      <3>3. \A h \in Goroutine : Reading(h)' => Snapped(h, addr[h])' /\ Snapped(h, addr[h])
        BY <3>1, <1>2 DEF PointerReaders
      <3> HIDE DEF Reading, Snapped
      <3> QED
        BY <3>1, <3>2, <3>3, <1>2 DEF PointerReaders, Addressed
    <2> QED BY <2>1, <2>2, <2>3, <2>4
  <1>5. CASE Words!LockWriter(g)
    BY <1>5, <1>2 DEF Words!LockWriter, WritersHaveNumbers
  <1>6. CASE Words!Enter(g)
    BY <1>6, <1>2 DEF Words!Enter, WritersHaveNumbers
  <1>7. CASE Words!WriteFirst(g)
    <2>1. (p = Current)'
      BY <1>7, <1>2 DEF Words!WriteFirst, Words!TypeOK, Words!Write, WritersHaveNumbers
    <2>2. OwnStruct'
      <3>1. \A h \in Goroutine :
              (Writing(h)' => Writing(h)) /\ (Building(h)' => Building(h))
        BY <1>7, <1>2 DEF Words!WriteFirst, Words!Write, Words!TypeOK
      <3>2. UNCHANGED <<addr, val, published>>
        BY <1>7 DEF Words!WriteFirst, Words!Write
      <3> HIDE DEF Writing, Building
      <3> QED
        BY <3>1, <3>2, <1>2 DEF OwnStruct
    <2>3. Complete'
      <3>1. /\ Building(g) /\ addr[g] = val[g] /\ val[g] \in 1 .. MaxWrites
            /\ mem[val[g]] \in [1 .. 2 -> 0 .. writes]
        BY <1>7, <1>2 DEF Words!WriteFirst, Words!Write, Words!TypeOK, OwnStruct,
           WritersHaveNumbers
      <3>2. /\ mem'[val[g]] = [mem[val[g]] EXCEPT ![1] = val[g]]
            /\ \A x \in 0 .. MaxWrites : x # val[g] => mem'[x] = mem[x]
            /\ UNCHANGED <<val, published>>
        BY <3>1, <1>7, <1>2 DEF Words!WriteFirst, Words!Write, Words!TypeOK
      <3>3. \A i \in DOMAIN published : /\ published[i] \in 0 .. MaxWrites
                                       /\ published[i] # val[g]
        <4>1. \A i \in DOMAIN published : published[i] \in 0 .. writes
          BY <1>0
        <4>2. writes \in 0 .. MaxWrites
          BY <1>2 DEF Words!TypeOK
        <4>3. \A i \in DOMAIN published : published[i] # val[g]
          BY <3>1, <1>2 DEF OwnStruct
        <4> QED BY <4>1, <4>2, <4>3
      <3>4. pc[g] = "first" /\ pc' = [pc EXCEPT ![g] = "second"]
        BY <1>7 DEF Words!WriteFirst, Words!Write
      <3>5. Half(g, mem[val[g]])'
        <4>1. Half(g, mem[val[g]]) /\ pc'[g] = "second" /\ val'[g] = val[g]
          BY <3>2, <3>4, <1>2 DEF Complete, Words!TypeOK
        <4> QED
          BY <3>1, <3>2, <3>4, <4>1
      <3>6. ASSUME NEW h \in Goroutine \ {g}
            PROVE  Half(h, mem[val[h]])'
        <4>1. Half(h, mem[val[h]]) /\ val[h] \in 0 .. MaxWrites
          <5>1. Half(h, mem[val[h]])
            BY <1>2 DEF Complete
          <5>2. val[h] \in 0 .. MaxWrites
            BY <1>0
          <5> QED BY <5>1, <5>2
        <4>2. Writing(h) => val[h] # val[g]
          BY <3>1, <1>2 DEF OwnStruct
        <4>3. pc'[h] = pc[h] /\ val'[h] = val[h]
          BY <3>2, <3>4, <1>2 DEF Words!TypeOK
        <4> QED
          BY <3>2, <4>1, <4>2, <4>3
      <3> QED
        BY <3>1, <3>2, <3>3, <3>5, <3>6, <1>2 DEF Complete
    <2>4. PointerReaders'
      <3>1. \A h \in Goroutine : Reading(h)' => Reading(h) /\ pc'[h] = pc[h]
        BY <1>7, <1>2 DEF Words!WriteFirst, Words!Write, Words!TypeOK
      <3>2. UNCHANGED <<addr, since, snap, published>>
        BY <1>7 DEF Words!WriteFirst, Words!Write
      <3> QED
        BY <3>1, <3>2, <1>2 DEF PointerReaders, Addressed
    <2> QED BY <2>1, <2>2, <2>3, <2>4
  <1>8. CASE Words!WriteSecond(g)
    <2>1. (p = Current)'
      BY <1>8, <1>2 DEF Words!WriteSecond, Words!TypeOK, Words!Write, WritersHaveNumbers
    <2>2. OwnStruct'
      <3>1. \A h \in Goroutine :
              (Writing(h)' => Writing(h)) /\ (Building(h)' => Building(h))
        BY <1>8, <1>2 DEF Words!WriteSecond, Words!Write, Words!TypeOK
      <3>2. UNCHANGED <<addr, val, published>>
        BY <1>8 DEF Words!WriteSecond, Words!Write
      <3> HIDE DEF Writing, Building
      <3> QED
        BY <3>1, <3>2, <1>2 DEF OwnStruct
    <2>3. Complete'
      <3>1. /\ Building(g) /\ addr[g] = val[g] /\ val[g] \in 1 .. MaxWrites
            /\ mem[val[g]] \in [1 .. 2 -> 0 .. writes]
        BY <1>8, <1>2 DEF Words!WriteSecond, Words!Write, Words!TypeOK, OwnStruct,
           WritersHaveNumbers
      <3>2. /\ mem'[val[g]] = [mem[val[g]] EXCEPT ![2] = val[g]]
            /\ \A x \in 0 .. MaxWrites : x # val[g] => mem'[x] = mem[x]
            /\ UNCHANGED <<val, published>>
        BY <3>1, <1>8, <1>2 DEF Words!WriteSecond, Words!Write, Words!TypeOK
      <3>3. \A i \in DOMAIN published : /\ published[i] \in 0 .. MaxWrites
                                       /\ published[i] # val[g]
        <4>1. \A i \in DOMAIN published : published[i] \in 0 .. writes
          BY <1>0
        <4>2. writes \in 0 .. MaxWrites
          BY <1>2 DEF Words!TypeOK
        <4>3. \A i \in DOMAIN published : published[i] # val[g]
          BY <3>1, <1>2 DEF OwnStruct
        <4> QED BY <4>1, <4>2, <4>3
      <3>4. pc[g] = "second" /\ pc' = [pc EXCEPT ![g] = "publish"]
        BY <1>8 DEF Words!WriteSecond, Words!Write
      <3>5. Half(g, mem[val[g]])'
        <4>1. Half(g, mem[val[g]]) /\ pc'[g] = "publish" /\ val'[g] = val[g]
          BY <3>2, <3>4, <1>2 DEF Complete, Words!TypeOK
        <4> QED
          BY <3>1, <3>2, <3>4, <4>1
      <3>6. ASSUME NEW h \in Goroutine \ {g}
            PROVE  Half(h, mem[val[h]])'
        <4>1. Half(h, mem[val[h]]) /\ val[h] \in 0 .. MaxWrites
          <5>1. Half(h, mem[val[h]])
            BY <1>2 DEF Complete
          <5>2. val[h] \in 0 .. MaxWrites
            BY <1>0
          <5> QED BY <5>1, <5>2
        <4>2. Writing(h) => val[h] # val[g]
          BY <3>1, <1>2 DEF OwnStruct
        <4>3. pc'[h] = pc[h] /\ val'[h] = val[h]
          BY <3>2, <3>4, <1>2 DEF Words!TypeOK
        <4> QED
          BY <3>2, <4>1, <4>2, <4>3
      <3> QED
        BY <3>1, <3>2, <3>3, <3>5, <3>6, <1>2 DEF Complete
    <2>4. PointerReaders'
      <3>1. \A h \in Goroutine : Reading(h)' => Reading(h) /\ pc'[h] = pc[h]
        BY <1>8, <1>2 DEF Words!WriteSecond, Words!Write, Words!TypeOK
      <3>2. UNCHANGED <<addr, since, snap, published>>
        BY <1>8 DEF Words!WriteSecond, Words!Write
      <3> QED
        BY <3>1, <3>2, <1>2 DEF PointerReaders, Addressed
    <2> QED BY <2>1, <2>2, <2>3, <2>4
  <1>9. CASE Words!Leave(g)
    BY <1>9, <1>2 DEF Words!Leave, WritersHaveNumbers, Words!Publishing
  <1>10. CASE Words!UnlockWriter(g)
    BY <1>10, <1>2 DEF Words!UnlockWriter, WritersHaveNumbers
  <1>11. CASE Words!SetReady(g)
    BY <1>11, <1>2 DEF Words!SetReady, WritersHaveNumbers, Words!Publishing
  <1>12. CASE Words!SetPointer(g)
    <2>5. /\ val[g] \in 0 .. writes /\ published' = Append(published, val[g])
          /\ Writing(g) /\ pc' = [pc EXCEPT ![g] = "idle"] /\ pc[g] = "publish"
          /\ UNCHANGED <<addr, val, mem, since, snap>> /\ p' = addr[g]
      BY <1>12, <1>2 DEF Words!SetPointer, Words!Publishing, Words!TypeOK,
         WritersHaveNumbers
    <2>6. /\ DOMAIN published' = 1 .. Len(published) + 1
          /\ Len(published') = Len(published) + 1 /\ published' # <<>>
          /\ \A i \in DOMAIN published : published'[i] = published[i]
          /\ published'[Len(published) + 1] = val[g]
      BY <2>5, <1>0, PublishNext
    <2>7. DOMAIN published' = DOMAIN published \cup {Len(published) + 1}
      BY <2>6, <1>0
    <2>8. addr[g] = val[g]
      BY <2>5, <1>2 DEF OwnStruct
    <2>10. \A h \in Goroutine : pc'[h] = IF h = g THEN "idle" ELSE pc[h]
      BY <2>5, <1>2 DEF Words!TypeOK
    <2>9. \A h \in Goroutine : Writing(h)' => h # g
      BY <2>5, <2>10
    <2>11. \A h \in Goroutine : Writing(h)' => Writing(h)
      BY <2>10
    <2>12. \A h \in Goroutine : Reading(h)' => Reading(h)
      BY <2>10
    <2>1. (p = Current)'
      BY <2>5, <2>6, <2>8
    <2>2. OwnStruct'
      <3>0. \A h \in Goroutine : Building(h)' => Building(h) /\ h # g
        BY <2>5, <2>10
      <3> HIDE DEF Writing, Building, Reading
      <3>1. \A h \in Goroutine : Building(h)' => Building(h) /\ val[h] # val[g]
        BY <3>0, <2>5, <1>2 DEF OwnStruct
      <3>2. ASSUME NEW h \in Goroutine, Writing(h)'
            PROVE  addr'[h] = val'[h]
        BY <3>2, <2>5, <2>11, <1>2 DEF OwnStruct
      <3>3. ASSUME NEW h \in Goroutine, Building(h)'
            PROVE  \A i \in DOMAIN published' : published'[i] # val'[h]
        BY <3>1, <3>3, <2>5, <2>6, <2>7, <1>2 DEF OwnStruct
      <3>4. ASSUME NEW h \in Goroutine, NEW i \in Goroutine, Building(h)', Writing(i)',
                   val'[h] = val'[i]
            PROVE  h = i
        BY <3>1, <3>4, <2>5, <2>11, <1>2 DEF OwnStruct
      <3> QED
        BY <3>2, <3>3, <3>4 DEF OwnStruct
    <2>3. Complete'
      <3>1. Holds(mem[val[g]], val[g])
        BY <2>5, <1>2 DEF Complete
      <3>2. \A i \in DOMAIN published' : Holds(mem'[published'[i]], published'[i])
        BY <3>1, <2>5, <2>6, <2>7, <1>2 DEF Complete
      <3>3. \A h \in Goroutine : Half(h, mem[val[h]])'
        BY <2>5, <2>10, <1>2 DEF Complete
      <3> QED
        BY <3>2, <3>3, <2>5, <1>2 DEF Complete
    <2>4. PointerReaders'
      <3>1. \A h \in Goroutine : Reading(h) => Addressed(h)'
        BY <2>5, <2>6, <2>7, <1>2 DEF PointerReaders, Addressed
      <3>2. \A h \in Goroutine : Reading(h) => Snapped(h, addr[h])'
        BY <2>5, <2>10, <1>2 DEF PointerReaders
      <3> HIDE DEF Reading, Snapped, Writing
      <3> QED
        BY <3>1, <3>2, <2>12 DEF PointerReaders
    <2> QED BY <2>1, <2>2, <2>3, <2>4
  <1>13. CASE Words!BeginSeq(g)
    BY <1>13, <1>2 DEF Words!BeginSeq, WritersHaveNumbers
  <1>14. CASE Words!BeginLoad(g)
    <2>1. (p = Current)'
      BY <1>14, <1>2 DEF Words!BeginLoad, Words!TypeOK, WritersHaveNumbers
    <2>2. OwnStruct'
      <3>1. \A h \in Goroutine : /\ Writing(h)' => Writing(h) /\ h # g
                                 /\ Building(h)' => Building(h)
        BY <1>14, <1>2 DEF Words!BeginLoad, Words!TypeOK
      <3>2. \A h \in Goroutine \ {g} : addr'[h] = addr[h]
        BY <1>14, <1>2 DEF Words!BeginLoad, Words!TypeOK
      <3>3. UNCHANGED <<val, published>>
        BY <1>14 DEF Words!BeginLoad
      <3> HIDE DEF Writing, Building
      <3>4. \A h \in Goroutine : Writing(h)' => addr'[h] = val'[h]
        BY <3>1, <3>2, <3>3, <1>2 DEF OwnStruct
      <3>5. \A h \in Goroutine :
              Building(h)' => \A i \in DOMAIN published' : published'[i] # val'[h]
        BY <3>1, <3>3, <1>2 DEF OwnStruct
      <3>6. \A h, i \in Goroutine :
              Building(h)' /\ Writing(i)' /\ val'[h] = val'[i] => h = i
        BY <3>1, <3>3, <1>2 DEF OwnStruct
      <3> QED
        BY <3>4, <3>5, <3>6 DEF OwnStruct
    <2>3. Complete'
      <3>1. \A h \in Goroutine :
              /\ pc'[h] = "second" => pc[h] = "second"
              /\ pc'[h] = "publish" => pc[h] = "publish"
        BY <1>14, <1>2 DEF Words!BeginLoad, Words!TypeOK
      <3>2. UNCHANGED <<mem, val, published>>
        BY <1>14 DEF Words!BeginLoad
      <3> QED BY <3>1, <3>2, <1>2 DEF Complete
    <2>4. PointerReaders'
      <3>1. /\ pc' = [pc EXCEPT ![g] = IF p # 0 THEN "read" ELSE "idle"]
            /\ addr' = [addr EXCEPT ![g] = p]
            /\ UNCHANGED <<published, since, snap>>
        BY <1>14, <1>2 DEF Words!BeginLoad
      <3>2. p # 0 => Len(published) \in DOMAIN published /\ published[Len(published)] = p
        BY <1>0, <1>2
      <3>3. since[g] <= Len(published)
        BY <1>0, <1>2 DEF Words!TypeOK
      <3>4. Reading(g)' => Addressed(g)' /\ Snapped(g, addr[g])'
        BY <3>1, <3>2, <3>3, <1>2 DEF Words!TypeOK, Addressed
      <3>5. \A h \in Goroutine \ {g} : Reading(h)' => Addressed(h)' /\ Snapped(h, addr[h])'
        BY <3>1, <1>2 DEF Words!TypeOK, PointerReaders, Addressed
      <3> QED
        BY <3>4, <3>5 DEF PointerReaders
    <2> QED BY <2>1, <2>2, <2>3, <2>4
  <1>15. CASE Words!Read(g)
    <2>1. (p = Current)'
      BY <1>15, <1>2 DEF Words!Read, Words!TypeOK, Words!ReadWord, WritersHaveNumbers
    <2>2. OwnStruct'
      <3>1. \A h \in Goroutine :
              (Writing(h)' => Writing(h)) /\ (Building(h)' => Building(h))
        BY <1>15, <1>2 DEF Words!Read, Words!ReadWord, Words!TypeOK
      <3>2. UNCHANGED <<addr, val, published>>
        BY <1>15 DEF Words!Read, Words!ReadWord
      <3> HIDE DEF Writing, Building
      <3> QED
        BY <3>1, <3>2, <1>2 DEF OwnStruct
    <2>3. Complete'
      BY <1>15, <1>2 DEF Words!Read, Words!TypeOK, Words!ReadWord, OwnStruct, Complete,
         WritersHaveNumbers
    <2>4. PointerReaders'
      <3>1. /\ pc[g] = "read" /\ pc' = [pc EXCEPT ![g] = "reread"]
            /\ UNCHANGED <<published, since, addr>>
        BY <1>15 DEF Words!Read, Words!ReadWord
      <3>2. Addressed(g) /\ Snapped(g, addr[g])
        BY <3>1, <1>2 DEF PointerReaders
      <3>3. Holds(mem[addr[g]], addr[g])
        BY <3>2, <1>2 DEF Addressed, Complete
      <3>4. /\ snap[g] \in [1 .. 2 -> 0 .. writes]
            /\ snap' = [snap EXCEPT ![g] = [snap[g] EXCEPT ![1] = addr[g]]]
        BY <3>3, <1>15, <1>2 DEF Words!Read, Words!ReadWord, Words!TypeOK
      <3>5. Addressed(g)' /\ Snapped(g, addr[g])'
        BY <3>1, <3>2, <3>4, <1>2 DEF Words!TypeOK, Addressed
      <3>6. \A h \in Goroutine \ {g} : Reading(h)' => Addressed(h)' /\ Snapped(h, addr[h])'
        BY <3>1, <3>4, <1>2 DEF Words!TypeOK, PointerReaders, Addressed
      <3> QED
        BY <3>5, <3>6 DEF PointerReaders
    <2> QED BY <2>1, <2>2, <2>3, <2>4
  <1>16. CASE Words!Reread(g)
    <2>1. (p = Current)'
      BY <1>16, <1>2 DEF Words!Reread, Words!TypeOK, Words!ReadWord, WritersHaveNumbers
    <2>2. OwnStruct'
      <3>1. \A h \in Goroutine :
              (Writing(h)' => Writing(h)) /\ (Building(h)' => Building(h))
        BY <1>16, <1>2 DEF Words!Reread, Words!ReadWord, Words!TypeOK
      <3>2. UNCHANGED <<addr, val, published>>
        BY <1>16 DEF Words!Reread, Words!ReadWord
      <3> HIDE DEF Writing, Building
      <3> QED
        BY <3>1, <3>2, <1>2 DEF OwnStruct
    <2>3. Complete'
      BY <1>16, <1>2 DEF Words!Reread, Words!TypeOK, Words!ReadWord, OwnStruct, Complete,
         WritersHaveNumbers
    <2>4. PointerReaders'
      <3>1. /\ pc[g] = "reread" /\ pc' = [pc EXCEPT ![g] = "validate"]
            /\ UNCHANGED <<published, since, addr>>
        BY <1>16 DEF Words!Reread, Words!ReadWord
      <3>2. Addressed(g) /\ Snapped(g, addr[g])
        BY <3>1, <1>2 DEF PointerReaders
      <3>3. Holds(mem[addr[g]], addr[g])
        BY <3>2, <1>2 DEF Addressed, Complete
      <3>4. /\ snap[g] \in [1 .. 2 -> 0 .. writes]
            /\ snap' = [snap EXCEPT ![g] = [snap[g] EXCEPT ![2] = addr[g]]]
        BY <3>3, <1>16, <1>2 DEF Words!Reread, Words!ReadWord, Words!TypeOK
      <3>5. Addressed(g)' /\ Snapped(g, addr[g])'
        BY <3>1, <3>2, <3>4, <1>2 DEF Words!TypeOK, Addressed
      <3>6. \A h \in Goroutine \ {g} : Reading(h)' => Addressed(h)' /\ Snapped(h, addr[h])'
        BY <3>1, <3>4, <1>2 DEF Words!TypeOK, PointerReaders, Addressed
      <3> QED
        BY <3>5, <3>6 DEF PointerReaders
    <2> QED BY <2>1, <2>2, <2>3, <2>4
  <1>17. CASE Words!Validate(g)
    <2>1. (p = Current)'
      BY <1>17, <1>2 DEF Words!Validate, Words!TypeOK, WritersHaveNumbers
    <2>2. OwnStruct'
      <3>1. \A h \in Goroutine :
              (Writing(h)' => Writing(h)) /\ (Building(h)' => Building(h))
        BY <1>17, <1>2 DEF Words!Validate, Words!TypeOK
      <3>2. UNCHANGED <<addr, val, published>>
        BY <1>17 DEF Words!Validate, Words!localVars
      <3> HIDE DEF Writing, Building
      <3> QED
        BY <3>1, <3>2, <1>2 DEF OwnStruct
    <2>3. Complete'
      BY <1>17, <1>2 DEF Words!Validate, Words!TypeOK, OwnStruct, Complete,
         WritersHaveNumbers
    <2>4. PointerReaders'
      BY <1>17, <1>2 DEF Words!Validate, Words!TypeOK, PointerReaders, OwnStruct,
         Addressed, Complete
    <2> QED BY <2>1, <2>2, <2>3, <2>4
  <1>18. CASE \E v \in 0 .. MaxWrites : Words!Republish(g, v)
    <2>0. PICK v \in 0 .. MaxWrites : Words!Republish(g, v)
      BY <1>18
    <2>5. /\ pc[g] = "idle" /\ pc'[g] = "publish" /\ val'[g] = v /\ addr'[g] = v
          /\ UNCHANGED <<mem, p, since, snap, published>>
          /\ v = 0 \/ \E i \in DOMAIN published : published[i] = v
      BY <2>0, <1>2 DEF Words!Republish, Words!TypeOK
    <2>6. \A h \in Goroutine \ {g} :
            pc'[h] = pc[h] /\ val'[h] = val[h] /\ addr'[h] = addr[h]
      BY <2>0, <1>2 DEF Words!Republish, Words!TypeOK
    <2>1. (p = Current)'
      BY <2>5, <1>2
    <2>2. OwnStruct'
      <3>1. \A h \in Goroutine \ {g} : Building(h)' => Building(h) /\ val'[h] # v
        BY <2>5, <2>6, <1>2 DEF OwnStruct, WritersHaveNumbers
      <3> QED
        BY <3>1, <2>5, <2>6, <1>2 DEF OwnStruct
    <2>3. Complete'
      <3>1. Holds(mem[v], v)
        BY <2>5, <1>2 DEF Complete
      <3> QED
        BY <3>1, <2>5, <2>6, <1>2 DEF Complete
    <2>4. PointerReaders'
      <3>1. \A h \in Goroutine : Reading(h)' => h # g /\ Reading(h)
        BY <2>5, <2>6
      <3> QED
        BY <3>1, <2>5, <2>6, <1>2 DEF PointerReaders, Addressed
    <2> QED BY <2>1, <2>2, <2>3, <2>4
  <1> QED
    BY <1>1, <1>3, <1>4, <1>5, <1>6, <1>7, <1>8, <1>9, <1>10, <1>11, <1>12, <1>13,
       <1>14, <1>15, <1>16, <1>17, <1>18
       DEF Words!Call, Words!Work

LEMMA ReturnStep ==
  ASSUME WordsInv, cell \in Words!Kind, Words!Next
  PROVE  ReturnsWhole
  <1> USE DEF Words!Goto
  <1>0. Words!TypeOK
    BY DEF WordsInv
  <1>a. /\ Len(published) \in Nat /\ DOMAIN published = 1 .. Len(published)
         /\ published \in Seq(0 .. writes)
         /\ \A g \in Goroutine : since[g] \in 0 .. Len(published)
    BY <1>0, WordsFacts DEF Words!TypeOK
  <1>b. published # <<>> => /\ Len(published) \in DOMAIN published
                              /\ Current = published[Len(published)]
    BY <1>a DEF Current
  <1>1. PICK g \in Goroutine : Words!Call(g) \/ Words!Work(g)
    BY DEF Words!Next
  <1>2. \A h \in Goroutine \ {g} : pc'[h] = pc[h]
    BY <1>0, <1>1 DEF Words!TypeOK, Words!Call, Words!StartWrite,
       Words!Republish, Words!StartRead,
       Words!Work,
       Words!LockWriter, Words!Enter, Words!WriteFirst, Words!WriteSecond, Words!Write,
       Words!Leave, Words!Publishing, Words!UnlockWriter, Words!SetReady, Words!SetPointer,
       Words!BeginSeq, Words!BeginLoad, Words!Read, Words!Reread, Words!ReadWord,
       Words!Validate
  <1>3. ASSUME pc[g] = "validate", pc'[g] = "idle"
        PROVE  Words!Whole(g)
    <2>1. cell = "SeqLock" => Words!Valid(g)
      BY <1>0, <1>1, <1>3 DEF Words!TypeOK, Words!Call, Words!StartWrite,
       Words!Republish, Words!StartRead,
       Words!Work, Words!LockWriter, Words!Enter, Words!WriteFirst, Words!WriteSecond,
       Words!Write, Words!Leave, Words!Publishing, Words!UnlockWriter, Words!SetReady,
       Words!SetPointer, Words!BeginSeq, Words!BeginLoad, Words!Read, Words!Reread,
       Words!ReadWord, Words!Validate
    <2>2. Reading(g)
      BY <1>3 DEF Reading
    <2>3. CASE cell = "SeqLock"
      <3>1. start[g] = seq /\ ~Words!Odd(seq)
        BY <2>1, <2>2, <2>3 DEF Words!Valid, WordsInv, SeqLockInv, Loaded
      <3>2. seq = 2 * Len(published)
        BY <3>1, <2>3, <1>a DEF Words!Odd, WordsInv, SeqLockInv, Counted
      <3>3. Holds(snap[g], Current)
        BY <3>1, <3>2, <2>2, <2>3, <1>3 DEF WordsInv, SeqLockInv, Loaded, Snapped
      <3>4. CASE published = <<>>
        BY <3>3, <3>4, <2>3, <1>a DEF Holds, Current, Words!Whole, Words!Fresh
      <3>5. CASE published # <<>>
        BY <3>3, <3>5, <2>3, <1>a, <1>b DEF Holds, Words!Whole, Words!Fresh
      <3> QED BY <3>4, <3>5
    <2>4. CASE cell = "ReadyFlag"
      <3>1. /\ Holds(snap[g], Current) /\ published # <<>>
            /\ \A i \in DOMAIN published : published[i] # 0
        BY <2>2, <2>4, <1>3 DEF WordsInv, ReadyFlagInv, WrittenOnce, FlagReaders, Snapped
      <3> QED
        BY <3>1, <1>a, <1>b DEF Holds, Words!Whole, Words!Fresh
    <2>5. CASE cell = "PublishedPointer"
      BY <2>2, <2>5, <1>3 DEF WordsInv, PointerInv, PointerReaders, Addressed, Snapped,
         Holds, Words!Whole, Words!Fresh
    <2> QED BY <2>3, <2>4, <2>5 DEF Words!Kind
  <1>4. ASSUME pc[g] = "begin", pc'[g] = "idle"
        PROVE  Words!Fresh(g, 0)
    <2>1. Words!BeginLoad(g)
      BY <1>0, <1>1, <1>4 DEF Words!TypeOK, Words!Call, Words!StartWrite,
       Words!Republish, Words!StartRead,
       Words!Work, Words!LockWriter, Words!Enter, Words!WriteFirst, Words!WriteSecond,
       Words!Write, Words!Leave, Words!Publishing, Words!UnlockWriter, Words!SetReady,
       Words!SetPointer, Words!BeginSeq, Words!Read, Words!Reread, Words!ReadWord,
       Words!Validate
    <2>2. CASE cell = "ReadyFlag"
      <3>1. ~ready
        BY <2>1, <2>2, <1>0, <1>4 DEF Words!BeginLoad, Words!TypeOK
      <3>2. published = <<>>
        BY <3>1, <2>2 DEF WordsInv, ReadyFlagInv, WrittenOnce
      <3> QED
        BY <3>2, <1>a DEF Words!Fresh
    <2>3. CASE cell = "PublishedPointer"
      <3>1. p = 0
        BY <2>1, <2>3, <1>0, <1>4 DEF Words!BeginLoad, Words!TypeOK
      <3>2. Current = 0
        BY <3>1, <2>3 DEF WordsInv, PointerInv
      <3>3. CASE published = <<>>
        BY <3>3, <1>a DEF Words!Fresh
      <3>4. CASE published # <<>>
        BY <3>2, <3>4, <1>a, <1>b DEF Words!Fresh
      <3> QED BY <3>3, <3>4
    <2> QED BY <2>1, <2>2, <2>3 DEF Words!BeginLoad
  <1> QED
    BY <1>2, <1>3, <1>4 DEF ReturnsWhole
-----------------------------------------------------------------------------
(* Division *)

LEMMA DivMod ==
  ASSUME NEW a \in Nat, NEW b \in Nat \ {0}
  PROVE  /\ a \div b \in Nat /\ a % b \in 0 .. b - 1
         /\ a = b * (a \div b) + (a % b)
  OBVIOUS

LEMMA DivUnique ==
  ASSUME NEW q \in Nat, NEW b \in Nat \ {0}, NEW r \in 0 .. b - 1
  PROVE  (b * q + r) \div b = q /\ (b * q + r) % b = r
  OBVIOUS

LEMMA NextWhole ==
  ASSUME NEW a \in Nat, NEW b \in Nat \ {0}, (a % b) + 1 = b
  PROVE  (a + 1) \div b = (a \div b) + 1 /\ (a + 1) % b = 0
  <1> DEFINE q == a \div b
  <1>1. q \in Nat /\ a = b * q + (a % b)
    BY DivMod
  <1>2. a + 1 = b * (q + 1) + 0
    <2> HIDE DEF q
    <2> QED BY <1>1
  <1>3. (b * (q + 1) + 0) \div b = q + 1 /\ (b * (q + 1) + 0) % b = 0
    <2>1. q + 1 \in Nat /\ 0 \in 0 .. b - 1
      BY <1>1
    <2> HIDE DEF q
    <2> QED BY <2>1, DivUnique, Zenon
  <1> QED BY <1>2, <1>3

LEMMA NextPart ==
  ASSUME NEW a \in Nat, NEW b \in Nat \ {0}, (a % b) + 1 # b
  PROVE  (a + 1) \div b = a \div b /\ (a + 1) % b = (a % b) + 1
  OBVIOUS

LEMMA Part ==
  ASSUME NEW a \in Nat, NEW b \in Nat \ {0}
  PROVE  (a % b) \div b = 0 /\ (a % b) % b = a % b /\ a % b \in 0 .. a
  OBVIOUS

LEMMA ProductBound ==
  ASSUME NEW a \in Nat, NEW b \in Nat , NEW c \in 0 .. a, NEW d \in 0 .. b
  PROVE  c * d \in 0 .. a * b
  OBVIOUS
-----------------------------------------------------------------------------
(* The token bucket *)

LEMMA BucketBounds ==
  /\ {MaxCap, MaxInterval, MaxElapsed, MaxCalls} \subseteq Nat
  BY CellsAssumption

(* Refilling keeps the bucket the eager one, and no fuller.                *)
LEMMA RefilledOK ==
  ASSUME BucketInv
  PROVE  /\ level = Bucket!Refilled /\ Bucket!Refilled \in 0 .. bucketCap
         /\ bucketCap \in 0 .. MaxCap /\ bucketCap \in Nat
         /\ interval \in Nat /\ elapsed \in Nat /\ tokens \in 0 .. bucketCap
  BY BucketBounds DEF BucketInv, Bucket!TypeOK, Bucket!AsIfEager

LEMMA RefillStep ==
  ASSUME BucketInv, NEW taken \in 0 .. Bucket!Refilled, Bucket!refill(taken)
  PROVE  /\ tokens' \in 0 .. bucketCap /\ level' \in 0 .. bucketCap
         /\ elapsed' \in 0 .. MaxElapsed
         /\ Bucket!AsIfEager'
  <1> USE BucketBounds DEF BucketInv, Bucket!refill, Bucket!sharedVars
  <1>1. /\ tokens' = Bucket!Refilled - taken /\ level' = level - taken
        /\ tokens' = level' /\ level' \in 0 .. bucketCap
        /\ UNCHANGED <<bucketCap, interval, phase>>
    BY RefilledOK
  <1>2. CASE interval = 0
    BY <1>1, <1>2, RefilledOK DEF Bucket!TypeOK, Bucket!AsIfEager, Bucket!Refilled,
       Bucket!Remainder
  <1>3. CASE interval # 0
    <2>1. elapsed' = elapsed % interval
      BY <1>3 DEF Bucket!Remainder
    <2>2. /\ elapsed' \in 0 .. elapsed /\ elapsed' \div interval = 0
          /\ elapsed' % interval = elapsed % interval
      <3>1. interval \in Nat \ {0} /\ elapsed \in Nat
        BY <1>3, RefilledOK
      <3> QED
        BY <2>1, <3>1, Part, Zenon
    <2>3. elapsed' \in 0 .. MaxElapsed
      BY <2>2 DEF Bucket!TypeOK
    <2>4. Bucket!Refilled' = tokens'
      BY <2>2, <1>1, <1>3, RefilledOK DEF Bucket!Refilled, Bucket!Full
    <2> QED
      BY <2>2, <2>3, <2>4, <1>1, <1>3 DEF Bucket!AsIfEager
  <1> QED BY <1>2, <1>3

LEMMA TickStep ==
  ASSUME BucketInv, Bucket!Tick
  PROVE  BucketInv'
  <1> USE BucketBounds DEF Bucket!Tick, Bucket!sharedVars
  <1>1. /\ UNCHANGED <<bucketCap, interval, tokens>> /\ elapsed' = elapsed + 1
        /\ elapsed' \in 0 .. MaxElapsed
    BY DEF BucketInv, Bucket!TypeOK
  <1>2. timer' \in [Goroutine -> 0 .. MaxCap * MaxInterval]
    <2>1. MaxCap * MaxInterval \in Nat
      OBVIOUS
    <2> DEFINE most == MaxCap * MaxInterval
    <2>2. timer \in [Goroutine -> 0 .. most]
      BY DEF BucketInv, Bucket!TypeOK
    <2>3. timer' = [g \in Goroutine |-> IF timer[g] = 0 THEN 0 ELSE timer[g] - 1]
      OBVIOUS
    <2> HIDE DEF most
    <2>4. timer' \in [Goroutine -> 0 .. most]
      BY <2>1, <2>2, <2>3 DEF most
    <2> QED
      BY <2>4 DEF most
  <1>3. CASE interval = 0
    <2>1. level' = level /\ phase' = 0
      BY <1>3
    <2>2. Bucket!AsIfEager'
      BY <2>1, <1>1, <1>3 DEF BucketInv, Bucket!AsIfEager, Bucket!Refilled
    <2>3. Bucket!TypeOK'
      BY <2>1, <1>1, <1>2, <1>3 DEF BucketInv, Bucket!TypeOK
    <2> QED BY <2>2, <2>3 DEF BucketInv
  <1>4. CASE interval # 0 /\ phase + 1 = interval
    <2>1. /\ elapsed \div interval \in Nat
          /\ elapsed' \div interval = (elapsed \div interval) + 1
          /\ elapsed' % interval = 0
      <3>1. interval \in Nat \ {0} /\ elapsed \in Nat
        BY <1>4, RefilledOK
      <3>2. (elapsed % interval) + 1 = interval
        BY <1>4 DEF BucketInv, Bucket!AsIfEager
      <3>3. elapsed' = elapsed + 1
        BY <1>1
      <3>4. /\ (elapsed + 1) \div interval = (elapsed \div interval) + 1
            /\ (elapsed + 1) % interval = 0
        BY <3>1, <3>2, NextWhole, Zenon
      <3>5. elapsed \div interval \in Nat
        BY <3>1, DivMod, Zenon
      <3> QED
        BY <3>3, <3>4, <3>5, Zenon
    <2>2. level' = Bucket!Full(level + 1) /\ phase' = 0
      BY <1>4
    <2>3. Bucket!AsIfEager'
      BY <2>1, <2>2, <1>1, <1>4, RefilledOK
         DEF Bucket!AsIfEager, Bucket!Refilled, Bucket!Full
    <2>4. level' \in 0 .. bucketCap
      BY <2>2, RefilledOK DEF Bucket!Full
    <2>5. Bucket!TypeOK'
      BY <2>2, <2>4, <1>1, <1>2, <1>4 DEF BucketInv, Bucket!TypeOK
    <2> QED BY <2>3, <2>5 DEF BucketInv
  <1>5. CASE interval # 0 /\ phase + 1 # interval
    <2>1. /\ elapsed' \div interval = elapsed \div interval
          /\ elapsed' % interval = (elapsed % interval) + 1
      <3>1. interval \in Nat \ {0} /\ elapsed \in Nat
        BY <1>5, RefilledOK
      <3>2. (elapsed % interval) + 1 # interval
        BY <1>5 DEF BucketInv, Bucket!AsIfEager
      <3> QED
        BY <3>1, <3>2, <1>1, NextPart, Zenon
    <2>2. level' = level /\ phase' = phase + 1
      BY <1>5
    <2>3. Bucket!AsIfEager'
      BY <2>1, <2>2, <1>1, <1>5 DEF BucketInv, Bucket!AsIfEager, Bucket!Refilled,
         Bucket!Full
    <2>4. phase' \in 0 .. MaxInterval
      <3>1. elapsed % interval \in 0 .. interval - 1
        BY <1>5, RefilledOK, DivMod
      <3>2. phase = elapsed % interval /\ interval \in 0 .. MaxInterval
        BY <1>5 DEF BucketInv, Bucket!AsIfEager, Bucket!TypeOK
      <3> QED BY <3>1, <3>2, <2>2
    <2>5. Bucket!TypeOK'
      BY <2>2, <2>4, <1>1, <1>2, <1>5 DEF BucketInv, Bucket!TypeOK
    <2> QED BY <2>3, <2>5 DEF BucketInv
  <1> QED BY <1>3, <1>4, <1>5

LEMMA BucketStep ==
  ASSUME BucketInv, Bucket!Next
  PROVE  BucketInv'
  <1> USE BucketBounds DEF Bucket!sharedVars, Bucket!localVars
  <1>0. Bucket!TypeOK /\ Bucket!AsIfEager
    BY DEF BucketInv
  <1>1. CASE Bucket!Tick
    BY <1>1, TickStep
  <1>2. CASE Bucket!Cancel
    BY <1>2, <1>0 DEF Bucket!Cancel, BucketInv, Bucket!TypeOK, Bucket!AsIfEager,
       Bucket!Refilled, Bucket!Full
  <1>3. ASSUME NEW g \in Goroutine, NEW n \in 1 .. MaxCap, Bucket!AllowN(g, n)
        PROVE  BucketInv'
    <2> DEFINE taken == IF Bucket!Refilled < n THEN 0 ELSE n
    <2>1. taken \in 0 .. Bucket!Refilled
      BY RefilledOK
    <2>2. Bucket!refill(taken)
      BY <1>3 DEF Bucket!AllowN
    <2> HIDE DEF taken
    <2>3. /\ tokens' \in 0 .. bucketCap /\ level' \in 0 .. bucketCap
          /\ elapsed' \in 0 .. MaxElapsed
          /\ Bucket!AsIfEager'
      BY <2>1, <2>2, RefillStep
    <2> QED
      BY <2>2, <2>3, <1>3, <1>0 DEF Bucket!AllowN, Bucket!Call, Bucket!refill, BucketInv,
         Bucket!TypeOK
  <1>4. ASSUME NEW g \in Goroutine, NEW n \in 1 .. MaxCap, Bucket!WaitN(g, n)
        PROVE  BucketInv'
    <2>1. Bucket!TypeOK'
      BY <1>4, <1>0 DEF Bucket!WaitN, Bucket!Call, Bucket!TypeOK
    <2>2. Bucket!AsIfEager'
      BY <1>4, <1>0 DEF Bucket!WaitN, Bucket!AsIfEager, Bucket!Refilled, Bucket!Full
    <2> QED BY <2>1, <2>2 DEF BucketInv
  <1>5. ASSUME NEW g \in Goroutine, Bucket!Take(g)
        PROVE  BucketInv'
    <2>1. want[g] \in 0 .. Bucket!Refilled /\ Bucket!refill(want[g])
      BY <1>5, <1>0, RefilledOK DEF Bucket!Take, Bucket!TypeOK
    <2>2. /\ tokens' \in 0 .. bucketCap /\ level' \in 0 .. bucketCap
          /\ elapsed' \in 0 .. MaxElapsed
          /\ Bucket!AsIfEager'
      BY <2>1, RefillStep
    <2>3. want' \in [Goroutine -> 0 .. bucketCap]
      BY <1>5, <1>0, RefilledOK DEF Bucket!Take, Bucket!Leave, Bucket!TypeOK
    <2> QED
      BY <2>1, <2>2, <2>3, <1>5, <1>0 DEF Bucket!Take, Bucket!Leave, Bucket!refill,
         BucketInv,
         Bucket!TypeOK
  <1>6. ASSUME NEW g \in Goroutine, Bucket!Sleep(g)
        PROVE  BucketInv'
    <2>1. 0 \in 0 .. Bucket!Refilled /\ Bucket!refill(0)
      BY <1>6, RefilledOK DEF Bucket!Sleep
    <2>2. /\ tokens' \in 0 .. bucketCap /\ level' \in 0 .. bucketCap
          /\ elapsed' \in 0 .. MaxElapsed
          /\ Bucket!AsIfEager'
      BY <2>1, RefillStep
    <2>3. /\ want[g] - Bucket!Refilled \in 0 .. MaxCap
          /\ interval \in 0 .. MaxInterval
      BY <1>6, <1>0, RefilledOK DEF Bucket!Sleep, Bucket!TypeOK
    <2>4. (want[g] - Bucket!Refilled) * interval \in 0 .. MaxCap * MaxInterval
      BY <2>3, ProductBound
    <2>5. timer' \in [Goroutine -> 0 .. MaxCap * MaxInterval]
      BY <2>4, <1>6, <1>0 DEF Bucket!Sleep, Bucket!TypeOK
    <2> QED
      BY <2>1, <2>2, <2>5, <1>6, <1>0 DEF Bucket!Sleep, Bucket!refill, BucketInv,
         Bucket!TypeOK
  <1>7. ASSUME NEW g \in Goroutine, Bucket!Wake(g)
        PROVE  BucketInv'
    <2>1. Bucket!TypeOK'
      BY <1>7, <1>0 DEF Bucket!Wake, Bucket!TypeOK
    <2>2. Bucket!AsIfEager'
      BY <1>7, <1>0 DEF Bucket!Wake, Bucket!AsIfEager, Bucket!Refilled, Bucket!Full
    <2> QED BY <2>1, <2>2 DEF BucketInv
  <1>8. ASSUME NEW g \in Goroutine, Bucket!GiveUp(g)
        PROVE  BucketInv'
    <2>1. Bucket!TypeOK'
      BY <1>8, <1>0, RefilledOK DEF Bucket!GiveUp, Bucket!Leave, Bucket!TypeOK
    <2>2. Bucket!AsIfEager'
      BY <1>8, <1>0 DEF Bucket!GiveUp, Bucket!AsIfEager, Bucket!Refilled, Bucket!Full
    <2> QED BY <2>1, <2>2 DEF BucketInv
  <1> QED
    BY <1>1, <1>2, <1>3, <1>4, <1>5, <1>6, <1>7, <1>8 DEF Bucket!Next, Bucket!Work
-----------------------------------------------------------------------------
(* The LRU cache *)

LEMMA Sentinels ==
  /\ HeadNode # TailNode /\ HeadNode # Nil /\ TailNode # Nil
  /\ HeadNode \notin Key /\ TailNode \notin Key /\ Nil \notin Key
  /\ MaxCap \in Nat
  BY CellsAssumption

LEMMA SameCardinality ==
  \A S : LRU!Cardinality(S) = Cardinality(S)
  BY DEF LRU!Cardinality, Cardinality

LEMMA NodesOfLine ==
  ASSUME NEW s \in Seq(Key)
  PROVE  /\ LRU!NodeAt(s, 0) = HeadNode
         /\ \A i \in 1 .. Len(s) : LRU!NodeAt(s, i) = s[i]
         /\ LRU!NodeAt(s, Len(s) + 1) = TailNode
         /\ Len(s) \in Nat /\ DOMAIN s = 1 .. Len(s)
         /\ \A i \in 1 .. Len(s) : s[i] \in Key
  <1>1. Len(s) \in Nat /\ DOMAIN s = 1 .. Len(s) /\ \A i \in 1 .. Len(s) : s[i] \in Key
    OBVIOUS
  <1> QED
    BY <1>1 DEF LRU!NodeAt

LEMMA LineOnce ==
  ASSUME NEW s \in Seq(Key), Once(s)
  PROVE  /\ \A i \in 0 .. Len(s) + 1 : LRU!NodeAt(s, i) \in LRU!Node
         /\ \A i, j \in 0 .. Len(s) + 1 : LRU!NodeAt(s, i) = LRU!NodeAt(s, j) => i = j
  <1>1. Len(s) \in Nat
    OBVIOUS
  <1>2. \A i \in 0 .. Len(s) + 1 : i = 0 \/ i \in 1 .. Len(s) \/ i = Len(s) + 1
    BY <1>1
  <1>3. \A i, j \in 1 .. Len(s) : LRU!NodeAt(s, i) = LRU!NodeAt(s, j) => i = j
    BY NodesOfLine DEF Once
  <1>4. \A i \in 1 .. Len(s) : /\ LRU!NodeAt(s, i) \in Key
                               /\ LRU!NodeAt(s, i) # HeadNode
                               /\ LRU!NodeAt(s, i) # TailNode
    BY NodesOfLine, Sentinels
  <1> QED
    BY <1>1, <1>2, <1>3, <1>4, NodesOfLine, Sentinels DEF LRU!Node

LEMMA WithoutNth ==
  ASSUME NEW s \in Seq(Key), NEW n \in 1 .. Len(s)
  PROVE  /\ LRU!Without(s, n) \in Seq(Key)
         /\ Len(LRU!Without(s, n)) = Len(s) - 1
         /\ \A i \in 1 .. Len(s) - 1 :
              LRU!Without(s, n)[i] = IF i < n THEN s[i] ELSE s[i + 1]
  <1>1. Len(s) \in Nat /\ \A i \in 1 .. Len(s) : s[i] \in Key
    OBVIOUS
  <1> DEFINE left == SubSeq(s, 1, n - 1)
             right == SubSeq(s, n + 1, Len(s))
  <1>2. /\ left \in Seq(Key) /\ Len(left) = n - 1
        /\ \A i \in 1 .. n - 1 : left[i] = s[i]
    BY <1>1, SubSeqProperties
  <1>3. /\ right \in Seq(Key) /\ Len(right) = Len(s) - n
        /\ \A i \in 1 .. Len(s) - n : right[i] = s[n + i]
    BY <1>1, SubSeqProperties
  <1>4. LRU!Without(s, n) = left \o right
    BY DEF LRU!Without
  <1> HIDE DEF left, right
  <1>5. /\ left \o right \in Seq(Key) /\ Len(left \o right) = Len(s) - 1
        /\ \A i \in 1 .. Len(s) - 1 :
             (left \o right)[i] = IF i <= n - 1 THEN left[i] ELSE right[i - (n - 1)]
    BY <1>1, <1>2, <1>3, ConcatProperties
  <1>6. ASSUME NEW i \in 1 .. Len(s) - 1
        PROVE  (left \o right)[i] = IF i < n THEN s[i] ELSE s[i + 1]
    <2>1. CASE i < n
      BY <2>1, <1>1, <1>2, <1>5
    <2>2. CASE ~(i < n)
      <3>1. i - (n - 1) \in 1 .. Len(s) - n /\ n + (i - (n - 1)) = i + 1
        BY <2>2, <1>1
      <3>2. right[i - (n - 1)] = s[i + 1]
        BY <3>1, <1>3
      <3> QED
        BY <2>2, <3>2, <1>1, <1>5
    <2> QED BY <2>1, <2>2
  <1> QED
    BY <1>4, <1>5, <1>6

LEMMA WithoutNone ==
  ASSUME NEW s \in Seq(Key)
  PROVE  LRU!Without(s, Len(s) + 1) = s
  <1>1. Len(s) \in Nat
    OBVIOUS
  <1>2. SubSeq(s, 1, (Len(s) + 1) - 1) = s
    <2>1. (Len(s) + 1) - 1 = Len(s)
      BY <1>1
    <2> QED BY <2>1, SubSeqFull
  <1>3. SubSeq(s, (Len(s) + 1) + 1, Len(s)) = << >>
    BY <1>1, SubSeqEmpty
  <1> QED
    BY <1>2, <1>3, ConcatEmptySeq DEF LRU!Without

LEMMA RemovedNode ==
  ASSUME NEW l \in Pointers, NEW n \in LRU!Node, NEW a \in LRU!Node, NEW b \in LRU!Node,
         l[n].prev = a, l[n].next = b, a # n, b # n
  PROVE  /\ LRU!removeNode(l, n) \in Pointers
         /\ \A m \in LRU!Node \ {n} :
              /\ LRU!removeNode(l, n)[m].next = IF m = a THEN b ELSE l[m].next
              /\ LRU!removeNode(l, n)[m].prev = IF m = b THEN a ELSE l[m].prev
  BY DEF LRU!removeNode, Pointers

LEMMA AppendedNode ==
  ASSUME NEW l \in Pointers, NEW n \in Key, NEW a \in LRU!Node,
         l[TailNode].prev = a, a # n, a # TailNode
  PROVE  /\ LRU!appendTail(l, n) \in Pointers
         /\ \A m \in LRU!Node :
              /\ LRU!appendTail(l, n)[m].next =
                   IF m = a THEN n ELSE IF m = n THEN TailNode ELSE l[m].next
              /\ LRU!appendTail(l, n)[m].prev =
                   IF m = TailNode THEN n ELSE IF m = n THEN a ELSE l[m].prev
  BY Sentinels DEF LRU!appendTail, Pointers, LRU!Node

(* Taking the n-th key off leaves the list of the others.                  *)
LEMMA RemoveMirrors ==
  ASSUME NEW l, NEW C, NEW s, Mirrors(l, C, s), NEW n \in 1 .. Len(s)
  PROVE  Mirrors(LRU!removeNode(l, s[n]), C \ {s[n]}, LRU!Without(s, n))
  <1> DEFINE t == LRU!Without(s, n)
             r == LRU!removeNode(l, s[n])
             At(i) == LRU!NodeAt(s, i)
  <1>1. /\ l \in Pointers /\ s \in Seq(Key) /\ Once(s) /\ LRU!Linked(l, s)
        /\ C = {s[i] : i \in DOMAIN s} /\ IsFiniteSet(C) /\ Len(s) = Cardinality(C)
    BY DEF Mirrors
  <1>2. Len(s) \in Nat /\ DOMAIN s = 1 .. Len(s) /\ \A i \in 1 .. Len(s) : s[i] \in Key
    BY <1>1
  <1>3. /\ \A i \in 0 .. Len(s) + 1 : At(i) \in LRU!Node
        /\ \A i, j \in 0 .. Len(s) + 1 : At(i) = At(j) => i = j
        /\ At(n) = s[n]
        /\ \A i \in 0 .. Len(s) : l[At(i)].next = At(i + 1) /\ l[At(i + 1)].prev = At(i)
    BY <1>1, <1>2, LineOnce, NodesOfLine DEF LRU!Linked
  <1>0. Len(s) \in Nat /\ n \in 1 .. Len(s)
    BY <1>2
  <1>4. /\ t \in Seq(Key) /\ Len(t) = Len(s) - 1 /\ DOMAIN t = 1 .. Len(s) - 1
        /\ \A i \in 1 .. Len(s) - 1 : t[i] = IF i < n THEN s[i] ELSE s[i + 1]
    <2>1. /\ t \in Seq(Key) /\ Len(t) = Len(s) - 1
          /\ \A i \in 1 .. Len(s) - 1 : t[i] = IF i < n THEN s[i] ELSE s[i + 1]
      BY <1>1, <1>2, WithoutNth
    <2> HIDE DEF t
    <2>2. DOMAIN t = 1 .. Len(t)
      BY <2>1
    <2> QED BY <2>1, <2>2
  <1>5. ASSUME NEW i \in 0 .. Len(s)
        PROVE  LRU!NodeAt(t, i) = At(IF i < n THEN i ELSE i + 1)
    <2> HIDE DEF t
    <2>1. i = 0 \/ i \in 1 .. Len(s) - 1 \/ i = Len(t) + 1
      <3>1. Len(t) + 1 = Len(s)
        BY <1>0, <1>4
      <3> QED BY <3>1, <1>0
    <2>2. CASE i = 0
      BY <2>2, <1>1, <1>4, NodesOfLine
    <2>3. CASE i \in 1 .. Len(s) - 1
      BY <2>3, <1>1, <1>2, <1>4, NodesOfLine
    <2>4. CASE i = Len(t) + 1
      BY <2>4, <1>1, <1>2, <1>4, NodesOfLine
    <2> QED BY <2>1, <2>2, <2>3, <2>4
  <1>6. /\ At(n - 1) \in LRU!Node /\ At(n + 1) \in LRU!Node /\ s[n] \in LRU!Node
        /\ l[s[n]].prev = At(n - 1) /\ l[s[n]].next = At(n + 1)
        /\ At(n - 1) # s[n] /\ At(n + 1) # s[n]
    <2>1. n - 1 \in 0 .. Len(s) /\ n \in 0 .. Len(s) /\ (n - 1) + 1 = n
      BY <1>2
    <2>2. n - 1 \in 0 .. Len(s) + 1 /\ n + 1 \in 0 .. Len(s) + 1 /\ n \in 0 .. Len(s) + 1
      BY <1>2
    <2> HIDE DEF At
    <2> QED BY <2>1, <2>2, <1>3
  <1> HIDE DEF At
  <1>7. /\ r \in Pointers
        /\ \A m \in LRU!Node \ {s[n]} :
             /\ r[m].next = IF m = At(n - 1) THEN At(n + 1) ELSE l[m].next
             /\ r[m].prev = IF m = At(n + 1) THEN At(n - 1) ELSE l[m].prev
    BY <1>1, <1>6, RemovedNode
  <1> HIDE DEF r, t
  <1>8. ASSUME NEW i \in 0 .. Len(t)
        PROVE  /\ r[LRU!NodeAt(t, i)].next = LRU!NodeAt(t, i + 1)
               /\ r[LRU!NodeAt(t, i + 1)].prev = LRU!NodeAt(t, i)
    <2>1. i \in 0 .. Len(s) /\ i + 1 \in 0 .. Len(s) /\ i \in Nat
      BY <1>2, <1>4
    <2>2. CASE i < n - 1
      <3>1. LRU!NodeAt(t, i) = At(i) /\ LRU!NodeAt(t, i + 1) = At(i + 1)
        BY <2>1, <2>2, <1>5
      <3>2. /\ i # n /\ i # n - 1 /\ i + 1 # n /\ i + 1 # n + 1
            /\ {i, i + 1, n, n - 1, n + 1} \subseteq 0 .. Len(s) + 1
        BY <2>1, <2>2, <1>2
      <3> QED
        BY <3>1, <3>2, <2>1, <1>3, <1>7
    <2>3. CASE i = n - 1
      <3>1. LRU!NodeAt(t, i) = At(n - 1) /\ LRU!NodeAt(t, i + 1) = At(n + 1)
        BY <2>1, <2>3, <1>5
      <3> QED
        BY <3>1, <1>6, <1>7
    <2>4. CASE i > n - 1
      <3>1. LRU!NodeAt(t, i) = At(i + 1) /\ LRU!NodeAt(t, i + 1) = At(i + 2)
        BY <2>1, <2>4, <1>5
      <3>2. /\ i + 1 # n /\ i + 1 # n - 1 /\ i + 2 # n /\ i + 2 # n + 1 /\ i + 2 = (i + 1) + 1
            /\ {i + 1, i + 2, n, n - 1, n + 1} \subseteq 0 .. Len(s) + 1
            /\ i + 1 \in 0 .. Len(s)
        BY <2>1, <2>4, <1>2, <1>4
      <3> QED
        BY <3>1, <3>2, <1>3, <1>7
    <2> QED BY <2>1, <2>2, <2>3, <2>4
  <1>9. C \ {s[n]} = {t[i] : i \in DOMAIN t}
    <2>1. ASSUME NEW i \in DOMAIN t
          PROVE  t[i] \in C \ {s[n]}
      <3>1. CASE i < n
        BY <3>1, <1>1, <1>2, <1>4 DEF Once
      <3>2. CASE ~(i < n)
        <4>1. t[i] = s[i + 1] /\ i + 1 \in DOMAIN s /\ n \in DOMAIN s /\ i + 1 # n
          BY <3>2, <1>2, <1>4
        <4> QED BY <4>1, <1>1 DEF Once
      <3> QED BY <3>1, <3>2
    <2>2. ASSUME NEW j \in DOMAIN s, j # n
          PROVE  \E i \in DOMAIN t : t[i] = s[j]
      <3>1. CASE j < n
        BY <3>1, <1>2, <1>4
      <3>2. CASE j > n
        <4>1. /\ j - 1 \in DOMAIN t /\ ~(j - 1 < n) /\ (j - 1) + 1 = j
          BY <3>2, <1>2, <1>4
        <4> QED BY <4>1, <1>4
      <3> QED BY <2>2, <3>1, <3>2, <1>2
    <2> QED BY <2>1, <2>2, <1>1
  <1>10. Once(t)
    <2> SUFFICES ASSUME NEW i \in DOMAIN t, NEW j \in DOMAIN t, t[i] = t[j]
                 PROVE  i = j
      BY DEF Once
    <2>1. CASE i < n /\ j < n
      BY <2>1, <1>1, <1>2, <1>4 DEF Once
    <2>2. CASE i < n /\ ~(j < n)
      <3>1. /\ t[i] = s[i] /\ t[j] = s[j + 1] /\ i # j + 1
            /\ i \in DOMAIN s /\ j + 1 \in DOMAIN s
        BY <2>2, <1>2, <1>4
      <3> QED BY <3>1, <1>1 DEF Once
    <2>3. CASE ~(i < n) /\ j < n
      <3>1. /\ t[i] = s[i + 1] /\ t[j] = s[j] /\ i + 1 # j
            /\ i + 1 \in DOMAIN s /\ j \in DOMAIN s
        BY <2>3, <1>2, <1>4
      <3> QED BY <3>1, <1>1 DEF Once
    <2>4. CASE ~(i < n) /\ ~(j < n)
      <3>1. t[i] = s[i + 1] /\ t[j] = s[j + 1] /\ {i + 1, j + 1} \subseteq DOMAIN s
        BY <2>4, <1>0, <1>2, <1>4
      <3>2. i + 1 = j + 1
        BY <3>1, <1>1 DEF Once
      <3> QED BY <3>2, <1>0, <1>4
    <2> QED BY <2>1, <2>2, <2>3, <2>4
  <1>11. IsFiniteSet(C \ {s[n]}) /\ Len(t) = Cardinality(C \ {s[n]})
    <2>1. s[n] \in C
      BY <1>1, <1>2
    <2> QED BY <2>1, <1>1, <1>4, FS_RemoveElement
  <1> QED
    BY <1>4, <1>7, <1>8, <1>9, <1>10, <1>11 DEF Mirrors, LRU!Linked, r, t

(* A key that is not there becomes the last.                               *)
LEMMA AppendMirrors ==
  ASSUME NEW l, NEW C, NEW s, Mirrors(l, C, s), NEW k \in Key, k \notin C
  PROVE  Mirrors(LRU!appendTail(l, k), C \cup {k}, Append(s, k))
  <1> DEFINE t == Append(s, k)
             r == LRU!appendTail(l, k)
             At(i) == LRU!NodeAt(s, i)
  <1>1. /\ l \in Pointers /\ s \in Seq(Key) /\ Once(s) /\ LRU!Linked(l, s)
        /\ C = {s[i] : i \in DOMAIN s} /\ IsFiniteSet(C) /\ Len(s) = Cardinality(C)
    BY DEF Mirrors
  <1>2. /\ Len(s) \in Nat /\ DOMAIN s = 1 .. Len(s)
        /\ \A i \in 1 .. Len(s) : s[i] \in Key /\ s[i] # k
    BY <1>1
  <1>0. Len(s) \in Nat
    BY <1>2
  <1>3. /\ \A i \in 0 .. Len(s) + 1 : At(i) \in LRU!Node
        /\ \A i, j \in 0 .. Len(s) + 1 : At(i) = At(j) => i = j
        /\ At(0) = HeadNode /\ At(Len(s) + 1) = TailNode
        /\ \A i \in 1 .. Len(s) : At(i) = s[i]
        /\ \A i \in 0 .. Len(s) : l[At(i)].next = At(i + 1) /\ l[At(i + 1)].prev = At(i)
    BY <1>1, <1>2, LineOnce, NodesOfLine DEF LRU!Linked
  <1>4. /\ t \in Seq(Key) /\ Len(t) = Len(s) + 1 /\ DOMAIN t = 1 .. Len(s) + 1
        /\ \A i \in 1 .. Len(s) : t[i] = s[i]
        /\ t[Len(s) + 1] = k
    BY <1>1, <1>2, AppendProperties
  <1> HIDE DEF t, At
  <1>5. /\ \A i \in 0 .. Len(s) : LRU!NodeAt(t, i) = At(i)
        /\ LRU!NodeAt(t, Len(s) + 1) = k
        /\ LRU!NodeAt(t, Len(s) + 2) = TailNode
    <2>1. LRU!NodeAt(t, 0) = HeadNode
      BY <1>4, NodesOfLine
    <2>2. \A i \in 1 .. Len(s) + 1 : LRU!NodeAt(t, i) = t[i]
      BY <1>4, NodesOfLine
    <2>3. LRU!NodeAt(t, Len(s) + 2) = TailNode
      <3>1. Len(s) + 2 = Len(t) + 1
        BY <1>2, <1>4
      <3> QED BY <3>1, <1>4, NodesOfLine
    <2> QED BY <2>1, <2>2, <2>3, <1>2, <1>3, <1>4
  <1>6. \A i \in 0 .. Len(s) + 1 : At(i) # k
    <2>1. \A i \in 0 .. Len(s) + 1 : i = 0 \/ i \in 1 .. Len(s) \/ i = Len(s) + 1
      BY <1>0
    <2> QED BY <2>1, <1>2, <1>3, Sentinels
  <1>7. /\ At(Len(s)) \in LRU!Node /\ l[TailNode].prev = At(Len(s))
        /\ At(Len(s)) # k /\ At(Len(s)) # TailNode
    <2>1. /\ Len(s) \in 0 .. Len(s) + 1 /\ Len(s) + 1 \in 0 .. Len(s) + 1
          /\ Len(s) \in 0 .. Len(s) /\ Len(s) # Len(s) + 1
      BY <1>0
    <2> QED BY <2>1, <1>3, <1>6
  <1>8. /\ r \in Pointers
        /\ \A m \in LRU!Node :
             /\ r[m].next = IF m = At(Len(s)) THEN k
                            ELSE IF m = k THEN TailNode ELSE l[m].next
             /\ r[m].prev = IF m = TailNode THEN k
                            ELSE IF m = k THEN At(Len(s)) ELSE l[m].prev
    BY <1>1, <1>7, AppendedNode
  <1> HIDE DEF r
  <1>9. ASSUME NEW i \in 0 .. Len(t)
        PROVE  /\ r[LRU!NodeAt(t, i)].next = LRU!NodeAt(t, i + 1)
               /\ r[LRU!NodeAt(t, i + 1)].prev = LRU!NodeAt(t, i)
    <2>1. CASE i \in 0 .. Len(s) - 1
      <3>1. /\ i \in 0 .. Len(s) /\ i + 1 \in 0 .. Len(s) /\ i # Len(s)
            /\ {i, i + 1, Len(s), Len(s) + 1} \subseteq 0 .. Len(s) + 1
            /\ i + 1 # Len(s) + 1
        BY <2>1, <1>0
      <3>2. LRU!NodeAt(t, i) = At(i) /\ LRU!NodeAt(t, i + 1) = At(i + 1)
        BY <3>1, <1>5
      <3>3. /\ At(i) # At(Len(s)) /\ At(i) # k /\ At(i + 1) # k /\ At(i + 1) # TailNode
            /\ At(i) \in LRU!Node /\ At(i + 1) \in LRU!Node
        BY <3>1, <1>3, <1>6
      <3> QED
        BY <3>1, <3>2, <3>3, <1>3, <1>8
    <2>2. CASE i = Len(s)
      <3>1. i \in 0 .. Len(s)
        BY <2>2, <1>2
      <3>2. LRU!NodeAt(t, i) = At(Len(s)) /\ LRU!NodeAt(t, i + 1) = k
        BY <3>1, <2>2, <1>5
      <3>3. k \in LRU!Node /\ k # TailNode
        BY Sentinels DEF LRU!Node
      <3> QED
        BY <3>2, <3>3, <1>7, <1>8
    <2>3. CASE i = Len(s) + 1
      <3>1. i + 1 = Len(s) + 2
        BY <2>3, <1>2
      <3>2. LRU!NodeAt(t, i) = k /\ LRU!NodeAt(t, i + 1) = TailNode
        BY <3>1, <2>3, <1>5
      <3>3. k \in LRU!Node /\ TailNode \in LRU!Node
        BY DEF LRU!Node
      <3> QED
        BY <3>2, <3>3, <1>7, <1>8
    <2>4. i \in 0 .. Len(s) - 1 \/ i = Len(s) \/ i = Len(s) + 1
      BY <1>0, <1>4
    <2> QED BY <2>1, <2>2, <2>3, <2>4
  <1>10. DOMAIN t = DOMAIN s \cup {Len(s) + 1}
    BY <1>2, <1>4
  <1>11. C \cup {k} = {t[i] : i \in DOMAIN t}
    BY <1>1, <1>2, <1>4, <1>10
  <1>12. Once(t)
    BY <1>1, <1>2, <1>4, <1>10 DEF Once
  <1>13. IsFiniteSet(C \cup {k}) /\ Len(t) = Cardinality(C \cup {k})
    BY <1>1, <1>4, FS_AddElement
  <1> QED
    BY <1>4, <1>8, <1>9, <1>11, <1>12, <1>13 DEF Mirrors, LRU!Linked, r, t

(* A key that is used becomes the last, wherever it was.                   *)
LEMMA UseMirrors ==
  ASSUME Mirrors(list, cache, recency), NEW k \in cache
  PROVE  /\ Mirrors(LRU!appendTail(LRU!removeNode(list, k), k), cache, LRU!Touch(k))
         /\ Len(LRU!Touch(k)) = Len(recency)
  <1>1. /\ recency \in Seq(Key) /\ cache = {recency[i] : i \in DOMAIN recency}
        /\ DOMAIN recency = 1 .. Len(recency) /\ Len(recency) \in Nat
    BY DEF Mirrors
  <1>2. PICK n \in 1 .. Len(recency) : n = LRU!Place(k) /\ recency[n] = k
    BY <1>1 DEF LRU!Place
  <1>3. k \in Key
    BY <1>1
  <1> DEFINE l == LRU!removeNode(list, k)
             s == LRU!Without(recency, n)
  <1>4. Mirrors(l, cache \ {k}, s)
    BY <1>2, RemoveMirrors
  <1>5. s \in Seq(Key) /\ Len(s) = Len(recency) - 1
    BY <1>1, <1>2, WithoutNth
  <1>6. LRU!Touch(k) = Append(s, k)
    BY <1>2 DEF LRU!Touch
  <1> HIDE DEF l, s
  <1>7. Mirrors(LRU!appendTail(l, k), (cache \ {k}) \cup {k}, Append(s, k))
    BY <1>3, <1>4, AppendMirrors
  <1>8. (cache \ {k}) \cup {k} = cache
    OBVIOUS
  <1>9. Len(Append(s, k)) = Len(recency)
    <2>1. Len(Append(s, k)) = Len(s) + 1
      BY <1>3, <1>5, AppendProperties
    <2> QED BY <2>1, <1>1, <1>5
  <1> QED
    BY <1>6, <1>7, <1>8, <1>9 DEF l

LEMMA NewestAll ==
  ASSUME NEW s \in Seq(Key), NEW n \in Nat, Len(s) <= n
  PROVE  LRU!Newest(s, n) = s
  <1>1. ~(Len(s) > n)
    BY LenProperties
  <1> QED
    BY <1>1, SubSeqFull DEF LRU!Newest

(* One more than n: the first is the one too many.                         *)
LEMMA NewestButOne ==
  ASSUME NEW s \in Seq(Key), NEW k \in Key, s # <<>>
  PROVE  LRU!Newest(Append(s, k), Len(s)) = Append(LRU!Without(s, 1), k)
  <1> DEFINE t == Append(s, k)
             u == LRU!Without(s, 1)
             m == Len(s)
  <1>1. m \in Nat /\ 1 \in 1 .. m
    BY EmptySeq
  <1>2. /\ t \in Seq(Key) /\ Len(t) = m + 1
        /\ \A i \in 1 .. m : t[i] = s[i]
        /\ t[m + 1] = k /\ \A i \in 1 .. m + 1 : t[i] \in Key
    BY <1>1, AppendProperties, ElementOfSeq
  <1>3. /\ u \in Seq(Key) /\ Len(u) = m - 1
        /\ \A i \in 1 .. m - 1 : u[i] = s[i + 1]
    BY <1>1, WithoutNth
  <1>4. LRU!Newest(t, m) = SubSeq(t, 2, m + 1)
    <2> HIDE DEF t, m
    <2>1. Len(t) > m /\ Len(t) - m + 1 = 2
      BY <1>1, <1>2
    <2> QED BY <2>1, <1>2 DEF LRU!Newest
  <1> HIDE DEF t, u, m
  <1>5. /\ SubSeq(t, 2, m + 1) \in Seq(Key) /\ Len(SubSeq(t, 2, m + 1)) = m
        /\ \A i \in 1 .. m : SubSeq(t, 2, m + 1)[i] = t[i + 1]
    <2>1. \A i \in 2 .. m + 1 : t[i] \in Key
      BY <1>1, <1>2
    <2>2. /\ SubSeq(t, 2, m + 1) \in Seq(Key)
          /\ Len(SubSeq(t, 2, m + 1)) = IF 2 <= m + 1 THEN (m + 1) - 2 + 1 ELSE 0
          /\ \A i \in 1 .. (m + 1) - 2 + 1 : SubSeq(t, 2, m + 1)[i] = t[2 + i - 1]
      BY <2>1, <1>1, SubSeqProperties
    <2>3. (m + 1) - 2 + 1 = m /\ 2 <= m + 1
      BY <1>1
    <2>4. \A i \in 1 .. m : 2 + i - 1 = i + 1
      BY <1>1
    <2> QED BY <2>2, <2>3, <2>4
  <1>6. /\ Append(u, k) \in Seq(Key) /\ Len(Append(u, k)) = m
        /\ \A i \in 1 .. m - 1 : Append(u, k)[i] = u[i]
        /\ Append(u, k)[m] = k
    BY <1>1, <1>3, AppendProperties
  <1>7. ASSUME NEW i \in 1 .. m
        PROVE  SubSeq(t, 2, m + 1)[i] = Append(u, k)[i]
    <2>1. CASE i = m
      BY <2>1, <1>1, <1>2, <1>5, <1>6
    <2>2. CASE i # m
      BY <2>2, <1>1, <1>2, <1>3, <1>5, <1>6
    <2> QED BY <2>1, <2>2
  <1>8. SubSeq(t, 2, m + 1) = Append(u, k)
    BY <1>5, <1>6, <1>7, SeqEqual
  <1> QED
    BY <1>4, <1>8 DEF t, u, m

(* Putting x under k leaves the values alike.                              *)
LEMMA PutValues ==
  ASSUME LRUInv, NEW k \in Key, NEW x \in Val,
         lruVal' = [lruVal EXCEPT ![k] = x], last' = [last EXCEPT ![k] = x],
         cache' \subseteq cache \cup {k}
  PROVE  /\ lruVal' \in [Key -> Val \cup {LRU!NoVal}]
         /\ last' \in [Key -> Val \cup {LRU!NoVal}]
         /\ \A j \in cache' : lruVal'[j] = last'[j]
  BY DEF LRUInv, LRU!TypeOK

LEMMA PutStep ==
  ASSUME LRUInv, NEW k \in Key, NEW x \in Val, LRU!Put(k, x)
  PROVE  LRUInv'
  <1> DEFINE Kept == /\ Mirrors(list', cache', recency') /\ Len(recency') <= lruCap
                     /\ cache' \subseteq cache \cup {k}
  <1>1. /\ LRU!TypeOK /\ Mirrors(list, cache, recency) /\ Len(recency) <= lruCap
        /\ lruCap \in Nat /\ cache \subseteq Key
        /\ recency \in Seq(Key) /\ Len(recency) \in Nat
        /\ Len(recency) = Cardinality(cache)
    BY Sentinels DEF LRUInv, LRU!TypeOK, Mirrors
  <1>2. /\ lruCap # 0 /\ recency' = LRU!Newest(LRU!Touch(k), lruCap)
        /\ last' = [last EXCEPT ![k] = x] /\ lruVal' = [lruVal EXCEPT ![k] = x]
        /\ UNCHANGED <<lruCap, answer>>
    BY DEF LRU!Put, LRU!Update, LRU!Insert
  <1>3. ASSUME LRU!Update(k, x)
        PROVE  Kept
    <2>1. /\ k \in cache /\ cache' = cache
          /\ list' = LRU!appendTail(LRU!removeNode(list, k), k)
      BY <1>3 DEF LRU!Update
    <2>2. Mirrors(list', cache', LRU!Touch(k)) /\ Len(LRU!Touch(k)) = Len(recency)
      BY <1>1, <2>1, UseMirrors
    <2>3. recency' = LRU!Touch(k)
      BY <1>1, <1>2, <2>2, NewestAll DEF Mirrors
    <2> QED BY <1>1, <2>1, <2>2, <2>3
  <1>4. ASSUME LRU!Insert(k, x), Cardinality(cache) < lruCap
        PROVE  Kept
    <2>1. /\ k \notin cache /\ cache' = cache \cup {k}
          /\ list' = LRU!appendTail(list, k)
      <3>1. ~(Cardinality(cache) >= lruCap)
        BY <1>1, <1>4
      <3>2. list' = LRU!appendTail(IF Cardinality(cache) >= lruCap
                                   THEN LRU!removeNode(list, list[HeadNode].next)
                                   ELSE list, k)
        BY <1>4, SameCardinality DEF LRU!Insert
      <3>3. /\ k \notin cache
            /\ cache' = (IF Cardinality(cache) >= lruCap
                         THEN cache \ {list[HeadNode].next} ELSE cache) \cup {k}
        BY <1>4, SameCardinality DEF LRU!Insert
      <3> QED BY <3>1, <3>2, <3>3
    <2>2. LRU!Touch(k) = Append(recency, k)
      <3>1. LRU!Place(k) = Len(recency) + 1
        BY <1>1, <2>1 DEF LRU!Place, Mirrors
      <3> QED BY <3>1, <1>1, WithoutNone DEF LRU!Touch
    <2>3. Mirrors(list', cache', LRU!Touch(k))
      BY <1>1, <2>1, <2>2, AppendMirrors
    <2>4. LRU!Touch(k) \in Seq(Key) /\ Len(LRU!Touch(k)) <= lruCap
      <3>1. /\ Append(recency, k) \in Seq(Key)
            /\ Len(Append(recency, k)) = Len(recency) + 1
        BY <1>1, AppendProperties
      <3> QED BY <3>1, <2>2, <1>1, <1>4
    <2>5. recency' = LRU!Touch(k)
      BY <1>1, <1>2, <2>4, NewestAll
    <2> QED BY <2>1, <2>3, <2>4, <2>5
  <1>5. ASSUME LRU!Insert(k, x), ~(Cardinality(cache) < lruCap)
        PROVE  Kept
    <2> DEFINE evict == list[HeadNode].next
               l     == LRU!removeNode(list, evict)
    <2>1. /\ k \notin cache /\ cache' = (cache \ {evict}) \cup {k}
          /\ list' = LRU!appendTail(l, k)
      <3>1. Cardinality(cache) >= lruCap
        BY <1>1, <1>5
      <3>2. list' = LRU!appendTail(IF Cardinality(cache) >= lruCap
                                   THEN LRU!removeNode(list, list[HeadNode].next)
                                   ELSE list, k)
        BY <1>5, SameCardinality DEF LRU!Insert
      <3>3. /\ k \notin cache
            /\ cache' = (IF Cardinality(cache) >= lruCap
                         THEN cache \ {list[HeadNode].next} ELSE cache) \cup {k}
        BY <1>5, SameCardinality DEF LRU!Insert
      <3> QED BY <3>1, <3>2, <3>3
    <2>2. Len(recency) = lruCap /\ recency # <<>> /\ 1 \in 1 .. Len(recency)
      <3>1. Len(recency) = lruCap
        BY <1>1, <1>5
      <3>2. Len(recency) > 0
        BY <3>1, <1>1, <1>2
      <3> QED BY <3>1, <3>2, <1>1, EmptySeq
    <2>3. evict = recency[1]
      <3>1. list[LRU!NodeAt(recency, 0)].next = LRU!NodeAt(recency, 0 + 1)
        BY <1>1 DEF Mirrors, LRU!Linked
      <3> QED BY <3>1, <2>2, <1>1, NodesOfLine
    <2>4. Mirrors(l, cache \ {evict}, LRU!Without(recency, 1))
      BY <1>1, <2>2, <2>3, RemoveMirrors
    <2> HIDE DEF evict, l
    <2>5. Mirrors(list', cache', Append(LRU!Without(recency, 1), k))
      BY <2>1, <2>4, AppendMirrors
    <2>6. LRU!Touch(k) = Append(recency, k)
      <3>1. LRU!Place(k) = Len(recency) + 1
        BY <1>1, <2>1 DEF LRU!Place, Mirrors
      <3> QED BY <3>1, <1>1, WithoutNone DEF LRU!Touch
    <2>7. recency' = Append(LRU!Without(recency, 1), k)
      BY <1>1, <1>2, <2>2, <2>6, NewestButOne
    <2>8. Len(recency') = Len(recency)
      <3>1. /\ LRU!Without(recency, 1) \in Seq(Key)
            /\ Len(LRU!Without(recency, 1)) = Len(recency) - 1
        BY <1>1, <2>2, WithoutNth
      <3>2. Len(recency') = Len(LRU!Without(recency, 1)) + 1
        BY <3>1, <2>7, AppendProperties
      <3> QED BY <3>1, <3>2, <1>1
    <2> QED BY <1>1, <2>1, <2>5, <2>7, <2>8
  <1>6. Kept
    BY <1>3, <1>4, <1>5 DEF LRU!Put
  <1>7. /\ lruVal' \in [Key -> Val \cup {LRU!NoVal}]
        /\ last' \in [Key -> Val \cup {LRU!NoVal}]
        /\ \A j \in cache' : lruVal'[j] = last'[j]
    BY <1>2, <1>6, PutValues
  <1>8. LRU!TypeOK'
    BY <1>1, <1>2, <1>6, <1>7 DEF LRU!TypeOK, Mirrors, Pointers
  <1> QED
    BY <1>2, <1>6, <1>7, <1>8 DEF LRUInv

LEMMA GetStep ==
  ASSUME LRUInv, NEW k \in Key, LRU!Get(k)
  PROVE  LRUInv'
  <1>1. /\ LRU!TypeOK /\ Mirrors(list, cache, recency) /\ Len(recency) <= lruCap
    BY DEF LRUInv
  <1>2. CASE k \in cache
    <2>1. /\ list' = LRU!appendTail(LRU!removeNode(list, k), k)
          /\ answer' = <<k, lruVal[k], TRUE>> /\ recency' = LRU!Touch(k)
          /\ UNCHANGED <<lruCap, cache, lruVal, last>>
      BY <1>2 DEF LRU!Get
    <2>2. Mirrors(list', cache', recency') /\ Len(recency') = Len(recency)
      BY <1>1, <1>2, <2>1, UseMirrors
    <2>3. LRU!TypeOK'
      BY <1>1, <2>1, <2>2 DEF LRU!TypeOK, Mirrors, Pointers
    <2>4. \A j \in cache' : lruVal'[j] = last'[j]
      BY <2>1 DEF LRUInv
    <2> QED
      BY <1>1, <2>1, <2>2, <2>3, <2>4 DEF LRUInv
  <1>3. CASE k \notin cache
    <2>1. /\ answer' = <<k, LRU!NoVal, FALSE>>
          /\ UNCHANGED <<lruCap, cache, list, lruVal, recency, last>>
      BY <1>3 DEF LRU!Get
    <2>2. LRU!TypeOK'
      BY <1>1, <2>1 DEF LRU!TypeOK
    <2> QED
      BY <1>1, <2>1, <2>2 DEF LRUInv
  <1> QED BY <1>2, <1>3
-----------------------------------------------------------------------------
(* All three *)

LEMMA InitInv == Init => Inv
  <1> SUFFICES ASSUME Init PROVE Inv
    OBVIOUS
  <1>1. WordsInv
    <2> USE Bounds DEF Init, Words!Init, Words!Word
    <2>1. Words!TypeOK
      <3>1. <<>> \in Seq(1 .. 0) /\ Len(<<>>) = 0
        BY EmptySeq
      <3>2. published \in Seq(0 .. writes) /\ since \in [Goroutine -> 0 .. Len(published)]
        BY <3>1
      <3>3. mem \in [0 .. MaxWrites -> [Words!Word -> 0 .. writes]]
        OBVIOUS
      <3>4. snap \in [Goroutine -> [Words!Word -> 0 .. writes]]
        OBVIOUS
      <3> QED BY <3>2, <3>3, <3>4 DEF Words!TypeOK
    <2>2. Len(published) = 0 /\ published = <<>>
      BY EmptySeq
    <2>3. WritersHaveNumbers
      BY DEF WritersHaveNumbers, Inside, Writing
    <2> USE DEF Inside, Writing, Reading, Half, Snapped, Current, Holds
    <2>4. SeqLockInv
      BY <2>2 DEF SeqLockInv, OneWriter, Counted, Written, Loaded
    <2>5. ReadyFlagInv
      BY <2>2 DEF ReadyFlagInv, WrittenOnce, FlagWords, FlagReaders
    <2>6. PointerInv
      BY <2>2 DEF PointerInv, OwnStruct, Complete, PointerReaders
    <2> QED BY <2>1, <2>3, <2>4, <2>5, <2>6 DEF WordsInv
  <1>2. LRUInv
    <2> USE Sentinels DEF Init, LRU!Init
    <2>1. recency = <<>> /\ <<>> \in Seq(Key) /\ Len(<<>>) = 0 /\ DOMAIN <<>> = {}
      BY EmptySeq
    <2>2. list \in Pointers
      BY DEF Pointers, LRU!Node
    <2>3. LRU!Linked(list, recency)
      BY <2>1 DEF LRU!Linked, LRU!NodeAt, LRU!Node
    <2>4. Mirrors(list, cache, recency)
      BY <2>1, <2>2, <2>3, FS_EmptySet DEF Mirrors, Once
    <2>5. LRU!TypeOK
      BY <2>1, <2>2 DEF LRU!TypeOK, Pointers
    <2> QED BY <2>1, <2>4, <2>5 DEF LRUInv
  <1>3. BucketInv
    <2> USE BucketBounds DEF Init, Bucket!Init
    <2>1. MaxCap * MaxInterval \in Nat
      OBVIOUS
    <2>2. Bucket!TypeOK
      <3>1. timer \in [Goroutine -> {0}]
        OBVIOUS
      <3>2. {0} \subseteq 0 .. MaxCap * MaxInterval
        BY <2>1
      <3>3. timer \in [Goroutine -> 0 .. MaxCap * MaxInterval]
        BY <3>1, <3>2, Zenon
      <3>4. waiter \in [Goroutine -> {"idle", "try", "timer", "ctx"}]
        OBVIOUS
      <3>5. /\ want \in [Goroutine -> 0 .. bucketCap]
            /\ tokens \in 0 .. bucketCap /\ level \in 0 .. bucketCap
        OBVIOUS
      <3>6. /\ bucketCap \in 0 .. MaxCap /\ interval \in 0 .. MaxInterval
        OBVIOUS
      <3>7. elapsed \in 0 .. MaxElapsed /\ phase \in 0 .. MaxInterval
        OBVIOUS
      <3>8. calls \in 0 .. MaxCalls
        OBVIOUS
      <3>9. done \in BOOLEAN
        OBVIOUS
      <3> QED BY <3>3, <3>4, <3>5, <3>6, <3>7, <3>8, <3>9, Zenon DEF Bucket!TypeOK
    <2>3. interval # 0 => 0 \div interval = 0 /\ 0 % interval = 0
      OBVIOUS
    <2>4. Bucket!AsIfEager
      BY <2>3 DEF Bucket!AsIfEager, Bucket!Refilled, Bucket!Full
    <2> QED BY <2>2, <2>4 DEF BucketInv
  <1> QED BY <1>1, <1>2, <1>3 DEF Inv

(* A structure that is not in use keeps its invariant.                     *)
LEMMA WordsStill ==
  ASSUME WordsInv, UNCHANGED <<cell, wordsVars>>
  PROVE  WordsInv'
  BY DEF WordsInv, wordsVars, Words!TypeOK, WritersHaveNumbers, SeqLockInv, OneWriter,
     Counted, Written, Loaded, ReadyFlagInv, WrittenOnce, FlagWords, FlagReaders, PointerInv,
     OwnStruct, Complete, PointerReaders, Addressed, Inside, Building, Writing, Reading, Half,
     Snapped, Holds, Current, Words!Odd
LEMMA LRUStill ==
  ASSUME LRUInv, UNCHANGED lruVars
  PROVE  LRUInv'
  BY DEF LRUInv, lruVars, LRU!TypeOK, Mirrors
LEMMA BucketStill ==
  ASSUME BucketInv, UNCHANGED bucketVars
  PROVE  BucketInv'
  BY DEF BucketInv, bucketVars, Bucket!TypeOK, Bucket!AsIfEager, Bucket!Refilled,
     Bucket!Full

LEMMA WordsStep ==
  ASSUME WordsInv, UsesWords, Words!Next
  PROVE  WordsInv' /\ ReturnsWhole
  <1>1. cell \in Words!Kind /\ cell' = cell
    BY DEF UsesWords
  <1>2. Words!TypeOK' /\ WritersHaveNumbers'
    BY <1>1, WordsTypeStep
  <1>3. cell = "SeqLock" => SeqLockInv'
    BY <1>2, SeqLockStep
  <1>4. cell = "ReadyFlag" => ReadyFlagInv'
    BY <1>2, ReadyFlagStep
  <1>5. cell = "PublishedPointer" => PointerInv'
    BY <1>2, PointerStep
  <1>6. ReturnsWhole
    BY <1>1, ReturnStep
  <1> QED
    BY <1>1, <1>2, <1>3, <1>4, <1>5, <1>6 DEF WordsInv

LEMMA StepInv == Inv /\ [Next]_vars => Inv'
  <1> SUFFICES ASSUME Inv, [Next]_vars PROVE Inv'
    OBVIOUS
  <1>0. WordsInv /\ LRUInv /\ BucketInv
    BY DEF Inv
  <1>1. CASE UsesWords /\ Words!Next
    <2>1. UNCHANGED lruVars /\ UNCHANGED bucketVars
      BY <1>1 DEF UsesWords
    <2> QED BY <2>1, <1>0, <1>1, WordsStep, LRUStill, BucketStill DEF Inv
  <1>2. CASE UsesLRU /\ LRU!Next
    <2>1. UNCHANGED <<cell, wordsVars>> /\ UNCHANGED bucketVars
      BY <1>2 DEF UsesLRU
    <2>2. LRUInv'
      BY <1>0, <1>2, GetStep, PutStep DEF LRU!Next
    <2> QED BY <2>1, <2>2, <1>0, WordsStill, BucketStill DEF Inv
  <1>3. CASE UsesBucket /\ Bucket!Next
    <2>1. UNCHANGED <<cell, wordsVars>> /\ UNCHANGED lruVars
      BY <1>3 DEF UsesBucket
    <2> QED BY <2>1, <1>0, <1>3, WordsStill, LRUStill, BucketStep DEF Inv
  <1>4. CASE UNCHANGED vars
    <2>1. UNCHANGED <<cell, wordsVars>> /\ UNCHANGED lruVars /\ UNCHANGED bucketVars
      BY <1>4 DEF vars
    <2> QED BY <2>1, <1>0, WordsStill, LRUStill, BucketStill DEF Inv
  <1> QED BY <1>1, <1>2, <1>3, <1>4 DEF Next

(* The conjunction the four theorems below follow from.                    *)
THEOREM Invariance == Spec => []Inv
  <1> QED BY InitInv, StepInv, PTL DEF Spec

(* Every word, pointer, counter and timer keeps its type; in particular    *)
(* the bucket never holds more than its capacity.                          *)
THEOREM TypeCorrectness == Spec => []TypeOK
  <1>1. Inv => TypeOK
    BY DEF Inv, TypeOK, WordsInv, LRUInv, BucketInv
  <1> QED BY <1>1, Invariance, PTL

(* A read that returns has the whole value of one write, not overwritten   *)
(* when it was called (lock_test.go:246-253, publication.go:12, 29).       *)
THEOREM ReadersSeeOneWrite == Spec => ReadsWhole
  <1>1. Inv /\ [Next]_vars => [ReturnsWhole]_vars
    <2> SUFFICES ASSUME Inv, [Next]_vars PROVE [ReturnsWhole]_vars
      OBVIOUS
    <2>0. WordsInv
      BY DEF Inv
    <2>1. CASE UsesWords /\ Words!Next
      BY <2>0, <2>1, WordsStep
    <2>2. CASE UsesLRU \/ UsesBucket
      <3>1. UNCHANGED pc
        BY <2>2 DEF UsesLRU, UsesBucket, wordsVars
      <3> QED BY <3>1 DEF ReturnsWhole
    <2>3. CASE UNCHANGED vars
      BY <2>3
    <2> QED BY <2>1, <2>2, <2>3 DEF Next
  <1> QED BY <1>1, Invariance, PTL DEF Spec, ReadsWhole

(* The LRU's list, map and values are those of a cache that holds the keys *)
(* used last, in the order of their use (lru.go:41-50).                    *)
THEOREM ListIsOrderOfUse == Spec => []MirrorsRecency
  <1>1. Inv => MirrorsRecency
    <2> SUFFICES ASSUME Inv PROVE LRU!MirrorsRecency
      BY DEF MirrorsRecency
    <2>1. /\ LRU!Linked(list, recency)
          /\ cache = {recency[i] : i \in DOMAIN recency}
          /\ Len(recency) = Cardinality(cache) /\ Len(recency) <= lruCap
      BY DEF Inv, LRUInv, Mirrors
    <2>2. \A k \in cache : lruVal[k] = last[k]
      BY DEF Inv, LRUInv
    <2> QED BY <2>1, <2>2, SameCardinality, Zenon DEF LRU!MirrorsRecency
  <1> QED BY <1>1, Invariance, PTL

(* A bucket refilled on demand is at every moment the one that is refilled *)
(* all the time (token_bucket.go:22, 45-48).                               *)
THEOREM LazyIsEager == Spec => []AsIfEager
  <1>1. Inv => AsIfEager
    BY DEF Inv, BucketInv, AsIfEager
  <1> QED BY <1>1, Invariance, PTL
=============================================================================
