---------------------------- MODULE Gates_proofs ----------------------------
(***************************************************************************)
(* Proofs about the latches, the WaitGroup, the barriers and Once of       *)
(* package syncx, for any finite set of goroutines and any number of       *)
(* rounds and calls.                                                       *)
(***************************************************************************)
EXTENDS MCGates, FiniteSetTheorems, TLAPS

(* The instances have their own names for Cardinality. *)
LEMMA PartyCardinality == \A S : Party!Cardinality(S) = Cardinality(S)
  BY DEF Party!Cardinality, Cardinality

LEMMA GroupCardinality == \A S : Group!Cardinality(S) = Cardinality(S)
  BY DEF Group!Cardinality, Cardinality

(* What adding and removing one goroutine does to the size of a set.       *)
LEMMA Counts ==
  ASSUME NEW S \in SUBSET Goroutine, NEW g \in Goroutine
  PROVE  /\ Cardinality(S) \in Nat
         /\ S = {} => Cardinality(S) = 0
         /\ g \notin S => Cardinality(S \cup {g}) = Cardinality(S) + 1
         /\ g \in S => /\ Cardinality(S) > 0
                       /\ Cardinality(S \ {g}) = Cardinality(S) - 1
  <1>1. IsFiniteSet(S)
    BY GateAssumption, FS_Subset
  <1>2. Cardinality(S) \in Nat /\ (Cardinality(S) = 0 <=> S = {})
    BY <1>1, FS_CardinalityType, FS_EmptySet
  <1>3. CASE g \notin S
    BY <1>1, <1>2, <1>3, FS_AddElement, FS_EmptySet
  <1>4. CASE g \in S
    BY <1>1, <1>2, <1>4, FS_RemoveElement, FS_EmptySet
  <1> QED BY <1>2, <1>3, <1>4

-----------------------------------------------------------------------------
(* The latches *)

LEMMA LatchInit == Init /\ impl \in {"Spin", "Chan"} => Latch!Inv
  <1> SUFFICES ASSUME Init, impl \in {"Spin", "Chan"} PROVE Latch!Inv
    OBVIOUS
  <1>1. /\ pc = [g \in Goroutine |-> "idle"]
        /\ added = N /\ finished = 0 /\ due = [g \in Goroutine |-> 0]
        /\ count = N /\ closed = FALSE
    BY DEF Init, HistoryInit, Party!Init, Party!ClientInit
  <1>2. N \in Nat
    BY GatesAssumption
  <1>3. Latch!HistoryTypeOK
    BY <1>1, <1>2 DEF Latch!HistoryTypeOK
  <1>4. closed \in BOOLEAN /\ (closed => count <= 0)
    BY <1>1
  <1>5. /\ count \in Int /\ added = N /\ count = N - finished
        /\ \A g \in Goroutine : due[g] <= added
    BY <1>1, <1>2
  <1>6. /\ pc \in [Goroutine -> {"idle", "load", "close"}]
        /\ \A g \in Goroutine : pc[g] # "close"
    BY <1>1
  <1> QED BY <1>3, <1>4, <1>5, <1>6 DEF Latch!Inv

(* A step of a latch counts the Done it belongs to, and closes at most once. *)
LEMMA LatchStep ==
  ASSUME Latch!Inv, NEW g \in Goroutine,
         \/ Latch!SpinCall(g) \/ Latch!SpinWork(g)
         \/ Latch!ChanCall(g) \/ Latch!ChanWork(g)
  PROVE  Latch!Inv'
  <1> USE GatesAssumption DEF Latch!Inv, Latch!HistoryTypeOK
  <1>1. CASE Latch!StartLatchWait(g)
    BY <1>1 DEF Latch!StartLatchWait, Latch!StartWait, Latch!Start
  <1>2. CASE Latch!SpinDone(g)
    BY <1>2 DEF Latch!SpinDone, Latch!StartDone, Latch!Start
  <1>3. CASE Latch!ChanDone(g)
    BY <1>3 DEF Latch!ChanDone, Latch!StartDone, Latch!Start
  <1>4. CASE Latch!Close(g)
    BY <1>4 DEF Latch!Close, Latch!Goto, Latch!history
  <1>5. CASE Latch!Open(g)
    BY <1>5 DEF Latch!Open, Latch!Goto, Latch!history
  <1> QED BY <1>1, <1>2, <1>3, <1>4, <1>5
          DEF Latch!SpinCall, Latch!SpinWork, Latch!SpinOpened,
              Latch!ChanCall, Latch!ChanWork, Latch!ChanOpened

(* A latch lets a waiter go when the count is used up. *)
LEMMA LatchWaits ==
  ASSUME Latch!Inv, NEW g \in Goroutine,
         \/ Latch!SpinCall(g) \/ Latch!SpinWork(g)
         \/ Latch!ChanCall(g) \/ Latch!ChanWork(g),
         NEW h \in Goroutine, InWait(h), pc'[h] = "idle"
  PROVE  finished >= due[h]
  <1> USE GatesAssumption DEF Latch!Inv, Latch!HistoryTypeOK, InWait
  <1>1. CASE Latch!StartLatchWait(g)
    BY <1>1 DEF Latch!StartLatchWait, Latch!StartWait, Latch!Start
  <1>2. CASE Latch!SpinDone(g)
    BY <1>2 DEF Latch!SpinDone, Latch!StartDone, Latch!Start
  <1>3. CASE Latch!ChanDone(g)
    BY <1>3 DEF Latch!ChanDone, Latch!StartDone, Latch!Start
  <1>4. CASE Latch!Close(g)
    BY <1>4 DEF Latch!Close, Latch!Goto, Latch!history
  <1>5. CASE Latch!SpinOpened(g) \/ Latch!ChanOpened(g)
    <2>1. count <= 0
      BY <1>5 DEF Latch!SpinOpened, Latch!ChanOpened
    <2> QED BY <2>1
  <1> QED BY <1>1, <1>2, <1>3, <1>4, <1>5
          DEF Latch!SpinCall, Latch!SpinWork, Latch!ChanCall, Latch!ChanWork

-----------------------------------------------------------------------------
(* WaitGroup *)

LEMMA GroupInit == Init /\ impl = "Group" => Group!Inv
  <1> SUFFICES ASSUME Init, impl = "Group" PROVE Group!Inv
    OBVIOUS
  <1>1. /\ pc = [g \in Goroutine |-> "idle"]
        /\ added = 0 /\ finished = 0 /\ due = [g \in Goroutine |-> 0]
        /\ word = Group!Zero /\ sema = 0
        /\ groupSeen = [g \in Goroutine |-> Group!Zero]
        /\ towake = [g \in Goroutine |-> 0]
    BY DEF Init, HistoryInit, Party!Init, Party!ClientInit
  <1>2. Group!Parked = {}
    BY <1>1 DEF Group!Parked
  <1>3. Group!PermitsMatch
    BY <1>1, <1>2, FS_EmptySet, GroupCardinality DEF Group!PermitsMatch, Group!Zero
  <1> QED BY <1>1, <1>3 DEF Group!Inv, Group!TypeOK, Group!HistoryTypeOK, Group!Zero

(* The invariant without its last conjunct, in one step. *)
LEMMA GroupStep ==
  ASSUME Group!Inv, NEW g \in Goroutine, Group!Call(g) \/ Group!Work(g)
  PROVE  Group!Inv'
  <1>p. /\ Group!Parked \in SUBSET Goroutine
        /\ Cardinality(Group!Parked) \in Nat
    BY Counts DEF Group!Parked
  <1>s. Group!Parked' \in SUBSET Goroutine
    BY DEF Group!Parked
  <1>i. ASSUME NEW h \in Goroutine, pc'[h] # "park" <=> pc[h] # "park"
        PROVE h \in Group!Parked' <=> h \in Group!Parked
    BY <1>i DEF Group!Parked
  <1> USE DEF Group!Inv, Group!TypeOK, Group!HistoryTypeOK, Group!Zero
  <1>1. ASSUME NEW delta \in {1, 2}, Group!Add(g, delta)
        PROVE  Group!Inv'
    <2> USE <1>1 DEF Group!Add, Group!Start, Group!AddToCounter, Group!AfterAdd
    <2>1. Group!Parked' = Group!Parked
      BY DEF Group!Parked
    <2>2. word' = [counter |-> word.counter + delta, waiters |-> word.waiters]
      OBVIOUS
    <2>3. CASE word.counter > 0
      <3>1. Group!PermitsMatch'
        BY <2>1, <2>2, <2>3, <1>p DEF Group!PermitsMatch
      <3> QED BY <2>2, <2>3, <3>1
    <2>4. CASE word.counter = 0
      <3>1. \A h \in Goroutine : pc[h] \notin {"load", "register", "park", "verify"}
        BY <2>4 DEF Group!InWait
      <3>2. Cardinality(Group!Parked) = 0
        BY <3>1, <1>p, Counts DEF Group!Parked
      <3>3. /\ sema = 0 /\ word.waiters = 0
            /\ \A h \in Goroutine : pc[h] # "wake"
        BY <3>2, GroupCardinality DEF Group!PermitsMatch
      <3>4. Group!PermitsMatch'
        BY <2>1, <2>2, <3>3 DEF Group!PermitsMatch
      <3> QED BY <2>2, <2>4, <3>1, <3>3, <3>4
    <2> QED BY <2>3, <2>4
  <1>2. CASE Group!Done(g)
    <2> USE <1>2 DEF Group!Done, Group!StartDone, Group!Start, Group!AddToCounter, Group!AfterAdd
    <2>1. Group!Parked' = Group!Parked
      BY DEF Group!Parked
    <2>2. Group!PermitsMatch'
      BY <2>1, <1>p DEF Group!PermitsMatch
    <2> QED BY <2>2
  <1>3. CASE Group!StartWait(g) /\ UNCHANGED Group!groupVars
    <2> USE <1>3 DEF Group!StartWait, Group!Start, Group!groupVars
    <2>1. Group!Parked' = Group!Parked
      BY DEF Group!Parked
    <2>2. Group!PermitsMatch'
      BY <2>1, <1>p DEF Group!PermitsMatch
    <2> QED BY <2>2
  <1>4. CASE Group!Check(g)
    <2> USE <1>4 DEF Group!Check, Group!Goto, Group!groupVars, Group!history
    <2>1. Group!Parked' = Group!Parked
      BY DEF Group!Parked
    <2>2. Group!PermitsMatch'
      BY <2>1, <1>p DEF Group!PermitsMatch
    <2> QED BY <2>2
  <1>5. CASE Group!Reset(g)
    <2> USE <1>5 DEF Group!Reset, Group!Goto, Group!history
    <2>1. Group!Parked' = Group!Parked
      BY DEF Group!Parked
    <2>2. Group!PermitsMatch'
      BY <2>1, <1>p DEF Group!PermitsMatch
    <2> QED BY <2>2
  <1>6. CASE Group!Wake(g)
    <2> USE <1>6 DEF Group!Wake, Group!Goto, Group!history
    <2>1. Group!Parked' = Group!Parked
      BY DEF Group!Parked
    <2>2. Group!PermitsMatch'
      BY <2>1, <1>p DEF Group!PermitsMatch
    <2> QED BY <2>2
  <1>7. CASE Group!Load(g)
    <2> USE <1>7 DEF Group!Load, Group!Goto, Group!history
    <2>1. Group!Parked' = Group!Parked
      BY DEF Group!Parked
    <2>2. Group!PermitsMatch'
      BY <2>1, <1>p DEF Group!PermitsMatch
    <2> QED BY <2>2
  <1>8. CASE Group!Register(g)
    <2> USE <1>8 DEF Group!Register, Group!Goto, Group!history
    <2>1. CASE word = groupSeen[g]
      <3>1. g \notin Group!Parked /\ Group!Parked' = Group!Parked \cup {g}
        BY <2>1 DEF Group!Parked
      <3>2. Cardinality(Group!Parked') = Cardinality(Group!Parked) + 1
        BY <3>1, <1>p, Counts
      <3>3. /\ word.counter > 0 /\ sema = 0
            /\ \A h \in Goroutine : pc[h] \notin {"check", "store", "wake", "verify"}
        BY <2>1
      <3>4. /\ word' = [counter |-> word.counter, waiters |-> word.waiters + 1]
            /\ pc' = [pc EXCEPT ![g] = "park"]
            /\ UNCHANGED <<calls, sema, groupSeen, towake, added, finished, due>>
        BY <2>1
      <3>5. Group!PermitsMatch'
        BY <3>2, <3>3, <3>4, <1>p, GroupCardinality DEF Group!PermitsMatch
      <3> QED BY <3>3, <3>4, <3>5
    <2>2. CASE word # groupSeen[g]
      <3>1. Group!Parked' = Group!Parked
        BY <2>2 DEF Group!Parked
      <3>2. Group!PermitsMatch'
        BY <2>2, <3>1, <1>p DEF Group!PermitsMatch
      <3> QED BY <2>2, <3>2
    <2> QED BY <2>1, <2>2
  <1>9. CASE Group!Park(g)
    <2> USE <1>9 DEF Group!Park, Group!Goto, Group!history
    <2>1. g \in Group!Parked /\ Group!Parked' = Group!Parked \ {g}
      BY DEF Group!Parked
    <2>2. Cardinality(Group!Parked') = Cardinality(Group!Parked) - 1
      BY <2>1, <1>p, Counts
    <2>3. Group!PermitsMatch'
      BY <2>2, <1>p, GroupCardinality DEF Group!PermitsMatch
    <2> QED BY <2>3
  <1>10. CASE Group!Verify(g)
    <2> USE <1>10 DEF Group!Verify, Group!Goto, Group!groupVars, Group!history
    <2>1. Group!Parked' = Group!Parked
      BY DEF Group!Parked
    <2>2. Group!PermitsMatch'
      BY <2>1, <1>p DEF Group!PermitsMatch
    <2> QED BY <2>2
  <1> QED BY <1>1, <1>2, <1>3, <1>4, <1>5, <1>6, <1>7, <1>8, <1>9, <1>10
          DEF Group!Call, Group!Work
(* A WaitGroup lets a waiter go when its word is zero. *)
LEMMA GroupWaits ==
  ASSUME Group!Inv, NEW g \in Goroutine, Group!Call(g) \/ Group!Work(g),
         NEW h \in Goroutine, InWait(h), pc'[h] = "idle"
  PROVE  finished >= due[h]
  <1> USE DEF Group!Inv, Group!TypeOK, Group!HistoryTypeOK, Group!Zero, InWait
  <1>1. word.counter = 0 => finished >= due[h]
    OBVIOUS
  <1>2. CASE \E delta \in {1, 2} : Group!Add(g, delta)
    BY <1>2 DEF Group!Add, Group!Start
  <1>3. CASE Group!Done(g)
    BY <1>3 DEF Group!Done, Group!StartDone, Group!Start
  <1>4. CASE Group!StartWait(g)
    BY <1>4 DEF Group!StartWait, Group!Start
  <1>5. CASE Group!Check(g) \/ Group!Reset(g) \/ Group!Wake(g)
    BY <1>5 DEF Group!Check, Group!Reset, Group!Wake, Group!Goto
  <1>6. CASE Group!Load(g)
    BY <1>1, <1>6 DEF Group!Load, Group!Goto
  <1>7. CASE Group!Register(g) \/ Group!Park(g)
    BY <1>7 DEF Group!Register, Group!Park, Group!Goto
  <1>8. CASE Group!Verify(g)
    BY <1>1, <1>8 DEF Group!Verify, Group!Goto
  <1> QED BY <1>2, <1>3, <1>4, <1>5, <1>6, <1>7, <1>8 DEF Group!Call, Group!Work

-----------------------------------------------------------------------------
(* Once *)

LEMMA OnceInit == Cell!Init => Cell!Inv
  <1> SUFFICES ASSUME Cell!Init PROVE Cell!Inv
    OBVIOUS
  <1>1. /\ state = FALSE /\ mu = {} /\ cell = "zero" /\ runs = 0 /\ ended = "no"
        /\ pc \in [Goroutine -> {"idle"}]
    BY DEF Cell!Init, Cell!ClientInit
  <1>2. Cell!TypeOK
    BY <1>1 DEF Cell!TypeOK
  <1>3. ~(state \/ \E g \in Goroutine : pc[g] \in {"run", "store"})
    BY <1>1
  <1> QED BY <1>1, <1>2, <1>3 DEF Cell!Inv

(* A step of Once keeps f's caller, the mutex and state in agreement. *)
LEMMA OnceStep ==
  ASSUME Cell!Inv, NEW g \in Goroutine, Cell!Call(g) \/ Cell!Work(g)
  PROVE  Cell!Inv'
  <1> USE DEF Cell!Inv, Cell!TypeOK, Cell!Goto, Cell!onceVars
  <1>1. CASE Cell!Call(g)
    BY <1>1 DEF Cell!Call, Cell!Start
  <1>2. CASE Cell!Load(g)
    BY <1>2 DEF Cell!Load
  <1>3. CASE Cell!Lock(g)
    BY <1>3 DEF Cell!Lock
  <1>4. CASE Cell!FReturns(g)
    BY <1>4 DEF Cell!FReturns
  <1>5. CASE Cell!FPanics(g)
    BY <1>5 DEF Cell!FPanics
  <1>6. CASE Cell!Store(g)
    BY <1>6 DEF Cell!Store
  <1>7. CASE Cell!Unlock(g)
    BY <1>7 DEF Cell!Unlock
  <1>8. CASE Cell!Read(g)
    BY <1>8 DEF Cell!Read
  <1> QED BY <1>1, <1>2, <1>3, <1>4, <1>5, <1>6, <1>7, <1>8 DEF Cell!Work

-----------------------------------------------------------------------------
(* CountingBarrier *)

LEMMA CountingInit == Party!Init => Party!CountingInv
  <1> SUFFICES ASSUME Party!Init PROVE Party!CountingInv
    OBVIOUS
  <1> USE DEF Party!Init, Party!ClientInit
  <1>1. Party!Seated = {}
    BY DEF Party!Seated
  <1>2. seats = Party!seatCount - Cardinality(Party!Seated)
    BY <1>1, GateAssumption, FS_EmptySet, FS_CardinalityType,
       PartyCardinality DEF Party!seatCount
  <1>3. /\ pc \in [Goroutine -> {"idle"}]
        /\ entered \in [Goroutine -> {0}] /\ left \in [Goroutine -> {0}]
    OBVIOUS
  <1> QED BY <1>2, <1>3, PartyCardinality DEF Party!CountingInv

(* A step of CountingBarrier takes one seat, or leaves once none is left. *)
LEMMA CountingStep ==
  ASSUME Party!CountingInv, NEW g \in Goroutine,
         Party!CountingCall(g) \/ Party!CountingWork(g)
  PROVE  Party!CountingInv'
  <1>1. CASE Party!TakeSeat(g)
    <2> USE <1>1 DEF Party!CountingInv, Party!TakeSeat, Party!Enter
    <2>1. g \notin Party!Seated /\ Party!Seated' = Party!Seated \cup {g}
      BY DEF Party!Seated
    <2>2. IsFiniteSet(Party!Seated)
      BY GateAssumption, FS_Subset DEF Party!Seated
    <2>3. Cardinality(Party!Seated') = Cardinality(Party!Seated) + 1
      BY <2>1, <2>2, FS_AddElement
    <2>4. seats' = Party!seatCount - Cardinality(Party!Seated')
      BY <2>2, <2>3, GateAssumption, FS_CardinalityType, PartyCardinality
         DEF Party!seatCount
    <2>5. ~\E h \in Goroutine : left[h] = 1
      BY <2>1 DEF Party!Seated
    <2>6. entered' \in [Goroutine -> {0, 1}] /\ pc' \in [Goroutine -> {"idle", "spin"}]
      OBVIOUS
    <2> QED BY <2>4, <2>5, <2>6, PartyCardinality
  <1>2. CASE Party!SeeFull(g)
    <2> USE <1>2 DEF Party!CountingInv, Party!SeeFull, Party!Leave, Party!Goto
    <2>1. Party!Seated' = Party!Seated
      BY DEF Party!Seated
    <2>2. Party!Seated = Goroutine
      <3>1. /\ Party!Seated \in SUBSET Goroutine
            /\ Cardinality(Party!Seated) <= Cardinality(Goroutine)
            /\ Cardinality(Party!Seated) = Cardinality(Goroutine)
                 => Party!Seated = Goroutine
        BY GateAssumption, FS_Subset DEF Party!Seated
      <3>2. Cardinality(Party!Seated) \in Nat /\ Cardinality(Goroutine) \in Nat
        BY <3>1, GateAssumption, FS_Subset, FS_CardinalityType
      <3> QED BY <3>1, <3>2, PartyCardinality DEF Party!seatCount
    <2> QED BY <2>1, <2>2
  <1> QED BY <1>1, <1>2 DEF Party!CountingCall, Party!CountingWork

LEMMA CountingTogether == Party!CountingInv => Party!Together
  BY DEF Party!CountingInv, Party!Together, Party!Seated

-----------------------------------------------------------------------------
(* SenseReversingBarrier *)

LEMMA SenseInit == Party!Init => Party!SenseInv
  <1> SUFFICES ASSUME Party!Init PROVE Party!SenseInv
    OBVIOUS
  <1>1. /\ pc = [g \in Goroutine |-> "idle"]
        /\ entered = [g \in Goroutine |-> 0] /\ left = [g \in Goroutine |-> 0]
        /\ seen = [g \in Goroutine |-> 0]
        /\ seats = Cardinality(Goroutine)
    BY PartyCardinality DEF Party!Init, Party!ClientInit,
                            Party!seatCount
  <1>2. Cardinality(Goroutine) \in Nat
    BY GateAssumption, FS_CardinalityType
  <1>3. Party!Arrived(0) = {}
    BY <1>1 DEF Party!Arrived
  <1>4. Party!InRound(0)
    BY <1>1, <1>2, <1>3, FS_EmptySet, PartyCardinality
       DEF Party!InRound, Party!Gone, Party!Last, Party!seatCount
  <1> QED BY <1>1, <1>2, <1>4 DEF Party!SenseInv

(* The set of arrived parties is finite, and has as many members as there  *)
(* are parties only when it is all of them.                                *)
LEMMA ArrivedCounts ==
  ASSUME NEW S \in SUBSET Goroutine
  PROVE  /\ IsFiniteSet(S)
         /\ Cardinality(S) \in Nat /\ Cardinality(Goroutine) \in Nat
         /\ Cardinality(S) <= Cardinality(Goroutine)
         /\ Cardinality(S) = Cardinality(Goroutine) => S = Goroutine
  BY GateAssumption, FS_Subset, FS_CardinalityType

(* A party takes a seat: the barrier stays in round r + 1. *)
LEMMA ArriveStep ==
  ASSUME Party!SenseInv, NEW g \in Goroutine, Party!Arrive(g),
         NEW r \in Nat, Party!InRound(r)
  PROVE  Party!InRound(r)'
  <1> USE DEF Party!SenseInv, Party!Arrive, Party!Inside, Party!Goto, Party!roundVars
  <1>1. /\ g \notin Party!Arrived(r) /\ entered[g] = r + 1
        /\ Party!Current(g, r)
    BY DEF Party!InRound, Party!Gone, Party!Late, Party!Current, Party!Arrived
  <1>2. Party!Arrived(r)' = Party!Arrived(r) \cup {g}
    BY <1>1 DEF Party!Arrived
  <1>3. /\ IsFiniteSet(Party!Arrived(r))
        /\ Party!Arrived(r) \in SUBSET Goroutine
        /\ Party!Arrived(r)' \in SUBSET Goroutine
    BY ArrivedCounts DEF Party!Arrived
  <1>4. Cardinality(Party!Arrived(r)') = Cardinality(Party!Arrived(r)) + 1
    <2> HIDE DEF Party!SenseInv, Party!Arrive, Party!Inside, Party!Goto
    <2>1. Cardinality(Party!Arrived(r) \cup {g}) =
             IF g \in Party!Arrived(r) THEN Cardinality(Party!Arrived(r))
                                      ELSE Cardinality(Party!Arrived(r)) + 1
      BY <1>3, FS_AddElement
    <2> QED BY <1>1, <1>2, <2>1
  <1>5. \A h \in Goroutine : ~Party!Last(h)
    <2>1. (\E h \in Goroutine : Party!Last(h)) => Party!Arrived(r) = Goroutine
      BY DEF Party!InRound
    <2> QED BY <1>1, <2>1
  <1>6. seats = Cardinality(Goroutine) - Cardinality(Party!Arrived(r))
    BY <1>5, PartyCardinality DEF Party!InRound, Party!Last, Party!seatCount
  <1>7. seats = 1 <=> Party!Arrived(r)' = Goroutine
    BY <1>3, <1>4, <1>6, ArrivedCounts
  <1>8. \A h \in Goroutine : Party!Last(h)' <=> h = g /\ seats = 1
    <2>1. pc'[g] = IF seats = 1 THEN "reset" ELSE "spin"
      OBVIOUS
    <2>2. \A h \in Goroutine \ {g} : pc'[h] = pc[h]
      OBVIOUS
    <2> QED BY <1>5, <2>1, <2>2 DEF Party!Last
  <1>9. ASSUME NEW h \in Goroutine
        PROVE  (Party!Gone(h, r) \/ Party!Late(h, r) \/ Party!Current(h, r))'
    <2>1. CASE h = g
      BY <2>1, <1>1 DEF Party!Current
    <2>2. CASE h # g
      <3>1. Party!Gone(h, r) \/ Party!Late(h, r) \/ Party!Current(h, r)
        BY DEF Party!InRound
      <3> QED BY <3>1, <2>2 DEF Party!Gone, Party!Late, Party!Current
    <2> QED BY <2>1, <2>2
  <1>10. ~\E h \in Goroutine : pc'[h] = "publish"
    BY <1>5 DEF Party!Last
  <1>11. seats' = Cardinality(Goroutine) - Cardinality(Party!Arrived(r)')
    BY <1>3, <1>4, <1>6, ArrivedCounts
  <1> HIDE DEF Party!SenseInv, Party!Arrive, Party!Inside, Party!Goto, Party!roundVars
  <1> QED BY <1>7, <1>8, <1>9, <1>10, <1>11, PartyCardinality
          DEF Party!InRound, Party!seatCount

(* The last party moves release: round r + 1 becomes the round before. *)
LEMMA PublishStep ==
  ASSUME Party!SenseInv, NEW g \in Goroutine, Party!Publish(g),
         NEW r \in Nat, Party!InRound(r)
  PROVE  Party!InRound(r + 1)'
  <1> USE DEF Party!SenseInv, Party!Publish, Party!Leave, Party!Goto
  <1>1. /\ Party!Arrived(r) = Goroutine /\ seats = Party!seatCount
        /\ \A h \in Goroutine : Party!Last(h) => h = g
    BY DEF Party!InRound, Party!Last
  <1>2. \A h \in Goroutine :
           /\ entered[h] = r + 1 /\ left[h] = r
           /\ h # g => pc[h] = "spin"
    BY <1>1 DEF Party!InRound, Party!Arrived, Party!Gone, Party!Late,
                Party!Current, Party!Last
  <1>3. \A h \in Goroutine : Party!Gone(h, r + 1)' \/ Party!Late(h, r + 1)'
    BY <1>2 DEF Party!Gone, Party!Late
  <1>4. Party!Arrived(r + 1)' = {}
    BY <1>2 DEF Party!Arrived
  <1>5. \A h \in Goroutine : ~Party!Last(h)' /\ pc'[h] # "publish"
    BY <1>2 DEF Party!Last
  <1>6. seats' = Cardinality(Goroutine) - Cardinality({})
    BY <1>1, FS_EmptySet, ArrivedCounts, PartyCardinality DEF Party!seatCount
  <1> HIDE DEF Party!SenseInv, Party!Publish, Party!Leave, Party!Goto
  <1> QED BY <1>3, <1>4, <1>5, <1>6, PartyCardinality
          DEF Party!InRound, Party!seatCount

(* A step of SenseReversingBarrier keeps its parties within two rounds. *)
LEMMA SenseStep ==
  ASSUME Party!SenseInv, NEW g \in Goroutine, Party!SenseCall(g) \/ Party!SenseWork(g)
  PROVE  Party!SenseInv'
  <1>r. PICK r \in Nat : Party!InRound(r)
    BY DEF Party!SenseInv
  <1>t. /\ pc \in [Goroutine -> {"idle", "arrive", "reset", "publish", "spin"}]
        /\ entered \in [Goroutine -> Nat] /\ left \in [Goroutine -> Nat]
        /\ seats \in Int
        /\ seen = [h \in Goroutine |-> seen[h]]
        /\ Party!seatCount \in Nat
    BY ArrivedCounts, PartyCardinality DEF Party!SenseInv, Party!seatCount
  <1> USE DEF Party!Goto, Party!Inside, Party!roundVars, Party!epochVars
  <1>1. CASE Party!Load(g)
    <2> USE <1>1, <1>t DEF Party!Load, Party!Enter
    <2>1. Party!Gone(g, r)
      BY <1>r DEF Party!InRound, Party!Gone, Party!Late, Party!Current
    <2>2. Party!Arrived(r)' = Party!Arrived(r)
      BY <2>1 DEF Party!Arrived, Party!Gone
    <2>3. \A h \in Goroutine : /\ Party!Last(h)' <=> Party!Last(h)
                               /\ pc'[h] = "publish" <=> pc[h] = "publish"
      BY DEF Party!Last
    <2>4. \A h \in Goroutine : (Party!Gone(h, r) \/ Party!Late(h, r) \/ Party!Current(h, r))'
      BY <1>r, <2>1 DEF Party!InRound, Party!Gone, Party!Late, Party!Current
    <2>5. Party!InRound(r)'
      BY <1>r, <2>2, <2>3, <2>4 DEF Party!InRound, Party!seatCount
    <2> QED BY <2>5 DEF Party!SenseInv
  <1>2. CASE Party!Arrive(g)
    <2>1. Party!InRound(r)'
      BY <1>2, <1>r, ArriveStep
    <2>2. /\ pc' \in [Goroutine -> {"idle", "arrive", "reset", "publish", "spin"}]
          /\ seats' \in Int /\ UNCHANGED <<entered, left, seen>>
      BY <1>2, <1>t DEF Party!Arrive
    <2> QED BY <1>t, <2>1, <2>2 DEF Party!SenseInv
  <1>3. CASE Party!Reset(g)
    <2> USE <1>3, <1>t DEF Party!Reset
    <2>1. Party!Arrived(r)' = Party!Arrived(r)
      BY DEF Party!Arrived
    <2>2. \A h \in Goroutine : Party!Last(h)' <=> Party!Last(h)
      BY DEF Party!Last
    <2>3. \A h \in Goroutine : (Party!Gone(h, r) \/ Party!Late(h, r) \/ Party!Current(h, r))'
      BY <1>r DEF Party!InRound, Party!Gone, Party!Late, Party!Current
    <2>4. pc'[g] = "publish" /\ seats' = Party!seatCount
      OBVIOUS
    <2>5. Party!InRound(r)'
      BY <1>r, <2>1, <2>2, <2>3, <2>4 DEF Party!InRound, Party!seatCount
    <2> QED BY <2>5 DEF Party!SenseInv
  <1>4. CASE Party!Publish(g)
    <2>1. Party!InRound(r + 1)'
      BY <1>4, <1>r, PublishStep
    <2>2. /\ pc' \in [Goroutine -> {"idle", "arrive", "reset", "publish", "spin"}]
          /\ left' \in [Goroutine -> Nat] /\ UNCHANGED <<entered, seats, seen>>
      BY <1>4, <1>t DEF Party!Publish, Party!Leave
    <2> QED BY <1>t, <2>1, <2>2 DEF Party!SenseInv
  <1>5. CASE Party!Observe(g)
    <2> USE <1>5, <1>t DEF Party!Observe, Party!Leave
    <2>1. Party!Late(g, r)
      BY <1>r DEF Party!InRound, Party!Gone, Party!Late, Party!Current
    <2>2. Party!Arrived(r)' = Party!Arrived(r)
      BY <2>1 DEF Party!Arrived, Party!Late
    <2>3. \A h \in Goroutine : /\ Party!Last(h)' <=> Party!Last(h)
                               /\ pc'[h] = "publish" <=> pc[h] = "publish"
      BY DEF Party!Last
    <2>4. \A h \in Goroutine : (Party!Gone(h, r) \/ Party!Late(h, r) \/ Party!Current(h, r))'
      BY <1>r, <2>1 DEF Party!InRound, Party!Gone, Party!Late, Party!Current
    <2>5. Party!InRound(r)'
      BY <1>r, <2>2, <2>3, <2>4 DEF Party!InRound, Party!seatCount
    <2> QED BY <2>5 DEF Party!SenseInv
  <1> QED BY <1>1, <1>2, <1>3, <1>4, <1>5 DEF Party!SenseCall, Party!SenseWork

LEMMA SenseTogether == Party!SenseInv => Party!Together
  BY DEF Party!SenseInv, Party!InRound, Party!Gone, Party!Late, Party!Current,
         Party!Together

-----------------------------------------------------------------------------
(* All the gates *)

(* The words have their types, and the gate in use satisfies its invariant. *)
GatesInv ==
  /\ impl \in Impl
  /\ TypeOK
  /\ impl \in {"Spin", "Chan"} => Latch!Inv
  /\ impl = "Group" => Group!Inv
  /\ impl = "Counting" => Party!CountingInv
  /\ impl = "Sense" => Party!SenseInv
  /\ impl = "Once" => Cell!Inv

LEMMA GatesInit == Init => GatesInv
  <1> SUFFICES ASSUME Init PROVE GatesInv
    OBVIOUS
  <1>1. Party!Init /\ Cell!Init
    BY DEF Init
  <1>2. TypeOK
    <2>1. N \in Nat /\ 0 \in 0 .. MaxRounds /\ 0 \in 0 .. Epochs - 1
      BY GatesAssumption
    <2>2. /\ added = IF impl \in {"Spin", "Chan"} THEN N ELSE 0
          /\ finished = 0 /\ due = [g \in Goroutine |-> 0]
          /\ count = N /\ closed = FALSE
      BY DEF Init, HistoryInit
    <2>3. HistoryTypeOK
      BY <2>1, <2>2 DEF HistoryTypeOK
    <2>7. count \in Int
      BY <2>1, <2>2
    <2>8. closed \in BOOLEAN
      BY <2>2
    <2>4. Group!TypeOK
      BY <2>3 DEF Init, Group!TypeOK, Group!HistoryTypeOK, HistoryTypeOK, Group!Zero
    <2>5. Party!RoundsTypeOK /\ release \in 0 .. Epochs - 1
      BY <1>1, <2>1 DEF Party!Init, Party!RoundsTypeOK
    <2>6. seats \in 0 .. Party!seatCount
      BY <1>1, ArrivedCounts, PartyCardinality DEF Party!Init, Party!seatCount
    <2> QED BY <1>1, <2>3, <2>4, <2>5, <2>6, <2>7, <2>8, OnceInit DEF TypeOK, Cell!Inv
  <1> QED BY <1>1, <1>2, LatchInit, GroupInit, CountingInit, SenseInit, OnceInit
          DEF GatesInv, Init

(* A barrier's words keep their types. *)
LEMMA PartyTypes ==
  ASSUME TypeOK, NEW g \in Goroutine,
         \/ /\ Party!CountingCall(g) \/ Party!CountingWork(g)
            /\ Party!CountingInv'
         \/ /\ Party!SenseCall(g) \/ Party!SenseWork(g)
            /\ Party!SenseInv'
  PROVE  /\ Party!RoundsTypeOK'
         /\ seats' \in 0 .. Party!seatCount /\ release' \in 0 .. Epochs - 1
  <1>1. /\ entered' \in [Goroutine -> 0 .. MaxRounds]
        /\ release' \in 0 .. Epochs - 1
    <2> USE GatesAssumption DEF TypeOK, Party!RoundsTypeOK, Party!epochVars
    <2>1. CASE Party!TakeSeat(g) \/ Party!Load(g)
      BY <2>1 DEF Party!TakeSeat, Party!Load, Party!Enter
    <2>2. CASE Party!SeeFull(g) \/ Party!Observe(g) \/ Party!Publish(g)
      BY <2>2 DEF Party!SeeFull, Party!Observe, Party!Publish, Party!Leave
    <2>3. CASE Party!Arrive(g) \/ Party!Reset(g)
      BY <2>3 DEF Party!Arrive, Party!Reset, Party!Inside, Party!roundVars
    <2> QED BY <2>1, <2>2, <2>3
            DEF Party!CountingCall, Party!CountingWork, Party!SenseCall, Party!SenseWork
  <1>2. /\ left' \in [Goroutine -> Nat]
        /\ \A h \in Goroutine : left'[h] <= entered'[h]
    BY DEF Party!CountingInv, Party!SenseInv, Party!InRound, Party!Gone, Party!Late,
           Party!Current
  <1>3. left' \in [Goroutine -> 0 .. MaxRounds]
    BY <1>1, <1>2, GatesAssumption
  <1>4. seats' \in 0 .. Party!seatCount
    <2>1. CASE Party!CountingInv'
      <3>1. Party!Seated' \in SUBSET Goroutine
        BY DEF Party!Seated
      <3>2. seats' = Party!seatCount - Cardinality(Party!Seated')
        BY <2>1, PartyCardinality DEF Party!CountingInv
      <3> QED BY <3>1, <3>2, ArrivedCounts, PartyCardinality DEF Party!seatCount
    <2>2. CASE Party!SenseInv'
      <3>1. PICK r \in Nat : Party!InRound(r)'
        BY <2>2 DEF Party!SenseInv
      <3>2. Party!Arrived(r)' \in SUBSET Goroutine
        BY DEF Party!Arrived
      <3>3. \/ seats' = Party!seatCount
            \/ seats' = Party!seatCount - Cardinality(Party!Arrived(r)')
        BY <3>1, PartyCardinality DEF Party!InRound
      <3> QED BY <3>2, <3>3, ArrivedCounts, PartyCardinality DEF Party!seatCount
    <2> QED BY <2>1, <2>2
  <1> QED BY <1>1, <1>3, <1>4 DEF Party!RoundsTypeOK

(* A step of the gate in use keeps its invariant and leaves the words of   *)
(* the others alone.                                                       *)
LEMMA GatesStep ==
  ASSUME GatesInv, NEW g \in Goroutine, Call(g) \/ Work(g)
  PROVE  GatesInv'
  <1>1. impl' = impl /\ impl \in Impl
    BY DEF Call, Work, Uses, Impl
  <1> USE DEF GatesInv, Call, Work, Uses
  <1>2. CASE impl \in {"Spin", "Chan"}
    <2>1. Latch!Inv'
      BY <1>2, LatchStep
    <2>2. UNCHANGED <<groupVars, barrierVars, onceVars>>
      BY <1>2
    <2>3. TypeOK'
      BY <2>1, <2>2 DEF TypeOK, HistoryTypeOK, Latch!Inv, Latch!HistoryTypeOK,
         Group!TypeOK, Group!HistoryTypeOK, Party!RoundsTypeOK, Cell!TypeOK,
         groupVars, barrierVars, onceVars, Party!seatCount
    <2> QED BY <1>1, <1>2, <2>1, <2>3
  <1>3. CASE impl = "Group"
    <2>1. Group!Inv'
      BY <1>3, GroupStep
    <2>2. UNCHANGED <<count, closed, barrierVars, onceVars>>
      BY <1>3
    <2>3. TypeOK'
      BY <2>1, <2>2 DEF TypeOK, HistoryTypeOK, Group!Inv, Group!HistoryTypeOK,
         Group!TypeOK, Party!RoundsTypeOK, Cell!TypeOK,
         barrierVars, onceVars, Party!seatCount
    <2> QED BY <1>1, <1>3, <2>1, <2>3
  <1>4. CASE impl \in {"Counting", "Sense"}
    <2>1. /\ impl = "Counting" => Party!CountingInv'
          /\ impl = "Sense" => Party!SenseInv'
      BY <1>4, CountingStep, SenseStep
    <2>2. UNCHANGED <<history, count, closed, groupVars, onceVars>>
      BY <1>4
    <2>3. /\ Party!RoundsTypeOK'
          /\ seats' \in 0 .. Party!seatCount /\ release' \in 0 .. Epochs - 1
      BY <1>4, <2>1, PartyTypes
    <2>4. TypeOK'
      BY <2>2, <2>3 DEF TypeOK, HistoryTypeOK, Group!TypeOK, Group!HistoryTypeOK,
         Cell!TypeOK, history, groupVars, onceVars, Party!seatCount
    <2> QED BY <1>1, <1>4, <2>1, <2>4
  <1>5. CASE impl = "Once"
    <2>1. Cell!Inv'
      BY <1>5, OnceStep
    <2>2. UNCHANGED <<history, count, closed, groupVars, barrierVars>>
      BY <1>5
    <2>3. TypeOK'
      BY <2>1, <2>2 DEF TypeOK, HistoryTypeOK, Group!TypeOK, Group!HistoryTypeOK,
         Party!RoundsTypeOK, Cell!Inv, history, groupVars, barrierVars, Party!seatCount
    <2> QED BY <1>1, <1>5, <2>1, <2>3
  <1> QED BY <1>1, <1>2, <1>3, <1>4, <1>5 DEF Impl

LEMMA GatesStutter == GatesInv /\ UNCHANGED vars => GatesInv'
  <1> SUFFICES ASSUME GatesInv, UNCHANGED vars PROVE GatesInv'
    OBVIOUS
  <1>1. /\ UNCHANGED <<pc, calls, added, finished, due, impl, count, closed>>
        /\ UNCHANGED <<word, sema, groupSeen, towake>>
        /\ UNCHANGED <<entered, left, release, seats, seen>>
        /\ UNCHANGED <<state, mu, cell, runs, ended>>
    BY DEF vars, clientVars, history, groupVars, barrierVars, onceVars
  <1>2. TypeOK'
    BY <1>1 DEF GatesInv, TypeOK, HistoryTypeOK, Group!TypeOK, Group!HistoryTypeOK,
       Party!RoundsTypeOK, Party!seatCount, Cell!TypeOK
  <1>3. Latch!Inv => Latch!Inv'
    BY <1>1 DEF Latch!Inv, Latch!HistoryTypeOK
  <1>4. Group!Inv => Group!Inv'
    <2>1. Group!Parked' = Group!Parked
      BY <1>1 DEF Group!Parked
    <2>2. Group!PermitsMatch => Group!PermitsMatch'
      BY <1>1, <2>1 DEF Group!PermitsMatch
    <2> QED BY <1>1, <2>2 DEF Group!Inv, Group!TypeOK, Group!HistoryTypeOK, Group!Zero
  <1>5. Party!CountingInv => Party!CountingInv'
    BY <1>1 DEF Party!CountingInv, Party!Seated, Party!seatCount
  <1>6. ASSUME Party!SenseInv PROVE Party!SenseInv'
    <2>1. PICK r \in Nat : Party!InRound(r)
      BY <1>6 DEF Party!SenseInv
    <2>2. Party!Arrived(r)' = Party!Arrived(r)
      BY <1>1 DEF Party!Arrived
    <2>3. Party!InRound(r)'
      BY <1>1, <2>1, <2>2 DEF Party!InRound, Party!Gone, Party!Late,
         Party!Current, Party!Last, Party!seatCount
    <2> QED BY <1>1, <1>6, <2>3 DEF Party!SenseInv
  <1>7. Cell!Inv => Cell!Inv'
    BY <1>1 DEF Cell!Inv, Cell!TypeOK
  <1> QED BY <1>1, <1>2, <1>3, <1>4, <1>5, <1>6, <1>7 DEF GatesInv

LEMMA GatesInvariance == Spec => []GatesInv
  <1>1. GatesInv /\ [Next]_vars => GatesInv'
    BY GatesStep, GatesStutter DEF Next
  <1> QED BY <1>1, GatesInit, PTL DEF Spec

(* The words of every gate have their types. *)
THEOREM TypeCorrectness == Spec => []TypeOK
  <1>1. GatesInv => TypeOK
    BY DEF GatesInv
  <1> QED BY <1>1, GatesInvariance, PTL

(* A Wait of SpinLatch, ChanLatch or WaitGroup returns only when every     *)
(* unit announced before the call has been finished.                       *)
THEOREM NobodyReturnsEarly == Spec => NoEarlyWait
  <1>1. ASSUME GatesInv, [Next]_vars, NEW h \in Goroutine,
               InWait(h), pc'[h] = "idle"
        PROVE  finished >= due[h]
    <2>1. pc'[h] # pc[h]
      BY <1>1 DEF InWait
    <2>2. PICK g \in Goroutine : Call(g) \/ Work(g)
      BY <1>1, <2>1 DEF Next, vars, clientVars
    <2>3. impl \in Impl
      BY <2>2 DEF Call, Work, Uses, Impl
    <2>4. CASE impl \in {"Spin", "Chan"}
      BY <1>1, <2>2, <2>4, LatchWaits DEF GatesInv, Call, Work, Uses
    <2>5. CASE impl = "Group"
      BY <1>1, <2>2, <2>5, GroupWaits DEF GatesInv, Call, Work, Uses
    <2>6. CASE impl = "Counting"
      BY <1>1, <2>6 DEF GatesInv, Party!CountingInv, InWait
    <2>7. CASE impl = "Sense"
      BY <1>1, <2>7 DEF GatesInv, Party!SenseInv, InWait
    <2>8. CASE impl = "Once"
      <3>1. pc \in [Goroutine -> {"idle", "load", "lock", "run", "store", "unlock", "read"}]
        BY <1>1, <2>8 DEF GatesInv, Cell!Inv
      <3>2. (pc[h] = "load" /\ Cell!Work(g)) \/ Cell!Call(g)
        BY <1>1, <2>2, <2>8, <3>1 DEF InWait, Call, Work, Uses
      <3> QED BY <1>1, <3>1, <3>2 DEF Cell!Call, Cell!Work, Cell!Start, Cell!Goto, Cell!Load,
              Cell!Lock, Cell!FReturns, Cell!FPanics, Cell!Store, Cell!Unlock, Cell!Read,
              InWait
    <2> QED BY <2>3, <2>4, <2>5, <2>6, <2>7, <2>8 DEF Impl
  <1>2. GatesInv /\ [Next]_vars => [ReturnsInTime]_vars
    BY <1>1 DEF ReturnsInTime
  <1> QED BY <1>2, GatesInvariance, PTL DEF Spec, NoEarlyWait

(* Every parked Wait of a WaitGroup has exactly one permit coming.         *)
THEOREM EveryPermitHasAWaiter == Spec => []PermitsMatch
  <1>1. GatesInv => PermitsMatch
    BY DEF GatesInv, PermitsMatch, Group!Inv
  <1> QED BY <1>1, GatesInvariance, PTL

(* Callers who keep WaitGroup's rule never meet a misuse panic, and        *)
(* ChanLatch closes its channel once.                                      *)
THEOREM NobodyPanics == Spec => []NoPanic
  <1>1. GatesInv => NoPanic
    BY DEF GatesInv, NoPanic, Impl, Latch!Inv, Group!Inv, Party!CountingInv,
           Party!SenseInv, Cell!Inv
  <1> QED BY <1>1, GatesInvariance, PTL

(* Nobody leaves a round of CountingBarrier or SenseReversingBarrier       *)
(* before everybody has entered it, in round after round.                  *)
THEOREM RoundsAreTogether == Spec => []Together
  <1>1. GatesInv => Together
    BY CountingTogether, SenseTogether
       DEF GatesInv, Together, Party!Together
  <1> QED BY <1>1, GatesInvariance, PTL

(* Once runs f at most once, and nobody gets past Do before f has ended,   *)
(* whether by returning or by panicking.                                   *)
THEOREM OnceRunsOnce == Spec => []RunsOnce
  <1>1. GatesInv => RunsOnce
    BY DEF GatesInv, RunsOnce, Cell!Inv, Cell!TypeOK, Cell!RunsOnce
  <1> QED BY <1>1, GatesInvariance, PTL
=============================================================================
