------------------------- MODULE Semaphores_proofs --------------------------
(***************************************************************************)
(* Proofs about the semaphores of package syncx, for any finite set of     *)
(* goroutines and any number of permits, calls and places in the queue of  *)
(* LockfreeSemaphore.                                                      *)
(***************************************************************************)
EXTENDS MCSemaphores, FiniteSetTheorems, SequenceTheorems, TLAPS

(* The instance of the counted semaphores has its own name for Cardinality. *)
LEMMA CountedCardinality == \A S : Counted!Cardinality(S) = Cardinality(S)
  BY DEF Counted!Cardinality, Cardinality

(* What adding and removing one goroutine does to the size of a set.       *)
LEMMA Counts ==
  ASSUME NEW S \in SUBSET Goroutine, NEW g \in Goroutine
  PROVE  /\ Cardinality(S) \in Nat
         /\ S = {} => Cardinality(S) = 0
         /\ g \notin S => Cardinality(S \cup {g}) = Cardinality(S) + 1
         /\ g \in S => /\ Cardinality(S) > 0
                       /\ Cardinality(S \ {g}) = Cardinality(S) - 1
  <1>1. IsFiniteSet(S)
    BY PermitAssumption, FS_Subset
  <1>2. Cardinality(S) \in Nat /\ (Cardinality(S) = 0 <=> S = {})
    BY <1>1, FS_CardinalityType, FS_EmptySet
  <1>3. CASE g \notin S
    BY <1>1, <1>2, <1>3, FS_AddElement, FS_EmptySet
  <1>4. CASE g \in S
    BY <1>1, <1>2, <1>4, FS_RemoveElement, FS_EmptySet
  <1> QED BY <1>2, <1>3, <1>4

-----------------------------------------------------------------------------
(* The signed semaphores *)

SignedPoints == {"idle", "acquire", "cas", "wait", "publish", "spin", "refused",
                 "granted", "release", "wake", "vacate", "open"}

(* An atomic operation on the counter moves its goroutine between the sets *)
(* that the counter accounts for.                                          *)
LEMMA CountingStep ==
  ASSUME CounterTypeOK, NEW n \in Nat, Conserved(n),
         NEW g \in Goroutine, Counting(g)
  PROVE  CounterTypeOK' /\ Conserved(n)'
  <1>1. /\ Held \in SUBSET Goroutine /\ Waiting \in SUBSET Goroutine
        /\ Waking \in SUBSET Goroutine
    BY DEF Held, Waiting, Waking
  <1>2. /\ Cardinality(Held) \in Nat /\ Cardinality(Waiting) \in Nat
        /\ Cardinality(Waking) \in Nat /\ Permits \in Nat /\ Strays \in Nat
    BY <1>1, Counts, PermitAssumption
  <1> USE DEF CounterTypeOK, ClientTypeOK, Goto, counterVars
  <1>3. CASE \/ LoadPermits(g)
             \/ TakePermit(g) /\ permits # seen[g]
    <2>1. /\ Held' = Held /\ Waiting' = Waiting /\ Waking' = Waking
          /\ UNCHANGED <<permits, owned>>
      BY <1>3 DEF LoadPermits, TakePermit, Forget, Held, Waiting, Waking
    <2>2. CounterTypeOK'
      BY <1>3 DEF LoadPermits, TakePermit, Forget
    <2> QED BY <2>1, <2>2 DEF Conserved, Deficit
  <1>4. CASE TakePermit(g) /\ permits = seen[g]
    <2> USE <1>4 DEF TakePermit, Forget
    <2>1. CounterTypeOK' /\ permits' = permits - 1 /\ owned' = owned
      OBVIOUS
    <2>2. CASE permits <= 0
      <3>1. /\ Held' = Held /\ Waiting' = Waiting \cup {g} /\ g \notin Waiting
            /\ Waking' = Waking
        BY <2>2 DEF Held, Waiting, Waking
      <3>2. Cardinality(Waiting') = Cardinality(Waiting) + 1
        BY <3>1, <1>1, Counts
      <3> QED BY <2>1, <2>2, <3>1, <3>2, <1>2 DEF Conserved, Deficit
    <2>3. CASE permits > 0
      <3>1. /\ Held' = Held \cup {g} /\ g \notin Held /\ Waiting' = Waiting
            /\ Waking' = Waking
        BY <2>3 DEF Held, Waiting, Waking
      <3>2. Cardinality(Held') = Cardinality(Held) + 1
        BY <3>1, <1>1, Counts
      <3> QED BY <2>1, <2>3, <3>1, <3>2, <1>2 DEF Conserved, Deficit
    <2> QED BY <2>2, <2>3
  <1>5. CASE AddPermit(g)
    <2> USE <1>5 DEF AddPermit
    <2>1. CounterTypeOK' /\ permits' = permits + 1 /\ owned' = owned
      OBVIOUS
    <2>2. Held' = Held \ {g} /\ g \in Held /\ Waiting' = Waiting
      BY DEF Held, Waiting
    <2>3. Cardinality(Held') = Cardinality(Held) - 1
      BY <2>2, <1>1, Counts
    <2>4. CASE permits + 1 <= 0
      <3>1. Waking' = Waking \cup {g} /\ g \notin Waking
        BY <2>4 DEF Waking
      <3>2. Cardinality(Waking') = Cardinality(Waking) + 1
        BY <3>1, <1>1, Counts
      <3> QED BY <2>1, <2>2, <2>3, <2>4, <3>2, <1>2 DEF Conserved, Deficit
    <2>5. CASE permits + 1 > 0
      <3>1. Waking' = Waking
        BY <2>5 DEF Waking
      <3> QED BY <2>1, <2>2, <2>3, <2>5, <3>1, <1>2 DEF Conserved, Deficit
    <2> QED BY <2>1, <2>4, <2>5
  <1> QED BY <1>3, <1>4, <1>5 DEF Counting, TakePermit

(* A caller's step moves a permit between the caller and its call.         *)
LEMMA ClientStep ==
  ASSUME CounterTypeOK, NEW n \in Nat, Conserved(n), NEW g \in Goroutine,
         StartCall(g) \/ Return(g), UNCHANGED counterVars
  PROVE  CounterTypeOK' /\ Conserved(n)'
  <1>1. /\ Held \in SUBSET Goroutine /\ Waiting \in SUBSET Goroutine
        /\ Waking \in SUBSET Goroutine
    BY DEF Held, Waiting, Waking
  <1>2. /\ Cardinality(Held) \in Nat /\ Cardinality(Waiting) \in Nat
        /\ Cardinality(Waking) \in Nat /\ Permits \in Nat /\ Strays \in Nat
    BY <1>1, Counts, PermitAssumption
  <1> USE DEF CounterTypeOK, ClientTypeOK, counterVars
  <1>3. CASE StartAcquire(g)
    <2> USE <1>3 DEF StartAcquire
    <2>1. Held' = Held /\ Waiting' = Waiting /\ Waking' = Waking
      BY DEF Held, Waiting, Waking
    <2>2. CounterTypeOK'
      OBVIOUS
    <2> QED BY <2>1, <2>2 DEF Conserved, Deficit
  <1>4. CASE StartRelease(g)
    <2> USE <1>4 DEF StartRelease
    <2>1. /\ Held' = Held \cup {g} /\ g \notin Held
          /\ Waiting' = Waiting /\ Waking' = Waking
      BY DEF Held, Waiting, Waking
    <2>2. Cardinality(Held') = Cardinality(Held) + 1
      BY <2>1, <1>1, Counts
    <2>3. CounterTypeOK'
      BY <1>2
    <2> QED BY <2>1, <2>2, <2>3, <1>2 DEF Conserved, Deficit
  <1>5. CASE Return(g)
    <2> USE <1>5 DEF Return
    <2>1. /\ Held' = Held \ {g} /\ g \in Held
          /\ Waiting' = Waiting /\ Waking' = Waking
      BY DEF Held, Waiting, Waking
    <2>2. Cardinality(Held') = Cardinality(Held) - 1
      BY <2>1, <1>1, Counts
    <2>3. CounterTypeOK'
      BY <1>2
    <2> QED BY <2>1, <2>2, <2>3, <1>2 DEF Conserved, Deficit
  <1> QED BY <1>3, <1>4, <1>5 DEF StartCall

(* A waiter takes the permit that has been handed to it.                   *)
LEMMA GrantStep ==
  ASSUME CounterTypeOK, NEW n \in Nat, NEW m \in Nat, m = n - 1, Conserved(n),
         NEW g \in Goroutine, Goto(g, "wait", "granted") \/ Goto(g, "spin", "granted"),
         UNCHANGED counterVars
  PROVE  CounterTypeOK' /\ Conserved(m)'
  <1>1. /\ Held \in SUBSET Goroutine /\ Waiting \in SUBSET Goroutine
        /\ Waking \in SUBSET Goroutine
    BY DEF Held, Waiting, Waking
  <1>2. /\ Cardinality(Held) \in Nat /\ Cardinality(Waiting) \in Nat
        /\ Cardinality(Waking) \in Nat /\ Permits \in Nat
    BY <1>1, Counts, PermitAssumption
  <1> USE DEF CounterTypeOK, ClientTypeOK, counterVars, Goto
  <1>3. /\ Held' = Held \cup {g} /\ g \notin Held
        /\ Waiting' = Waiting \ {g} /\ g \in Waiting
        /\ Waking' = Waking
    BY DEF Held, Waiting, Waking
  <1>4. /\ Cardinality(Held') = Cardinality(Held) + 1
        /\ Cardinality(Waiting') = Cardinality(Waiting) - 1
    BY <1>1, <1>3, Counts
  <1>5. CounterTypeOK'
    OBVIOUS
  <1> QED BY <1>2, <1>3, <1>4, <1>5 DEF Conserved, Deficit

(* A Release hands over its permit.                                        *)
LEMMA WakeStep ==
  ASSUME CounterTypeOK, NEW n \in Nat, NEW m \in Nat, m = n + 1, Conserved(n),
         NEW g \in Goroutine, Goto(g, "wake", "idle") \/ Goto(g, "open", "idle"),
         UNCHANGED counterVars
  PROVE  CounterTypeOK' /\ Conserved(m)'
  <1>1. /\ Held \in SUBSET Goroutine /\ Waiting \in SUBSET Goroutine
        /\ Waking \in SUBSET Goroutine
    BY DEF Held, Waiting, Waking
  <1>2. /\ Cardinality(Held) \in Nat /\ Cardinality(Waiting) \in Nat
        /\ Cardinality(Waking) \in Nat /\ Permits \in Nat
    BY <1>1, Counts, PermitAssumption
  <1> USE DEF CounterTypeOK, ClientTypeOK, counterVars, Goto
  <1>3. /\ Held' = Held /\ Waiting' = Waiting
        /\ Waking' = Waking \ {g} /\ g \in Waking
    BY DEF Held, Waiting, Waking
  <1>4. Cardinality(Waking') = Cardinality(Waking) - 1
    BY <1>1, <1>3, Counts
  <1>5. CounterTypeOK'
    OBVIOUS
  <1> QED BY <1>2, <1>3, <1>4, <1>5 DEF Conserved, Deficit

LEMMA RuntimeStep ==
  ASSUME RuntimeInv, NEW g \in Goroutine,
         \/ StartCall(g) /\ UNCHANGED <<counterVars, sema>>
         \/ RuntimeWork(g)
  PROVE  RuntimeInv'
  <1> PICK n \in Nat : n = sema
    BY DEF RuntimeInv, RuntimeTypeOK
  <1>1. CounterTypeOK /\ Conserved(n)
    BY DEF RuntimeInv, RuntimeTypeOK, Conserved
  <1>2. CASE (StartCall(g) \/ Return(g)) /\ UNCHANGED <<counterVars, sema>>
    <2>1. CounterTypeOK' /\ Conserved(n)'
      BY <1>1, <1>2, ClientStep
    <2>2. sema' = n
      BY <1>2
    <2> QED BY <2>1, <2>2 DEF Conserved, RuntimeInv, RuntimeTypeOK
  <1>3. CASE Counting(g) /\ UNCHANGED sema
    <2>1. CounterTypeOK' /\ Conserved(n)'
      BY <1>1, <1>3, CountingStep
    <2>2. sema' = n
      BY <1>3
    <2> QED BY <2>1, <2>2 DEF Conserved, RuntimeInv, RuntimeTypeOK
  <1>4. CASE Semacquire(g)
    <2>1. n - 1 \in Nat /\ sema' = n - 1
      BY <1>4 DEF Semacquire
    <2>2. CounterTypeOK' /\ Conserved(n - 1)'
      BY <1>1, <1>4, <2>1, GrantStep DEF Semacquire
    <2> QED BY <2>1, <2>2 DEF Conserved, RuntimeInv, RuntimeTypeOK
  <1>5. CASE Semrelease(g)
    <2>1. n + 1 \in Nat /\ sema' = n + 1
      BY <1>5 DEF Semrelease
    <2>2. CounterTypeOK' /\ Conserved(n + 1)'
      BY <1>1, <1>5, <2>1, WakeStep DEF Semrelease
    <2> QED BY <2>1, <2>2 DEF Conserved, RuntimeInv, RuntimeTypeOK
  <1> QED BY <1>2, <1>3, <1>4, <1>5 DEF RuntimeWork

(* The operations of the gate queue keep each waiter in its own place.     *)
LEMMA LockfreeStep ==
  ASSUME LockfreeInv, NEW g \in Goroutine,
         \/ StartCall(g) /\ UNCHANGED <<counterVars, gateVars>>
         \/ LockfreeWork(g)
  PROVE  LockfreeInv'
  <1>o. opened \in SUBSET Goroutine
    BY DEF LockfreeInv, LockfreeTypeOK
  <1> PICK n \in Nat : n = Cardinality(opened)
    BY <1>o, Counts
  <1>1. CounterTypeOK /\ Conserved(n) /\ LineOK /\ TakenOK
        /\ head \in Nat /\ place \in [Goroutine -> Nat] /\ got \in [Goroutine -> Goroutine]
        /\ waiters \in Seq([gate : Goroutine, ready : BOOLEAN])
        /\ opened \subseteq {h \in Goroutine : pc[h] = "spin"}
    BY DEF LockfreeInv, LockfreeTypeOK, Conserved
  <1>t. pc \in [Goroutine -> SignedPoints]
    BY <1>1 DEF CounterTypeOK, SignedPoints
  <1>l. \A i \in DOMAIN waiters :
           /\ waiters[i] \in [gate : Goroutine, ready : BOOLEAN]
           /\ pc[waiters[i].gate] \in {"spin", "publish"}
    <2>1. \A i \in DOMAIN waiters : waiters[i] \in [gate : Goroutine, ready : BOOLEAN]
      <3> DEFINE Place == [gate : Goroutine, ready : BOOLEAN]
      <3>1. waiters \in Seq(Place)
        BY <1>1
      <3> HIDE DEF Place
      <3>2. \A i \in DOMAIN waiters : waiters[i] \in Place
        BY <3>1
      <3> QED BY <3>2 DEF Place
    <2>2. \A i \in DOMAIN waiters : pc[waiters[i].gate] \in {"spin", "publish"}
      BY <1>1 DEF LineOK
    <2> QED BY <2>1, <2>2
  <1>2. CASE (StartCall(g) \/ Return(g) \/ Counting(g)) /\ UNCHANGED gateVars
             /\ (Counting(g) \/ UNCHANGED counterVars)
    <2>1. CounterTypeOK' /\ Conserved(n)'
      BY <1>1, <1>2, ClientStep, CountingStep
    <2>2. /\ pc[g] \notin {"spin", "publish", "vacate", "open"}
          /\ \E to \in SignedPoints \ {"vacate", "open"} : pc' = [pc EXCEPT ![g] = to]
      BY <1>2 DEF StartCall, StartAcquire, StartRelease, Return, Counting,
                  LoadPermits, TakePermit, AddPermit, Goto, SignedPoints
    <2>3. UNCHANGED <<opened, waiters, head, place, got>>
      BY <1>2 DEF gateVars, lineVars
    <2>4. LineOK'
      BY <1>1, <1>t, <1>l, <2>2, <2>3 DEF LineOK
    <2>5. TakenOK'
      <3>1. \A h \in Goroutine : h \in Opening' <=> h \in Opening
        BY <1>t, <2>2 DEF Opening
      <3>2. \A h \in Opening : pc'[got[h]] = "spin"
        BY <1>1, <1>t, <2>2 DEF TakenOK, Opening
      <3> QED BY <1>1, <2>3, <3>1, <3>2 DEF TakenOK, Opening
    <2>6. LockfreeTypeOK'
      BY <1>1, <1>t, <2>1, <2>2, <2>3 DEF LockfreeTypeOK
    <2> QED BY <2>1, <2>3, <2>4, <2>5, <2>6 DEF Conserved, LockfreeInv
  <1>3. CASE ClaimPlace(g) \/ Publish(g)
    <2>1. /\ pc[g] \in {"wait", "publish"}
          /\ \E to \in {"publish", "spin", "refused"} : pc' = [pc EXCEPT ![g] = to]
          /\ UNCHANGED <<permits, seen, owned, calls, opened, head, place, got>>
      BY <1>3 DEF ClaimPlace, Publish, Goto, counterVars
    <2>2. /\ Held' = Held /\ Waiting' = Waiting /\ Waking' = Waking
      BY <1>t, <2>1 DEF Held, Waiting, Waking
    <2>3. CounterTypeOK' /\ Conserved(n)'
      BY <1>1, <2>1, <2>2 DEF CounterTypeOK, ClientTypeOK, Conserved, Deficit
    <2>4. opened' \subseteq {h \in Goroutine : pc'[h] = "spin"}
      BY <1>1, <1>t, <2>1
    <2>8. /\ \A h \in Goroutine : h \in Opening' <=> h \in Opening
          /\ \A h \in Opening : got[h] # g /\ pc'[got[h]] = "spin"
      BY <1>1, <1>t, <2>1 DEF TakenOK, Opening
    <2>5. CASE ClaimPlace(g) /\ waiters' = waiters
      <3>1. pc[g] = "wait"
        BY <2>5 DEF ClaimPlace, Goto
      <3>2. LineOK'
        BY <1>1, <1>t, <1>l, <2>1, <2>5, <3>1 DEF LineOK
      <3>3. TakenOK'
        BY <1>1, <2>1, <2>5, <2>8 DEF TakenOK, Opening
      <3> QED BY <1>1, <2>1, <2>3, <2>4, <2>5, <3>2, <3>3
              DEF LockfreeInv, LockfreeTypeOK, Conserved
    <2>6. CASE waiters' = Append(waiters, [gate |-> g, ready |-> FALSE])
               /\ Goto(g, "wait", "publish")
      <3>1. /\ waiters' \in Seq([gate : Goroutine, ready : BOOLEAN])
            /\ DOMAIN waiters' = DOMAIN waiters \cup {Len(waiters) + 1}
            /\ \A i \in DOMAIN waiters : waiters'[i] = waiters[i]
            /\ waiters'[Len(waiters) + 1] = [gate |-> g, ready |-> FALSE]
        BY <1>1, <2>6
      <3>2. \A i \in DOMAIN waiters : waiters[i].gate # g
        BY <1>l, <2>6 DEF Goto
      <3>3. pc' = [pc EXCEPT ![g] = "publish"] /\ g \notin opened
        BY <1>1, <2>6 DEF Goto
      <3>4. LineOK'
        BY <1>1, <1>t, <1>l, <2>1, <3>1, <3>2, <3>3 DEF LineOK
      <3>5. \A i \in DOMAIN waiters' :
              \/ waiters'[i].gate = g
              \/ i \in DOMAIN waiters /\ waiters'[i].gate = waiters[i].gate
        <4>1. waiters'[Len(waiters) + 1].gate = g
          BY <3>1
        <4>2. \A i \in DOMAIN waiters : waiters'[i].gate = waiters[i].gate
          BY <3>1
        <4> QED BY <3>1, <4>1, <4>2
      <3>6. TakenOK'
        <4>1. \A k \in Opening : \A i \in DOMAIN waiters' : waiters'[i].gate # got[k]
          BY <1>1, <2>8, <3>5 DEF TakenOK
        <4>2. /\ got' = got /\ opened' = opened
              /\ \A k \in Opening' : k \in Opening
          BY <2>1, <2>8 DEF Opening
        <4> QED BY <1>1, <2>8, <4>1, <4>2 DEF TakenOK
      <3> QED BY <1>1, <2>1, <2>3, <2>4, <3>1, <3>4, <3>6
              DEF LockfreeInv, LockfreeTypeOK, Conserved
    <2>7. CASE Publish(g)
      <3>1. /\ waiters' \in Seq([gate : Goroutine, ready : BOOLEAN])
            /\ DOMAIN waiters' = DOMAIN waiters
            /\ \A i \in DOMAIN waiters :
                 /\ waiters'[i].gate = waiters[i].gate
                 /\ waiters'[i].ready = (waiters[i].ready \/ waiters[i].gate = g)
        <4>1. waiters' = [i \in DOMAIN waiters |->
                 [gate  |-> waiters[i].gate,
                  ready |-> waiters[i].ready \/ waiters[i].gate = g]]
          BY <1>l, <2>7 DEF Publish
        <4>2. DOMAIN waiters = 1 .. Len(waiters) /\ Len(waiters) \in Nat
          BY <1>1
        <4> QED BY <1>l, <4>1, <4>2
      <3>2. pc[g] = "publish" /\ pc' = [pc EXCEPT ![g] = "spin"]
        BY <2>7 DEF Publish, Goto
      <3>3. LineOK'
        <4>1. \A i, j \in DOMAIN waiters' : waiters'[i].gate = waiters'[j].gate => i = j
          BY <1>1, <3>1 DEF LineOK
        <4>2. ASSUME NEW i \in DOMAIN waiters
              PROVE  /\ pc'[waiters'[i].gate] = IF waiters'[i].ready THEN "spin" ELSE "publish"
                     /\ waiters'[i].gate \notin opened'
          <5>1. /\ pc[waiters[i].gate] = IF waiters[i].ready THEN "spin" ELSE "publish"
                /\ waiters[i].gate \notin opened /\ waiters[i].gate \in Goroutine
            BY <1>1, <1>l DEF LineOK
          <5>2. /\ waiters'[i].gate = waiters[i].gate /\ opened' = opened
                /\ waiters'[i].ready = (waiters[i].ready \/ waiters[i].gate = g)
            BY <2>1, <3>1
          <5>3. pc'[waiters[i].gate] = IF waiters[i].gate = g THEN "spin" ELSE pc[waiters[i].gate]
            BY <1>t, <3>2, <5>1
          <5> QED BY <5>1, <5>2, <5>3
        <4> QED BY <3>1, <4>1, <4>2 DEF LineOK
      <3>4. TakenOK'
        <4>1. \A k \in Opening : \A i \in DOMAIN waiters' : waiters'[i].gate # got[k]
          BY <1>1, <2>8, <3>1 DEF TakenOK
        <4>2. /\ got' = got /\ opened' = opened
              /\ \A k \in Opening' : k \in Opening
          BY <2>1, <2>8 DEF Opening
        <4> QED BY <1>1, <2>8, <4>1, <4>2 DEF TakenOK
      <3> QED BY <1>1, <2>1, <2>3, <2>4, <3>1, <3>3, <3>4
              DEF LockfreeInv, LockfreeTypeOK, Conserved
    <2> QED BY <1>3, <2>5, <2>6, <2>7 DEF ClaimPlace
  <1>4. CASE Pass(g)
    <2> USE <1>4 DEF Pass, lineVars
    <2>1. n - 1 \in Nat /\ Cardinality(opened') = n - 1
      BY <1>o, Counts
    <2>2. CounterTypeOK' /\ Conserved(n - 1)'
      BY <1>1, <2>1, GrantStep
    <2>3. opened' \subseteq {h \in Goroutine : pc'[h] = "spin"}
      BY <1>1, <1>t DEF Goto
    <2>4. LineOK'
      BY <1>1, <1>t, <1>l DEF LineOK, Goto
    <2>5. TakenOK'
      <3>1. /\ \A h \in Goroutine : h \in Opening' <=> h \in Opening
            /\ \A h \in Opening : got[h] # g /\ pc'[got[h]] = "spin"
        BY <1>1, <1>t DEF TakenOK, Opening, Goto
      <3> QED BY <1>1, <3>1 DEF TakenOK, Opening
    <2> QED BY <1>1, <2>1, <2>2, <2>3, <2>4, <2>5
            DEF Conserved, LockfreeInv, LockfreeTypeOK
  <1>5. CASE ClaimGate(g)
    <2> USE <1>5 DEF ClaimGate
    <2>1. /\ waiters # <<>> /\ Head(waiters) = waiters[1] /\ 1 \in DOMAIN waiters
          /\ waiters[1].ready
      BY <1>1
    <2> DEFINE h == waiters[1].gate
    <2>2. h \in Goroutine /\ pc[h] = "spin" /\ h \notin opened
      BY <1>1, <1>l, <2>1 DEF LineOK
    <2>3. /\ pc[g] = "wake" /\ pc' = [pc EXCEPT ![g] = "vacate"]
          /\ got' = [got EXCEPT ![g] = h] /\ opened' = opened
          /\ UNCHANGED <<permits, seen, owned, calls>>
      BY <2>1 DEF Goto, counterVars
    <2>4. Held' = Held /\ Waiting' = Waiting /\ Waking' = Waking
      BY <1>t, <2>3 DEF Held, Waiting, Waking
    <2>5. CounterTypeOK' /\ Conserved(n)'
      BY <1>1, <2>3, <2>4 DEF CounterTypeOK, ClientTypeOK, Conserved, Deficit
    <2>6. /\ waiters' \in Seq([gate : Goroutine, ready : BOOLEAN])
          /\ \A i \in DOMAIN waiters' : i + 1 \in DOMAIN waiters \ {1}
                                        /\ waiters'[i] = waiters[i + 1]
      BY <1>1, <2>1
    <2>7. \A i \in DOMAIN waiters' : waiters'[i].gate # h /\ waiters'[i].gate # g
      <3>1. \A i \in DOMAIN waiters : waiters[i].gate # g
        BY <1>l, <2>3
      <3> QED BY <1>1, <2>1, <2>6, <3>1 DEF LineOK
    <2>8. LineOK'
      <3>2. \A i, j \in DOMAIN waiters' : waiters'[i].gate = waiters'[j].gate => i = j
        <4> SUFFICES ASSUME NEW i \in DOMAIN waiters', NEW j \in DOMAIN waiters',
                            waiters'[i].gate = waiters'[j].gate
                     PROVE  i = j
          OBVIOUS
        <4>1. i + 1 = j + 1
          BY <1>1, <2>6 DEF LineOK
        <4>2. i \in Int /\ j \in Int
          BY <2>6
        <4> QED BY <4>1, <4>2
      <3> QED BY <1>1, <1>t, <1>l, <2>3, <2>6, <2>7, <3>2 DEF LineOK
    <2>9. TakenOK'
      <3>1. /\ \A k \in Goroutine : k \in Opening' <=> k \in Opening \/ k = g
            /\ g \notin Opening
        BY <1>t, <2>3 DEF Opening
      <3>2. \A k \in Opening : got'[k] = got[k] /\ got[k] # h
        BY <1>1, <2>1, <2>3, <3>1 DEF TakenOK, Opening
      <3>3. got'[g] = h
        BY <1>1, <2>3
      <3>4. \A k \in Goroutine : pc[k] = "spin" => pc'[k] = "spin"
        BY <1>t, <2>3
      <3>5. \A k, l \in Opening' : got'[k] = got'[l] => k = l
        BY <1>1, <3>1, <3>2, <3>3 DEF TakenOK, Opening
      <3>6. ASSUME NEW k \in Opening'
            PROVE  /\ pc'[got'[k]] = "spin" /\ got'[k] \notin opened'
                   /\ \A i \in DOMAIN waiters' : waiters'[i].gate # got'[k]
        <4>1. CASE k = g
          BY <2>2, <2>3, <2>7, <3>3, <3>4, <4>1
        <4>2. CASE k \in Opening
          <5>1. /\ got'[k] = got[k] /\ pc[got[k]] = "spin" /\ got[k] \notin opened
                /\ got[k] \in Goroutine
                /\ \A i \in DOMAIN waiters : waiters[i].gate # got[k]
            BY <1>1, <3>2, <4>2 DEF TakenOK, Opening
          <5> QED BY <2>3, <2>6, <3>4, <5>1
        <4> QED BY <3>1, <3>6, <4>1, <4>2 DEF Opening
      <3> QED BY <3>5, <3>6 DEF TakenOK
    <2>10. opened' \subseteq {k \in Goroutine : pc'[k] = "spin"}
      BY <1>1, <1>t, <2>3
    <2>11. /\ head' \in Nat /\ place' \in [Goroutine -> Nat]
           /\ got' \in [Goroutine -> Goroutine]
      BY <1>1, <2>2, <2>3
    <2> QED BY <2>3, <2>5, <2>6, <2>8, <2>9, <2>10, <2>11
            DEF Conserved, LockfreeInv, LockfreeTypeOK
  <1>6. CASE Vacate(g)
    <2>1. /\ pc[g] = "vacate" /\ pc' = [pc EXCEPT ![g] = "open"]
          /\ UNCHANGED <<permits, seen, owned, calls, opened, waiters, head, got>>
          /\ place' \in [Goroutine -> Nat]
      BY <1>1, <1>6 DEF Vacate, Goto, counterVars
    <2>2. Held' = Held /\ Waiting' = Waiting /\ Waking' = Waking
      BY <1>t, <2>1 DEF Held, Waiting, Waking
    <2>3. CounterTypeOK' /\ Conserved(n)'
      BY <1>1, <2>1, <2>2 DEF CounterTypeOK, ClientTypeOK, Conserved, Deficit
    <2>4. LineOK'
      BY <1>1, <1>t, <1>l, <2>1 DEF LineOK
    <2>5. TakenOK'
      <3>1. /\ \A h \in Goroutine : h \in Opening' <=> h \in Opening
            /\ \A h \in Opening : pc'[got[h]] = "spin"
        BY <1>1, <1>t, <2>1 DEF TakenOK, Opening
      <3> QED BY <1>1, <2>1, <3>1 DEF TakenOK, Opening
    <2>6. opened' \subseteq {k \in Goroutine : pc'[k] = "spin"}
      BY <1>1, <1>t, <2>1
    <2> QED BY <1>1, <2>1, <2>3, <2>4, <2>5, <2>6
            DEF Conserved, LockfreeInv, LockfreeTypeOK
  <1>7. CASE OpenGate(g)
    <2> DEFINE h == got[g]
    <2>1. /\ pc[g] = "open" /\ pc' = [pc EXCEPT ![g] = "idle"]
          /\ opened' = opened \cup {h} /\ got' = [got EXCEPT ![g] = g]
          /\ UNCHANGED <<waiters, head, place>> /\ UNCHANGED counterVars
      BY <1>7 DEF OpenGate, Goto
    <2>2. /\ g \in Opening /\ h \in Goroutine /\ pc[h] = "spin" /\ h \notin opened
          /\ \A i \in DOMAIN waiters : waiters[i].gate # h /\ waiters[i].gate # g
      BY <1>1, <1>l, <2>1 DEF TakenOK, Opening
    <2>3. n + 1 \in Nat /\ Cardinality(opened') = n + 1
      BY <1>o, <2>1, <2>2, Counts
    <2>4. CounterTypeOK' /\ Conserved(n + 1)'
      BY <1>1, <1>7, <2>3, WakeStep DEF OpenGate
    <2>5. LineOK'
      BY <1>1, <1>t, <1>l, <2>1, <2>2 DEF LineOK
    <2>6. TakenOK'
      <3>1. /\ \A k \in Goroutine : k \in Opening' <=> k \in Opening /\ k # g
            /\ \A k \in Opening : k # g => /\ got'[k] = got[k] /\ got[k] # h
                                           /\ pc'[got[k]] = "spin"
        BY <1>1, <1>t, <2>1, <2>2 DEF TakenOK, Opening
      <3> QED BY <1>1, <2>1, <3>1 DEF TakenOK, Opening
    <2>7. opened' \subseteq {k \in Goroutine : pc'[k] = "spin"}
      BY <1>1, <1>t, <2>1, <2>2
    <2>8. got' \in [Goroutine -> Goroutine]
      BY <1>1, <2>1
    <2> QED BY <1>1, <2>1, <2>3, <2>4, <2>5, <2>6, <2>7, <2>8
            DEF Conserved, LockfreeInv, LockfreeTypeOK
  <1> QED BY <1>2, <1>3, <1>4, <1>5, <1>6, <1>7 DEF LockfreeWork

-----------------------------------------------------------------------------
(* The counted semaphores *)

(* Whoever joins the line is its last.                                     *)
LEMMA ListsAppend ==
  ASSUME NEW s \in Seq(Goroutine), NEW W \in SUBSET Goroutine,
         Counted!Lists(s, W), NEW g \in Goroutine, g \notin W
  PROVE  /\ Append(s, g) \in Seq(Goroutine)
         /\ Counted!Lists(Append(s, g), W \cup {g})
  <1> DEFINE t == Append(s, g)
  <1>1. /\ t \in Seq(Goroutine) /\ Len(s) \in Nat
        /\ DOMAIN s = 1 .. Len(s) /\ DOMAIN t = 1 .. Len(s) + 1
        /\ \A i \in DOMAIN s : t[i] = s[i]
        /\ t[Len(s) + 1] = g
    OBVIOUS
  <1> HIDE DEF t
  <1>2. DOMAIN t = DOMAIN s \cup {Len(s) + 1}
    BY <1>1
  <1>3. \A i \in DOMAIN s : s[i] # g
    BY DEF Counted!Lists
  <1>4. \A i, j \in DOMAIN t : t[i] = t[j] => i = j
    BY <1>1, <1>2, <1>3 DEF Counted!Lists
  <1>5. \A h \in Goroutine : (\E i \in DOMAIN t : t[i] = h) <=> h \in W \cup {g}
    BY <1>1, <1>2 DEF Counted!Lists
  <1> QED BY <1>1, <1>4, <1>5 DEF Counted!Lists, t

(* Whoever is taken off the line was its first.                            *)
LEMMA ListsTail ==
  ASSUME NEW s \in Seq(Goroutine), s # <<>>, NEW W \in SUBSET Goroutine,
         Counted!Lists(s, W)
  PROVE  /\ Head(s) \in W /\ Tail(s) \in Seq(Goroutine)
         /\ Counted!Lists(Tail(s), W \ {Head(s)})
  <1> DEFINE t == Tail(s)
  <1>1. /\ t \in Seq(Goroutine) /\ Len(s) \in Nat \ {0}
        /\ Head(s) = s[1] /\ 1 \in DOMAIN s /\ s[1] \in Goroutine
        /\ DOMAIN s = 1 .. Len(s) /\ DOMAIN t = 1 .. Len(s) - 1
        /\ \A i \in DOMAIN t : t[i] = s[i + 1]
    OBVIOUS
  <1> HIDE DEF t
  <1>2. /\ \A i \in DOMAIN t : i + 1 \in DOMAIN s /\ i + 1 # 1
        /\ \A i \in DOMAIN s : i = 1 \/ (i - 1 \in DOMAIN t /\ t[i - 1] = s[i])
    BY <1>1
  <1>3. \A i, j \in DOMAIN t : t[i] = t[j] => i = j
    <2> SUFFICES ASSUME NEW i \in DOMAIN t, NEW j \in DOMAIN t, t[i] = t[j]
                 PROVE  i = j
      OBVIOUS
    <2>1. i + 1 = j + 1
      BY <1>1, <1>2 DEF Counted!Lists
    <2> QED BY <1>1, <2>1
  <1>4. ASSUME NEW h \in Goroutine
        PROVE  (\E i \in DOMAIN t : t[i] = h) <=> h \in W \ {s[1]}
    <2>1. ASSUME NEW i \in DOMAIN t, t[i] = h PROVE h \in W \ {s[1]}
      BY <1>1, <1>2, <2>1 DEF Counted!Lists
    <2>2. ASSUME h \in W \ {s[1]} PROVE \E i \in DOMAIN t : t[i] = h
      <3>1. PICK i \in DOMAIN s : s[i] = h
        BY <2>2 DEF Counted!Lists
      <3> QED BY <1>2, <2>2, <3>1
    <2> QED BY <2>1, <2>2
  <1>5. s[1] \in W
    BY <1>1 DEF Counted!Lists
  <1> QED BY <1>1, <1>3, <1>4, <1>5 DEF Counted!Lists, t

(* A step of ChannelSemaphore keeps its buffer the number of permits out.  *)
LEMMA ChannelStep ==
  ASSUME Counted!ChannelInv, NEW g \in Goroutine,
         \/ StartCall(g) /\ UNCHANGED <<count, line, opened>>
         \/ Counted!ChannelWork(g)
  PROVE  Counted!ChannelInv'
  <1> DEFINE Out == Counted!Out({})
             Parked == Counted!At("parked")
  <1>1. /\ Out \in SUBSET Goroutine /\ Parked \in SUBSET Goroutine
        /\ Cardinality(Out) \in Nat /\ Permits \in Nat /\ Strays \in Nat
    <2>1. Out \in SUBSET Goroutine /\ Parked \in SUBSET Goroutine
      BY DEF Counted!Out, Counted!At
    <2> QED BY <2>1, Counts, PermitAssumption
  <1>2. /\ pc \in [Goroutine -> {"idle", "acquire", "parked", "granted", "release"}]
        /\ calls \in Nat /\ owned \in Int /\ owned >= -Strays
        /\ count \in 0 .. Permits /\ line \in Seq(Goroutine)
        /\ count = owned + Cardinality(Out)
        /\ Counted!Lists(line, Parked) /\ (line # <<>> => count = Permits)
    BY CountedCardinality DEF Counted!ChannelInv, Counted!ChannelTypeOK,
       Counted!CountTypeOK, Counted!ClientTypeOK, Counted!Conserved
  <1>q. SUFFICES /\ pc' \in [Goroutine -> {"idle", "acquire", "parked", "granted", "release"}]
        /\ calls' \in Nat /\ owned' \in Int /\ owned' >= -Strays
        /\ count' \in 0 .. Permits /\ line' \in Seq(Goroutine)
        /\ count' = owned' + Cardinality(Out')
        /\ Counted!Lists(line', Parked') /\ (line' # <<>> => count' = Permits)
    BY CountedCardinality DEF Counted!ChannelInv, Counted!ChannelTypeOK, Counted!Lists,
       Counted!CountTypeOK, Counted!ClientTypeOK, Counted!Conserved
  <1>3. CASE StartAcquire(g) /\ UNCHANGED <<count, line, opened>>
    <2>1. Out' = Out /\ Parked' = Parked
      BY <1>2, <1>3 DEF StartAcquire, Counted!Out, Counted!At
    <2> QED BY <1>2, <1>3, <2>1 DEF StartAcquire
  <1>4. CASE StartRelease(g) /\ UNCHANGED <<count, line, opened>>
    <2>1. Out' = Out \cup {g} /\ g \notin Out /\ Parked' = Parked
      BY <1>2, <1>4 DEF StartRelease, Counted!Out, Counted!At
    <2>2. Cardinality(Out') = Cardinality(Out) + 1
      BY <1>1, <2>1, Counts
    <2> QED BY <1>1, <1>2, <1>4, <2>1, <2>2 DEF StartRelease
  <1>5. CASE Counted!Take(g)
    <2>1. Out' = Out \cup {g} /\ g \notin Out /\ Parked' = Parked
      BY <1>2, <1>5 DEF Counted!Take, Counted!Goto, Counted!Out, Counted!At
    <2>2. Cardinality(Out') = Cardinality(Out) + 1
      BY <1>1, <2>1, Counts
    <2> QED BY <1>1, <1>2, <1>5, <2>1, <2>2 DEF Counted!Take, Counted!Goto
  <1>6. CASE Counted!Join(g, "parked")
    <2>1. Out' = Out /\ Parked' = Parked \cup {g} /\ g \notin Parked
      BY <1>2, <1>6 DEF Counted!Join, Counted!Goto, Counted!Out, Counted!At
    <2>2. /\ line' \in Seq(Goroutine) /\ Counted!Lists(line', Parked')
      BY <1>1, <1>2, <1>6, <2>1, ListsAppend DEF Counted!Join
    <2>3. count' = count /\ count = Permits /\ UNCHANGED <<calls, owned>>
          /\ pc' = [pc EXCEPT ![g] = "parked"]
      BY <1>1, <1>2, <1>6 DEF Counted!Join, Counted!Goto
    <2> HIDE DEF Out, Parked
    <2> QED BY <1>1, <1>2, <2>1, <2>2, <2>3
  <1>7. CASE Counted!ChannelRelease(g) /\ line = <<>>
    <2>1. Out' = Out \ {g} /\ g \in Out /\ Parked' = Parked
      BY <1>2, <1>7 DEF Counted!ChannelRelease, Counted!Out, Counted!At
    <2>2. Cardinality(Out') = Cardinality(Out) - 1
      BY <1>1, <2>1, Counts
    <2> QED BY <1>1, <1>2, <1>7, <2>1, <2>2 DEF Counted!ChannelRelease
  <1>8. CASE Counted!ChannelRelease(g) /\ line # <<>>
    <2> DEFINE h == Head(line)
    <2>1. /\ h \in Parked /\ Tail(line) \in Seq(Goroutine)
          /\ Counted!Lists(Tail(line), Parked \ {h})
      BY <1>1, <1>2, <1>8, ListsTail
    <2> HIDE DEF h
    <2>2. /\ pc[g] = "release" /\ pc[h] = "parked" /\ h \in Goroutine
          /\ pc' = [pc EXCEPT ![g] = "idle", ![h] = "granted"]
          /\ line' = Tail(line)
          /\ UNCHANGED <<count, calls, owned>>
      BY <1>8, <2>1 DEF Counted!ChannelRelease, Counted!At, h
    <2>3. /\ Out' = (Out \ {g}) \cup {h} /\ g \in Out /\ h \notin Out
          /\ Parked' = Parked \ {h}
      BY <1>2, <2>2 DEF Counted!Out, Counted!At
    <2>4. Cardinality(Out') = Cardinality(Out)
      <3>1. Cardinality(Out \ {g}) = Cardinality(Out) - 1
        BY <1>1, <2>3, Counts
      <3>2. Cardinality((Out \ {g}) \cup {h}) = Cardinality(Out \ {g}) + 1
        BY <1>1, <2>2, <2>3, Counts
      <3> HIDE DEF Out
      <3> QED BY <1>1, <2>3, <3>1, <3>2
    <2>5. pc' \in [Goroutine -> {"idle", "acquire", "parked", "granted", "release"}]
      BY <1>2, <2>2
    <2>6. count = Permits
      BY <1>2, <1>8
    <2> HIDE DEF Out, Parked
    <2> QED BY <1>1, <1>2, <2>1, <2>2, <2>3, <2>4, <2>5, <2>6
  <1>9. CASE Counted!Leave(g)
    <2> USE <1>9 DEF Counted!Leave, Counted!Return, Counted!countVars
    <2>1. Out' = Out \ {g} /\ g \in Out /\ Parked' = Parked
      BY <1>2 DEF Counted!Out, Counted!At
    <2>2. Cardinality(Out') = Cardinality(Out) - 1
      BY <1>1, <2>1, Counts
    <2> QED BY <1>1, <1>2, <2>1, <2>2
  <1> QED BY <1>3, <1>4, <1>5, <1>6, <1>7, <1>8, <1>9
          DEF StartCall, Counted!ChannelWork, Counted!ChannelAcquire

(* A step of MutexSemaphore keeps its count the number of permits out.     *)
LEMMA MutexStep ==
  ASSUME Counted!MutexInv, NEW g \in Goroutine,
         \/ StartCall(g) /\ UNCHANGED <<count, line, opened>>
         \/ Counted!MutexWork(g)
  PROVE  Counted!MutexInv'
  <1> DEFINE Out == Counted!Out(opened)
             Gated == Counted!At("gate") \ opened
  <1>1. /\ Out \in SUBSET Goroutine /\ Gated \in SUBSET Goroutine
        /\ Cardinality(Out) \in Nat /\ Permits \in Nat /\ Strays \in Nat
    <2>1. Out \in SUBSET Goroutine /\ Gated \in SUBSET Goroutine
      BY DEF Counted!Out, Counted!At
    <2> QED BY <2>1, Counts, PermitAssumption
  <1>2. /\ pc \in [Goroutine -> {"idle", "acquire", "gate", "granted", "release", "panic"}]
        /\ calls \in Nat /\ owned \in Int /\ owned >= -Strays
        /\ count \in 0 .. Permits /\ opened \subseteq Counted!At("gate") /\ line \in Seq(Goroutine)
        /\ count = owned + Cardinality(Out)
        /\ Counted!Lists(line, Gated) /\ (line # <<>> => count = Permits)
    BY CountedCardinality DEF Counted!MutexInv, Counted!MutexTypeOK,
       Counted!CountTypeOK, Counted!ClientTypeOK, Counted!Conserved
  <1>q. SUFFICES /\ pc' \in [Goroutine -> {"idle", "acquire", "gate", "granted", "release", "panic"}]
        /\ calls' \in Nat /\ owned' \in Int /\ owned' >= -Strays
        /\ count' \in 0 .. Permits /\ opened' \subseteq Counted!At("gate")' /\ line' \in Seq(Goroutine)
        /\ count' = owned' + Cardinality(Out')
        /\ Counted!Lists(line', Gated') /\ (line' # <<>> => count' = Permits)
    BY CountedCardinality DEF Counted!MutexInv, Counted!MutexTypeOK, Counted!Lists,
       Counted!CountTypeOK, Counted!ClientTypeOK, Counted!Conserved
  <1>3. CASE StartAcquire(g) /\ UNCHANGED <<count, line, opened>>
    <2>1. Out' = Out /\ Gated' = Gated /\ opened' \subseteq Counted!At("gate")'
      BY <1>2, <1>3 DEF StartAcquire, Counted!Out, Counted!At
    <2> HIDE DEF Out, Gated
    <2> QED BY <1>2, <1>3, <2>1 DEF StartAcquire
  <1>4. CASE StartRelease(g) /\ UNCHANGED <<count, line, opened>>
    <2>1. /\ Out' = Out \cup {g} /\ g \notin Out /\ Gated' = Gated
          /\ opened' \subseteq Counted!At("gate")'
      BY <1>2, <1>4 DEF StartRelease, Counted!Out, Counted!At
    <2>2. Cardinality(Out') = Cardinality(Out) + 1
      BY <1>1, <2>1, Counts
    <2> HIDE DEF Out, Gated
    <2> QED BY <1>1, <1>2, <1>4, <2>1, <2>2 DEF StartRelease
  <1>5. CASE Counted!Take(g)
    <2>1. /\ Out' = Out \cup {g} /\ g \notin Out /\ Gated' = Gated
          /\ opened' \subseteq Counted!At("gate")'
      BY <1>2, <1>5 DEF Counted!Take, Counted!Goto, Counted!Out, Counted!At
    <2>2. Cardinality(Out') = Cardinality(Out) + 1
      BY <1>1, <2>1, Counts
    <2> HIDE DEF Out, Gated
    <2> QED BY <1>1, <1>2, <1>5, <2>1, <2>2 DEF Counted!Take, Counted!Goto
  <1>6. CASE Counted!Join(g, "gate")
    <2>1. /\ Out' = Out /\ Gated' = Gated \cup {g} /\ g \notin Gated
          /\ opened' \subseteq Counted!At("gate")'
      BY <1>2, <1>6 DEF Counted!Join, Counted!Goto, Counted!Out, Counted!At
    <2>2. /\ line' \in Seq(Goroutine) /\ Counted!Lists(line', Gated')
      BY <1>1, <1>2, <1>6, <2>1, ListsAppend DEF Counted!Join
    <2>3. count' = count /\ count = Permits /\ UNCHANGED <<calls, owned>>
          /\ pc' = [pc EXCEPT ![g] = "gate"]
      BY <1>1, <1>2, <1>6 DEF Counted!Join, Counted!Goto
    <2> HIDE DEF Out, Gated
    <2> QED BY <1>1, <1>2, <2>1, <2>2, <2>3
  <1>7. CASE Counted!MutexRelease(g) /\ line = <<>>
    <2>1. CASE count = 0
      <3>1. Out' = Out /\ Gated' = Gated
        BY <1>2, <1>7, <2>1 DEF Counted!MutexRelease, Counted!Goto, Counted!countVars,
           Counted!Out, Counted!At
      <3> QED BY <1>2, <1>7, <2>1, <3>1
              DEF Counted!MutexRelease, Counted!Goto, Counted!countVars, Counted!At
    <2>2. CASE count # 0
      <3>1. /\ Out' = Out \ {g} /\ g \in Out /\ Gated' = Gated
            /\ opened' \subseteq Counted!At("gate")'
        BY <1>2, <1>7, <2>2 DEF Counted!MutexRelease, Counted!Goto, Counted!Out, Counted!At
      <3>2. Cardinality(Out') = Cardinality(Out) - 1
        BY <1>1, <3>1, Counts
      <3>3. /\ count' = count - 1 /\ line' = line
            /\ pc' = [pc EXCEPT ![g] = "idle"] /\ UNCHANGED <<calls, owned>>
        BY <1>7, <2>2 DEF Counted!MutexRelease, Counted!Goto
      <3> HIDE DEF Out, Gated
      <3> QED BY <1>1, <1>2, <1>7, <2>2, <3>1, <3>2, <3>3
    <2> QED BY <2>1, <2>2
  <1>8. CASE Counted!MutexRelease(g) /\ line # <<>>
    <2> DEFINE h == Head(line)
    <2>1. /\ h \in Gated /\ Tail(line) \in Seq(Goroutine)
          /\ Counted!Lists(Tail(line), Gated \ {h})
      BY <1>1, <1>2, <1>8, ListsTail
    <2>0. count = Permits /\ count # 0
      BY <1>2, <1>8, PermitAssumption
    <2> HIDE DEF h
    <2>2. /\ pc[g] = "release" /\ pc[h] = "gate" /\ h \in Goroutine /\ h \notin opened
          /\ pc' = [pc EXCEPT ![g] = "idle"] /\ opened' = opened \cup {h}
          /\ line' = Tail(line)
          /\ UNCHANGED <<count, calls, owned>>
      BY <1>8, <2>0, <2>1 DEF Counted!MutexRelease, Counted!Goto, Counted!At, h
    <2>3. /\ Out' = (Out \ {g}) \cup {h} /\ g \in Out /\ h \notin Out
          /\ Gated' = Gated \ {h}
          /\ opened' \subseteq Counted!At("gate")'
      BY <1>2, <2>2 DEF Counted!Out, Counted!At
    <2>4. Cardinality(Out') = Cardinality(Out)
      <3>1. Cardinality(Out \ {g}) = Cardinality(Out) - 1
        BY <1>1, <2>3, Counts
      <3>2. Cardinality((Out \ {g}) \cup {h}) = Cardinality(Out \ {g}) + 1
        BY <1>1, <2>2, <2>3, Counts
      <3> HIDE DEF Out
      <3> QED BY <1>1, <2>3, <3>1, <3>2
    <2>5. pc' \in [Goroutine -> {"idle", "acquire", "gate", "granted", "release", "panic"}]
      BY <1>2, <2>2
    <2> HIDE DEF Out, Gated
    <2> QED BY <1>1, <1>2, <2>0, <2>1, <2>2, <2>3, <2>4, <2>5
  <1>10. CASE Counted!MutexPass(g)
    <2> USE <1>10 DEF Counted!MutexPass, Counted!Goto
    <2>1. Out' = Out /\ Gated' = Gated /\ opened' \subseteq Counted!At("gate")'
      BY <1>2 DEF Counted!Out, Counted!At
    <2> QED BY <1>1, <1>2, <2>1
  <1>9. CASE Counted!Leave(g)
    <2> USE <1>9 DEF Counted!Leave, Counted!Return, Counted!countVars
    <2>1. /\ Out' = Out \ {g} /\ g \in Out /\ Gated' = Gated
          /\ opened' \subseteq Counted!At("gate")'
      BY <1>2 DEF Counted!Out, Counted!At
    <2>2. Cardinality(Out') = Cardinality(Out) - 1
      BY <1>1, <2>1, Counts
    <2> HIDE DEF Out, Gated
    <2> QED BY <1>1, <1>2, <2>1, <2>2
  <1> QED BY <1>3, <1>4, <1>5, <1>6, <1>7, <1>8, <1>9, <1>10
          DEF StartCall, Counted!MutexWork, Counted!MutexAcquire

(* A step of CondSemaphore keeps its count the number of permits out.      *)
LEMMA CondStep ==
  ASSUME Counted!CondInv, NEW g \in Goroutine,
         \/ StartCall(g) /\ UNCHANGED <<count, line, opened>>
         \/ Counted!CondWork(g)
  PROVE  Counted!CondInv'
  <1> DEFINE Out == Counted!Out({})
             Parked == Counted!At("parked")
  <1>1. /\ Out \in SUBSET Goroutine /\ Parked \in SUBSET Goroutine
        /\ Cardinality(Out) \in Nat /\ Permits \in Nat /\ Strays \in Nat
    <2>1. Out \in SUBSET Goroutine /\ Parked \in SUBSET Goroutine
      BY DEF Counted!Out, Counted!At
    <2> QED BY <2>1, Counts, PermitAssumption
  <1>2. /\ pc \in [Goroutine -> {"idle", "acquire", "parked", "granted", "release"}]
        /\ calls \in Nat /\ owned \in Int /\ owned >= -Strays
        /\ count \in Int /\ count <= Permits /\ line \in Seq(Goroutine)
        /\ count = owned + Cardinality(Out)
        /\ Counted!Lists(line, Parked)
    BY CountedCardinality DEF Counted!CondInv, Counted!CondTypeOK,
       Counted!CountTypeOK, Counted!ClientTypeOK, Counted!Conserved
  <1>q. SUFFICES /\ pc' \in [Goroutine -> {"idle", "acquire", "parked", "granted", "release"}]
        /\ calls' \in Nat /\ owned' \in Int /\ owned' >= -Strays
        /\ count' \in Int /\ count' <= Permits /\ line' \in Seq(Goroutine)
        /\ count' = owned' + Cardinality(Out')
        /\ Counted!Lists(line', Parked')
    BY CountedCardinality DEF Counted!CondInv, Counted!CondTypeOK, Counted!Lists,
       Counted!CountTypeOK, Counted!ClientTypeOK, Counted!Conserved
  <1>3. CASE StartAcquire(g) /\ UNCHANGED <<count, line, opened>>
    <2>1. Out' = Out /\ Parked' = Parked
      BY <1>2, <1>3 DEF StartAcquire, Counted!Out, Counted!At
    <2> QED BY <1>2, <1>3, <2>1 DEF StartAcquire
  <1>4. CASE StartRelease(g) /\ UNCHANGED <<count, line, opened>>
    <2>1. Out' = Out \cup {g} /\ g \notin Out /\ Parked' = Parked
      BY <1>2, <1>4 DEF StartRelease, Counted!Out, Counted!At
    <2>2. Cardinality(Out') = Cardinality(Out) + 1
      BY <1>1, <2>1, Counts
    <2> QED BY <1>1, <1>2, <1>4, <2>1, <2>2 DEF StartRelease
  <1>5. CASE Counted!Take(g)
    <2>1. Out' = Out \cup {g} /\ g \notin Out /\ Parked' = Parked
      BY <1>2, <1>5 DEF Counted!Take, Counted!Goto, Counted!Out, Counted!At
    <2>2. Cardinality(Out') = Cardinality(Out) + 1
      BY <1>1, <2>1, Counts
    <2> QED BY <1>1, <1>2, <1>5, <2>1, <2>2 DEF Counted!Take, Counted!Goto
  <1>6. CASE Counted!Join(g, "parked")
    <2>1. Out' = Out /\ Parked' = Parked \cup {g} /\ g \notin Parked
      BY <1>2, <1>6 DEF Counted!Join, Counted!Goto, Counted!Out, Counted!At
    <2>2. /\ line' \in Seq(Goroutine) /\ Counted!Lists(line', Parked')
      BY <1>1, <1>2, <1>6, <2>1, ListsAppend DEF Counted!Join
    <2>3. count' = count /\ count = Permits /\ UNCHANGED <<calls, owned>>
          /\ pc' = [pc EXCEPT ![g] = "parked"]
      BY <1>1, <1>2, <1>6 DEF Counted!Join, Counted!Goto
    <2> HIDE DEF Out, Parked
    <2> QED BY <1>1, <1>2, <2>1, <2>2, <2>3
  <1>7. CASE Counted!CondRelease(g) /\ line = <<>>
    <2>1. Out' = Out \ {g} /\ g \in Out /\ Parked' = Parked
      BY <1>2, <1>7 DEF Counted!CondRelease, Counted!Out, Counted!At
    <2>2. Cardinality(Out') = Cardinality(Out) - 1
      BY <1>1, <2>1, Counts
    <2> QED BY <1>1, <1>2, <1>7, <2>1, <2>2 DEF Counted!CondRelease
  <1>8. CASE Counted!CondRelease(g) /\ line # <<>>
    <2> DEFINE h == Head(line)
    <2>1. /\ h \in Parked /\ Tail(line) \in Seq(Goroutine)
          /\ Counted!Lists(Tail(line), Parked \ {h})
      BY <1>1, <1>2, <1>8, ListsTail
    <2> HIDE DEF h
    <2>2. /\ pc[g] = "release" /\ pc[h] = "parked" /\ h \in Goroutine
          /\ pc' = [pc EXCEPT ![g] = "idle", ![h] = "acquire"]
          /\ line' = Tail(line) /\ count' = count - 1
          /\ UNCHANGED <<calls, owned>>
      BY <1>8, <2>1 DEF Counted!CondRelease, Counted!At, h
    <2>3. Out' = Out \ {g} /\ g \in Out /\ Parked' = Parked \ {h}
      BY <1>2, <2>2 DEF Counted!Out, Counted!At
    <2>4. Cardinality(Out') = Cardinality(Out) - 1
      BY <1>1, <2>3, Counts
    <2>5. pc' \in [Goroutine -> {"idle", "acquire", "parked", "granted", "release"}]
      BY <1>2, <2>2
    <2> HIDE DEF Out, Parked
    <2> QED BY <1>1, <1>2, <2>1, <2>2, <2>3, <2>4, <2>5
  <1>9. CASE Counted!Leave(g)
    <2> USE <1>9 DEF Counted!Leave, Counted!Return, Counted!countVars
    <2>1. Out' = Out \ {g} /\ g \in Out /\ Parked' = Parked
      BY <1>2 DEF Counted!Out, Counted!At
    <2>2. Cardinality(Out') = Cardinality(Out) - 1
      BY <1>1, <2>1, Counts
    <2> QED BY <1>1, <1>2, <2>1, <2>2
  <1> QED BY <1>3, <1>4, <1>5, <1>6, <1>7, <1>8, <1>9
          DEF StartCall, Counted!CondWork, Counted!CondAcquire

-----------------------------------------------------------------------------
(* All the semaphores *)

(* The semaphore in use satisfies its invariant.                           *)
FamilyInv ==
  /\ impl \in Impl
  /\ impl = "Channel"  => Counted!ChannelInv
  /\ impl = "Mutex"    => Counted!MutexInv
  /\ impl = "Cond"     => Counted!CondInv
  /\ impl = "Lockfree" => LockfreeInv
  /\ impl = "Runtime"  => RuntimeInv

LEMMA FamilyStart == FamilyInit => FamilyInv
  <1> SUFFICES ASSUME FamilyInit PROVE FamilyInv
    OBVIOUS
  <1>1. /\ pc = [g \in Goroutine |-> "idle"] /\ calls = 0 /\ owned = 0
        /\ permits = Permits /\ seen = [g \in Goroutine |-> 0]
        /\ waiters = <<>> /\ opened = {} /\ sema = 0 /\ head = 0
        /\ place = [g \in Goroutine |-> 0] /\ got = [g \in Goroutine |-> g]
        /\ impl \in Impl /\ count = 0 /\ line = <<>>
    BY DEF FamilyInit, Init, ClientInit, Counted!Init
  <1>2. /\ Permits \in Nat /\ Strays \in Nat /\ Cardinality({}) = 0
    BY PermitAssumption, FS_EmptySet
  <1>3. /\ CounterTypeOK /\ ClientTypeOK
    BY <1>1, <1>2 DEF CounterTypeOK, ClientTypeOK
  <1>4. Held = {} /\ Waiting = {} /\ Waking = {}
    BY <1>1 DEF Held, Waiting, Waking
  <1>5. Conserved(0)
    BY <1>1, <1>2, <1>4 DEF Conserved, Deficit
  <1>6. LockfreeInv /\ RuntimeInv
    <2>1. Opening = {}
      BY <1>1 DEF Opening
    <2> QED BY <1>1, <1>2, <1>3, <1>5, <2>1 DEF LockfreeInv, LockfreeTypeOK, LineOK,
            TakenOK, RuntimeInv, RuntimeTypeOK
  <1>7. /\ Counted!Out({}) = {} /\ Counted!At("parked") = {} /\ Counted!At("gate") = {}
    BY <1>1 DEF Counted!Out, Counted!At
  <1>8. Counted!Conserved({})
    <2>1. Counted!Cardinality(Counted!Out({})) = 0
      BY <1>2, <1>7, CountedCardinality
    <2> QED BY <1>1, <1>2, <2>1 DEF Counted!Conserved
  <1>0. Counted!Lists(line, {})
    BY <1>1 DEF Counted!Lists
  <1>9. Counted!CountTypeOK
    BY <1>1, <1>2 DEF Counted!CountTypeOK, Counted!ClientTypeOK
  <1>10. Counted!ChannelInv
    <2>1. Counted!ChannelTypeOK
      BY <1>1, <1>2, <1>9 DEF Counted!ChannelTypeOK
    <2>2. Counted!Lists(line, Counted!At("parked")) /\ (line # <<>> => count = Permits)
      BY <1>0, <1>1, <1>7
    <2> QED BY <1>8, <2>1, <2>2 DEF Counted!ChannelInv
  <1>11. Counted!MutexInv
    <2>1. Counted!MutexTypeOK
      BY <1>1, <1>2, <1>9 DEF Counted!MutexTypeOK
    <2>2. Counted!Conserved(opened) /\ Counted!Lists(line, Counted!At("gate") \ opened)
      BY <1>0, <1>1, <1>7, <1>8
    <2> QED BY <1>1, <2>1, <2>2 DEF Counted!MutexInv
  <1>12. Counted!CondInv
    <2>1. Counted!CondTypeOK
      BY <1>1, <1>2, <1>9 DEF Counted!CondTypeOK
    <2>2. Counted!Lists(line, Counted!At("parked"))
      BY <1>0, <1>7
    <2> QED BY <1>8, <2>1, <2>2 DEF Counted!CondInv
  <1> QED BY <1>1, <1>6, <1>10, <1>11, <1>12 DEF FamilyInv

LEMMA FamilyStep ==
  ASSUME FamilyInv, NEW g \in Goroutine, Call(g) \/ Work(g)
  PROVE  FamilyInv'
  <1>1. impl' = impl /\ impl \in Impl
    BY DEF FamilyInv, Call, Work, Uses
  <1>2. CASE impl = "Channel"
    <2>1. \/ StartCall(g) /\ UNCHANGED <<count, line, opened>>
          \/ Counted!ChannelWork(g)
      BY <1>2 DEF Call, Work, Uses, gateVars
    <2> QED BY <1>1, <1>2, <2>1, ChannelStep DEF FamilyInv
  <1>3. CASE impl = "Mutex"
    <2>1. \/ StartCall(g) /\ UNCHANGED <<count, line, opened>>
          \/ Counted!MutexWork(g)
      BY <1>3 DEF Call, Work, Uses, gateVars
    <2> QED BY <1>1, <1>3, <2>1, MutexStep DEF FamilyInv
  <1>4. CASE impl = "Cond"
    <2>1. \/ StartCall(g) /\ UNCHANGED <<count, line, opened>>
          \/ Counted!CondWork(g)
      BY <1>4 DEF Call, Work, Uses, gateVars
    <2> QED BY <1>1, <1>4, <2>1, CondStep DEF FamilyInv
  <1>5. CASE impl = "Lockfree"
    <2>1. \/ StartCall(g) /\ UNCHANGED <<counterVars, gateVars>>
          \/ LockfreeWork(g)
      BY <1>5 DEF Call, Work, Uses
    <2> QED BY <1>1, <1>5, <2>1, LockfreeStep DEF FamilyInv
  <1>6. CASE impl = "Runtime"
    <2>1. \/ StartCall(g) /\ UNCHANGED <<counterVars, sema>>
          \/ RuntimeWork(g)
      BY <1>6 DEF Call, Work, Uses
    <2> QED BY <1>1, <1>6, <2>1, RuntimeStep DEF FamilyInv
  <1> QED BY <1>1, <1>2, <1>3, <1>4, <1>5, <1>6 DEF Impl

LEMMA FamilyStutter == FamilyInv /\ UNCHANGED vars => FamilyInv'
  <1> SUFFICES ASSUME FamilyInv, UNCHANGED vars PROVE FamilyInv'
    OBVIOUS
  <1>1. UNCHANGED <<pc, calls, owned, permits, seen, waiters, head, place, got, opened,
                    sema, impl, count, line>>
    BY DEF vars, clientVars, counterVars, gateVars, lineVars
  <1>2. Held' = Held /\ Waiting' = Waiting /\ Waking' = Waking /\ Opening' = Opening
    BY <1>1 DEF Held, Waiting, Waking, Opening
  <1>3. CounterTypeOK => CounterTypeOK'
    BY <1>1 DEF CounterTypeOK, ClientTypeOK
  <1>4. LockfreeInv => LockfreeInv'
    BY <1>1, <1>2, <1>3 DEF LockfreeInv, LockfreeTypeOK, LineOK, TakenOK, Conserved, Deficit
  <1>5. RuntimeInv => RuntimeInv'
    BY <1>1, <1>2, <1>3 DEF RuntimeInv, RuntimeTypeOK, Conserved, Deficit
  <1>6. /\ Counted!CountTypeOK => Counted!CountTypeOK'
        /\ Counted!Out({})' = Counted!Out({}) /\ Counted!Out(opened)' = Counted!Out(opened)
        /\ Counted!At("parked")' = Counted!At("parked")
        /\ Counted!At("gate")' = Counted!At("gate")
    BY <1>1 DEF Counted!CountTypeOK, Counted!ClientTypeOK, Counted!Out, Counted!At
  <1>7. Counted!ChannelInv => Counted!ChannelInv'
    BY <1>1, <1>6 DEF Counted!ChannelInv, Counted!ChannelTypeOK, Counted!Conserved, Counted!Lists
  <1>8. Counted!MutexInv => Counted!MutexInv'
    BY <1>1, <1>6 DEF Counted!MutexInv, Counted!MutexTypeOK, Counted!Conserved, Counted!Lists
  <1>9. Counted!CondInv => Counted!CondInv'
    BY <1>1, <1>6 DEF Counted!CondInv, Counted!CondTypeOK, Counted!Conserved, Counted!Lists
  <1> QED BY <1>1, <1>4, <1>5, <1>7, <1>8, <1>9 DEF FamilyInv

LEMMA FamilyInvariance == Spec => []FamilyInv
  <1>1. FamilyInv /\ [Next]_vars => FamilyInv'
    BY FamilyStep, FamilyStutter DEF Next
  <1> QED BY <1>1, FamilyStart, PTL DEF Spec

(* The words of the semaphore in use have their types.                     *)
THEOREM TypeCorrectness == Spec => []TypeOK
  <1>1. FamilyInv => TypeOK
    BY DEF FamilyInv, TypeOK, Counted!ChannelInv, Counted!MutexInv, Counted!CondInv,
           LockfreeInv, RuntimeInv
  <1> QED BY <1>1, FamilyInvariance, PTL

(* Who has been granted a permit.                                          *)
LEMMA GrantedStatus ==
  ASSUME FamilyInv, NEW g \in Goroutine
  PROVE  Status[g] = "granted" <=>
           \/ pc[g] = "granted"
           \/ impl \in {"Mutex", "Lockfree"} /\ g \in opened
  <1>1. CASE impl = "Channel"
    BY <1>1 DEF FamilyInv, Status, Counted!ChannelStatus, Counted!StatusOf,
       Counted!ChannelInv, Counted!ChannelTypeOK
  <1>2. CASE impl = "Mutex"
    BY <1>2 DEF FamilyInv, Status, Counted!MutexStatus, Counted!StatusOf,
       Counted!MutexInv, Counted!MutexTypeOK, Counted!At
  <1>3. CASE impl = "Cond"
    BY <1>3 DEF FamilyInv, Status, Counted!CondStatus, Counted!StatusOf,
       Counted!CondInv, Counted!CondTypeOK
  <1>4. CASE impl = "Lockfree"
    BY <1>4 DEF FamilyInv, Status, LockfreeStatus, StatusOf,
       LockfreeInv, LockfreeTypeOK, CounterTypeOK
  <1>5. CASE impl = "Runtime"
    BY <1>5 DEF FamilyInv, Status, RuntimeStatus, StatusOf,
       RuntimeInv, RuntimeTypeOK, CounterTypeOK
  <1> QED BY <1>1, <1>2, <1>3, <1>4, <1>5 DEF FamilyInv, Impl

(* A set of goroutines is finite and no larger than one that contains it,  *)
(* and a union is no larger than its parts together.                       *)
LEMMA CountsSubset ==
  ASSUME NEW S \in SUBSET Goroutine, NEW T \in SUBSET S
  PROVE  /\ Cardinality(S) \in Nat /\ Cardinality(T) \in Nat
         /\ Cardinality(T) <= Cardinality(S)
  BY PermitAssumption, FS_Subset, FS_CardinalityType

LEMMA CountsUnion ==
  ASSUME NEW S \in SUBSET Goroutine, NEW T \in SUBSET Goroutine
  PROVE  Cardinality(S \cup T) <= Cardinality(S) + Cardinality(T)
  <1>1. IsFiniteSet(S) /\ IsFiniteSet(T) /\ IsFiniteSet(S \cap T)
    BY PermitAssumption, FS_Subset
  <1>2. Cardinality(S \cup T) = Cardinality(S) + Cardinality(T) - Cardinality(S \cap T)
    BY <1>1, FS_Union
  <1>3. Cardinality(S \cap T) \in Nat /\ Cardinality(S) \in Nat /\ Cardinality(T) \in Nat
    BY <1>1, FS_CardinalityType
  <1> QED BY <1>2, <1>3

(* At most N permits (semaphore.go:10): the Acquires that have returned or *)
(* are about to never exceed the Releases by more than N, whatever stray   *)
(* Releases the callers make.                                              *)
THEOREM NeverMoreThanN == Spec => []AtMostN
  <1>1. ASSUME FamilyInv PROVE AtMostN
    <2> DEFINE Granted == {g \in Goroutine : Status[g] = "granted"}
    <2>1. owned \in Int /\ Permits \in Nat
      BY <1>1, PermitAssumption DEF FamilyInv, Impl, Counted!ChannelInv, Counted!MutexInv,
         Counted!CondInv, LockfreeInv, RuntimeInv, Counted!ChannelTypeOK, Counted!MutexTypeOK,
         Counted!CondTypeOK, LockfreeTypeOK, RuntimeTypeOK, Counted!CountTypeOK,
         Counted!ClientTypeOK, CounterTypeOK, ClientTypeOK
    <2>2. CASE impl \in {"Channel", "Cond"}
      <3>1. /\ count \in Int /\ count <= Permits
            /\ count = owned + Cardinality(Counted!Out({}))
        BY <1>1, <2>2, CountedCardinality, PermitAssumption DEF FamilyInv, Counted!ChannelInv,
           Counted!CondInv, Counted!ChannelTypeOK, Counted!CondTypeOK, Counted!Conserved
      <3>2. Granted \subseteq Counted!Out({}) /\ Counted!Out({}) \subseteq Goroutine
        BY <1>1, <2>2, GrantedStatus DEF Counted!Out
      <3>3. /\ Cardinality(Granted) <= Cardinality(Counted!Out({}))
            /\ Cardinality(Granted) \in Nat /\ Cardinality(Counted!Out({})) \in Nat
        BY <3>2, CountsSubset
      <3> HIDE DEF Granted
      <3>4. owned + Cardinality(Granted) <= Permits
        BY <2>1, <3>1, <3>3
      <3> QED BY <3>4 DEF AtMostN, Granted
    <2>3. CASE impl = "Mutex"
      <3>1. /\ count \in Int /\ count <= Permits
            /\ count = owned + Cardinality(Counted!Out(opened))
        BY <1>1, <2>3, CountedCardinality, PermitAssumption DEF FamilyInv, Counted!MutexInv,
           Counted!MutexTypeOK, Counted!Conserved
      <3>2. Granted \subseteq Counted!Out(opened) /\ Counted!Out(opened) \subseteq Goroutine
        BY <1>1, <2>3, GrantedStatus DEF Counted!Out
      <3>3. /\ Cardinality(Granted) <= Cardinality(Counted!Out(opened))
            /\ Cardinality(Granted) \in Nat /\ Cardinality(Counted!Out(opened)) \in Nat
        BY <3>2, CountsSubset
      <3> HIDE DEF Granted
      <3>4. owned + Cardinality(Granted) <= Permits
        BY <2>1, <3>1, <3>3
      <3> QED BY <3>4 DEF AtMostN, Granted
    <2>4. CASE impl \in {"Lockfree", "Runtime"}
      <3> DEFINE handed == IF impl = "Lockfree" THEN Cardinality(opened) ELSE 0
      <3>1. /\ permits \in Int
            /\ permits + owned + Cardinality(Held) + Cardinality(Waiting) = Permits
            /\ Cardinality(Waiting) >= Deficit + Cardinality(Waking) + handed
            /\ opened \subseteq Goroutine \/ impl = "Runtime"
        <4>0. Cardinality(Waking) \in Nat
          <5>1. Waking \in SUBSET Goroutine
            BY DEF Waking
          <5> QED BY <5>1, CountsSubset
        <4>1. CASE impl = "Lockfree"
          <5>1. CounterTypeOK /\ Conserved(Cardinality(opened)) /\ opened \in SUBSET Goroutine
            BY <1>1, <4>1 DEF FamilyInv, LockfreeInv, LockfreeTypeOK
          <5>2. permits \in Int /\ Deficit \in Int /\ Cardinality(opened) \in Nat
            BY <5>1, CountsSubset DEF CounterTypeOK, Deficit
          <5> QED BY <4>0, <4>1, <5>1, <5>2 DEF Conserved
        <4>2. CASE impl = "Runtime"
          <5>1. CounterTypeOK /\ Conserved(sema) /\ sema \in Nat
            BY <1>1, <4>2 DEF FamilyInv, RuntimeInv, RuntimeTypeOK
          <5>2. permits \in Int /\ Deficit \in Int
            BY <5>1 DEF CounterTypeOK, Deficit
          <5> QED BY <4>0, <4>2, <5>1, <5>2 DEF Conserved
        <4> QED BY <2>4, <4>1, <4>2
      <3>2. /\ Held \subseteq Goroutine /\ Waiting \subseteq Goroutine
            /\ Waking \subseteq Goroutine
        BY DEF Held, Waiting, Waking
      <3>3. /\ Cardinality(Held) \in Nat /\ Cardinality(Waiting) \in Nat
            /\ Cardinality(Waking) \in Nat
        BY <3>2, CountsSubset
      <3>4. Cardinality(Granted) <= Cardinality(Held) + handed
            /\ Cardinality(Granted) \in Nat /\ handed \in Nat
        <4>1. CASE impl = "Runtime"
          <5>1. Granted \subseteq Held
            BY <1>1, <4>1, GrantedStatus DEF Held
          <5> QED BY <4>1, <5>1, <3>2, <3>3, CountsSubset
        <4>2. CASE impl = "Lockfree"
          <5>1. Granted \subseteq Held \cup opened /\ Held \cup opened \subseteq Goroutine
                /\ opened \subseteq Goroutine
            BY <1>1, <4>2, <3>1, <3>2, GrantedStatus DEF Held
          <5>2. /\ Cardinality(Granted) <= Cardinality(Held \cup opened)
                /\ Cardinality(Granted) \in Nat /\ Cardinality(opened) \in Nat
                /\ Cardinality(Held \cup opened) \in Nat
            BY <5>1, CountsSubset
          <5>3. Cardinality(Held \cup opened) <= Cardinality(Held) + Cardinality(opened)
            BY <3>2, <5>1, CountsUnion
          <5> HIDE DEF Granted
          <5> QED BY <4>2, <5>2, <5>3, <3>3
        <4> QED BY <2>4, <4>1, <4>2
      <3> HIDE DEF Granted, handed
      <3>5. owned + Cardinality(Granted) <= Permits
        BY <2>1, <3>1, <3>3, <3>4 DEF Deficit
      <3> QED BY <3>5 DEF AtMostN, Granted
    <2> QED BY <1>1, <2>2, <2>3, <2>4 DEF FamilyInv, Impl
  <1> QED BY <1>1, FamilyInvariance, PTL

-----------------------------------------------------------------------------
(* Refinement: permits are interchangeable, neither invented nor lost      *)

(* What the free permits and the line of the abstract semaphore stand for. *)
AbstractFree ==
  CASE impl \in {"Channel", "Mutex", "Cond"} -> Permits - count
    [] impl = "Lockfree" -> Positive
    [] impl = "Runtime"  -> Positive + sema
AbstractLine == IF impl \in FIFO THEN line ELSE <<>>

(* A step of the abstract semaphore, from what it does to its state.       *)
AbstractStep == [Abstract!Next]_(Abstract!vars)

LEMMA AbstractUnchanged ==
  ASSUME impl' = impl, AbstractFree' = AbstractFree, AbstractLine' = AbstractLine,
         Status' = Status, owned' = owned
  PROVE  AbstractStep
  BY DEF AbstractStep, Abstract!vars, AbstractFree, AbstractLine, Counted!FreePermits,
         LockfreeFree, RuntimeFree

LEMMA AbstractCall ==
  ASSUME impl' = impl, AbstractFree' = AbstractFree, AbstractLine' = AbstractLine,
         NEW g \in Goroutine, Status[g] = "idle",
         \/ owned' = owned /\ Status' = [Status EXCEPT ![g] = "acquiring"]
         \/ owned > 0 /\ owned' = owned - 1 /\ Status' = [Status EXCEPT ![g] = "releasing"]
  PROVE  AbstractStep
  BY DEF AbstractStep, Abstract!Next, Abstract!CallAcquire, Abstract!CallRelease,
         Abstract!Move, AbstractFree, AbstractLine, Counted!FreePermits, LockfreeFree,
         RuntimeFree

LEMMA AbstractReturn ==
  ASSUME impl' = impl, AbstractFree' = AbstractFree, AbstractLine' = AbstractLine,
         NEW g \in Goroutine, Status[g] = "granted", owned' = owned + 1,
         Status' = [Status EXCEPT ![g] = "idle"]
  PROVE  AbstractStep
  BY DEF AbstractStep, Abstract!Next, Abstract!Return,
         Abstract!Move, AbstractFree, AbstractLine, Counted!FreePermits, LockfreeFree,
         RuntimeFree

LEMMA AbstractGrant ==
  ASSUME impl' = impl, AbstractFree > 0, AbstractLine = <<>>, AbstractLine' = <<>>,
         NEW g \in Goroutine, Status[g] = "acquiring", owned' = owned,
         AbstractFree' = AbstractFree - 1, Status' = [Status EXCEPT ![g] = "granted"]
  PROVE  AbstractStep
  BY DEF AbstractStep, Abstract!Next, Abstract!Grant,
         Abstract!Move, AbstractFree, AbstractLine, Counted!FreePermits, LockfreeFree,
         RuntimeFree

LEMMA AbstractJoin ==
  ASSUME impl' = impl, impl \in FIFO, AbstractFree = 0, AbstractFree' = 0,
         NEW g \in Goroutine, Status[g] = "acquiring", owned' = owned,
         line' = Append(line, g), Status' = [Status EXCEPT ![g] = "waiting"]
  PROVE  AbstractStep
  BY DEF AbstractStep, Abstract!Next, Abstract!Join,
         Abstract!Move, AbstractFree, AbstractLine, Counted!FreePermits, LockfreeFree,
         RuntimeFree

LEMMA AbstractGivenBack ==
  ASSUME impl' = impl, AbstractLine = <<>>, AbstractLine' = <<>>,
         NEW g \in Goroutine, Status[g] = "releasing", owned' = owned,
         AbstractFree' = AbstractFree + 1, Status' = [Status EXCEPT ![g] = "idle"]
  PROVE  AbstractStep
  BY DEF AbstractStep, Abstract!Next, Abstract!Free,
         Abstract!Move, AbstractFree, AbstractLine, Counted!FreePermits, LockfreeFree,
         RuntimeFree

LEMMA AbstractHandOver ==
  ASSUME impl' = impl, AbstractFree' = AbstractFree,
         NEW g \in Goroutine, NEW h \in Goroutine, Status[g] = "releasing",
         \/ impl \in FIFO /\ line # <<>> /\ h = Head(line) /\ line' = Tail(line)
         \/ impl \notin FIFO /\ Status[h] = "acquiring",
         owned' = owned, Status' = [Status EXCEPT ![g] = "idle", ![h] = "granted"]
  PROVE  AbstractStep
  BY DEF AbstractStep, Abstract!Next, Abstract!HandOver,
         AbstractFree, AbstractLine, Counted!FreePermits, LockfreeFree, RuntimeFree

(* ChannelSemaphore: a send that finds a place is a Grant, one that does   *)
(* not joins the line, and a receive frees a permit or hands it over.      *)
LEMMA ChannelRefines ==
  ASSUME Strays = 0, impl = "Channel", impl' = "Channel", Counted!ChannelInv,
         NEW g \in Goroutine,
         \/ StartCall(g) /\ UNCHANGED <<count, line, opened>>
         \/ Counted!ChannelWork(g)
  PROVE  AbstractStep
  <1>1. /\ pc \in [Goroutine -> {"idle", "acquire", "parked", "granted", "release"}]
        /\ owned \in Int
        /\ count \in 0 .. Permits /\ line \in Seq(Goroutine)
        /\ Counted!Lists(line, Counted!At("parked")) /\ (line # <<>> => count = Permits)
        /\ Permits \in Nat
    BY PermitAssumption DEF Counted!ChannelInv, Counted!ChannelTypeOK,
       Counted!CountTypeOK, Counted!ClientTypeOK
  <1>2. /\ AbstractFree = Permits - count /\ AbstractFree' = Permits - count'
        /\ AbstractLine = line /\ AbstractLine' = line' /\ impl \in FIFO
    BY DEF AbstractFree, AbstractLine, FIFO
  <1> DEFINE Shown(f) == [h \in Goroutine |->
                            CASE f[h] = "idle"    -> "idle"
                              [] f[h] = "acquire" -> "acquiring"
                              [] f[h] = "parked"  -> "waiting"
                              [] f[h] = "granted" -> "granted"
                              [] f[h] = "release" -> "releasing"]
  <1>3. Counted!ChannelTypeOK' => pc' \in [Goroutine -> {"idle", "acquire", "parked", "granted", "release"}]
    BY DEF Counted!ChannelTypeOK
  <1>4. Counted!ChannelTypeOK'
    BY ChannelStep DEF Counted!ChannelInv
  <1>5. Status = Shown(pc) /\ Status' = Shown(pc')
    BY <1>1, <1>3, <1>4 DEF Status, Counted!ChannelStatus, Counted!StatusOf, Counted!At
  <1>6. CASE StartCall(g) /\ UNCHANGED <<count, line, opened>>
    <2>1. /\ Status[g] = "idle"
          /\ \/ owned' = owned /\ Status' = [Status EXCEPT ![g] = "acquiring"]
             \/ owned > 0 /\ owned' = owned - 1 /\ Status' = [Status EXCEPT ![g] = "releasing"]
      <3>1. CASE StartAcquire(g)
        BY <1>1, <1>5, <3>1 DEF StartAcquire
      <3>2. CASE StartRelease(g)
        <4>1. owned > 0 /\ owned' = owned - 1
          BY <1>1, <3>2 DEF StartRelease
        <4> QED BY <1>1, <1>5, <3>2, <4>1 DEF StartRelease
      <3> QED BY <1>6, <3>1, <3>2 DEF StartCall
    <2> QED BY <1>2, <1>6, <2>1, AbstractCall
  <1>7. CASE Counted!Take(g)
    <2>1. /\ Status[g] = "acquiring" /\ Status' = [Status EXCEPT ![g] = "granted"]
          /\ owned' = owned
      BY <1>1, <1>5, <1>7 DEF Counted!Take, Counted!Goto
    <2>2. line = <<>> /\ line' = <<>> /\ count < Permits /\ count' = count + 1
      BY <1>1, <1>7 DEF Counted!Take
    <2>3. AbstractFree > 0 /\ AbstractFree' = AbstractFree - 1
      BY <1>1, <1>2, <2>2
    <2> QED BY <1>2, <2>1, <2>2, <2>3, AbstractGrant
  <1>8. CASE Counted!Join(g, "parked")
    <2>1. /\ Status[g] = "acquiring" /\ Status' = [Status EXCEPT ![g] = "waiting"]
          /\ owned' = owned /\ line' = Append(line, g)
      BY <1>1, <1>5, <1>8 DEF Counted!Join, Counted!Goto
    <2>2. AbstractFree = 0 /\ AbstractFree' = 0
      BY <1>1, <1>2, <1>8 DEF Counted!Join
    <2> QED BY <1>2, <2>1, <2>2, AbstractJoin
  <1>9. CASE Counted!ChannelRelease(g) /\ line = <<>>
    <2>1. /\ Status[g] = "releasing" /\ Status' = [Status EXCEPT ![g] = "idle"]
          /\ owned' = owned /\ line' = line
      BY <1>1, <1>5, <1>9 DEF Counted!ChannelRelease
    <2>2. AbstractFree' = AbstractFree + 1
      BY <1>1, <1>2, <1>9 DEF Counted!ChannelRelease
    <2> QED BY <1>2, <1>9, <2>1, <2>2, AbstractGivenBack
  <1>10. CASE Counted!ChannelRelease(g) /\ line # <<>>
    <2> DEFINE h == Head(line)
    <2>0. Counted!At("parked") \in SUBSET Goroutine
      BY DEF Counted!At
    <2>1. h \in Counted!At("parked") /\ h \in Goroutine
      BY <1>1, <1>10, <2>0, ListsTail
    <2>2. /\ pc[g] = "release" /\ pc[h] = "parked" /\ owned' = owned
          /\ pc' = [pc EXCEPT ![g] = "idle", ![h] = "granted"]
          /\ line' = Tail(line) /\ count' = count
      BY <1>10, <2>1 DEF Counted!ChannelRelease, Counted!At
    <2>3. /\ Status[g] = "releasing"
          /\ Status' = [Status EXCEPT ![g] = "idle", ![h] = "granted"]
      BY <1>1, <1>5, <2>1, <2>2
    <2> QED BY <1>2, <1>10, <2>1, <2>2, <2>3, AbstractHandOver
  <1>11. CASE Counted!Leave(g)
    <2>1. /\ Status[g] = "granted" /\ Status' = [Status EXCEPT ![g] = "idle"]
          /\ owned' = owned + 1 /\ UNCHANGED <<count, line>>
      BY <1>1, <1>5, <1>11 DEF Counted!Leave, Counted!Return, Counted!countVars
    <2> QED BY <1>2, <2>1, AbstractReturn
  <1> QED BY <1>6, <1>7, <1>8, <1>9, <1>10, <1>11
          DEF Counted!ChannelWork, Counted!ChannelAcquire

(* MutexSemaphore: an Acquire that finds a permit is a Grant, one that does *)
(* not joins the line, and a Release frees a permit or hands it over; it   *)
(* never panics, because the permit it gives back is counted.              *)
LEMMA MutexRefines ==
  ASSUME Strays = 0, impl = "Mutex", impl' = "Mutex", Counted!MutexInv,
         NEW g \in Goroutine,
         \/ StartCall(g) /\ UNCHANGED <<count, line, opened>>
         \/ Counted!MutexWork(g)
  PROVE  AbstractStep
  <1>1. /\ pc \in [Goroutine -> {"idle", "acquire", "gate", "granted", "release", "panic"}]
        /\ owned \in Int
        /\ count \in 0 .. Permits /\ line \in Seq(Goroutine)
        /\ opened \subseteq Counted!At("gate")
        /\ Counted!Lists(line, Counted!At("gate") \ opened)
        /\ (line # <<>> => count = Permits)
        /\ Permits \in Nat
    BY PermitAssumption DEF Counted!MutexInv, Counted!MutexTypeOK,
       Counted!CountTypeOK, Counted!ClientTypeOK
  <1>2. /\ AbstractFree = Permits - count /\ AbstractFree' = Permits - count'
        /\ AbstractLine = line /\ AbstractLine' = line' /\ impl \in FIFO
    BY DEF AbstractFree, AbstractLine, FIFO
  <1>p. pc[g] = "release" => count > 0
    <2>1. Counted!Out(opened) \in SUBSET Goroutine
          /\ (pc[g] = "release" => g \in Counted!Out(opened))
      BY DEF Counted!Out
    <2>2. pc[g] = "release" => Cardinality(Counted!Out(opened)) > 0
      BY <2>1, Counts
    <2>3. count = owned + Cardinality(Counted!Out(opened))
      BY CountedCardinality DEF Counted!MutexInv, Counted!Conserved
    <2>4. owned >= -Strays
      BY DEF Counted!MutexInv, Counted!MutexTypeOK, Counted!CountTypeOK, Counted!ClientTypeOK
    <2>5. Cardinality(Counted!Out(opened)) \in Nat
      BY <2>1, Counts
    <2> QED BY <1>1, <2>2, <2>3, <2>4, <2>5
  <1> DEFINE Shown(f, o) == [h \in Goroutine |->
                            CASE f[h] = "idle"    -> "idle"
                              [] f[h] = "acquire" -> "acquiring"
                              [] f[h] = "gate" /\ h \notin o -> "waiting"
                              [] f[h] = "gate" /\ h \in o -> "granted"
                              [] f[h] = "panic"   -> "panic"
                              [] f[h] = "granted" -> "granted"
                              [] f[h] = "release" -> "releasing"]
  <1>3. Counted!MutexTypeOK' =>
           /\ pc' \in [Goroutine -> {"idle", "acquire", "gate", "granted", "release", "panic"}]
           /\ opened' \subseteq Counted!At("gate")'
    BY DEF Counted!MutexTypeOK
  <1>4. Counted!MutexTypeOK'
    BY MutexStep DEF Counted!MutexInv
  <1>5. Status = Shown(pc, opened) /\ Status' = Shown(pc', opened')
    BY <1>1, <1>3, <1>4 DEF Status, Counted!MutexStatus, Counted!StatusOf, Counted!At
  <1>6. CASE StartCall(g) /\ UNCHANGED <<count, line, opened>>
    <2>1. /\ Status[g] = "idle"
          /\ \/ owned' = owned /\ Status' = [Status EXCEPT ![g] = "acquiring"]
             \/ owned > 0 /\ owned' = owned - 1 /\ Status' = [Status EXCEPT ![g] = "releasing"]
      <3>1. CASE StartAcquire(g)
        BY <1>1, <1>5, <1>6, <3>1 DEF StartAcquire, Counted!At
      <3>2. CASE StartRelease(g)
        <4>1. owned > 0 /\ owned' = owned - 1
          BY <1>1, <3>2 DEF StartRelease
        <4> QED BY <1>1, <1>5, <1>6, <3>2, <4>1 DEF StartRelease, Counted!At
      <3> QED BY <1>6, <3>1, <3>2 DEF StartCall
    <2> QED BY <1>2, <1>6, <2>1, AbstractCall
  <1>7. CASE Counted!Take(g)
    <2>1. /\ Status[g] = "acquiring" /\ Status' = [Status EXCEPT ![g] = "granted"]
          /\ owned' = owned
      BY <1>1, <1>5, <1>7 DEF Counted!Take, Counted!Goto
    <2>2. line = <<>> /\ line' = <<>> /\ count < Permits /\ count' = count + 1
      BY <1>1, <1>7 DEF Counted!Take
    <2>3. AbstractFree > 0 /\ AbstractFree' = AbstractFree - 1
      BY <1>1, <1>2, <2>2
    <2> QED BY <1>2, <2>1, <2>2, <2>3, AbstractGrant
  <1>8. CASE Counted!Join(g, "gate")
    <2>1. /\ Status[g] = "acquiring" /\ Status' = [Status EXCEPT ![g] = "waiting"]
          /\ owned' = owned /\ line' = Append(line, g)
      BY <1>1, <1>5, <1>8 DEF Counted!Join, Counted!Goto, Counted!At
    <2>2. AbstractFree = 0 /\ AbstractFree' = 0
      BY <1>1, <1>2, <1>8 DEF Counted!Join
    <2> QED BY <1>2, <2>1, <2>2, AbstractJoin
  <1>9. CASE Counted!MutexRelease(g) /\ line = <<>>
    <2>1. /\ Status[g] = "releasing" /\ Status' = [Status EXCEPT ![g] = "idle"]
          /\ owned' = owned /\ line' = line
      BY <1>1, <1>p, <1>5, <1>9 DEF Counted!MutexRelease, Counted!Goto
    <2>2. AbstractFree' = AbstractFree + 1
      BY <1>1, <1>p, <1>2, <1>9 DEF Counted!MutexRelease, Counted!Goto
    <2> QED BY <1>2, <1>9, <2>1, <2>2, AbstractGivenBack
  <1>10. CASE Counted!MutexRelease(g) /\ line # <<>>
    <2> DEFINE h == Head(line)
    <2>0. Counted!At("gate") \ opened \in SUBSET Goroutine
      BY DEF Counted!At
    <2>1. h \in Counted!At("gate") \ opened /\ h \in Goroutine
      BY <1>1, <1>10, <2>0, ListsTail
    <2>2. /\ pc[g] = "release" /\ pc[h] = "gate" /\ owned' = owned
          /\ pc' = [pc EXCEPT ![g] = "idle"] /\ opened' = opened \cup {h}
          /\ line' = Tail(line) /\ count' = count
      BY <1>1, <1>p, <1>10, <2>1 DEF Counted!MutexRelease, Counted!Goto, Counted!At
    <2>3. /\ Status[g] = "releasing"
          /\ Status' = [Status EXCEPT ![g] = "idle", ![h] = "granted"]
      BY <1>1, <1>5, <2>1, <2>2
    <2> QED BY <1>2, <1>10, <2>1, <2>2, <2>3, AbstractHandOver
  <1>11. CASE Counted!Leave(g)
    <2>1. /\ Status[g] = "granted" /\ Status' = [Status EXCEPT ![g] = "idle"]
          /\ owned' = owned + 1 /\ UNCHANGED <<count, line>>
      BY <1>1, <1>5, <1>11 DEF Counted!Leave, Counted!Return, Counted!countVars
    <2> QED BY <1>2, <2>1, AbstractReturn
  <1>12. CASE Counted!MutexPass(g)
    <2>1. Status' = Status /\ UNCHANGED <<count, line, owned>>
      BY <1>1, <1>5, <1>12 DEF Counted!MutexPass, Counted!Goto, Counted!At
    <2> QED BY <1>2, <2>1, AbstractUnchanged
  <1> QED BY <1>6, <1>7, <1>8, <1>9, <1>10, <1>11, <1>12
          DEF Counted!MutexWork, Counted!MutexAcquire

(* CondSemaphore: an Acquire that finds a permit is a Grant, and a Release *)
(* frees one; to wait, and to wake and look again, changes no status.      *)
LEMMA CondRefines ==
  ASSUME Strays = 0, impl = "Cond", impl' = "Cond", Counted!CondInv,
         NEW g \in Goroutine,
         \/ StartCall(g) /\ UNCHANGED <<count, line, opened>>
         \/ Counted!CondWork(g)
  PROVE  AbstractStep
  <1>1. /\ pc \in [Goroutine -> {"idle", "acquire", "parked", "granted", "release"}]
        /\ owned \in Int
        /\ count \in Int /\ line \in Seq(Goroutine)
        /\ Counted!Lists(line, Counted!At("parked"))
        /\ Permits \in Nat
    BY PermitAssumption DEF Counted!CondInv, Counted!CondTypeOK,
       Counted!CountTypeOK, Counted!ClientTypeOK
  <1>2. /\ AbstractFree = Permits - count /\ AbstractFree' = Permits - count'
        /\ AbstractLine = <<>> /\ AbstractLine' = <<>>
    BY DEF AbstractFree, AbstractLine, FIFO
  <1> DEFINE Shown(f) == [h \in Goroutine |->
                            CASE f[h] = "idle"    -> "idle"
                              [] f[h] = "acquire" -> "acquiring"
                              [] f[h] = "parked"  -> "acquiring"
                              [] f[h] = "granted" -> "granted"
                              [] f[h] = "release" -> "releasing"]
  <1>3. Counted!CondTypeOK' => pc' \in [Goroutine -> {"idle", "acquire", "parked", "granted", "release"}]
    BY DEF Counted!CondTypeOK
  <1>4. Counted!CondTypeOK'
    BY CondStep DEF Counted!CondInv
  <1>5. Status = Shown(pc) /\ Status' = Shown(pc')
    BY <1>1, <1>3, <1>4 DEF Status, Counted!CondStatus, Counted!StatusOf, Counted!At
  <1>6. CASE StartCall(g) /\ UNCHANGED <<count, line, opened>>
    <2>1. /\ Status[g] = "idle"
          /\ \/ owned' = owned /\ Status' = [Status EXCEPT ![g] = "acquiring"]
             \/ owned > 0 /\ owned' = owned - 1 /\ Status' = [Status EXCEPT ![g] = "releasing"]
      <3>1. CASE StartAcquire(g)
        BY <1>1, <1>5, <3>1 DEF StartAcquire
      <3>2. CASE StartRelease(g)
        <4>1. owned > 0 /\ owned' = owned - 1
          BY <1>1, <3>2 DEF StartRelease
        <4> QED BY <1>1, <1>5, <3>2, <4>1 DEF StartRelease
      <3> QED BY <1>6, <3>1, <3>2 DEF StartCall
    <2> QED BY <1>2, <1>6, <2>1, AbstractCall
  <1>7. CASE Counted!Take(g)
    <2>1. /\ Status[g] = "acquiring" /\ Status' = [Status EXCEPT ![g] = "granted"]
          /\ owned' = owned
      BY <1>1, <1>5, <1>7 DEF Counted!Take, Counted!Goto
    <2>2. count < Permits /\ count' = count + 1
      BY <1>7 DEF Counted!Take
    <2>3. AbstractFree > 0 /\ AbstractFree' = AbstractFree - 1
      BY <1>1, <1>2, <2>2
    <2> QED BY <1>2, <2>1, <2>2, <2>3, AbstractGrant
  <1>8. CASE Counted!Join(g, "parked")
    <2>1. Status' = Status /\ UNCHANGED <<count, owned>>
      BY <1>1, <1>5, <1>8 DEF Counted!Join, Counted!Goto
    <2> QED BY <1>2, <2>1, AbstractUnchanged
  <1>9. CASE Counted!CondRelease(g)
    <2>0. Counted!At("parked") \in SUBSET Goroutine
      BY DEF Counted!At
    <2>1. line # <<>> => Head(line) \in Goroutine /\ pc[Head(line)] = "parked"
      BY <1>1, <2>0, ListsTail DEF Counted!At
    <2>2. /\ Status[g] = "releasing" /\ Status' = [Status EXCEPT ![g] = "idle"]
          /\ owned' = owned
      BY <1>1, <1>5, <1>9, <2>1 DEF Counted!CondRelease
    <2>3. AbstractFree' = AbstractFree + 1
      BY <1>1, <1>2, <1>9 DEF Counted!CondRelease
    <2> QED BY <1>2, <2>2, <2>3, AbstractGivenBack
  <1>10. CASE Counted!Leave(g)
    <2>1. /\ Status[g] = "granted" /\ Status' = [Status EXCEPT ![g] = "idle"]
          /\ owned' = owned + 1 /\ UNCHANGED count
      BY <1>1, <1>5, <1>10 DEF Counted!Leave, Counted!Return, Counted!countVars
    <2> QED BY <1>2, <2>1, AbstractReturn
  <1> QED BY <1>6, <1>7, <1>8, <1>9, <1>10
          DEF Counted!CondWork, Counted!CondAcquire

(* The status of the callers of a signed semaphore.                        *)
SignedStatus(f, handed) ==
  [h \in Goroutine |->
     CASE f[h] = "idle"             -> "idle"
       [] f[h] \in {"release", "wake", "vacate", "open"} -> "releasing"
       [] f[h] = "granted" \/ h \in handed -> "granted"
       [] f[h] \notin {"idle", "release", "wake", "vacate", "open", "granted"} /\ h \notin handed
          -> "acquiring"]

(* The signed semaphores: a CompareAndSwap from a positive count is a      *)
(* Grant and an Add to a positive count frees a permit; any other          *)
(* operation on the counter changes no status.                             *)
LEMMA SignedRefines ==
  ASSUME Strays = 0, impl \in {"Lockfree", "Runtime"}, impl' = impl, CounterTypeOK,
         NEW o, o \subseteq {h \in Goroutine : pc[h] = "spin"},
         Status = SignedStatus(pc, o), Status' = SignedStatus(pc', o),
         NEW n \in Nat, AbstractFree = Positive + n, AbstractFree' = Positive' + n,
         NEW g \in Goroutine,
         Counting(g) \/ ((StartCall(g) \/ Return(g)) /\ UNCHANGED counterVars)
  PROVE  AbstractStep
  <1>1. /\ pc \in [Goroutine -> SignedPoints]
        /\ owned \in Int /\ owned >= 0
        /\ permits \in Int
    BY DEF CounterTypeOK, ClientTypeOK, SignedPoints
  <1>2. AbstractLine = <<>> /\ AbstractLine' = <<>>
    BY DEF AbstractLine, FIFO
  <1>3. Positive' = IF permits' > 0 THEN permits' ELSE 0
    BY DEF Positive
  <1>4. CASE StartCall(g) /\ UNCHANGED counterVars
    <2>1. /\ Status[g] = "idle"
          /\ \/ owned' = owned /\ Status' = [Status EXCEPT ![g] = "acquiring"]
             \/ owned > 0 /\ owned' = owned - 1 /\ Status' = [Status EXCEPT ![g] = "releasing"]
      <3>1. CASE StartAcquire(g)
        BY <1>1, <3>1 DEF StartAcquire, SignedStatus
      <3>2. CASE StartRelease(g)
        <4>1. owned > 0 /\ owned' = owned - 1
          BY <1>1, <3>2 DEF StartRelease
        <4> QED BY <1>1, <3>2, <4>1 DEF StartRelease, SignedStatus
      <3> QED BY <1>4, <3>1, <3>2 DEF StartCall
    <2>2. AbstractFree' = AbstractFree
      BY <1>4 DEF counterVars, Positive
    <2> QED BY <1>2, <2>1, <2>2, AbstractCall
  <1>5. CASE Return(g) /\ UNCHANGED counterVars
    <2>1. /\ Status[g] = "granted" /\ Status' = [Status EXCEPT ![g] = "idle"]
          /\ owned' = owned + 1
      BY <1>1, <1>5 DEF Return, SignedStatus
    <2>2. AbstractFree' = AbstractFree
      BY <1>5 DEF counterVars, Positive
    <2> QED BY <1>2, <2>1, <2>2, AbstractReturn
  <1>6. CASE \/ LoadPermits(g)
             \/ TakePermit(g) /\ (permits # seen[g] \/ permits <= 0)
             \/ AddPermit(g) /\ permits + 1 <= 0
    <2>1. Status' = Status /\ owned' = owned
      BY <1>1, <1>6 DEF LoadPermits, TakePermit, AddPermit, Goto, SignedStatus, counterVars
    <2>2. Positive' = Positive
      BY <1>1, <1>3, <1>6 DEF LoadPermits, TakePermit, AddPermit, counterVars, Positive
    <2> QED BY <1>2, <2>1, <2>2, AbstractUnchanged
  <1>7. CASE TakePermit(g) /\ permits = seen[g] /\ permits > 0
    <2>1. /\ Status[g] = "acquiring" /\ Status' = [Status EXCEPT ![g] = "granted"]
          /\ owned' = owned
      BY <1>1, <1>7 DEF TakePermit, Goto, SignedStatus
    <2>2. permits' = permits - 1 /\ permits > 0
      BY <1>7 DEF TakePermit
    <2>3. AbstractFree > 0 /\ AbstractFree' = AbstractFree - 1
      BY <1>1, <1>3, <2>2 DEF Positive
    <2> QED BY <1>2, <2>1, <2>3, AbstractGrant
  <1>8. CASE AddPermit(g) /\ permits + 1 > 0
    <2>1. /\ Status[g] = "releasing" /\ Status' = [Status EXCEPT ![g] = "idle"]
          /\ owned' = owned
      BY <1>1, <1>8 DEF AddPermit, Goto, SignedStatus
    <2>2. permits' = permits + 1 /\ permits + 1 > 0
      BY <1>8 DEF AddPermit
    <2>3. AbstractFree' = AbstractFree + 1
      BY <1>1, <1>3, <2>2 DEF Positive
    <2> QED BY <1>2, <2>1, <2>3, AbstractGivenBack
  <1> QED BY <1>1, <1>4, <1>5, <1>6, <1>7, <1>8 DEF Counting

(* RuntimeSemaphore: a permit deposited in sema is free for any waiter.    *)
LEMMA RuntimeRefines ==
  ASSUME Strays = 0, impl = "Runtime", impl' = "Runtime", RuntimeInv,
         NEW g \in Goroutine,
         \/ StartCall(g) /\ UNCHANGED <<counterVars, sema>>
         \/ RuntimeWork(g)
  PROVE  AbstractStep
  <1> PICK n \in Nat : n = sema
    BY DEF RuntimeInv, RuntimeTypeOK
  <1>1. CounterTypeOK /\ CounterTypeOK' /\ sema' \in Nat
    BY RuntimeStep DEF RuntimeInv, RuntimeTypeOK
  <1>2. /\ pc \in [Goroutine -> SignedPoints]
        /\ permits \in Int
    BY <1>1 DEF CounterTypeOK, SignedPoints
  <1>3. pc' \in [Goroutine -> SignedPoints]
    BY <1>1 DEF CounterTypeOK, SignedPoints
  <1>4. Status = SignedStatus(pc, {}) /\ Status' = SignedStatus(pc', {})
    BY <1>2, <1>3 DEF Status, RuntimeStatus, StatusOf, SignedStatus, SignedPoints
  <1>5. /\ AbstractFree = Positive + sema /\ AbstractFree' = Positive' + sema'
        /\ AbstractLine = <<>> /\ AbstractLine' = <<>>
    BY DEF AbstractFree, AbstractLine, FIFO
  <1>6. CASE /\ Counting(g) \/ ((StartCall(g) \/ Return(g)) /\ UNCHANGED counterVars)
             /\ UNCHANGED sema
    <2>1. AbstractFree = Positive + n /\ AbstractFree' = Positive' + n
      BY <1>5, <1>6
    <2>2. {} \subseteq {h \in Goroutine : pc[h] = "spin"}
      OBVIOUS
    <2> QED BY <1>1, <1>4, <1>6, <2>1, <2>2, SignedRefines
  <1>7. CASE Semacquire(g)
    <2>1. /\ Status[g] = "acquiring" /\ Status' = [Status EXCEPT ![g] = "granted"]
          /\ owned' = owned /\ UNCHANGED permits
      BY <1>2, <1>4, <1>7 DEF Semacquire, Goto, SignedStatus, counterVars
    <2>2. Positive \in Nat /\ Positive' = Positive /\ n > 0 /\ sema' = n - 1
      BY <1>2, <1>7, <2>1 DEF Positive, Semacquire
    <2>3. AbstractFree > 0 /\ AbstractFree' = AbstractFree - 1
      BY <1>5, <2>2
    <2> QED BY <1>5, <2>1, <2>3, AbstractGrant
  <1>8. CASE Semrelease(g)
    <2>1. /\ Status[g] = "releasing" /\ Status' = [Status EXCEPT ![g] = "idle"]
          /\ owned' = owned /\ UNCHANGED permits
      BY <1>2, <1>4, <1>8 DEF Semrelease, Goto, SignedStatus, counterVars
    <2>2. Positive \in Nat /\ Positive' = Positive /\ sema' = n + 1
      BY <1>2, <1>8, <2>1 DEF Positive, Semrelease
    <2>3. AbstractFree' = AbstractFree + 1
      BY <1>5, <2>2
    <2> QED BY <1>5, <2>1, <2>3, AbstractGivenBack
  <1>9. \/ Counting(g) /\ UNCHANGED sema
        \/ (StartCall(g) \/ Return(g)) /\ UNCHANGED counterVars /\ UNCHANGED sema
        \/ Semacquire(g) \/ Semrelease(g)
    BY DEF RuntimeWork
  <1> QED BY <1>6, <1>7, <1>8, <1>9

(* LockfreeSemaphore: to open a gate hands the permit over.                *)
LEMMA LockfreeRefines ==
  ASSUME Strays = 0, impl = "Lockfree", impl' = "Lockfree", LockfreeInv,
         NEW g \in Goroutine,
         \/ StartCall(g) /\ UNCHANGED <<counterVars, gateVars>>
         \/ LockfreeWork(g)
  PROVE  AbstractStep
  <1> PICK o : o = opened
    OBVIOUS
  <1>1. /\ CounterTypeOK /\ CounterTypeOK' /\ LineOK
        /\ o \subseteq {h \in Goroutine : pc[h] = "spin"}
        /\ opened' \subseteq {h \in Goroutine : pc'[h] = "spin"}
        /\ TakenOK /\ got \in [Goroutine -> Goroutine]
    <2>1. LockfreeTypeOK /\ LockfreeTypeOK' /\ LineOK /\ TakenOK
      BY LockfreeStep DEF LockfreeInv
    <2> QED BY <2>1 DEF LockfreeTypeOK
  <1>2. /\ pc \in [Goroutine -> SignedPoints]
        /\ permits \in Int
    BY <1>1 DEF CounterTypeOK, SignedPoints
  <1>3. pc' \in [Goroutine -> SignedPoints]
    BY <1>1 DEF CounterTypeOK, SignedPoints
  <1>4. Status = SignedStatus(pc, o) /\ Status' = SignedStatus(pc', opened')
    BY <1>1, <1>2, <1>3 DEF Status, LockfreeStatus, StatusOf, SignedStatus, SignedPoints
  <1>5. /\ AbstractFree = Positive /\ AbstractFree' = Positive'
        /\ AbstractLine = <<>> /\ AbstractLine' = <<>> /\ Positive \in Nat
    BY <1>2 DEF AbstractFree, AbstractLine, FIFO, Positive
  <1>6. CASE /\ Counting(g) \/ ((StartCall(g) \/ Return(g)) /\ UNCHANGED counterVars)
             /\ UNCHANGED gateVars
    <2>1. Status' = SignedStatus(pc', o)
      BY <1>4, <1>6 DEF gateVars
    <2>2. AbstractFree = Positive + 0 /\ AbstractFree' = Positive' + 0 /\ 0 \in Nat
      <3>1. permits' \in Int
        BY <1>1 DEF CounterTypeOK
      <3>2. Positive' \in Nat
        BY <3>1 DEF Positive
      <3>3. \A x \in Nat : x + 0 = x
        OBVIOUS
      <3> QED BY <1>5, <3>2, <3>3
    <2> QED BY <1>1, <1>4, <1>6, <2>1, <2>2, SignedRefines
  <1>7. CASE ClaimPlace(g) \/ Publish(g) \/ Pass(g) \/ ClaimGate(g) \/ Vacate(g)
    <2>1. Status' = Status /\ owned' = owned
      <3>1. CASE ClaimPlace(g) \/ Publish(g)
        BY <1>1, <1>2, <1>4, <3>1 DEF ClaimPlace, Publish, Goto, SignedStatus
      <3>2. CASE Pass(g)
        BY <1>1, <1>2, <1>4, <3>2 DEF Pass, Goto, SignedStatus
      <3>3. CASE ClaimGate(g) \/ Vacate(g)
        BY <1>1, <1>2, <1>4, <3>3 DEF ClaimGate, Vacate, Goto, SignedStatus
      <3> QED BY <1>7, <3>1, <3>2, <3>3
    <2>2. Positive' = Positive
      BY <1>7 DEF ClaimPlace, Publish, Pass, ClaimGate, Vacate, counterVars, Positive
    <2> QED BY <1>5, <2>1, <2>2, AbstractUnchanged
  <1>8. CASE OpenGate(g)
    <2> DEFINE h == got[g]
    <2>1. /\ pc[g] = "open" /\ pc' = [pc EXCEPT ![g] = "idle"] /\ owned' = owned
          /\ opened' = opened \cup {h} /\ UNCHANGED permits
      BY <1>8 DEF OpenGate, Goto, counterVars
    <2>2. h \in Goroutine /\ pc[h] = "spin" /\ h \notin o
      BY <1>1, <2>1 DEF TakenOK, Opening
    <2> HIDE DEF h
    <2>4. /\ Status[g] = "releasing" /\ Status[h] = "acquiring"
          /\ Status' = [Status EXCEPT ![g] = "idle", ![h] = "granted"]
      <3>1. opened' = o \cup {h} /\ g \notin o
        BY <1>1, <2>1
      <3> QED BY <1>2, <1>4, <2>1, <2>2, <3>1 DEF SignedStatus
    <2>5. AbstractFree' = AbstractFree /\ impl \notin FIFO
      BY <1>5, <2>1 DEF Positive, FIFO
    <2> QED BY <2>1, <2>2, <2>4, <2>5, AbstractHandOver
  <1>9. \/ Counting(g) /\ UNCHANGED gateVars
        \/ (StartCall(g) \/ Return(g)) /\ UNCHANGED counterVars /\ UNCHANGED gateVars
        \/ ClaimPlace(g) \/ Publish(g) \/ Pass(g)
        \/ ClaimGate(g) \/ Vacate(g) \/ OpenGate(g)
    BY DEF LockfreeWork
  <1> QED BY <1>6, <1>7, <1>8, <1>9

(* Every step of the semaphore in use is a step of AbstractSemaphore or    *)
(* none at all.                                                            *)
LEMMA FamilyRefines ==
  ASSUME Strays = 0, FamilyInv, [Next]_vars
  PROVE  AbstractStep
  <1>1. CASE UNCHANGED vars
    <2>1. UNCHANGED <<pc, owned, permits, opened, sema, impl, count, line>>
      BY <1>1 DEF vars, clientVars, counterVars, gateVars
    <2>2. Status' = Status
      BY <2>1 DEF Status, Counted!ChannelStatus, Counted!MutexStatus, Counted!CondStatus,
         LockfreeStatus, RuntimeStatus, Counted!StatusOf, StatusOf, Counted!At
    <2>3. AbstractFree' = AbstractFree /\ AbstractLine' = AbstractLine
      BY <2>1 DEF AbstractFree, AbstractLine, Positive
    <2> QED BY <2>1, <2>2, <2>3, AbstractUnchanged
  <1>2. ASSUME NEW g \in Goroutine, Call(g) \/ Work(g)
        PROVE  AbstractStep
    <2>0. impl' = impl /\ impl \in Impl
      BY <1>2 DEF FamilyInv, Call, Work, Uses
    <2>1. CASE impl = "Channel"
      <3>1. \/ StartCall(g) /\ UNCHANGED <<count, line, opened>>
            \/ Counted!ChannelWork(g)
        BY <1>2, <2>1 DEF Call, Work, Uses, gateVars
      <3> QED BY <2>0, <2>1, <3>1, ChannelRefines DEF FamilyInv
    <2>2. CASE impl = "Mutex"
      <3>1. \/ StartCall(g) /\ UNCHANGED <<count, line, opened>>
            \/ Counted!MutexWork(g)
        BY <1>2, <2>2 DEF Call, Work, Uses, gateVars
      <3> QED BY <2>0, <2>2, <3>1, MutexRefines DEF FamilyInv
    <2>3. CASE impl = "Cond"
      <3>1. \/ StartCall(g) /\ UNCHANGED <<count, line, opened>>
            \/ Counted!CondWork(g)
        BY <1>2, <2>3 DEF Call, Work, Uses, gateVars
      <3> QED BY <2>0, <2>3, <3>1, CondRefines DEF FamilyInv
    <2>4. CASE impl = "Lockfree"
      <3>1. \/ StartCall(g) /\ UNCHANGED <<counterVars, gateVars>>
            \/ LockfreeWork(g)
        BY <1>2, <2>4 DEF Call, Work, Uses
      <3> QED BY <2>0, <2>4, <3>1, LockfreeRefines DEF FamilyInv
    <2>5. CASE impl = "Runtime"
      <3>1. \/ StartCall(g) /\ UNCHANGED <<counterVars, sema>>
            \/ RuntimeWork(g)
        BY <1>2, <2>5 DEF Call, Work, Uses
      <3> QED BY <2>0, <2>5, <3>1, RuntimeRefines DEF FamilyInv
    <2> QED BY <2>0, <2>1, <2>2, <2>3, <2>4, <2>5 DEF Impl
  <1> QED BY <1>1, <1>2 DEF Next

(* Permits are neither invented nor lost on their way from a Release to an *)
(* Acquire, and a FIFO semaphore grants them in the order of arrival, as   *)
(* long as the callers release what they acquired.                         *)
THEOREM PermitsAreConserved ==
  ASSUME Strays = 0
  PROVE  Spec => ImplementsSemaphore
  <1>1. FamilyInit => Abstract!Init
    <2> SUFFICES ASSUME FamilyInit PROVE Abstract!Init
      OBVIOUS
    <2>1. /\ pc = [g \in Goroutine |-> "idle"] /\ owned = 0 /\ permits = Permits
          /\ sema = 0 /\ impl \in Impl /\ count = 0 /\ line = <<>>
          /\ opened = {} /\ Permits \in Nat \ {0}
      BY PermitAssumption DEF FamilyInit, Init, ClientInit, Counted!Init
    <2>2. Status = [g \in Goroutine |-> "idle"]
      <3>1. StatusOf({}, {}) = [g \in Goroutine |-> "idle"]
        BY <2>1 DEF StatusOf
      <3>2. ASSUME NEW W
            PROVE  Counted!StatusOf(W, {}) = [g \in Goroutine |-> "idle"]
        BY <2>1 DEF Counted!StatusOf
      <3> QED BY <2>1, <3>1, <3>2 DEF Status, Counted!ChannelStatus, Counted!MutexStatus,
              Counted!CondStatus, LockfreeStatus, RuntimeStatus, Impl
    <2>3. AbstractFree = Permits /\ AbstractLine = <<>>
      BY <2>1 DEF AbstractFree, AbstractLine, Positive, Impl
    <2>4. /\ (impl \in FIFO) \in BOOLEAN
          /\ AbstractFree = CASE impl \in {"Channel", "Mutex", "Cond"} -> Counted!FreePermits
                              [] impl = "Lockfree" -> LockfreeFree
                              [] impl = "Runtime"  -> RuntimeFree
      BY DEF AbstractFree, Counted!FreePermits, LockfreeFree, RuntimeFree
    <2> QED BY <2>1, <2>2, <2>3, <2>4 DEF Abstract!Init, AbstractLine
  <1>2. FamilyInv /\ [Next]_vars => [Abstract!Next]_(Abstract!vars)
    BY FamilyRefines DEF AbstractStep
  <1> QED BY <1>1, <1>2, FamilyInvariance, PTL DEF Spec, ImplementsSemaphore, Abstract!Spec

=============================================================================
