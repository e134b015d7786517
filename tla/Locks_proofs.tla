---------------------------- MODULE Locks_proofs ----------------------------
(***************************************************************************)
(* Proofs about the locks of MCLocks, for any set of goroutines and any    *)
(* number of calls.  Each lock has an inductive invariant Inv, defined in  *)
(* its own module; lemmas show that Init establishes it and that a step of *)
(* the lock preserves it, and the theorems combine the lemmas.             *)
(***************************************************************************)
EXTENDS MCLocks, TLAPS

-----------------------------------------------------------------------------
(* SpinLock *)

LEMMA SpinInit == Spins!SpinInit => Spins!SpinInv
  <1> SUFFICES ASSUME Spins!SpinInit PROVE Spins!SpinInv
    OBVIOUS
  <1>1. Spins!ClientTypeOK /\ \A g \in Goroutine : pc[g] = "idle"
    BY DEF Spins!SpinInit, Spins!ClientInit, Spins!ClientTypeOK
  <1>2. Spins!SpinTypeOK
    BY <1>1 DEF Spins!SpinInit, Spins!ClientInit, Spins!SpinTypeOK, Spins!SpinsTypeOK
  <1> QED BY <1>1, <1>2 DEF Spins!SpinInv

(* A step of SpinLock keeps its flag and its control points in agreement.  *)
LEMMA SpinStep ==
  ASSUME Spins!SpinInv, NEW g \in Goroutine, Spins!SpinLock(g) \/ Spins!SpinWork(g)
  PROVE  Spins!SpinInv'
  <1> USE DEF Spins!SpinInv, Spins!SpinTypeOK, Spins!SpinsTypeOK, Spins!ClientTypeOK
  <1>1. CASE Spins!SpinLock(g)
    BY <1>1 DEF Spins!SpinLock, Spins!StartLock
  <1>2. CASE Spins!SpinAcquire(g)
    BY <1>2 DEF Spins!SpinAcquire, Spins!Goto
  <1>3. CASE Spins!SpinUnlock(g)
    BY <1>3 DEF Spins!SpinUnlock, Spins!Goto
  <1> QED BY <1>1, <1>2, <1>3 DEF Spins!SpinWork

-----------------------------------------------------------------------------
(* TicketLock *)

LEMMA TicketInit == Spins!TicketInit => Spins!TicketInv
  BY DEF Spins!TicketInit, Spins!TicketInv, Spins!TicketTypeOK, Spins!SpinsTypeOK, Spins!Inside,
         Spins!ClientInit, Spins!ClientTypeOK

(* A step of TicketLock keeps the tickets in use distinct and between      *)
(* serving and ticket.                                                     *)
LEMMA TicketStep ==
  ASSUME Spins!TicketInv, NEW g \in Goroutine, Spins!TicketLock(g) \/ Spins!TicketWork(g)
  PROVE  Spins!TicketInv'
  <1> USE DEF Spins!TicketInv, Spins!TicketTypeOK, Spins!SpinsTypeOK, Spins!ClientTypeOK, Spins!Inside
  <1>1. CASE Spins!TicketLock(g)
    BY <1>1 DEF Spins!TicketLock, Spins!StartLock
  <1>2. CASE Spins!TicketAcquire(g)
    BY <1>2 DEF Spins!TicketAcquire, Spins!ticketVars, Spins!Goto
  <1>3. CASE Spins!TicketUnlock(g)
    BY <1>3 DEF Spins!TicketUnlock, Spins!Goto
  <1> QED BY <1>1, <1>2, <1>3 DEF Spins!TicketWork

-----------------------------------------------------------------------------
(* MutexLock *)

LEMMA MutexInit == Mutex!Init => Mutex!Inv
  BY DEF Mutex!Init, Mutex!Inv, Mutex!TypeOK, Mutex!Holds, Mutex!NoLostWakeup,
         Mutex!unlocked, Mutex!lockedNoWait, Mutex!lockedWait,
         Mutex!ClientInit, Mutex!ClientTypeOK

(* A step of MutexLock keeps the word in agreement with the holder, and    *)
(* loses no wakeup.                                                        *)
LEMMA MutexStep ==
  ASSUME Mutex!Inv, NEW g \in Goroutine, Mutex!Lock(g) \/ Mutex!Work(g)
  PROVE  Mutex!Inv'
  <1> USE DEF Mutex!Inv, Mutex!TypeOK, Mutex!ClientTypeOK, Mutex!Holds,
              Mutex!NoLostWakeup,
              Mutex!unlocked, Mutex!lockedNoWait, Mutex!lockedWait
  <1>1. CASE Mutex!Lock(g)
    BY <1>1 DEF Mutex!Lock, Mutex!StartLock
  <1>2. CASE Mutex!SwapState(g)
    BY <1>2 DEF Mutex!SwapState, Mutex!Goto
  <1>3. CASE Mutex!Wake(g)
    BY <1>3 DEF Mutex!Wake, Mutex!Park, Mutex!Goto
  <1>4. CASE Mutex!Unlock(g)
    BY <1>4 DEF Mutex!Unlock, Mutex!Goto
  <1>5. CASE Mutex!UnlockSlow(g)
    BY <1>5 DEF Mutex!UnlockSlow, Mutex!Goto
  <1>6. CASE Mutex!WakeOne(g)
    BY <1>6 DEF Mutex!WakeOne, Mutex!Unpark, Mutex!Goto
  <1> QED BY <1>1, <1>2, <1>3, <1>4, <1>5, <1>6 DEF Mutex!Work

-----------------------------------------------------------------------------
(* CLHLock *)

LEMMA CLHInit == CLH!Init => CLH!Inv
  <1> SUFFICES ASSUME CLH!Init PROVE CLH!Inv
    OBVIOUS
  <1> USE DEF CLH!Init, CLH!ClientInit
  <1>1. CLH!TypeOK
    BY DEF CLH!TypeOK, CLH!ClientTypeOK
  <1>2. CLH!Queued(0)
    BY DEF CLH!Queued, CLH!Active
  <1> QED BY <1>1, <1>2 DEF CLH!Inv, CLH!Active

(* A freshly allocated node is not the node of any goroutine, nor one that *)
(* any goroutine spins on, nor tail.                                       *)
LEMMA CLHFresh ==
  ASSUME Node \ CLH!Reachable # {}
  PROVE  /\ CLH!Fresh \in Node /\ CLH!Fresh # clhTail
         /\ \A g \in Goroutine : clhNode[g] # CLH!Fresh /\ clhPrev[g] # CLH!Fresh
  BY DEF CLH!Fresh, CLH!Reachable

(* A step of CLHLock keeps the queue in order. *)
LEMMA CLHStep ==
  ASSUME CLH!Inv, NEW g \in Goroutine, CLH!Lock(g) \/ CLH!Work(g)
  PROVE  CLH!Inv'
  <1> USE DEF CLH!TypeOK, CLH!ClientTypeOK, CLH!Active
  <1>0. PICK front \in Nat : CLH!Queued(front)
    BY DEF CLH!Inv
  <1>t. CLH!TypeOK
    BY DEF CLH!Inv
  <1>1. CASE CLH!Lock(g)
    <2> DEFINE f == CLH!Fresh
    <2>1. /\ f \in Node /\ f # clhTail
          /\ \A h \in Goroutine : clhNode[h] # f /\ clhPrev[h] # f
      BY <1>1, CLHFresh DEF CLH!Lock
    <2>2. /\ pc[g] = "idle" /\ calls' = calls + 1
          /\ stamp' = [stamp EXCEPT ![g] = calls]
          /\ pc' = [pc EXCEPT ![g] = IF clhTail = Nil THEN "cs" ELSE "spin"]
          /\ clhState' = [clhState EXCEPT ![f] = FALSE]
          /\ clhTail' = f
          /\ clhNode' = [clhNode EXCEPT ![g] = f]
          /\ clhPrev' = [clhPrev EXCEPT ![g] = clhTail]
      BY <1>1 DEF CLH!Lock, CLH!StartLock
    <2> HIDE DEF f
    <2>3. CLH!TypeOK'
      BY <1>t, <2>1, <2>2
    <2>4. CLH!Queued(front)'
      BY <1>0, <1>t, <2>1, <2>2, NilAssumption DEF CLH!Inv, CLH!Queued
    <2>5. \A h \in Goroutine : CLH!Active(h)' =>
             clhNode'[h] \in Node /\ ~clhState'[clhNode'[h]] /\ stamp'[h] < calls'
      BY <1>t, <2>1, <2>2 DEF CLH!Inv
    <2>6. \A h \in Goroutine : pc'[h] = "spin" => clhPrev'[h] \in Node
      BY <1>t, <2>1, <2>2 DEF CLH!Inv
    <2>7. \A h, k \in Goroutine :
             /\ CLH!Active(h)' /\ CLH!Active(k)'
             /\ clhNode'[h] = clhNode'[k] \/ stamp'[h] = stamp'[k]
             => h = k
      BY <1>t, <2>1, <2>2 DEF CLH!Inv
    <2> QED BY <2>3, <2>4, <2>5, <2>6, <2>7 DEF CLH!Inv
  <1>2. CASE CLH!Acquire(g)
    <2>1. stamp[g] = front
      BY <1>0, <1>2 DEF CLH!Inv, CLH!Queued, CLH!Acquire, CLH!Goto
    <2>2. CLH!Queued(front)'
      BY <1>0, <1>2, <2>1 DEF CLH!Inv, CLH!Queued, CLH!Acquire, CLH!Goto
    <2> QED BY <1>2, <2>2 DEF CLH!Inv, CLH!Acquire, CLH!Goto
  <1>3. CASE CLH!Unlock(g)
    <2>1. stamp[g] = front
      BY <1>0, <1>3 DEF CLH!Queued, CLH!Unlock, CLH!Goto
    <2>2. CLH!Queued(front + 1)'
      BY <1>0, <1>3, <2>1 DEF CLH!Inv, CLH!Queued, CLH!Unlock, CLH!Goto
    <2> QED BY <1>3, <2>2 DEF CLH!Inv, CLH!Unlock, CLH!Goto
  <1> QED BY <1>1, <1>2, <1>3 DEF CLH!Work

-----------------------------------------------------------------------------
(* MCSLock *)

LEMMA MCSInit == MCS!Init => MCS!Inv
  <1> SUFFICES ASSUME MCS!Init PROVE MCS!Inv
    OBVIOUS
  <1> USE DEF MCS!Init, MCS!ClientInit
  <1>1. MCS!TypeOK
    BY DEF MCS!TypeOK, MCS!ClientTypeOK
  <1>2. MCS!InLine(0) /\ \A g \in Goroutine : ~MCS!Queued(g)
    BY DEF MCS!InLine, MCS!Queued, MCS!Trying, MCS!Holding
  <1> QED BY <1>1, <1>2 DEF MCS!Inv

LEMMA MCSFresh ==
  ASSUME Node \ MCS!Reachable # {}
  PROVE  /\ MCS!Fresh \in Node /\ MCS!Fresh \notin {mcsTail, owner}
         /\ \A g \in Goroutine : mcsNode[g] # MCS!Fresh /\ link[g] # MCS!Fresh
  BY DEF MCS!Fresh, MCS!Reachable

(* A step of MCSLock keeps the queue in order, the late owner.Store(nil)   *)
(* included.                                                               *)
LEMMA MCSStep ==
  ASSUME MCS!Inv, NEW g \in Goroutine, MCS!Lock(g) \/ MCS!Work(g)
  PROVE  MCS!Inv'
  <1> USE DEF MCS!TypeOK, MCS!ClientTypeOK, MCS!Queued, MCS!Trying,
              MCS!Holding, MCS!Precedes
  <1>0. PICK front \in Nat : MCS!InLine(front)
    BY DEF MCS!Inv
  <1>t. MCS!TypeOK
    BY DEF MCS!Inv
  <1>1. CASE MCS!Lock(g)
    <2> DEFINE f == MCS!Fresh
    <2>1. /\ f \in Node /\ f \notin {mcsTail, owner}
          /\ \A h \in Goroutine : mcsNode[h] # f /\ link[h] # f
      BY <1>1, MCSFresh DEF MCS!Lock
    <2>2. /\ pc[g] = "idle" /\ calls' = calls + 1
          /\ stamp' = [stamp EXCEPT ![g] = calls]
          /\ pc' = [pc EXCEPT ![g] = IF mcsTail = Nil THEN "own" ELSE "link"]
          /\ next' = [next EXCEPT ![f] = Nil]
          /\ locked' = [locked EXCEPT ![f] = TRUE]
          /\ mcsTail' = f
          /\ mcsNode' = [mcsNode EXCEPT ![g] = f]
          /\ link' = [link EXCEPT ![g] = mcsTail]
          /\ UNCHANGED owner
      BY <1>1 DEF MCS!Lock, MCS!StartLock
    <2> HIDE DEF f
    <2>3. MCS!TypeOK'
      BY <1>t, <2>1, <2>2
    <2>4. MCS!InLine(front)'
      BY <1>0, <1>t, <2>1, <2>2, NilAssumption DEF MCS!Inv, MCS!InLine
    <2>5. \A h \in Goroutine :
             MCS!Queued(h)' => mcsNode'[h] \in Node /\ stamp'[h] < calls'
      BY <1>t, <2>1, <2>2 DEF MCS!Inv
    <2>6. \A h, k \in Goroutine :
             /\ MCS!Queued(h)' /\ MCS!Queued(k)'
             /\ mcsNode'[h] = mcsNode'[k] \/ stamp'[h] = stamp'[k]
             => h = k
      BY <1>t, <2>1, <2>2 DEF MCS!Inv
    <2>7. \A h \in Goroutine : pc'[h] = "cs" => owner' \in {mcsNode'[h], Nil}
      BY <1>t, <2>2 DEF MCS!Inv
    <2>8. \A h \in Goroutine : MCS!Queued(h)' /\ next'[mcsNode'[h]] # Nil =>
             \E k \in Goroutine : /\ MCS!Precedes(h, k)' /\ pc'[k] = "spin"
                                  /\ mcsNode'[k] = next'[mcsNode'[h]]
      BY <1>t, <2>1, <2>2 DEF MCS!Inv
    <2>9. \A h \in Goroutine : pc'[h] \in {"disown", "pass"} =>
             \E k \in Goroutine : /\ MCS!Precedes(h, k)' /\ pc'[k] = "spin"
                                  /\ mcsNode'[k] = link'[h]
      BY <1>t, <2>1, <2>2 DEF MCS!Inv
    <2> QED BY <2>3, <2>4, <2>5, <2>6, <2>7, <2>8, <2>9 DEF MCS!Inv
  <1>2. CASE MCS!Link(g)
    <2> USE DEF MCS!Link, MCS!Goto
    <2>1. PICK p \in Goroutine : MCS!Precedes(p, g) /\ link[g] = mcsNode[p]
      BY <1>0, <1>2 DEF MCS!InLine
    <2>2. MCS!InLine(front)'
      BY <1>0, <1>2, <1>t DEF MCS!InLine, MCS!Inv
    <2>3. \A h \in Goroutine : MCS!Queued(h)' /\ next'[mcsNode'[h]] # Nil =>
             \E k \in Goroutine : /\ MCS!Precedes(h, k)' /\ pc'[k] = "spin"
                                  /\ mcsNode'[k] = next'[mcsNode'[h]]
      BY <1>2, <1>t, <2>1 DEF MCS!Inv
    <2>4. MCS!TypeOK'
      BY <1>2, <1>t, <2>1 DEF MCS!Inv
    <2>5. \A h \in Goroutine : pc'[h] \in {"disown", "pass"} =>
             \E k \in Goroutine : /\ MCS!Precedes(h, k)' /\ pc'[k] = "spin"
                                  /\ mcsNode'[k] = link'[h]
      BY <1>2, <1>t DEF MCS!Inv
    <2>6. \A h \in Goroutine : pc'[h] = "cs" => owner' \in {mcsNode'[h], Nil}
      BY <1>2, <1>t DEF MCS!Inv
    <2> QED BY <1>2, <1>t, <2>2, <2>3, <2>4, <2>5, <2>6 DEF MCS!Inv
  <1>3. CASE MCS!SeeHandoff(g)
    BY <1>0, <1>3 DEF MCS!Inv, MCS!InLine, MCS!SeeHandoff, MCS!Goto, MCS!mcsVars
  <1>4. CASE MCS!Own(g)
    BY <1>0, <1>4 DEF MCS!Inv, MCS!InLine, MCS!Own, MCS!Goto
  <1>5. CASE MCS!Unlock(g)
    BY <1>0, <1>5 DEF MCS!Inv, MCS!InLine, MCS!Unlock, MCS!Goto
  <1>6. CASE MCS!LoadNext(g)
    BY <1>0, <1>6 DEF MCS!Inv, MCS!InLine, MCS!LoadNext, MCS!Goto
  <1>7. CASE MCS!CASTail(g)
    BY <1>0, <1>7 DEF MCS!Inv, MCS!InLine, MCS!CASTail, MCS!Goto, MCS!mcsVars
  <1>8. CASE MCS!ClearOwner(g)
    BY <1>0, <1>8 DEF MCS!Inv, MCS!InLine, MCS!ClearOwner, MCS!Goto
  <1>9. CASE MCS!AwaitNext(g)
    BY <1>0, <1>9 DEF MCS!Inv, MCS!InLine, MCS!AwaitNext, MCS!Goto
  <1>10. CASE MCS!Disown(g)
    BY <1>0, <1>10 DEF MCS!Inv, MCS!InLine, MCS!Disown, MCS!Goto
  <1>11. CASE MCS!Pass(g)
    <2>1. /\ pc[g] = "pass" /\ pc' = [pc EXCEPT ![g] = "idle"]
          /\ locked' = [locked EXCEPT ![link[g]] = FALSE]
          /\ mcsNode' = [mcsNode EXCEPT ![g] = Nil]
          /\ link' = [link EXCEPT ![g] = Nil]
          /\ UNCHANGED <<mcsTail, owner, next, calls, stamp>>
      BY <1>11 DEF MCS!Pass, MCS!Goto
    <2>2. stamp[g] = front
      BY <1>0, <2>1 DEF MCS!InLine
    <2>3. PICK k \in Goroutine : /\ MCS!Precedes(g, k) /\ pc[k] = "spin"
                                 /\ mcsNode[k] = link[g]
      BY <2>1 DEF MCS!Inv
    <2>4. MCS!TypeOK'
      BY <1>t, <2>1
    <2>5. MCS!InLine(front + 1)'
      BY <1>0, <1>t, <2>1, <2>2, <2>3 DEF MCS!Inv, MCS!InLine
    <2>6. \A h \in Goroutine : MCS!Queued(h)' => /\ h # g /\ MCS!Queued(h)
                                                 /\ mcsNode'[h] = mcsNode[h]
                                                 /\ link'[h] = link[h] /\ pc'[h] = pc[h]
      BY <1>t, <2>1
    <2>7. \A h, i \in Goroutine :
             MCS!Queued(h)' /\ MCS!Precedes(h, i) => MCS!Precedes(h, i)' /\ i # g
      <3>1. \A h, i \in Goroutine : MCS!Queued(h)' /\ MCS!Precedes(h, i) => i # g
        BY <1>0, <1>t, <2>2, <2>6 DEF MCS!InLine
      <3> QED BY <2>1, <2>6, <3>1
    <2>8. \A h \in Goroutine : MCS!Queued(h)' /\ next'[mcsNode'[h]] # Nil =>
             \E i \in Goroutine : /\ MCS!Precedes(h, i)' /\ pc'[i] = "spin"
                                  /\ mcsNode'[i] = next'[mcsNode'[h]]
      BY <1>t, <2>1, <2>6, <2>7 DEF MCS!Inv
    <2>9. \A h \in Goroutine : pc'[h] \in {"disown", "pass"} =>
             \E i \in Goroutine : /\ MCS!Precedes(h, i)' /\ pc'[i] = "spin"
                                  /\ mcsNode'[i] = link'[h]
      BY <1>t, <2>1, <2>6, <2>7 DEF MCS!Inv
    <2>10. \A h \in Goroutine : pc'[h] = "cs" => owner' \in {mcsNode'[h], Nil}
      BY <1>t, <2>1, <2>6 DEF MCS!Inv
    <2> QED BY <2>1, <2>2, <2>4, <2>5, <2>6, <2>8, <2>9, <2>10 DEF MCS!Inv
  <1> QED BY <1>1, <1>2, <1>3, <1>4, <1>5, <1>6, <1>7, <1>8, <1>9, <1>10, <1>11
          DEF MCS!Work

-----------------------------------------------------------------------------
(* peterson.Lock, its stores taking effect in program order *)

LEMMA PairInit == Pair!Init => Pair!Inv
  BY PartyAssumption
     DEF Pair!Init, Pair!Inv, Pair!TypeOK, Pair!ClientInit, Pair!ClientTypeOK

(* The other of First is Second and the other way round. *)
LEMMA PairOther ==
  /\ First # Second /\ First \in Goroutine /\ Second \in Goroutine
  /\ Pair!other(First) = Second /\ Pair!other(Second) = First
  BY PartyAssumption DEF Pair!other

(* What a store and the load of turn come to without store buffers. *)
LEMMA PairStore ==
  ASSUME NEW g \in Goroutine
  PROVE  /\ Pair!TurnSeen(g) = turn
         /\ \A b \in BOOLEAN : Pair!Store(g, <<"flag", b>>) =>
               flag' = [flag EXCEPT ![g] = b] /\ turn' = turn
         /\ \A h : Pair!Store(g, <<"turn", h>>) => turn' = h /\ flag' = flag
  BY DEF Pair!TurnSeen, Pair!Store, Pair!Commit

(* A step of peterson.Lock keeps the turn of a goroutine in the critical   *)
(* section.                                                                *)
LEMMA PairStep ==
  ASSUME Pair!Inv, NEW g \in Goroutine, Pair!Lock(g) \/ Pair!Work(g)
  PROVE  Pair!Inv'
  <1> USE DEF Pair!Inv, Pair!TypeOK, Pair!ClientTypeOK
  <1>1. CASE Pair!Lock(g)
    <2>1. /\ pc[g] = "idle" /\ pc' = [pc EXCEPT ![g] = "turn"]
          /\ flag' = [flag EXCEPT ![g] = TRUE] /\ turn' = turn
          /\ Pair!ClientTypeOK' /\ g \in {First, Second}
      <3>1. Pair!StartLock(g, "turn") /\ g \in {First, Second}
            /\ Pair!Store(g, <<"flag", TRUE>>)
        BY <1>1 DEF Pair!Lock
      <3>2. flag' = [flag EXCEPT ![g] = TRUE] /\ turn' = turn
        BY <3>1, PairStore
      <3> QED BY <3>1, <3>2 DEF Pair!StartLock
    <2>2. Pair!TypeOK'
      BY <2>1
    <2>3. \A h \in Goroutine : (flag'[h] <=> pc'[h] # "idle")
                               /\ (flag'[h] => h \in {First, Second})
      BY <2>1
    <2>4. \A h \in {First, Second} :
             pc'[h] = "cs" /\ pc'[Pair!other(h)] \in {"flag", "wait", "cs"}
             => turn' = h
      BY <2>1, PairOther
    <2> QED BY <2>2, <2>3, <2>4
  <1>2. CASE Pair!YieldTurn(g)
    BY <1>2, PairOther, PairStore DEF Pair!YieldTurn, Pair!Goto
  <1>3. CASE Pair!LoadFlag(g)
    BY <1>3, PairOther, PairStore DEF Pair!LoadFlag, Pair!Goto, Pair!words
  <1>4. CASE Pair!LoadTurn(g)
    BY <1>4, PairOther, PairStore DEF Pair!LoadTurn, Pair!Goto, Pair!words
  <1>5. CASE Pair!Unlock(g)
    <2>1. /\ pc[g] = "cs" /\ pc' = [pc EXCEPT ![g] = "idle"]
          /\ flag' = [flag EXCEPT ![g] = FALSE] /\ turn' = turn
          /\ Pair!ClientTypeOK' /\ g \in {First, Second}
      BY <1>5, PairStore DEF Pair!Unlock, Pair!Goto
    <2>2. Pair!TypeOK'
      BY <2>1
    <2>3. \A h \in Goroutine : (flag'[h] <=> pc'[h] # "idle")
                               /\ (flag'[h] => h \in {First, Second})
      BY <2>1
    <2>4. \A h \in {First, Second} :
             pc'[h] = "cs" /\ pc'[Pair!other(h)] \in {"flag", "wait", "cs"}
             => turn' = h
      BY <2>1, PairOther
    <2> QED BY <2>2, <2>3, <2>4
  <1> QED BY <1>1, <1>2, <1>3, <1>4, <1>5 DEF Pair!Work

-----------------------------------------------------------------------------
(* All the locks *)

(* The lock in use satisfies its invariant. *)
FamilyInv ==
  /\ impl \in Impl
  /\ impl = "Spin"   => Spins!SpinInv
  /\ impl = "Ticket" => Spins!TicketInv
  /\ impl = "CLH"    => CLH!Inv
  /\ impl = "MCS"    => MCS!Inv
  /\ impl = "Mutex"  => Mutex!Inv
  /\ impl = "Pair"   => Pair!Inv

LEMMA FamilyInvariance == Spec => []FamilyInv
  <1>1. Init => FamilyInv
    BY SpinInit, TicketInit, CLHInit, MCSInit, MutexInit, PairInit DEF Init, FamilyInv
  <1>2. FamilyInv /\ [Next]_vars => FamilyInv'
    <2> SUFFICES ASSUME FamilyInv, [Next]_vars PROVE FamilyInv'
      OBVIOUS
    <2>1. ASSUME NEW g \in Goroutine, Start(g) \/ Work(g) PROVE FamilyInv'
      <3>1. impl' = impl /\ impl \in Impl
        BY <2>1 DEF FamilyInv, Start, Work, Others
      <3>2. CASE impl = "Spin"
        BY <2>1, <3>1, <3>2, SpinStep DEF FamilyInv, Start, Work
      <3>3. CASE impl = "Ticket"
        BY <2>1, <3>1, <3>3, TicketStep DEF FamilyInv, Start, Work
      <3>4. CASE impl = "CLH"
        BY <2>1, <3>1, <3>4, CLHStep DEF FamilyInv, Start, Work
      <3>5. CASE impl = "MCS"
        BY <2>1, <3>1, <3>5, MCSStep DEF FamilyInv, Start, Work
      <3>6. CASE impl = "Mutex"
        BY <2>1, <3>1, <3>6, MutexStep DEF FamilyInv, Start, Work
      <3>7. CASE impl = "Pair"
        BY <2>1, <3>1, <3>7, PairStep DEF FamilyInv, Start, Work
      <3> QED BY <3>1, <3>2, <3>3, <3>4, <3>5, <3>6, <3>7 DEF Impl
    <2>2. CASE UNCHANGED vars
      <3>1. UNCHANGED <<impl, pc, calls, stamp>>
        BY <2>2 DEF vars, clientVars
      <3>2. Spins!SpinInv => Spins!SpinInv'
        BY <2>2, <3>1 DEF vars, spinVars, Spins!SpinInv, Spins!SpinTypeOK, Spins!SpinsTypeOK,
                          Spins!ClientTypeOK
      <3>3. Spins!TicketInv => Spins!TicketInv'
        BY <2>2, <3>1 DEF vars, ticketVars, Spins!TicketInv, Spins!TicketTypeOK, Spins!SpinsTypeOK,
                          Spins!ClientTypeOK, Spins!Inside
      <3>4. CLH!Inv => CLH!Inv'
        BY <2>2, <3>1 DEF vars, clhVars, CLH!Inv, CLH!TypeOK,
                          CLH!ClientTypeOK, CLH!Queued, CLH!Active
      <3>5. MCS!Inv => MCS!Inv'
        BY <2>2, <3>1 DEF vars, mcsVars, MCS!Inv, MCS!TypeOK,
                          MCS!ClientTypeOK, MCS!InLine, MCS!Queued,
                          MCS!Precedes
      <3>6. Mutex!Inv => Mutex!Inv'
        BY <2>2, <3>1 DEF vars, mutexVars, Mutex!Inv, Mutex!TypeOK,
                          Mutex!ClientTypeOK, Mutex!Holds, Mutex!NoLostWakeup
      <3>7. Pair!Inv => Pair!Inv'
        BY <2>2, <3>1 DEF vars, pairVars, Pair!Inv, Pair!TypeOK,
                          Pair!ClientTypeOK
      <3> QED BY <3>1, <3>2, <3>3, <3>4, <3>5, <3>6, <3>7 DEF FamilyInv
    <2> QED BY <2>1, <2>2 DEF Next
  <1> QED BY <1>1, <1>2, PTL DEF Spec

(* The words of the lock in use always have their types. *)
THEOREM TypeCorrectness == Spec => []TypeOK
  <1>1. FamilyInv => TypeOK
    BY DEF FamilyInv, TypeOK, Spins!SpinInv, Spins!TicketInv, CLH!Inv, MCS!Inv, Mutex!Inv,
           Pair!Inv
  <1> QED BY <1>1, FamilyInvariance, PTL

(* No two goroutines own the lock at the same time, whichever of the six   *)
(* locks is in use: the critical sections never overlap.                   *)
THEOREM MutualExclusionHolds == Spec => []MutualExclusion
  <1>1. FamilyInv => MutualExclusion
    <2> USE DEF Spins!Exclusive, CLH!Exclusive,
                MCS!Exclusive, Mutex!Exclusive, Pair!Exclusive
    <2>1. Spins!SpinInv => Spins!MutualExclusion
      BY DEF Spins!SpinInv, Spins!MutualExclusion, Spins!Phase, Spins!PhaseOf
    <2>2. Spins!TicketInv => Spins!MutualExclusion
      BY DEF Spins!TicketInv, Spins!MutualExclusion, Spins!Phase, Spins!PhaseOf,
             Spins!Inside
    <2>3. CLH!Inv => CLH!MutualExclusion
      BY DEF CLH!Inv, CLH!MutualExclusion, CLH!Phase, CLH!PhaseOf, CLH!Queued,
             CLH!Active
    <2>4. MCS!Inv => MCS!MutualExclusion
      BY DEF MCS!Inv, MCS!MutualExclusion, MCS!Phase, MCS!PhaseOf, MCS!InLine,
             MCS!Queued, MCS!Holding
    <2>5. Mutex!Inv => Mutex!MutualExclusion
      BY DEF Mutex!Inv, Mutex!MutualExclusion, Mutex!Phase, Mutex!PhaseOf,
             Mutex!Holds
    <2>6. Pair!Inv => Pair!MutualExclusion
      BY PairOther DEF Pair!Inv, Pair!TypeOK, Pair!MutualExclusion, Pair!Phase,
                       Pair!PhaseOf
    <2> QED BY <2>1, <2>2, <2>3, <2>4, <2>5, <2>6 DEF FamilyInv, MutualExclusion
  <1> QED BY <1>1, FamilyInvariance, PTL

(* MutexLock never strands a parked goroutine: a wakeup is always owed by  *)
(* the word, deposited in the Parker, or on its way.                       *)
THEOREM NoWakeupIsLost == Spec => []NoLostWakeup
  <1>1. FamilyInv => NoLostWakeup
    BY DEF FamilyInv, NoLostWakeup, Mutex!Inv
  <1> QED BY <1>1, FamilyInvariance, PTL

-----------------------------------------------------------------------------
(* Every lock implements AbstractLock: the step that takes the lock finds  *)
(* it free and, in a FIFO lock, nobody who arrived earlier waiting; the    *)
(* other steps inside Lock and Unlock are stuttering.                      *)

LEMMA SpinPhase ==
  ASSUME Spins!SpinTypeOK, Spins!SpinTypeOK', impl = "Spin", impl' = "Spin"
  PROVE  /\ Phase = [g \in Goroutine |-> Phase[g]]
         /\ Phase' = [g \in Goroutine |-> Phase'[g]]
         /\ \A g \in Goroutine :
               /\ pc[g] \in {"idle"} => Phase[g] = "idle"
               /\ pc[g] \in {"spin"} => Phase[g] = "trying"
               /\ pc[g] \in {"cs"} => Phase[g] = "holding"
         /\ \A g \in Goroutine :
               /\ pc'[g] \in {"idle"} => Phase'[g] = "idle"
               /\ pc'[g] \in {"spin"} => Phase'[g] = "trying"
               /\ pc'[g] \in {"cs"} => Phase'[g] = "holding"
  BY DEF Phase, Spins!Phase, Spins!PhaseOf, Spins!SpinTypeOK, Spins!SpinsTypeOK

LEMMA TicketPhase ==
  ASSUME Spins!TicketTypeOK, Spins!TicketTypeOK', impl = "Ticket", impl' = "Ticket"
  PROVE  /\ Phase = [g \in Goroutine |-> Phase[g]]
         /\ Phase' = [g \in Goroutine |-> Phase'[g]]
         /\ \A g \in Goroutine :
               /\ pc[g] \in {"idle"} => Phase[g] = "idle"
               /\ pc[g] \in {"spin"} => Phase[g] = "trying"
               /\ pc[g] \in {"cs"} => Phase[g] = "holding"
         /\ \A g \in Goroutine :
               /\ pc'[g] \in {"idle"} => Phase'[g] = "idle"
               /\ pc'[g] \in {"spin"} => Phase'[g] = "trying"
               /\ pc'[g] \in {"cs"} => Phase'[g] = "holding"
  BY DEF Phase, Spins!Phase, Spins!PhaseOf, Spins!TicketTypeOK, Spins!SpinsTypeOK

LEMMA CLHPhase ==
  ASSUME CLH!TypeOK, CLH!TypeOK', impl = "CLH", impl' = "CLH"
  PROVE  /\ Phase = [g \in Goroutine |-> Phase[g]]
         /\ Phase' = [g \in Goroutine |-> Phase'[g]]
         /\ \A g \in Goroutine :
               /\ pc[g] \in {"idle"} => Phase[g] = "idle"
               /\ pc[g] \in {"spin"} => Phase[g] = "trying"
               /\ pc[g] \in {"cs"} => Phase[g] = "holding"
         /\ \A g \in Goroutine :
               /\ pc'[g] \in {"idle"} => Phase'[g] = "idle"
               /\ pc'[g] \in {"spin"} => Phase'[g] = "trying"
               /\ pc'[g] \in {"cs"} => Phase'[g] = "holding"
  BY DEF Phase, CLH!Phase, CLH!PhaseOf, CLH!TypeOK

LEMMA MCSPhase ==
  ASSUME MCS!TypeOK, MCS!TypeOK', impl = "MCS", impl' = "MCS"
  PROVE  /\ Phase = [g \in Goroutine |-> Phase[g]]
         /\ Phase' = [g \in Goroutine |-> Phase'[g]]
         /\ \A g \in Goroutine :
               /\ pc[g] \in {"idle", "clear"} => Phase[g] = "idle"
               /\ pc[g] \in {"link", "spin"} => Phase[g] = "trying"
               /\ pc[g] \in MCS!Holding => Phase[g] = "holding"
               /\ pc[g] = "panic" => Phase[g] = "panicked"
         /\ \A g \in Goroutine :
               /\ pc'[g] \in {"idle", "clear"} => Phase'[g] = "idle"
               /\ pc'[g] \in {"link", "spin"} => Phase'[g] = "trying"
               /\ pc'[g] \in MCS!Holding => Phase'[g] = "holding"
               /\ pc'[g] = "panic" => Phase'[g] = "panicked"
  BY DEF Phase, MCS!Phase, MCS!PhaseOf, MCS!TypeOK, MCS!Trying, MCS!Holding

LEMMA MutexPhase ==
  ASSUME Mutex!TypeOK, Mutex!TypeOK', impl = "Mutex", impl' = "Mutex"
  PROVE  /\ Phase = [g \in Goroutine |-> Phase[g]]
         /\ Phase' = [g \in Goroutine |-> Phase'[g]]
         /\ \A g \in Goroutine :
               /\ pc[g] \in {"idle", "unpark"} => Phase[g] = "idle"
               /\ pc[g] \in {"swap", "park"} => Phase[g] = "trying"
               /\ pc[g] \in {"cs", "slow"} => Phase[g] = "holding"
         /\ \A g \in Goroutine :
               /\ pc'[g] \in {"idle", "unpark"} => Phase'[g] = "idle"
               /\ pc'[g] \in {"swap", "park"} => Phase'[g] = "trying"
               /\ pc'[g] \in {"cs", "slow"} => Phase'[g] = "holding"
  BY DEF Phase, Mutex!Phase, Mutex!PhaseOf, Mutex!TypeOK

LEMMA PairPhase ==
  ASSUME Pair!TypeOK, Pair!TypeOK', impl = "Pair", impl' = "Pair"
  PROVE  /\ Phase = [g \in Goroutine |-> Phase[g]]
         /\ Phase' = [g \in Goroutine |-> Phase'[g]]
         /\ \A g \in Goroutine :
               /\ pc[g] \in {"idle"} => Phase[g] = "idle"
               /\ pc[g] \in {"turn", "flag", "wait"} => Phase[g] = "trying"
               /\ pc[g] \in {"cs"} => Phase[g] = "holding"
         /\ \A g \in Goroutine :
               /\ pc'[g] \in {"idle"} => Phase'[g] = "idle"
               /\ pc'[g] \in {"turn", "flag", "wait"} => Phase'[g] = "trying"
               /\ pc'[g] \in {"cs"} => Phase'[g] = "holding"
  BY DEF Phase, Pair!Phase, Pair!PhaseOf, Pair!TypeOK

LEMMA SpinImplements ==
  ASSUME impl = "Spin", impl' = "Spin", Spins!SpinInv, Spins!SpinInv', NEW g \in Goroutine,
         Spins!SpinLock(g) \/ Spins!SpinWork(g)
  PROVE  [Abstract!Next]_(Abstract!vars)
  <1> USE DEF Spins!SpinTypeOK, Spins!SpinsTypeOK, Spins!ClientTypeOK, Spins!Goto, FIFO,
              Abstract!Move, Abstract!Enter
  <1>0. Spins!SpinTypeOK /\ Spins!SpinTypeOK'
    BY DEF Spins!SpinInv
  <1>1. CASE Spins!SpinLock(g)
    <2>1. Abstract!Arrive(g)
      BY <1>1, <1>0, SpinPhase
         DEF Spins!SpinLock, Spins!StartLock, Abstract!Arrive
    <2> QED BY <2>1 DEF Abstract!Next
  <1>2. CASE Spins!SpinAcquire(g)
    <2>1. Abstract!Acquire(g)
      BY <1>2, <1>0, SpinPhase
         DEF Spins!SpinAcquire, Abstract!Acquire, Abstract!Free, Spins!SpinInv
    <2> QED BY <2>1 DEF Abstract!Next
  <1>3. CASE Spins!SpinUnlock(g)
    <2>1. Abstract!Release(g)
      BY <1>3, <1>0, SpinPhase
         DEF Spins!SpinUnlock, Abstract!Release
    <2> QED BY <2>1 DEF Abstract!Next
  <1> QED BY <1>1, <1>2, <1>3 DEF Spins!SpinWork

LEMMA TicketImplements ==
  ASSUME impl = "Ticket", impl' = "Ticket", Spins!TicketInv, Spins!TicketInv', NEW g \in Goroutine,
         Spins!TicketLock(g) \/ Spins!TicketWork(g)
  PROVE  [Abstract!Next]_(Abstract!vars)
  <1> USE DEF Spins!TicketTypeOK, Spins!SpinsTypeOK, Spins!ClientTypeOK, Spins!Goto, FIFO,
              Abstract!Move, Abstract!Enter, Spins!Inside
  <1>0. Spins!TicketTypeOK /\ Spins!TicketTypeOK'
    BY DEF Spins!TicketInv
  <1>1. CASE Spins!TicketLock(g)
    <2>1. Abstract!Arrive(g)
      BY <1>1, <1>0, TicketPhase
         DEF Spins!TicketLock, Spins!StartLock, Abstract!Arrive
    <2> QED BY <2>1 DEF Abstract!Next
  <1>2. CASE Spins!TicketAcquire(g)
    <2>1. Abstract!Acquire(g)
      BY <1>2, <1>0, TicketPhase
         DEF Spins!TicketAcquire, Abstract!Acquire, Abstract!Free, Abstract!NobodyBefore, Spins!TicketInv
    <2> QED BY <2>1 DEF Abstract!Next
  <1>3. CASE Spins!TicketUnlock(g)
    <2>1. Abstract!Release(g)
      BY <1>3, <1>0, TicketPhase
         DEF Spins!TicketUnlock, Abstract!Release
    <2> QED BY <2>1 DEF Abstract!Next
  <1> QED BY <1>1, <1>2, <1>3 DEF Spins!TicketWork

LEMMA CLHImplements ==
  ASSUME impl = "CLH", impl' = "CLH", CLH!Inv, CLH!Inv', NEW g \in Goroutine,
         CLH!Lock(g) \/ CLH!Work(g)
  PROVE  [Abstract!Next]_(Abstract!vars)
  <1> USE DEF CLH!TypeOK, CLH!ClientTypeOK, CLH!Goto, FIFO,
              Abstract!Move, Abstract!Enter, CLH!Active
  <1>0. CLH!TypeOK /\ CLH!TypeOK'
    BY DEF CLH!Inv
  <1>f. PICK front \in Nat : CLH!Queued(front)
    BY DEF CLH!Inv
  <1>1. CASE CLH!Lock(g)
    <2>1. Abstract!Arrive(g) \/ Abstract!AcquireNow(g)
      BY <1>1, <1>0, CLHPhase, <1>f, NilAssumption
         DEF CLH!Lock, CLH!StartLock, Abstract!Arrive, Abstract!AcquireNow, Abstract!Free, Abstract!NobodyBefore, CLH!Inv, CLH!Queued
    <2> QED BY <2>1 DEF Abstract!Next
  <1>2. CASE CLH!Acquire(g)
    <2>1. Abstract!Acquire(g)
      BY <1>2, <1>0, CLHPhase, <1>f
         DEF CLH!Acquire, Abstract!Acquire, Abstract!Free, Abstract!NobodyBefore, CLH!Inv, CLH!Queued
    <2> QED BY <2>1 DEF Abstract!Next
  <1>3. CASE CLH!Unlock(g)
    <2>1. Abstract!Release(g)
      BY <1>3, <1>0, CLHPhase
         DEF CLH!Unlock, Abstract!Release
    <2> QED BY <2>1 DEF Abstract!Next
  <1> QED BY <1>1, <1>2, <1>3 DEF CLH!Work

LEMMA MCSImplements ==
  ASSUME impl = "MCS", impl' = "MCS", MCS!Inv, MCS!Inv', NEW g \in Goroutine,
         MCS!Lock(g) \/ MCS!Work(g)
  PROVE  [Abstract!Next]_(Abstract!vars)
  <1> USE DEF MCS!TypeOK, MCS!ClientTypeOK, MCS!Goto, FIFO,
              Abstract!Move, Abstract!Enter, MCS!Queued, MCS!Trying,
              MCS!Holding
  <1>0. MCS!TypeOK /\ MCS!TypeOK'
    BY DEF MCS!Inv
  <1>f. PICK front \in Nat : MCS!InLine(front)
    BY DEF MCS!Inv
  <1>1. CASE MCS!Lock(g)
    <2>1. /\ pc[g] = "idle"
          /\ pc' = [pc EXCEPT ![g] = IF mcsTail = Nil THEN "own" ELSE "link"]
          /\ Abstract!Enter(g)
      BY <1>1 DEF MCS!Lock, MCS!StartLock
    <2>2. Phase[g] = "idle" /\ UNCHANGED (impl \in FIFO)
      BY <2>1, <1>0, MCSPhase
    <2>3. CASE mcsTail # Nil
      <3>1. Phase' = [Phase EXCEPT ![g] = "trying"]
        BY <2>1, <2>3, <1>0 DEF Phase, MCS!Phase, MCS!PhaseOf
      <3> QED BY <3>1, <2>1, <2>2 DEF Abstract!Arrive, Abstract!Next
    <2>4. CASE mcsTail = Nil
      <3>1. Phase' = [Phase EXCEPT ![g] = "holding"]
        BY <2>1, <2>4, <1>0 DEF Phase, MCS!Phase, MCS!PhaseOf
      <3>2. \A h \in Goroutine : ~MCS!Queued(h)
        BY <2>4, <1>f, <1>0, NilAssumption DEF MCS!Inv, MCS!InLine
      <3>3. \A h \in Goroutine : Phase[h] \notin {"trying", "holding", "panicked"}
        BY <3>2, <1>0 DEF Phase, MCS!Phase, MCS!PhaseOf
      <3>4. Abstract!Free /\ Abstract!NobodyBefore(calls)
        BY <3>3 DEF Abstract!Free, Abstract!NobodyBefore
      <3> QED BY <3>1, <3>4, <2>1, <2>2 DEF Abstract!AcquireNow, Abstract!Next
    <2> QED BY <2>3, <2>4
  <1>2. CASE MCS!Link(g)
    <2>1. UNCHANGED Abstract!vars
      BY <1>2, <1>0, MCSPhase
         DEF MCS!Link, Abstract!vars
    <2> QED BY <2>1 DEF Abstract!Next
  <1>3. CASE MCS!SeeHandoff(g)
    <2>1. Abstract!Acquire(g)
      BY <1>3, <1>0, MCSPhase, <1>f
         DEF MCS!SeeHandoff, MCS!mcsVars, Abstract!Acquire, Abstract!Free, Abstract!NobodyBefore, MCS!Inv, MCS!InLine
    <2> QED BY <2>1 DEF Abstract!Next
  <1>4. CASE MCS!Own(g)
    <2>1. UNCHANGED Abstract!vars
      BY <1>4, <1>0, MCSPhase
         DEF MCS!Own, Abstract!vars
    <2> QED BY <2>1 DEF Abstract!Next
  <1>5. CASE MCS!Unlock(g)
    <2>1. UNCHANGED Abstract!vars \/ Abstract!Panic(g)
      BY <1>5, <1>0, MCSPhase
         DEF MCS!Unlock, Abstract!vars, Abstract!Panic
    <2> QED BY <2>1 DEF Abstract!Next
  <1>6. CASE MCS!LoadNext(g)
    <2>1. UNCHANGED Abstract!vars
      BY <1>6, <1>0, MCSPhase
         DEF MCS!LoadNext, Abstract!vars
    <2> QED BY <2>1 DEF Abstract!Next
  <1>7. CASE MCS!CASTail(g)
    <2>1. UNCHANGED Abstract!vars \/ Abstract!Release(g)
      BY <1>7, <1>0, MCSPhase
         DEF MCS!CASTail, MCS!mcsVars, Abstract!vars, Abstract!Release
    <2> QED BY <2>1 DEF Abstract!Next
  <1>8. CASE MCS!ClearOwner(g)
    <2>1. UNCHANGED Abstract!vars
      BY <1>8, <1>0, MCSPhase
         DEF MCS!ClearOwner, Abstract!vars
    <2> QED BY <2>1 DEF Abstract!Next
  <1>9. CASE MCS!AwaitNext(g)
    <2>1. UNCHANGED Abstract!vars
      BY <1>9, <1>0, MCSPhase
         DEF MCS!AwaitNext, Abstract!vars
    <2> QED BY <2>1 DEF Abstract!Next
  <1>10. CASE MCS!Disown(g)
    <2>1. UNCHANGED Abstract!vars
      BY <1>10, <1>0, MCSPhase
         DEF MCS!Disown, Abstract!vars
    <2> QED BY <2>1 DEF Abstract!Next
  <1>11. CASE MCS!Pass(g)
    <2>1. Abstract!Release(g)
      BY <1>11, <1>0, MCSPhase
         DEF MCS!Pass, Abstract!Release
    <2> QED BY <2>1 DEF Abstract!Next
  <1> QED BY <1>1, <1>2, <1>3, <1>4, <1>5, <1>6, <1>7, <1>8, <1>9, <1>10, <1>11 DEF MCS!Work

LEMMA MutexImplements ==
  ASSUME impl = "Mutex", impl' = "Mutex", Mutex!Inv, Mutex!Inv', NEW g \in Goroutine,
         Mutex!Lock(g) \/ Mutex!Work(g)
  PROVE  [Abstract!Next]_(Abstract!vars)
  <1> USE DEF Mutex!TypeOK, Mutex!ClientTypeOK, Mutex!Goto, FIFO,
              Abstract!Move, Abstract!Enter, Mutex!Holds, Mutex!unlocked,
              Mutex!lockedNoWait, Mutex!lockedWait
  <1>0. Mutex!TypeOK /\ Mutex!TypeOK'
    BY DEF Mutex!Inv
  <1>1. CASE Mutex!Lock(g)
    <2>1. Abstract!Arrive(g) \/ Abstract!AcquireNow(g)
      BY <1>1, <1>0, MutexPhase
         DEF Mutex!Lock, Mutex!StartLock, Abstract!Arrive, Abstract!AcquireNow, Abstract!Free, Mutex!Inv
    <2> QED BY <2>1 DEF Abstract!Next
  <1>2. CASE Mutex!SwapState(g)
    <2>1. UNCHANGED Abstract!vars \/ Abstract!Acquire(g)
      BY <1>2, <1>0, MutexPhase
         DEF Mutex!SwapState, Abstract!vars, Abstract!Acquire, Abstract!Free, Mutex!Inv
    <2> QED BY <2>1 DEF Abstract!Next
  <1>3. CASE Mutex!Wake(g)
    <2>1. UNCHANGED Abstract!vars
      BY <1>3, <1>0, MutexPhase
         DEF Mutex!Wake, Abstract!vars
    <2> QED BY <2>1 DEF Abstract!Next
  <1>4. CASE Mutex!Unlock(g)
    <2>1. UNCHANGED Abstract!vars \/ Abstract!Release(g)
      BY <1>4, <1>0, MutexPhase
         DEF Mutex!Unlock, Abstract!vars, Abstract!Release
    <2> QED BY <2>1 DEF Abstract!Next
  <1>5. CASE Mutex!UnlockSlow(g)
    <2>1. UNCHANGED Abstract!vars \/ Abstract!Release(g)
      BY <1>5, <1>0, MutexPhase
         DEF Mutex!UnlockSlow, Abstract!vars, Abstract!Release
    <2> QED BY <2>1 DEF Abstract!Next
  <1>6. CASE Mutex!WakeOne(g)
    <2>1. UNCHANGED Abstract!vars
      BY <1>6, <1>0, MutexPhase
         DEF Mutex!WakeOne, Abstract!vars
    <2> QED BY <2>1 DEF Abstract!Next
  <1> QED BY <1>1, <1>2, <1>3, <1>4, <1>5, <1>6 DEF Mutex!Work

LEMMA PairImplements ==
  ASSUME impl = "Pair", impl' = "Pair", Pair!Inv, Pair!Inv', NEW g \in Goroutine,
         Pair!Lock(g) \/ Pair!Work(g)
  PROVE  [Abstract!Next]_(Abstract!vars)
  <1> USE DEF Pair!TypeOK, Pair!ClientTypeOK, Pair!Goto, FIFO,
              Abstract!Move, Abstract!Enter
  <1>0. Pair!TypeOK /\ Pair!TypeOK'
    BY DEF Pair!Inv
  <1>1. CASE Pair!Lock(g)
    <2>1. Abstract!Arrive(g)
      BY <1>1, <1>0, PairPhase
         DEF Pair!Lock, Pair!StartLock, Abstract!Arrive
    <2> QED BY <2>1 DEF Abstract!Next
  <1>2. CASE Pair!YieldTurn(g)
    <2>1. UNCHANGED Abstract!vars
      BY <1>2, <1>0, PairPhase DEF Pair!YieldTurn, Abstract!vars
    <2> QED BY <2>1
  <1>3. CASE Pair!LoadFlag(g)
    <2>1. UNCHANGED Abstract!vars \/ Abstract!Acquire(g)
      BY <1>3, <1>0, PairPhase, PairOther
         DEF Pair!LoadFlag, Pair!Inv, Abstract!vars, Abstract!Acquire, Abstract!Free
    <2> QED BY <2>1 DEF Abstract!Next
  <1>4. CASE Pair!LoadTurn(g)
    <2>1. UNCHANGED Abstract!vars \/ Abstract!Acquire(g)
      BY <1>4, <1>0, PairPhase, PairOther, PairStore
         DEF Pair!LoadTurn, Pair!Inv, Abstract!vars, Abstract!Acquire, Abstract!Free
    <2> QED BY <2>1 DEF Abstract!Next
  <1>5. CASE Pair!Unlock(g)
    <2>1. Abstract!Release(g)
      BY <1>5, <1>0, PairPhase DEF Pair!Unlock, Abstract!Release
    <2> QED BY <2>1 DEF Abstract!Next
  <1> QED BY <1>1, <1>2, <1>3, <1>4, <1>5 DEF Pair!Work

(* The six locks implement AbstractLock: one holder at a time, and        *)
(* TicketLock, CLHLock and MCSLock are granted in the order in which the   *)
(* goroutines performed the first atomic operation of Lock, as their       *)
(* comments promise ("strict FIFO", lock.go:53, 279, 352).                 *)
THEOREM LocksImplementAbstractLock == Spec => ImplementsLock
  <1>1. Init => Abstract!Init
    <2> SUFFICES ASSUME Init PROVE Abstract!Init
      OBVIOUS
    <2>1. /\ pc = [g \in Goroutine |-> "idle"] /\ calls = 0
          /\ stamp = [g \in Goroutine |-> 0] /\ impl \in Impl
      BY DEF Init, Spins!SpinInit, Spins!ClientInit
    <2>2. Phase = [g \in Goroutine |-> "idle"]
      BY <2>1 DEF Impl, Phase, Spins!Phase, Spins!PhaseOf, CLH!Phase, CLH!PhaseOf, MCS!Phase,
                  MCS!PhaseOf, MCS!Trying, MCS!Holding, Mutex!Phase,
                  Mutex!PhaseOf, Pair!Phase, Pair!PhaseOf
    <2> QED BY <2>1, <2>2 DEF Abstract!Init
  <1>2. FamilyInv /\ FamilyInv' /\ [Next]_vars
          => [Abstract!Next]_(Abstract!vars)
    <2> SUFFICES ASSUME FamilyInv, FamilyInv', [Next]_vars
                 PROVE  [Abstract!Next]_(Abstract!vars)
      OBVIOUS
    <2>1. ASSUME NEW g \in Goroutine, Start(g) \/ Work(g)
          PROVE  [Abstract!Next]_(Abstract!vars)
      <3>1. impl' = impl /\ impl \in Impl
        BY <2>1 DEF FamilyInv, Start, Work, Others
      <3>2. CASE impl = "Spin"
        BY <2>1, <3>1, <3>2, SpinImplements DEF FamilyInv, Start, Work
      <3>3. CASE impl = "Ticket"
        BY <2>1, <3>1, <3>3, TicketImplements DEF FamilyInv, Start, Work
      <3>4. CASE impl = "CLH"
        BY <2>1, <3>1, <3>4, CLHImplements DEF FamilyInv, Start, Work
      <3>5. CASE impl = "MCS"
        BY <2>1, <3>1, <3>5, MCSImplements DEF FamilyInv, Start, Work
      <3>6. CASE impl = "Mutex"
        BY <2>1, <3>1, <3>6, MutexImplements DEF FamilyInv, Start, Work
      <3>7. CASE impl = "Pair"
        BY <2>1, <3>1, <3>7, PairImplements DEF FamilyInv, Start, Work
      <3> QED BY <3>1, <3>2, <3>3, <3>4, <3>5, <3>6, <3>7 DEF Impl
    <2>2. CASE UNCHANGED vars
      BY <2>2 DEF vars, clientVars, Phase, Spins!Phase, Spins!PhaseOf,
                  CLH!Phase, CLH!PhaseOf,
                  MCS!Phase, MCS!PhaseOf, Mutex!Phase, Mutex!PhaseOf,
                  Pair!Phase, Pair!PhaseOf, Abstract!vars
    <2> QED BY <2>1, <2>2 DEF Next
  <1> QED BY <1>1, <1>2, FamilyInvariance, PTL
          DEF Spec, ImplementsLock, Abstract!Spec
=============================================================================
