---------------------------- MODULE Stacks_proofs ---------------------------
(***************************************************************************)
(* Proofs about the stacks, for any goroutines, any heap and any number of *)
(* elimination slots.                                                      *)
(***************************************************************************)
EXTENDS MCStacks, SequenceTheorems, FiniteSetTheorems, TLAPS

TreiberPoints == {"idle", "load", "cas", "done"}
MutexPoints   == {"idle", "locked", "done"}
EliminationPoints ==
  {"idle", "load", "cas", "visit", "wait", "wait2", "give", "signal", "recheck", "done"}
-----------------------------------------------------------------------------
(* The callers: types, and whoever is inside a call is in one of the two.  *)

Callers(S) ==
  /\ ClientTypeOK
  /\ pc \in [Goroutine -> S]
  /\ \A g \in Goroutine : pc[g] \notin {"idle", "done"} => op[g] \in {"push", "pop"}

LEMMA StartTypes ==
  ASSUME NEW S, Callers(S), NEW g \in Goroutine, NEW k \in {"push", "pop"},
         NEW to \in S, Start(g, k, to)
  PROVE  Callers(S)'
  BY DEF Callers, ClientTypeOK, Start, zero

LEMMA GotoTypes ==
  ASSUME NEW S, Callers(S), NEW g \in Goroutine, NEW from, from \notin {"idle", "done"},
         NEW to \in S, Goto(g, from, to)
  PROVE  Callers(S)'
  BY DEF Callers, ClientTypeOK, Goto

LEMMA FinishTypes ==
  ASSUME NEW S, Callers(S), "done" \in S, NEW g \in Goroutine, NEW from,
         NEW r \in Nat \X BOOLEAN, Finish(g, from, r)
  PROVE  Callers(S)'
  BY DEF Callers, ClientTypeOK, Finish

LEMMA LeaveTypes ==
  ASSUME NEW S, Callers(S), "idle" \in S, NEW g \in Goroutine, Leave(g)
  PROVE  Callers(S)'
  BY DEF Callers, ClientTypeOK, Leave, None, zero

(* A Pop takes its partner's value. *)
LEMMA TakeTypes ==
  ASSUME NEW S, Callers(S), NEW g \in Goroutine, NEW to \in S, NEW x \in Nat,
         pc[g] \notin {"idle", "done"},
         pc' = [pc EXCEPT ![g] = to], ret' = [ret EXCEPT ![g] = <<x, TRUE>>],
         UNCHANGED <<calls, op, arg>>
  PROVE  Callers(S)'
  BY DEF Callers, ClientTypeOK

LEMMA NoneType == None \in Nat \X BOOLEAN
  BY DEF None, zero
-----------------------------------------------------------------------------
(* The list *)

LEMMA FreshNode ==
  ASSUME Node \ Reachable # {}
  PROVE  Fresh \in Node /\ Fresh \notin Reachable
  BY DEF Fresh

LEMMA HeadTypes ==
  ASSUME HeadTypeOK, ClientTypeOK, NEW g \in Goroutine,
         \/ AllocateAndLoad(g) \/ LoadForPush(g) \/ SwingForPush(g)
         \/ LoadForPop(g) \/ SwingForPop(g) \/ SwingFails(g) \/ Drop(g)
         \/ UNCHANGED headVars
  PROVE  HeadTypeOK'
  <1> USE DEF HeadTypeOK
  <1>1. calls + 1 \in Nat /\ NoTop \in [val : Nat, next : Node \cup {Nil}]
    BY DEF ClientTypeOK, NoTop, zero
  <1>2. CASE AllocateAndLoad(g)
    BY <1>1, <1>2, FreshNode DEF AllocateAndLoad
  <1>3. CASE LoadForPush(g)
    BY <1>3 DEF LoadForPush
  <1>4. CASE SwingForPush(g)
    BY <1>4 DEF SwingForPush
  <1>5. CASE LoadForPop(g)
    <2>1. [val |-> v[head], next |-> next[head]] \in [val : Nat, next : Node \cup {Nil}]
      BY <1>5 DEF LoadForPop
    <2> QED BY <1>5, <2>1 DEF LoadForPop
  <1>6. CASE SwingForPop(g)
    BY <1>1, <1>6 DEF SwingForPop
  <1>7. CASE SwingFails(g)
    BY <1>1, <1>7 DEF SwingFails
  <1>8. CASE Drop(g)
    BY <1>1, <1>8 DEF Drop
  <1>9. CASE UNCHANGED headVars
    BY <1>9 DEF headVars
  <1> QED BY <1>2, <1>3, <1>4, <1>5, <1>6, <1>7, <1>8, <1>9

(* The calls of the Treiber stack, alone or under the elimination stack.   *)
LEMMA TreiberTypes ==
  ASSUME NEW S, TreiberPoints \subseteq S, Callers(S), HeadTypeOK, NEW g \in Goroutine,
         \/ TreiberPush(g) \/ TreiberPop(g) \/ TreiberLoad(g) \/ TreiberEmpty(g)
         \/ SwingHead(g) \/ TreiberCAS(g) \/ TreiberReturn(g)
  PROVE  Callers(S)' /\ HeadTypeOK'
  <1>1. "cas" \in S /\ "load" \in S /\ "done" \in S /\ "idle" \in S
    BY DEF TreiberPoints
  <1>2. ClientTypeOK
    BY DEF Callers
  <1>3. CASE TreiberPush(g)
    BY <1>1, <1>2, <1>3, StartTypes, HeadTypes DEF TreiberPush
  <1>4. CASE TreiberPop(g)
    BY <1>1, <1>2, <1>4, StartTypes, HeadTypes DEF TreiberPop
  <1>5. CASE TreiberLoad(g)
    <2>1. Callers(S)'
      BY <1>1, <1>5, GotoTypes DEF TreiberLoad
    <2>2. HeadTypeOK'
      BY <1>2, <1>5, HeadTypes DEF TreiberLoad
    <2> QED BY <2>1, <2>2
  <1>6. CASE TreiberEmpty(g)
    BY <1>1, <1>2, <1>6, NoneType, FinishTypes, HeadTypes DEF TreiberEmpty
  <1>7. CASE SwingHead(g)
    <2>1. <<top[g].val, TRUE>> \in Nat \X BOOLEAN
      BY DEF HeadTypeOK
    <2>2. Callers(S)'
      BY <1>1, <1>7, <2>1, NoneType, FinishTypes DEF SwingHead
    <2>3. HeadTypeOK'
      BY <1>2, <1>7, HeadTypes DEF SwingHead
    <2> QED BY <2>2, <2>3
  <1>8. CASE Goto(g, "cas", "load") /\ SwingFails(g)
    BY <1>1, <1>2, <1>8, GotoTypes, HeadTypes
  <1>9. CASE TreiberReturn(g)
    BY <1>1, <1>2, <1>9, LeaveTypes, HeadTypes DEF TreiberReturn
  <1> QED BY <1>3, <1>4, <1>5, <1>6, <1>7, <1>8, <1>9 DEF TreiberCAS
-----------------------------------------------------------------------------
(* The elimination array.  An op is its owner's while it waits; while it   *)
(* is in a slot its owner can still withdraw it and nobody has taken it;   *)
(* whoever has taken it is alone in that, and done is for it to set.       *)

ArrayTypes ==
  /\ slot \in [Slot -> Op \cup {Nil}]
  /\ mine \in [Goroutine -> Op \cup {Nil}] /\ curr \in [Goroutine -> Op \cup {Nil}]
  /\ at \in [Goroutine -> Slot]
  /\ tries \in [Goroutine -> 0 .. Attempts]
  /\ kind \in [Op -> {"push", "pop"}]
  /\ value \in [Op -> Nat]
  /\ done \in [Op -> BOOLEAN]

Counted == \A g \in Goroutine : pc[g] \in {"visit", "wait"} => tries[g] >= 1

Exchange ==
  /\ \A g \in Goroutine : mine[g] # Nil <=> pc[g] \in {"wait", "wait2"}
  /\ \A g \in Goroutine : curr[g] # Nil <=> pc[g] \in {"give", "signal"}
  /\ \A g, h \in Goroutine : mine[g] # Nil /\ mine[g] = mine[h] => g = h
  /\ \A g, h \in Goroutine : curr[g] # Nil /\ curr[g] = curr[h] => g = h
  /\ \A s \in Slot : slot[s] # Nil =>
       /\ ~done[slot[s]]
       /\ \A h \in Goroutine : curr[h] # slot[s]
       /\ \E g \in Goroutine : mine[g] = slot[s] /\ at[g] = s /\ pc[g] = "wait"
  /\ \A h \in Goroutine : pc[h] = "give" => ~done[curr[h]]

LEMMA FreshOpFacts ==
  ASSUME Op \ Held # {}
  PROVE  /\ FreshOp \in Op /\ FreshOp # Nil
         /\ \A s \in Slot : slot[s] # FreshOp
         /\ \A g \in Goroutine : mine[g] # FreshOp /\ curr[g] # FreshOp
  <1>1. FreshOp \in Op /\ FreshOp \notin Held
    BY DEF FreshOp
  <1> QED BY <1>1, EliminationAssumption DEF Held

(* One step of g in the elimination array, seen from the types.            *)
LEMMA VisitTypes ==
  ASSUME Callers(EliminationPoints), HeadTypeOK, ArrayTypes, Counted, Exchange,
         NEW g \in Goroutine, Call(g) \/ Work(g)
  PROVE  Callers(EliminationPoints)' /\ HeadTypeOK' /\ ArrayTypes' /\ Counted'
  <1> DEFINE E == EliminationPoints
  <1>1. /\ TreiberPoints \subseteq E /\ ClientTypeOK /\ "done" \in E /\ "idle" \in E
        /\ pc \in [Goroutine -> E] /\ Attempts \in Nat \ {0} /\ Nil \notin Op
        /\ arg[g] \in Nat /\ ret[g] \in Nat \X BOOLEAN
    BY EliminationAssumption
       DEF TreiberPoints, EliminationPoints, Callers, ClientTypeOK
  <1>2. ASSUME UNCHANGED eliminationVars,
               \A h \in Goroutine : pc'[h] \in {"visit", "wait"} => pc[h] = pc'[h]
        PROVE  ArrayTypes' /\ Counted'
    BY <1>2 DEF ArrayTypes, Counted, eliminationVars
  <1>3. CASE Push(g) \/ Pop(g) \/ Load(g) \/ (SwingHead(g) /\ UNCHANGED eliminationVars)
    <2>1. Callers(E)' /\ HeadTypeOK'
      BY <1>1, <1>3, TreiberTypes DEF Push, Pop, Load
    <2>2. UNCHANGED eliminationVars
      BY <1>3 DEF Push, Pop, Load
    <2>3. \A h \in Goroutine : pc'[h] \in {"visit", "wait"} => pc[h] = pc'[h]
      BY <1>1, <1>3 DEF Push, Pop, Load, TreiberPush, TreiberPop, TreiberLoad, SwingHead,
                        Start, Goto, Finish
    <2> QED BY <1>2, <2>1, <2>2, <2>3
  <1>4. CASE LoadNil(g) \/ (/\ head # prev[g]
                            /\ Goto(g, "cas", "visit")
                            /\ Begin(g)
                            /\ UNCHANGED headVars)
    <2>1. Goto(g, "load", "visit") \/ Goto(g, "cas", "visit")
      BY <1>4 DEF LoadNil
    <2>2. Callers(E)'
      BY <2>1, GotoTypes DEF EliminationPoints
    <2>3. HeadTypeOK'
      <3>1. CASE LoadNil(g)
        BY <3>1 DEF LoadNil, HeadTypeOK, NoTop, zero
      <3>2. CASE UNCHANGED headVars
        BY <1>1, <3>2, HeadTypes
      <3> QED BY <1>4, <3>1, <3>2
    <2>4. Begin(g)
      BY <1>4 DEF LoadNil
    <2>5. ArrayTypes' /\ Counted'
      BY <1>1, <2>1, <2>4 DEF Begin, ArrayTypes, Counted, Goto
    <2> QED BY <2>2, <2>3, <2>5
  <1>5. CASE Recheck(g)
    <2>1. Finish(g, "recheck", None) \/ Goto(g, "recheck", "load")
      BY <1>5 DEF Recheck
    <2>2. Callers(E)'
      BY <1>1, <2>1, NoneType, FinishTypes, GotoTypes DEF EliminationPoints
    <2>3. UNCHANGED <<headVars, eliminationVars>>
      BY <1>5 DEF Recheck
    <2>4. \A h \in Goroutine : pc'[h] \in {"visit", "wait"} => pc[h] = pc'[h]
      BY <1>1, <2>1 DEF Finish, Goto
    <2> QED BY <1>1, <1>2, <2>2, <2>3, <2>4, HeadTypes
  <1>6. ASSUME NEW from \in {"visit", "wait"}, VisitFails(g, from),
               UNCHANGED <<at, kind, value, done, headVars, curr>>,
               slot' \in [Slot -> Op \cup {Nil}], mine' \in [Goroutine -> Op \cup {Nil}]
        PROVE  Callers(E)' /\ HeadTypeOK' /\ ArrayTypes' /\ Counted'
    <2>1. PICK to \in {"visit", "recheck", "load"} :
            /\ Goto(g, from, to) /\ (to = "visit" => tries[g] > 1)
            /\ tries' = [tries EXCEPT ![g] = @ - 1]
      <3>1. /\ tries' = [tries EXCEPT ![g] = @ - 1]
            /\ Goto(g, from, IF tries[g] > 1 THEN "visit"
                             ELSE IF op[g] = "pop" /\ prev[g] = Nil THEN "recheck"
                             ELSE "load")
        BY <1>6 DEF VisitFails
      <3>2. CASE tries[g] > 1
        BY <3>1, <3>2
      <3>3. CASE ~(tries[g] > 1)
        BY <3>1, <3>3
      <3> QED BY <3>2, <3>3
    <2>2. pc[g] = from /\ tries[g] \in 1 .. Attempts
      BY <1>6, <2>1 DEF Goto, Counted, ArrayTypes
    <2>3. Callers(E)'
      BY <1>6, <2>1, GotoTypes DEF EliminationPoints
    <2>4. tries' \in [Goroutine -> 0 .. Attempts]
      BY <1>1, <2>1, <2>2 DEF ArrayTypes
    <2>5. ArrayTypes'
      BY <1>6, <2>4 DEF ArrayTypes
    <2>6. Counted'
      BY <1>1, <2>1, <2>2 DEF Counted, Goto, ArrayTypes
    <2>7. HeadTypeOK'
      BY <1>1, <1>6, HeadTypes
    <2> QED BY <2>3, <2>5, <2>6, <2>7
  <1>7. ASSUME NEW s \in Slot, Install(g, s)
        PROVE  Callers(E)' /\ HeadTypeOK' /\ ArrayTypes' /\ Counted'
    <2>1. FreshOp \in Op
      BY <1>7, FreshOpFacts DEF Install
    <2>2. pc[g] = "visit" /\ op[g] \in {"push", "pop"}
      BY <1>7 DEF Install, Goto, Callers
    <2>3. Callers(E)'
      BY <1>7, GotoTypes DEF Install, EliminationPoints
    <2>4. ArrayTypes'
      BY <1>1, <1>7, <2>1, <2>2 DEF Install, ArrayTypes
    <2>5. Counted'
      BY <1>1, <1>7, <2>2 DEF Install, Counted, Goto
    <2>6. HeadTypeOK'
      BY <1>1, <1>7, HeadTypes DEF Install
    <2> QED BY <2>3, <2>4, <2>5, <2>6
  <1>8. ASSUME NEW s \in Slot, Clash(g, s)
        PROVE  Callers(E)' /\ HeadTypeOK' /\ ArrayTypes' /\ Counted'
    <2>1. VisitFails(g, "visit") /\ UNCHANGED <<slot, mine, curr, at, kind, value, done, headVars>>
      BY <1>8 DEF Clash
    <2> QED BY <1>6, <2>1 DEF ArrayTypes
  <1>9. ASSUME NEW s \in Slot, Take(g, s)
        PROVE  Callers(E)' /\ HeadTypeOK' /\ ArrayTypes' /\ Counted'
    <2>1. slot[s] \in Op /\ value[slot[s]] \in Nat
      BY <1>9 DEF Take, ArrayTypes
    <2>2. \/ Goto(g, "visit", "give")
          \/ /\ pc[g] = "visit"
             /\ pc' = [pc EXCEPT ![g] = "signal"]
             /\ ret' = [ret EXCEPT ![g] = <<value[slot[s]], TRUE>>]
             /\ UNCHANGED <<calls, op, arg>>
      BY <1>9 DEF Take
    <2>3. Callers(E)'
      BY <2>1, <2>2, GotoTypes, TakeTypes DEF EliminationPoints
    <2>4. ArrayTypes'
      BY <1>9, <2>1 DEF Take, ArrayTypes
    <2>5. Counted'
      BY <1>1, <1>9, <2>2 DEF Take, Counted, Goto
    <2>6. HeadTypeOK'
      BY <1>1, <1>9, HeadTypes DEF Take
    <2> QED BY <2>3, <2>4, <2>5, <2>6
  <1>10. CASE Give(g)
    <2>1. Callers(E)'
      BY <1>10, GotoTypes DEF Give, EliminationPoints
    <2>2. ArrayTypes'
      BY <1>1, <1>10 DEF Give, ArrayTypes
    <2>3. Counted'
      BY <1>1, <1>10 DEF Give, Counted, Goto
    <2>4. HeadTypeOK'
      BY <1>1, <1>10, HeadTypes DEF Give
    <2> QED BY <2>1, <2>2, <2>3, <2>4
  <1>11. CASE Signal(g)
    <2>1. Callers(E)'
      BY <1>1, <1>11, FinishTypes DEF Signal
    <2>2. ArrayTypes'
      BY <1>1, <1>11 DEF Signal, ArrayTypes
    <2>3. Counted'
      BY <1>1, <1>11 DEF Signal, Counted, Finish
    <2>4. HeadTypeOK'
      BY <1>1, <1>11, HeadTypes DEF Signal
    <2> QED BY <2>1, <2>2, <2>3, <2>4
  <1>12. ASSUME NEW from \in {"wait", "wait2"}, Matched(g, from)
         PROVE  Callers(E)' /\ HeadTypeOK' /\ ArrayTypes' /\ Counted'
    <2>1. pc[g] = from /\ mine[g] \in Op
      BY <1>12 DEF Matched, Finish, Exchange, ArrayTypes
    <2>2. (IF op[g] = "pop" THEN <<value[mine[g]], TRUE>> ELSE None) \in Nat \X BOOLEAN
      BY <2>1, NoneType DEF ArrayTypes
    <2>3. Callers(E)'
      BY <1>1, <1>12, <2>2, FinishTypes DEF Matched
    <2>4. ArrayTypes'
      BY <1>12 DEF Matched, ArrayTypes
    <2>5. Counted'
      BY <1>1, <1>12 DEF Matched, Counted, Finish
    <2>6. HeadTypeOK'
      BY <1>1, <1>12, HeadTypes DEF Matched
    <2> QED BY <2>3, <2>4, <2>5, <2>6
  <1>13. CASE SeeDone(g) \/ SpinOut(g)
    BY <1>12, <1>13 DEF SeeDone, SpinOut
  <1>14. CASE Withdraw(g)
    <2>1. CASE /\ VisitFails(g, "wait")
               /\ slot' = [slot EXCEPT ![at[g]] = Nil]
               /\ mine' = [mine EXCEPT ![g] = Nil]
               /\ UNCHANGED <<curr, at, kind, value, done, headVars>>
      <3>1. slot' \in [Slot -> Op \cup {Nil}] /\ mine' \in [Goroutine -> Op \cup {Nil}]
        BY <2>1 DEF ArrayTypes
      <3> QED BY <1>6, <2>1, <3>1
    <2>2. CASE Goto(g, "wait", "wait2") /\ UNCHANGED <<headVars, eliminationVars>>
      <3>1. Callers(E)'
        BY <2>2, GotoTypes DEF EliminationPoints
      <3>2. \A h \in Goroutine : pc'[h] \in {"visit", "wait"} => pc[h] = pc'[h]
        BY <1>1, <2>2 DEF Goto
      <3> QED BY <1>1, <1>2, <2>2, <3>1, <3>2, HeadTypes
    <2> QED BY <1>14, <2>1, <2>2 DEF Withdraw
  <1>15. CASE Return(g)
    <2>1. Callers(E)'
      BY <1>1, <1>15, LeaveTypes DEF Return
    <2>2. \A h \in Goroutine : pc'[h] \in {"visit", "wait"} => pc[h] = pc'[h]
      BY <1>1, <1>15 DEF Return, Leave
    <2> QED BY <1>1, <1>2, <1>15, <2>1, <2>2, HeadTypes DEF Return
  <1> QED BY <1>3, <1>4, <1>5, <1>7, <1>8, <1>9, <1>10, <1>11, <1>13, <1>14, <1>15
             DEF Call, Work, CASHead

(* Outside the array a step touches neither an op nor whoever holds one.   *)
Partners == {"wait", "wait2", "give", "signal"}

LEMMA Bystanders ==
  ASSUME Exchange, NEW S, pc \in [Goroutine -> S], NEW g \in Goroutine,
         NEW to, to \notin Partners, pc[g] \notin Partners,
         pc' = [pc EXCEPT ![g] = to], UNCHANGED <<slot, mine, curr, at, done>>
  PROVE  Exchange'
  <1>1. \A h \in Goroutine : pc'[h] # pc[h] => pc[h] \notin Partners /\ pc'[h] \notin Partners
    OBVIOUS
  <1> QED BY <1>1 DEF Exchange, Partners

LEMMA VisitExchange ==
  ASSUME Callers(EliminationPoints), ArrayTypes, Exchange,
         NEW g \in Goroutine, Call(g) \/ Work(g)
  PROVE  Exchange'
  <1>1. /\ pc \in [Goroutine -> EliminationPoints] /\ Nil \notin Op
        /\ slot \in [Slot -> Op \cup {Nil}] /\ at \in [Goroutine -> Slot]
        /\ mine \in [Goroutine -> Op \cup {Nil}] /\ curr \in [Goroutine -> Op \cup {Nil}]
        /\ done \in [Op -> BOOLEAN]
    BY EliminationAssumption DEF Callers, ArrayTypes
  <1>2. CASE \/ Push(g) \/ Pop(g) \/ Load(g) \/ LoadNil(g) \/ CASHead(g)
             \/ Recheck(g) \/ Return(g)
    <2>1. PICK to \in {"idle", "done", "load", "cas", "visit", "recheck"} :
            /\ pc' = [pc EXCEPT ![g] = to]
            /\ pc[g] \in {"idle", "done", "load", "cas", "recheck"}
      BY <1>2 DEF Push, Pop, Load, LoadNil, CASHead, Recheck, Return, TreiberPush, TreiberPop,
                  TreiberLoad, SwingHead, Start, Goto, Finish, Leave
    <2>2. UNCHANGED <<slot, mine, curr, at, done>>
      BY <1>2 DEF Push, Pop, Load, LoadNil, CASHead, Recheck, Return, Begin, eliminationVars
    <2> QED BY <1>1, <2>1, <2>2, Bystanders DEF Partners
  <1>3. ASSUME NEW s \in Slot, Clash(g, s)
        PROVE  Exchange'
    <2>1. PICK to \in {"visit", "recheck", "load"} : pc' = [pc EXCEPT ![g] = to]
      BY <1>3 DEF Clash, VisitFails, Goto
    <2>2. pc[g] = "visit" /\ UNCHANGED <<slot, mine, curr, at, done>>
      BY <1>3 DEF Clash, VisitFails, Goto
    <2> QED BY <1>1, <2>1, <2>2, Bystanders DEF Partners
  <1>4. ASSUME NEW s \in Slot, Install(g, s)
        PROVE  Exchange'
    <2>1. /\ FreshOp \in Op /\ FreshOp # Nil
          /\ \A t \in Slot : slot[t] # FreshOp
          /\ \A h \in Goroutine : mine[h] # FreshOp /\ curr[h] # FreshOp
      BY <1>4, FreshOpFacts DEF Install
    <2>2. /\ pc[g] = "visit" /\ pc' = [pc EXCEPT ![g] = "wait"]
          /\ slot' = [slot EXCEPT ![s] = FreshOp] /\ mine' = [mine EXCEPT ![g] = FreshOp]
          /\ at' = [at EXCEPT ![g] = s] /\ done' = [done EXCEPT ![FreshOp] = FALSE]
          /\ curr' = curr
      BY <1>4 DEF Install, Goto
    <2>3. \A t \in Slot : slot'[t] # Nil =>
            \E h \in Goroutine : mine'[h] = slot'[t] /\ at'[h] = t /\ pc'[h] = "wait"
      BY <1>1, <2>1, <2>2 DEF Exchange
    <2>4. \A o \in Op : o # FreshOp => done'[o] = done[o]
      BY <1>1, <2>2
    <2>5. done'[FreshOp] = FALSE
      BY <1>1, <2>1, <2>2
    <2>6. \A t \in Slot : slot'[t] # Nil =>
            ~done'[slot'[t]] /\ \A h \in Goroutine : curr'[h] # slot'[t]
      BY <1>1, <2>1, <2>2, <2>4, <2>5 DEF Exchange
    <2>7. \A h \in Goroutine : pc'[h] = "give" => ~done'[curr'[h]]
      BY <1>1, <2>1, <2>2, <2>4 DEF Exchange
    <2>8. /\ \A h \in Goroutine : mine'[h] # Nil <=> pc'[h] \in {"wait", "wait2"}
          /\ \A h \in Goroutine : curr'[h] # Nil <=> pc'[h] \in {"give", "signal"}
      BY <1>1, <2>1, <2>2 DEF Exchange
    <2>9. /\ \A h, k \in Goroutine : mine'[h] # Nil /\ mine'[h] = mine'[k] => h = k
          /\ \A h, k \in Goroutine : curr'[h] # Nil /\ curr'[h] = curr'[k] => h = k
      BY <1>1, <2>1, <2>2 DEF Exchange
    <2> QED BY <2>3, <2>6, <2>7, <2>8, <2>9 DEF Exchange
  <1>5. ASSUME NEW s \in Slot, Take(g, s)
        PROVE  Exchange'
    <2>1. PICK to \in {"give", "signal"} : pc[g] = "visit" /\ pc' = [pc EXCEPT ![g] = to]
      BY <1>5 DEF Take, Goto
    <2>2. /\ slot[s] # Nil /\ slot' = [slot EXCEPT ![s] = Nil]
          /\ curr' = [curr EXCEPT ![g] = slot[s]] /\ UNCHANGED <<mine, at, done>>
      BY <1>5 DEF Take
    <2>3. ~done[slot[s]] /\ \A h \in Goroutine : curr[h] # slot[s]
      BY <2>2 DEF Exchange
    <2>4. \A t \in Slot : t # s /\ slot[t] # Nil => slot[t] # slot[s]
      BY <2>2 DEF Exchange
    <2>5. \A t \in Slot : slot'[t] # Nil => t # s /\ slot'[t] = slot[t]
      BY <1>1, <2>2
    <2>6. \A h \in Goroutine : curr'[h] = IF h = g THEN slot[s] ELSE curr[h]
      BY <1>1, <2>2
    <2>7. \A h \in Goroutine : pc'[h] = IF h = g THEN to ELSE pc[h]
      BY <1>1, <2>1
    <2>8. \A t \in Slot : slot'[t] # Nil =>
            /\ ~done'[slot'[t]]
            /\ \A h \in Goroutine : curr'[h] # slot'[t]
            /\ \E h \in Goroutine : mine'[h] = slot'[t] /\ at'[h] = t /\ pc'[h] = "wait"
      BY <2>1, <2>2, <2>4, <2>5, <2>6, <2>7 DEF Exchange
    <2>9. /\ \A h \in Goroutine : mine'[h] # Nil <=> pc'[h] \in {"wait", "wait2"}
          /\ \A h \in Goroutine : curr'[h] # Nil <=> pc'[h] \in {"give", "signal"}
      BY <2>1, <2>2, <2>6, <2>7 DEF Exchange
    <2>10. /\ \A h, k \in Goroutine : mine'[h] # Nil /\ mine'[h] = mine'[k] => h = k
           /\ \A h, k \in Goroutine : curr'[h] # Nil /\ curr'[h] = curr'[k] => h = k
           /\ \A h \in Goroutine : pc'[h] = "give" => ~done'[curr'[h]]
      BY <2>2, <2>3, <2>6, <2>7 DEF Exchange
    <2> QED BY <2>8, <2>9, <2>10 DEF Exchange
  <1>6. CASE Give(g)
    <2>1. /\ pc[g] = "give" /\ pc' = [pc EXCEPT ![g] = "signal"]
          /\ UNCHANGED <<slot, mine, curr, at, done>>
      BY <1>6 DEF Give, Goto
    <2>2. \A h \in Goroutine : pc'[h] = IF h = g THEN "signal" ELSE pc[h]
      BY <1>1, <2>1
    <2> QED BY <2>1, <2>2 DEF Exchange
  <1>7. CASE Signal(g)
    <2>1. /\ pc[g] = "signal" /\ pc' = [pc EXCEPT ![g] = "done"]
          /\ done' = [done EXCEPT ![curr[g]] = TRUE] /\ curr' = [curr EXCEPT ![g] = Nil]
          /\ UNCHANGED <<slot, mine, at>>
      BY <1>7 DEF Signal, Finish
    <2>2. curr[g] \in Op /\ curr[g] # Nil
      BY <1>1, <2>1 DEF Exchange
    <2>3. \A o \in Op : o # curr[g] => done'[o] = done[o]
      BY <1>1, <2>1
    <2>4. \A h \in Goroutine : pc'[h] = IF h = g THEN "done" ELSE pc[h]
      BY <1>1, <2>1
    <2>5. \A h \in Goroutine : curr'[h] = IF h = g THEN Nil ELSE curr[h]
      BY <1>1, <2>1
    <2>6. \A h \in Goroutine : pc'[h] = "give" => ~done'[curr'[h]]
      BY <1>1, <2>1, <2>2, <2>3, <2>4, <2>5 DEF Exchange
    <2>7. \A t \in Slot : slot'[t] # Nil =>
            /\ ~done'[slot'[t]]
            /\ \A h \in Goroutine : curr'[h] # slot'[t]
            /\ \E h \in Goroutine : mine'[h] = slot'[t] /\ at'[h] = t /\ pc'[h] = "wait"
      BY <1>1, <2>1, <2>2, <2>3, <2>4, <2>5 DEF Exchange
    <2>8. /\ \A h \in Goroutine : mine'[h] # Nil <=> pc'[h] \in {"wait", "wait2"}
          /\ \A h \in Goroutine : curr'[h] # Nil <=> pc'[h] \in {"give", "signal"}
          /\ \A h, k \in Goroutine : mine'[h] # Nil /\ mine'[h] = mine'[k] => h = k
          /\ \A h, k \in Goroutine : curr'[h] # Nil /\ curr'[h] = curr'[k] => h = k
      BY <2>1, <2>4, <2>5 DEF Exchange
    <2> QED BY <2>6, <2>7, <2>8 DEF Exchange
  <1>8. ASSUME pc[g] \in {"wait", "wait2"}, NEW to, to \notin Partners,
               pc' = [pc EXCEPT ![g] = to], mine' = [mine EXCEPT ![g] = Nil],
               slot' \in [Slot -> Op \cup {Nil}],
               \A t \in Slot : slot'[t] # Nil => slot'[t] = slot[t] /\ slot[t] # mine[g],
               UNCHANGED <<curr, at, done>>
        PROVE  Exchange'
    <2>1. \A h \in Goroutine : pc'[h] = IF h = g THEN to ELSE pc[h]
      BY <1>1, <1>8
    <2>2. \A h \in Goroutine : mine'[h] = IF h = g THEN Nil ELSE mine[h]
      BY <1>1, <1>8
    <2>3. \A t \in Slot : slot'[t] # Nil =>
            /\ ~done'[slot'[t]]
            /\ \A h \in Goroutine : curr'[h] # slot'[t]
            /\ \E h \in Goroutine : mine'[h] = slot'[t] /\ at'[h] = t /\ pc'[h] = "wait"
      BY <1>8, <2>1, <2>2 DEF Exchange
    <2>4. /\ \A h \in Goroutine : mine'[h] # Nil <=> pc'[h] \in {"wait", "wait2"}
          /\ \A h \in Goroutine : curr'[h] # Nil <=> pc'[h] \in {"give", "signal"}
          /\ \A h \in Goroutine : pc'[h] = "give" => ~done'[curr'[h]]
      BY <1>8, <2>1, <2>2 DEF Exchange, Partners
    <2>5. /\ \A h, k \in Goroutine : mine'[h] # Nil /\ mine'[h] = mine'[k] => h = k
          /\ \A h, k \in Goroutine : curr'[h] # Nil /\ curr'[h] = curr'[k] => h = k
      BY <1>8, <2>2 DEF Exchange
    <2> QED BY <2>3, <2>4, <2>5 DEF Exchange
  <1>9. ASSUME NEW from \in {"wait", "wait2"}, Matched(g, from),
               done[mine[g]] \/ from = "wait2"
        PROVE  Exchange'
    <2>1. /\ pc[g] = from /\ pc' = [pc EXCEPT ![g] = "done"]
          /\ mine' = [mine EXCEPT ![g] = Nil] /\ UNCHANGED <<slot, curr, at, done>>
      BY <1>9 DEF Matched, Finish
    <2>2. mine[g] # Nil
      BY <2>1 DEF Exchange
    <2>3. \A t \in Slot : slot[t] # Nil => slot[t] # mine[g]
      BY <1>9, <2>1, <2>2 DEF Exchange
    <2> QED BY <1>1, <1>8, <2>1, <2>3 DEF Partners
  <1>10. CASE SeeDone(g) \/ SpinOut(g)
    BY <1>9, <1>10 DEF SeeDone, SpinOut
  <1>11. CASE Withdraw(g)
    <2>1. CASE /\ pc[g] = "wait" /\ slot[at[g]] = mine[g]
               /\ VisitFails(g, "wait")
               /\ slot' = [slot EXCEPT ![at[g]] = Nil]
               /\ mine' = [mine EXCEPT ![g] = Nil]
               /\ UNCHANGED <<curr, at, kind, value, done, headVars>>
      <3>1. PICK to \in {"visit", "recheck", "load"} : pc' = [pc EXCEPT ![g] = to]
        BY <2>1 DEF VisitFails, Goto
      <3>2. mine[g] # Nil /\ at[g] \in Slot
        BY <1>1, <2>1 DEF Exchange
      <3>3. \A t \in Slot : t # at[g] => slot[t] # mine[g]
        BY <3>2 DEF Exchange
      <3>4. \A t \in Slot : slot'[t] # Nil => slot'[t] = slot[t] /\ slot[t] # mine[g]
        BY <1>1, <2>1, <3>2, <3>3
      <3>5. slot' \in [Slot -> Op \cup {Nil}]
        BY <1>1, <2>1
      <3> QED BY <1>8, <2>1, <3>1, <3>4, <3>5 DEF Partners
    <2>2. CASE slot[at[g]] # mine[g] /\ Goto(g, "wait", "wait2")
                 /\ UNCHANGED <<headVars, eliminationVars>>
      <3>1. /\ pc[g] = "wait" /\ pc' = [pc EXCEPT ![g] = "wait2"]
            /\ UNCHANGED <<slot, mine, curr, at, done>>
        BY <2>2 DEF Goto, eliminationVars
      <3>2. \A h \in Goroutine : pc'[h] = IF h = g THEN "wait2" ELSE pc[h]
        BY <1>1, <3>1
      <3>3. \A t \in Slot : slot[t] # Nil =>
              \E h \in Goroutine : mine[h] = slot[t] /\ at[h] = t /\ pc'[h] = "wait"
        BY <2>2, <3>1, <3>2 DEF Exchange
      <3> QED BY <3>1, <3>2, <3>3 DEF Exchange
    <2> QED BY <1>11, <2>1, <2>2 DEF Withdraw
  <1> QED BY <1>2, <1>3, <1>4, <1>5, <1>6, <1>7, <1>10, <1>11 DEF Call, Work
-----------------------------------------------------------------------------
(* The list or slice under a mutex.  A Push under the mutex carries the    *)
(* number of its call.                                                     *)

MutexTypes ==
  /\ rep \in Seq(1 .. MaxCalls)
  /\ calls \in 0 .. MaxCalls
  /\ \A g \in Goroutine : pc[g] = "locked" /\ op[g] = "push" => arg[g] \in 1 .. MaxCalls

LEMMA LockedTypes ==
  ASSUME Callers(MutexPoints), MutexTypes, NEW g \in Goroutine, MutexCall(g) \/ MutexWork(g)
  PROVE  Callers(MutexPoints)' /\ MutexTypes'
  <1>1. /\ "locked" \in MutexPoints /\ "done" \in MutexPoints /\ "idle" \in MutexPoints
        /\ MaxCalls \in Nat /\ pc \in [Goroutine -> MutexPoints] /\ ClientTypeOK
    BY MaxCallsAssumption DEF MutexPoints, Callers
  <1>2. ASSUME NEW to \in {"done", "idle"}, pc' = [pc EXCEPT ![g] = to],
               UNCHANGED <<calls, op, arg>>, rep' \in Seq(1 .. MaxCalls)
        PROVE  MutexTypes'
    BY <1>1, <1>2 DEF MutexTypes
  <1>3. CASE MutexCall(g)
    <2>1. PICK k \in {"push", "pop"} : Start(g, k, "locked")
      BY <1>3 DEF MutexCall
    <2>2. Callers(MutexPoints)'
      BY <1>1, <2>1, StartTypes
    <2>3. rep' = rep
      BY <1>3 DEF MutexCall, mutexVars
    <2>4. calls < MaxCalls /\ calls' = calls + 1
      BY <2>1 DEF Start
    <2>5. calls' \in 0 .. MaxCalls
      BY <1>1, <2>4 DEF MutexTypes
    <2>6. k = "push" => arg' = [arg EXCEPT ![g] = calls + 1]
      BY <2>1 DEF Start, Puts
    <2>7. \A h \in Goroutine : pc'[h] = "locked" /\ op'[h] = "push" => arg'[h] \in 1 .. MaxCalls
      <3>1. SUFFICES ASSUME NEW h \in Goroutine, pc'[h] = "locked", op'[h] = "push"
                     PROVE  arg'[h] \in 1 .. MaxCalls
        OBVIOUS
      <3>2. CASE h = g
        <4>1. k = "push"
          BY <1>1, <2>1, <3>1, <3>2 DEF Start, ClientTypeOK
        <4>2. arg'[h] = calls + 1
          BY <1>1, <2>6, <3>2, <4>1 DEF ClientTypeOK
        <4> QED BY <1>1, <2>4, <4>2 DEF MutexTypes
      <3>3. CASE h # g
        BY <1>1, <2>1, <3>1, <3>3 DEF Start, ClientTypeOK, MutexTypes
      <3> QED BY <3>2, <3>3
    <2> QED BY <2>2, <2>3, <2>5, <2>7 DEF MutexTypes
  <1>4. CASE MutexPush(g)
    <2>1. pc[g] = "locked" /\ op[g] = "push" /\ Finish(g, "locked", None)
      BY <1>4 DEF MutexPush, Finish
    <2>2. arg[g] \in 1 .. MaxCalls
      BY <2>1 DEF MutexTypes
    <2>3. rep' = <<arg[g]>> \o rep \/ rep' = Append(rep, arg[g])
      BY <1>4 DEF MutexPush
    <2>4. <<arg[g]>> \in Seq(1 .. MaxCalls)
      BY <2>2
    <2>5. rep' \in Seq(1 .. MaxCalls)
      <3>1. rep \in Seq(1 .. MaxCalls)
        BY DEF MutexTypes
      <3>2. <<arg[g]>> \o rep \in Seq(1 .. MaxCalls)
        BY <2>4, <3>1, ConcatProperties
      <3>3. Append(rep, arg[g]) \in Seq(1 .. MaxCalls)
        BY <2>2, <3>1, AppendProperties
      <3> QED BY <2>3, <3>2, <3>3
    <2>6. Callers(MutexPoints)'
      BY <1>1, <2>1, NoneType, FinishTypes
    <2> QED BY <1>2, <2>1, <2>5, <2>6 DEF Finish
  <1>5. CASE MutexPop(g)
    <2>1. \/ Finish(g, "locked", None) /\ rep' = rep
          \/ /\ rep # <<>> /\ Finish(g, "locked", <<Head(rep), TRUE>>)
             /\ rep' = Tail(rep)
          \/ /\ rep # <<>> /\ Finish(g, "locked", <<rep[Len(rep)], TRUE>>)
             /\ rep' = SubSeq(rep, 1, Len(rep) - 1)
      BY <1>5 DEF MutexPop
    <2>2. rep # <<>> => /\ Len(rep) \in Nat \ {0} /\ Head(rep) \in 1 .. MaxCalls
                        /\ Tail(rep) \in Seq(1 .. MaxCalls)
                        /\ rep[Len(rep)] \in 1 .. MaxCalls
                        /\ SubSeq(rep, 1, Len(rep) - 1) \in Seq(1 .. MaxCalls)
      <3>1. SUFFICES ASSUME rep # <<>>
                     PROVE  /\ Len(rep) \in Nat \ {0} /\ Head(rep) \in 1 .. MaxCalls
                            /\ Tail(rep) \in Seq(1 .. MaxCalls)
                            /\ rep[Len(rep)] \in 1 .. MaxCalls
                            /\ SubSeq(rep, 1, Len(rep) - 1) \in Seq(1 .. MaxCalls)
        OBVIOUS
      <3>2. rep \in Seq(1 .. MaxCalls) /\ Len(rep) \in Nat \ {0}
        BY <3>1, EmptySeq DEF MutexTypes
      <3>3. \A i \in 1 .. Len(rep) : rep[i] \in 1 .. MaxCalls
        BY <3>2, ElementOfSeq
      <3>4. Head(rep) \in 1 .. MaxCalls /\ Tail(rep) \in Seq(1 .. MaxCalls)
        BY <3>1, <3>2, HeadTailProperties
      <3>5. SubSeq(rep, 1, Len(rep) - 1) \in Seq(1 .. MaxCalls)
        BY <3>2, <3>3, SubSeqProperties
      <3> QED BY <3>2, <3>3, <3>4, <3>5
    <2>3. ASSUME NEW x \in 1 .. MaxCalls
          PROVE  <<x, TRUE>> \in Nat \X BOOLEAN
      <3>1. x \in Nat
        BY <1>1
      <3> QED BY <3>1
    <2>4. Callers(MutexPoints)'
      <3>1. Head(rep) \in 1 .. MaxCalls => <<Head(rep), TRUE>> \in Nat \X BOOLEAN
        BY <2>3
      <3>2. rep[Len(rep)] \in 1 .. MaxCalls => <<rep[Len(rep)], TRUE>> \in Nat \X BOOLEAN
        BY <2>3
      <3> QED BY <1>1, <2>1, <2>2, <3>1, <3>2, NoneType, FinishTypes
    <2>5. rep' \in Seq(1 .. MaxCalls)
      BY <2>1, <2>2 DEF MutexTypes
    <2>6. pc' = [pc EXCEPT ![g] = "done"] /\ UNCHANGED <<calls, op, arg>>
      BY <2>1 DEF Finish
    <2> QED BY <1>2, <2>4, <2>5, <2>6
  <1>6. CASE MutexReturn(g)
    <2>1. Leave(g) /\ rep' = rep
      BY <1>6 DEF MutexReturn, mutexVars
    <2>2. Callers(MutexPoints)'
      BY <1>1, <2>1, LeaveTypes
    <2>3. rep' \in Seq(1 .. MaxCalls)
      BY <2>1 DEF MutexTypes
    <2> QED BY <1>2, <2>1, <2>2, <2>3 DEF Leave
  <1> QED BY <1>3, <1>4, <1>5, <1>6 DEF MutexWork
-----------------------------------------------------------------------------
(* The invariant of every stack.  What a stack does not use keeps its      *)
(* first value, so that the list and the array are typed throughout.       *)

FamilyInv ==
  /\ impl = "LockFree"    => Callers(TreiberPoints)
  /\ impl = "Elimination" => Callers(EliminationPoints) /\ Counted
  /\ impl = "Mutex"       => Callers(MutexPoints) /\ MutexTypes
  /\ HeadTypeOK /\ ArrayTypes /\ Exchange

LEMMA FamilyInitInv == FamilyInit => FamilyInv
  <1> SUFFICES ASSUME FamilyInit PROVE FamilyInv
    OBVIOUS
  <1>1. /\ ClientInit /\ HeadInit /\ rep = <<>>
        /\ slot = [s \in Slot |-> Nil] /\ mine = [g \in Goroutine |-> Nil]
        /\ curr = [g \in Goroutine |-> Nil] /\ tries = [g \in Goroutine |-> 0]
        /\ at = [g \in Goroutine |-> CHOOSE s \in Slot : TRUE]
        /\ kind = [o \in Op |-> "pop"] /\ value = [o \in Op |-> zero]
        /\ done = [o \in Op |-> FALSE]
    BY DEF FamilyInit, Init, MutexInit
  <1>2. pc = [g \in Goroutine |-> "idle"] /\ calls = 0
    BY <1>1 DEF ClientInit
  <1>3. ClientTypeOK
    BY <1>1, NoneType DEF ClientInit, ClientTypeOK, zero
  <1>4. Callers(TreiberPoints) /\ Callers(EliminationPoints) /\ Callers(MutexPoints)
    BY <1>2, <1>3 DEF Callers, TreiberPoints, EliminationPoints, MutexPoints
  <1>5. Counted
    BY <1>2 DEF Counted
  <1>6. MutexTypes
    BY <1>1, <1>2, MaxCallsAssumption, EmptySeq DEF MutexTypes
  <1>7. HeadTypeOK
    BY <1>1 DEF HeadInit, HeadTypeOK, NoTop, zero
  <1>8. (CHOOSE s \in Slot : TRUE) \in Slot
    BY EliminationAssumption
  <1>9. ArrayTypes
    BY <1>1, <1>8, EliminationAssumption DEF ArrayTypes, zero
  <1>10. Exchange
    BY <1>1, <1>2 DEF Exchange
  <1> QED BY <1>4, <1>5, <1>6, <1>7, <1>9, <1>10 DEF FamilyInv

LEMMA FamilyStepInv == FamilyInv /\ [FamilyNext]_vars => FamilyInv'
  <1> SUFFICES ASSUME FamilyInv, [FamilyNext]_vars PROVE FamilyInv'
    OBVIOUS
  <1>1. CASE UNCHANGED vars
    BY <1>1 DEF vars, clientVars, headVars, eliminationVars, mutexVars, FamilyInv, Callers,
                ClientTypeOK, HeadTypeOK, ArrayTypes, Counted, MutexTypes, Exchange
  <1>2. ASSUME NEW g \in Goroutine, TreiberCall(g) \/ TreiberWork(g), UsesLockFree
        PROVE  FamilyInv'
    <2>1. impl = "LockFree" /\ impl' = impl /\ UNCHANGED eliminationVars
      BY <1>2 DEF UsesLockFree
    <2>2. Callers(TreiberPoints) /\ pc \in [Goroutine -> TreiberPoints] /\ HeadTypeOK
      BY <2>1 DEF FamilyInv, Callers
    <2>3. Callers(TreiberPoints)' /\ HeadTypeOK'
      BY <1>2, <2>2, TreiberTypes DEF TreiberCall, TreiberWork
    <2>4. ArrayTypes'
      BY <2>1 DEF FamilyInv, ArrayTypes, eliminationVars
    <2>5. PICK to \in TreiberPoints : pc' = [pc EXCEPT ![g] = to]
      BY <1>2 DEF TreiberCall, TreiberWork, TreiberPush, TreiberPop, TreiberLoad, TreiberEmpty,
                  TreiberCAS, SwingHead, TreiberReturn, Start, Goto, Finish, Leave, TreiberPoints
    <2>6. UNCHANGED <<slot, mine, curr, at, done>>
      BY <2>1 DEF eliminationVars
    <2>7. Exchange'
      BY <2>2, <2>5, <2>6, Bystanders DEF FamilyInv, Partners, TreiberPoints
    <2> QED BY <2>1, <2>3, <2>4, <2>7 DEF FamilyInv
  <1>3. ASSUME NEW g \in Goroutine, Call(g) \/ Work(g), UsesElimination
        PROVE  FamilyInv'
    <2>1. impl = "Elimination" /\ impl' = impl
      BY <1>3 DEF UsesElimination
    <2>2. Callers(EliminationPoints) /\ HeadTypeOK /\ ArrayTypes /\ Counted /\ Exchange
      BY <2>1 DEF FamilyInv
    <2>3. Callers(EliminationPoints)' /\ HeadTypeOK' /\ ArrayTypes' /\ Counted'
      BY <1>3, <2>2, VisitTypes
    <2>4. Exchange'
      BY <1>3, <2>2, VisitExchange
    <2> QED BY <2>1, <2>3, <2>4 DEF FamilyInv
  <1>4. ASSUME NEW g \in Goroutine, MutexCall(g) \/ MutexWork(g), UsesMutex
        PROVE  FamilyInv'
    <2>1. impl = "Mutex" /\ impl' = impl /\ UNCHANGED <<headVars, eliminationVars>>
      BY <1>4 DEF UsesMutex
    <2>2. Callers(MutexPoints) /\ MutexTypes /\ pc \in [Goroutine -> MutexPoints]
      BY <2>1 DEF FamilyInv, Callers
    <2>3. Callers(MutexPoints)' /\ MutexTypes'
      BY <1>4, <2>2, LockedTypes
    <2>4. HeadTypeOK' /\ ArrayTypes'
      BY <2>1 DEF FamilyInv, HeadTypeOK, ArrayTypes, headVars, eliminationVars
    <2>5. PICK to \in MutexPoints : pc' = [pc EXCEPT ![g] = to]
      BY <1>4 DEF MutexCall, MutexWork, MutexPush, MutexPop, MutexReturn, Start, Finish, Leave,
                  MutexPoints
    <2>6. UNCHANGED <<slot, mine, curr, at, done>>
      BY <2>1 DEF eliminationVars
    <2>7. Exchange'
      BY <2>2, <2>5, <2>6, Bystanders DEF FamilyInv, Partners, MutexPoints
    <2> QED BY <2>1, <2>3, <2>4, <2>7 DEF FamilyInv
  <1> QED BY <1>1, <1>2, <1>3, <1>4 DEF FamilyNext, FamilyCall, FamilyWork

LEMMA FamilyInvTypes == FamilyInv => FamilyTypeOK
  <1> SUFFICES ASSUME FamilyInv PROVE FamilyTypeOK
    OBVIOUS
  <1>1. impl = "Elimination" => TypeOK
    BY DEF FamilyInv, Callers, ArrayTypes, EliminationPoints, TypeOK
  <1>2. impl = "LockFree" => ClientTypeOK /\ HeadTypeOK /\ pc \in [Goroutine -> TreiberPoints]
    BY DEF FamilyInv, Callers
  <1>3. impl = "Mutex" => ClientTypeOK /\ rep \in Seq(1 .. MaxCalls)
    BY DEF FamilyInv, Callers, MutexTypes
  <1> QED BY <1>1, <1>2, <1>3 DEF FamilyTypeOK, TreiberPoints

LEMMA FamilyInvExchange == FamilyInv => ExchangeSafe
  <1> SUFFICES ASSUME FamilyInv PROVE ExchangeSafe
    OBVIOUS
  <1>1. Exchange /\ at \in [Goroutine -> Slot]
    BY DEF FamilyInv, ArrayTypes
  <1>2. ASSUME NEW g \in Goroutine, NEW h \in Goroutine, mine[g] # Nil, slot[at[g]] = mine[g]
        PROVE  curr[h] # mine[g]
    <2>1. at[g] \in Slot
      BY <1>1
    <2> QED BY <1>1, <1>2, <2>1 DEF Exchange
  <1> QED BY <1>1, <1>2 DEF Exchange, ExchangeSafe

LEMMA FamilyInvariant == FamilySpec => []FamilyInv
  <1>1. FamilyInit => FamilyInv
    BY FamilyInitInv
  <1>2. FamilyInv /\ [FamilyNext]_vars => FamilyInv'
    BY FamilyStepInv
  <1> QED BY <1>1, <1>2, PTL DEF FamilySpec

(* Every word of every stack keeps its type: the head and the links lead   *)
(* to nodes, the array holds ops, and the slice under the mutex only       *)
(* values that were pushed.                                                *)
THEOREM TypeCorrectness == FamilySpec => []FamilyTypeOK
  <1>1. FamilySpec => []FamilyInv
    BY FamilyInvariant
  <1>2. FamilyInv => FamilyTypeOK
    BY FamilyInvTypes
  <1> QED BY <1>1, <1>2, PTL

(* Two calls that meet in the elimination array exchange a value safely:   *)
(* an op has one partner at most, none while its owner can still withdraw  *)
(* it, and done is never set before the partner has written the value      *)
(* (elimination_backoff_mpmc.go:19-22), for any number of goroutines,      *)
(* slots and attempts, whether or not a pusher may stall.                  *)
THEOREM ExchangeIsSafe == FamilySpec => []ExchangeSafe
  <1>1. FamilySpec => []FamilyInv
    BY FamilyInvariant
  <1>2. FamilyInv => ExchangeSafe
    BY FamilyInvExchange
  <1> QED BY <1>1, <1>2, PTL
-----------------------------------------------------------------------------
(* The list as what a recursive function makes of the heap.  The heap has  *)
(* no cycle: every node has a rank above that of the next one.             *)

(* A set of naturals that is not empty has a least one; the library has    *)
(* this as an induction principle only.                                    *)
LEMMA NatMin ==
  ASSUME NEW T \in SUBSET Nat, T # {}
  PROVE  \E k \in T : \A j \in T : k <= j
  <1> DEFINE R == StrictSubsetOrdering(Nat)
             F == {0 .. k : k \in T}
  <1>1. \A k \in T : k \in Nat /\ 0 .. k \in SUBSET Nat /\ IsFiniteSet(0 .. k)
    BY FS_Interval
  <1>2. F \subseteq FiniteSubsetsOf(Nat) /\ F # {}
    BY <1>1 DEF FiniteSubsetsOf
  <1>3. IsWellFoundedOn(R, FiniteSubsetsOf(Nat))
    BY FS_StrictSubsetOrderingWellFounded
  <1>4. PICK x \in F : \A y \in F : ~(<<y, x>> \in R)
    <2> HIDE DEF F, R
    <2> QED BY <1>2, <1>3, WFMin
  <1>5. PICK k \in T : x = 0 .. k
    BY <1>4
  <1>6. ASSUME NEW j \in T PROVE k <= j
    <2>1. k \in Nat /\ j \in Nat /\ 0 .. k \in SUBSET Nat /\ 0 .. j \in SUBSET Nat
      BY <1>1
    <2>2. ~(<<0 .. j, 0 .. k>> \in R)
      BY <1>4, <1>5
    <2>3. ASSUME j < k PROVE <<0 .. j, 0 .. k>> \in R
      <3>1. k \in 0 .. k /\ k \notin 0 .. j /\ 0 .. j \subseteq 0 .. k
        BY <2>1, <2>3
      <3> DEFINE ss == <<0 .. j, 0 .. k>>
      <3>2. ss[1] = 0 .. j /\ ss[2] = 0 .. k /\ ss \in (SUBSET Nat) \X (SUBSET Nat)
        BY <2>1
      <3> QED BY <3>1, <3>2 DEF StrictSubsetOrdering
    <2> QED BY <2>1, <2>2, <2>3
  <1> QED BY <1>5, <1>6

Ranked(nx, r, b) ==
  /\ b \in Nat /\ r \in [Node \cup {Nil} -> 0 .. b]
  /\ \A n \in Node : r[nx[n]] < r[n]

Solves(f, D, w, nx) ==
  \A n \in D : f[n] = IF n = Nil THEN <<>> ELSE <<w[n]>> \o f[nx[n]]

(* A heap without a cycle has a list from each node, and the recursive     *)
(* function is one that solves its equation.                               *)
LEMMA Chains ==
  ASSUME NEW w \in [Node -> Nat], NEW nx \in [Node -> Node \cup {Nil}], NEW r, NEW b,
         Ranked(nx, r, b)
  PROVE  /\ \E f : /\ \A n \in Node \cup {Nil} : f[n] \in Seq(Nat)
                  /\ Solves(f, Node \cup {Nil}, w, nx)
         /\ \E f : f = [n \in Node \cup {Nil} |->
                       IF n = Nil THEN <<>> ELSE <<w[n]>> \o f[nx[n]]]
  <1> DEFINE Below(k) == {n \in Node \cup {Nil} : r[n] < k}
             Has(k) == \E f \in [Below(k) -> Seq(Nat)] : Solves(f, Below(k), w, nx)
             T == {k \in Nat : ~Has(k)}
  <1>1. b \in Nat /\ \A n \in Node \cup {Nil} : r[n] \in Nat /\ r[n] <= b
    BY DEF Ranked
  <1>2. T = {}
    <2> SUFFICES ASSUME T # {} PROVE FALSE
      OBVIOUS
    <2>1. PICK k \in T : \A j \in T : k <= j
      <3>1. T \in SUBSET Nat
        OBVIOUS
      <3> HIDE DEF T
      <3> QED BY <3>1, NatMin
    <2>2. k \in Nat /\ ~Has(k)
      OBVIOUS
    <2>3. k # 0
      <3>1. Below(0) = {}
        BY <1>1
      <3>2. [n \in {} |-> <<>>] \in [{} -> Seq(Nat)]
        OBVIOUS
      <3>3. Has(0)
        BY <3>1, <3>2 DEF Solves
      <3> QED BY <2>2, <3>3
    <2>4. k - 1 \in Nat /\ Has(k - 1)
      <3>1. k - 1 \in Nat
        BY <2>2, <2>3
      <3>2. k - 1 \notin T
        <4>1. ~(k <= k - 1)
          BY <2>2
        <4> HIDE DEF T
        <4> QED BY <2>1, <4>1
      <3> QED BY <3>1, <3>2
    <2>5. PICK f \in [Below(k - 1) -> Seq(Nat)] : Solves(f, Below(k - 1), w, nx)
      BY <2>4
    <2> DEFINE g == [n \in Below(k) |-> IF n = Nil THEN <<>> ELSE <<w[n]>> \o f[nx[n]]]
    <2>6. \A n \in Below(k) : n # Nil => n \in Node /\ nx[n] \in Below(k - 1) /\ nx[n] \in Below(k)
      BY <1>1, <2>2 DEF Ranked
    <2>7. g \in [Below(k) -> Seq(Nat)]
      <3>1. ASSUME NEW n \in Below(k), n # Nil PROVE <<w[n]>> \o f[nx[n]] \in Seq(Nat)
        <4>1. <<w[n]>> \in Seq(Nat) /\ f[nx[n]] \in Seq(Nat)
          BY <2>6, <3>1
        <4> QED BY <4>1, ConcatProperties
      <3>2. <<>> \in Seq(Nat)
        BY EmptySeq
      <3> QED BY <3>1, <3>2
    <2>8. \A n \in Below(k) : n \in Below(k - 1) => g[n] = f[n]
      BY <2>5 DEF Solves
    <2>9. Solves(g, Below(k), w, nx)
      <3> SUFFICES ASSUME NEW n \in Below(k)
                   PROVE  g[n] = IF n = Nil THEN <<>> ELSE <<w[n]>> \o g[nx[n]]
        BY DEF Solves
      <3>1. n # Nil => g[nx[n]] = f[nx[n]]
        BY <2>6, <2>8
      <3> QED BY <3>1
    <2> QED BY <2>2, <2>7, <2>9
  <1>3. Has(b + 1)
    <2>1. b + 1 \in Nat
      BY <1>1
    <2>2. b + 1 \notin T
      BY <1>2
    <2> QED BY <2>1, <2>2
  <1>4. Below(b + 1) = Node \cup {Nil}
    BY <1>1
  <1> QED BY <1>3, <1>4 DEF Solves

(* L is closed, and both heaps have the same nodes there. *)
Kept(L, w, nx, w2, nx2) ==
  \A n \in L : n # Nil => nx[n] \in L /\ nx2[n] = nx[n] /\ w2[n] = w[n]

(* Heaps that agree on a closed set have the same lists there. *)
LEMMA SameChains ==
  ASSUME NEW w, NEW w2, NEW nx, NEW nx2, NEW r, NEW b, NEW f, NEW g,
         Ranked(nx, r, b),
         NEW L \in SUBSET (Node \cup {Nil}),
         Solves(f, L, w, nx), Solves(g, L, w2, nx2), Kept(L, w, nx, w2, nx2)
  PROVE  \A n \in L : f[n] = g[n]
  <1> DEFINE T == {k \in Nat : \E n \in L : r[n] = k /\ f[n] # g[n]}
  <1>1. \A n \in L : r[n] \in Nat
    BY DEF Ranked
  <1> SUFFICES ASSUME T # {} PROVE FALSE
    BY <1>1
  <1>2. PICK k \in T : \A j \in T : k <= j
    <2>1. T \in SUBSET Nat
      OBVIOUS
    <2> HIDE DEF T
    <2> QED BY <2>1, NatMin
  <1>3. PICK n \in L : r[n] = k /\ f[n] # g[n]
    OBVIOUS
  <1>4. n # Nil
    BY <1>3 DEF Solves
  <1>5. n \in Node /\ nx[n] \in L /\ r[nx[n]] < r[n]
    BY <1>4 DEF Ranked, Kept
  <1>6. f[nx[n]] = g[nx[n]]
    <2>1. r[nx[n]] \notin T
      BY <1>1, <1>2, <1>3, <1>5
    <2> QED BY <1>1, <1>5, <2>1
  <1>7. f[n] = <<w[n]>> \o f[nx[n]] /\ g[n] = <<w2[n]>> \o g[nx2[n]] /\ nx2[n] = nx[n] /\ w2[n] = w[n]
    BY <1>4 DEF Solves, Kept
  <1> QED BY <1>3, <1>6, <1>7

(* There is only one such function. *)
LEMMA OneChain ==
  ASSUME NEW w, NEW nx \in [Node -> Node \cup {Nil}], NEW r, NEW b, NEW f, NEW g, Ranked(nx, r, b),
         Solves(f, Node \cup {Nil}, w, nx), Solves(g, Node \cup {Nil}, w, nx)
  PROVE  \A n \in Node \cup {Nil} : f[n] = g[n]
  <1> DEFINE L == Node \cup {Nil}
  <1>1. L \in SUBSET (Node \cup {Nil}) /\ Kept(L, w, nx, w, nx)
    BY DEF Kept
  <1>2. \A n \in L : f[n] = g[n]
    BY <1>1, SameChains
  <1> QED BY <1>2
-----------------------------------------------------------------------------
(* What Reachable computes: it has the roots, and the node after each of   *)
(* its nodes.                                                              *)
Onward(nx, X) == X \cup {nx[n] : n \in X \ {Nil}}

(* A set of nodes that holds the node after each of its nodes. *)
Closed(nx, X) == \A n \in X : n # Nil => nx[n] \in X

(* The function Within of Reachable. *)
IsOnward(W, S, nx, c) == W = [k \in 0 .. c |-> IF k = 0 THEN S ELSE Onward(nx, W[k - 1])]

LEMMA OnwardExists ==
  ASSUME NEW S, NEW nx, NEW c \in Nat
  PROVE  \E W : IsOnward(W, S, nx, c)
  <1> USE DEF IsOnward
  <1> DEFINE Has(k) == \E W : W = [j \in 0 .. k |-> IF j = 0 THEN S ELSE Onward(nx, W[j - 1])]
             T == {k \in Nat : ~Has(k)}
  <1> SUFFICES ASSUME T # {} PROVE FALSE
    OBVIOUS
  <1>1. PICK k \in T : \A j \in T : k <= j
    <2>1. T \in SUBSET Nat
      OBVIOUS
    <2> HIDE DEF T
    <2> QED BY <2>1, NatMin
  <1>2. k \in Nat /\ ~Has(k)
    OBVIOUS
  <1>3. k # 0
    <2>1. [j \in 0 .. 0 |-> S] = [j \in 0 .. 0 |-> IF j = 0 THEN S ELSE Onward(nx, [i \in 0 .. 0 |-> S][j - 1])]
      OBVIOUS
    <2>2. Has(0)
      BY <2>1
    <2> QED BY <1>2, <2>2
  <1>4. k - 1 \in Nat /\ Has(k - 1)
    <2>1. k - 1 \in Nat /\ ~(k <= k - 1)
      BY <1>2, <1>3
    <2>2. k - 1 \notin T
      <3> HIDE DEF T
      <3> QED BY <1>1, <2>1
    <2> QED BY <2>1, <2>2
  <1>5. PICK W : W = [j \in 0 .. k - 1 |-> IF j = 0 THEN S ELSE Onward(nx, W[j - 1])]
    BY <1>4
  <1> DEFINE V == [j \in 0 .. k |-> IF j = 0 THEN S ELSE Onward(nx, W[j - 1])]
  <1>6. \A j \in 0 .. k - 1 : V[j] = W[j] /\ j \in 0 .. k
    BY <1>2, <1>5
  <1>7. \A j \in 0 .. k : j # 0 => V[j - 1] = W[j - 1]
    BY <1>2, <1>6
  <1>8. V = [j \in 0 .. k |-> IF j = 0 THEN S ELSE Onward(nx, V[j - 1])]
    <2> DEFINE U == [j \in 0 .. k |-> IF j = 0 THEN S ELSE Onward(nx, V[j - 1])]
    <2>1. \A j \in 0 .. k : V[j] = U[j]
      BY <1>7
    <2> QED BY <2>1
  <1> QED BY <1>2, <1>8

(* As many rounds as there are nodes leave no node out. *)
LEMMA OnwardCloses ==
  ASSUME NEW c, c = Cardinality(Node), NEW nx \in [Node -> Node \cup {Nil}], NEW W,
         W[0] \in SUBSET (Node \cup {Nil}), W[0] # {},
         \A k \in 1 .. c : W[k] = Onward(nx, W[k - 1])
  PROVE  W[c] \in SUBSET (Node \cup {Nil}) /\ W[0] \subseteq W[c] /\ Closed(nx, W[c])
  <1> DEFINE X == Node \cup {Nil}
             P(k) == /\ W[k] \in SUBSET X /\ W[0] \subseteq W[k]
                     /\ Closed(nx, W[k]) \/ Cardinality(W[k]) >= k + 1
             T == {k \in 0 .. c : ~P(k)}
  <1>1. c \in Nat /\ IsFiniteSet(X) /\ Cardinality(X) = c + 1
    BY NodeAssumption, FS_CardinalityType, FS_AddElement
  <1>2. \A Y \in SUBSET X : IsFiniteSet(Y) /\ Cardinality(Y) \in Nat /\ Cardinality(Y) <= c + 1
    BY <1>1, FS_Subset, FS_CardinalityType
  <1>3. T = {}
    <2> SUFFICES ASSUME T # {} PROVE FALSE
      OBVIOUS
    <2>1. PICK k \in T : \A j \in T : k <= j
      <3>1. T \in SUBSET Nat
        BY <1>1
      <3> HIDE DEF T
      <3> QED BY <3>1, NatMin
    <2>2. k \in 0 .. c /\ ~P(k)
      OBVIOUS
    <2>3. k # 0
      <3>1. Cardinality(W[0]) # 0
        BY <1>2, FS_EmptySet
      <3>2. Cardinality(W[0]) \in Nat
        BY <1>2
      <3>3. P(0)
        BY <3>1, <3>2
      <3> QED BY <2>2, <3>3
    <2>4. k \in 1 .. c /\ k - 1 \in 0 .. c /\ P(k - 1)
      <3>1. k \in 1 .. c /\ k - 1 \in 0 .. c /\ ~(k <= k - 1)
        BY <1>1, <2>2, <2>3
      <3>2. k - 1 \notin T
        <4> HIDE DEF T
        <4> QED BY <2>1, <3>1
      <3> QED BY <3>1, <3>2
    <2> DEFINE Y == W[k - 1]
    <2>5. W[k] = Onward(nx, Y) /\ Y \in SUBSET X /\ W[0] \subseteq Y
      BY <2>4
    <2>6. \A n \in Y : n # Nil => nx[n] \in X
      BY <2>5
    <2>7. W[k] \in SUBSET X /\ Y \subseteq W[k]
      BY <2>5, <2>6 DEF Onward
    <2>8. CASE Closed(nx, Y)
      <3>1. W[k] = Y
        BY <2>5, <2>8 DEF Closed, Onward
      <3> QED BY <2>2, <2>5, <2>8, <3>1
    <2>9. CASE ~Closed(nx, Y)
      <3>1. PICK n \in Y : n # Nil /\ nx[n] \notin Y
        BY <2>9 DEF Closed
      <3>2. nx[n] \in W[k]
        BY <2>5, <3>1 DEF Onward
      <3>3. Y \cup {nx[n]} \in SUBSET W[k] /\ IsFiniteSet(W[k]) /\ IsFiniteSet(Y)
        BY <1>2, <2>5, <2>7, <3>2
      <3>4. Cardinality(Y \cup {nx[n]}) = Cardinality(Y) + 1
        <4>1. nx[n] \notin Y /\ IsFiniteSet(Y)
          BY <3>1, <3>3
        <4>2. \A x : x \notin Y => Cardinality(Y \cup {x}) = Cardinality(Y) + 1
          <5> HIDE DEF Y
          <5> QED BY <4>1, FS_AddElement
        <4> QED BY <4>1, <4>2
      <3>5. Cardinality(Y \cup {nx[n]}) <= Cardinality(W[k])
        BY <3>3, FS_Subset
      <3>6. Cardinality(Y) >= (k - 1) + 1
        BY <2>4, <2>9
      <3>7. Cardinality(W[k]) \in Nat /\ Cardinality(Y) \in Nat /\ k \in Nat
        BY <1>1, <1>2, <2>2, <2>5, <2>7
      <3>8. Cardinality(W[k]) >= k + 1
        BY <3>4, <3>5, <3>6, <3>7
      <3> QED BY <2>2, <2>5, <2>7, <3>8
    <2> QED BY <2>8, <2>9
  <1>4. P(c)
    <2>1. c \in 0 .. c
      BY <1>1
    <2> QED BY <1>3, <2>1
  <1>5. ASSUME Cardinality(W[c]) >= c + 1 PROVE Closed(nx, W[c])
    <2>1. Cardinality(W[c]) = c + 1
      BY <1>1, <1>2, <1>4, <1>5
    <2>2. W[c] = X
      BY <1>1, <1>4, <2>1, FS_Subset
    <2> QED BY <2>2 DEF Closed
  <1> QED BY <1>4, <1>5

(* Reachable has the roots and is closed. *)
LEMMA ReachableCloses ==
  ASSUME HeadTypeOK
  PROVE  /\ Reachable \in SUBSET (Node \cup {Nil})
         /\ Roots \subseteq Reachable /\ Closed(next, Reachable)
  <1> DEFINE c == Cardinality(Node)
             Q == CHOOSE W : IsOnward(W, Roots, next, c)
  <1>1. c \in Nat
    BY NodeAssumption, FS_CardinalityType
  <1>2. Reachable = Q[c]
    BY Zenon DEF Reachable, Onward, IsOnward
  <1>3. Q = [k \in 0 .. c |-> IF k = 0 THEN Roots ELSE Onward(next, Q[k - 1])]
    <2>1. \E W : IsOnward(W, Roots, next, c)
      BY <1>1, OnwardExists
    <2>2. IsOnward(Q, Roots, next, c)
      BY <2>1, Zenon
    <2> QED BY <2>2 DEF IsOnward
  <1> HIDE DEF Q
  <1>4. Q[0] = Roots /\ \A k \in 1 .. c : Q[k] = Onward(next, Q[k - 1])
    BY <1>1, <1>3
  <1>5. Roots \in SUBSET (Node \cup {Nil}) /\ head \in Roots
    BY DEF Roots, HeadTypeOK
  <1>6. next \in [Node -> Node \cup {Nil}]
    BY DEF HeadTypeOK
  <1> QED BY <1>2, <1>4, <1>5, <1>6, OnwardCloses
-----------------------------------------------------------------------------
(* ListFrom solves the equation it is written as. The lemma is a formula,  *)
(* to be used of the next state as well.                                   *)
ListSolves ==
  (HeadTypeOK /\ \E r, b : Ranked(next, r, b)) => Solves(ListFrom, Node \cup {Nil}, v, next)

LEMMA ListFromState == ListSolves
  <1> SUFFICES ASSUME HeadTypeOK, NEW r, NEW b, Ranked(next, r, b)
               PROVE  Solves(ListFrom, Node \cup {Nil}, v, next)
    BY DEF ListSolves
  <1>1. v \in [Node -> Nat] /\ next \in [Node -> Node \cup {Nil}]
    BY DEF HeadTypeOK
  <1>2. \E f : f = [n \in Node \cup {Nil} |-> IF n = Nil THEN <<>> ELSE <<v[n]>> \o f[next[n]]]
    BY <1>1, Chains
  <1>3. ListFrom = CHOOSE f : f = [n \in Node \cup {Nil} |-> IF n = Nil THEN <<>> ELSE <<v[n]>> \o f[next[n]]]
    BY Zenon DEF ListFrom
  <1>4. ListFrom = [n \in Node \cup {Nil} |-> IF n = Nil THEN <<>> ELSE <<v[n]>> \o ListFrom[next[n]]]
    BY <1>2, <1>3, Zenon
  <1> HIDE DEF ListFrom
  <1> QED BY <1>4 DEF Solves

(* ListFrom, now and in the next state. *)
LEMMA ListsSolve ==
  ASSUME NEW r, NEW b
  PROVE  /\ HeadTypeOK /\ Ranked(next, r, b) => Solves(ListFrom, Node \cup {Nil}, v, next)
         /\ HeadTypeOK' /\ Ranked(next', r, b) => Solves(ListFrom', Node \cup {Nil}, v', next')
  <1>1. ListSolves
    BY ListFromState
  <1>2. ListSolves'
    BY ListFromState, PTL
  <1> QED BY <1>1, <1>2 DEF ListSolves, HeadTypeOK

(* A list from a node is a sequence of values. *)
LEMMA ListType ==
  ASSUME HeadTypeOK, NEW r, NEW b, Ranked(next, r, b), NEW n \in Node \cup {Nil}
  PROVE  ListFrom[n] \in Seq(Nat)
  <1>1. v \in [Node -> Nat] /\ next \in [Node -> Node \cup {Nil}]
    BY DEF HeadTypeOK
  <1>2. PICK f : (\A m \in Node \cup {Nil} : f[m] \in Seq(Nat)) /\ Solves(f, Node \cup {Nil}, v, next)
    BY <1>1, Chains
  <1>3. Solves(ListFrom, Node \cup {Nil}, v, next)
    BY ListsSolve
  <1>5. \A m \in Node \cup {Nil} : f[m] = ListFrom[m]
    <2> DEFINE nx == next
               w == v
               g == ListFrom
    <2>1. nx \in [Node -> Node \cup {Nil}] /\ Ranked(nx, r, b) /\ Solves(f, Node \cup {Nil}, w, nx) /\ Solves(g, Node \cup {Nil}, w, nx)
      BY <1>1, <1>2, <1>3
    <2>2. \A m \in Node \cup {Nil} : f[m] = g[m]
      <3> HIDE DEF nx, w, g
      <3> QED BY <2>1, OneChain
    <2> QED BY <2>2
  <1> QED BY <1>2, <1>5

(* The list from nil is empty; the list from a node begins with its        *)
(* value.                                                                  *)
LEMMA ListFirst ==
  ASSUME HeadTypeOK, NEW r, NEW b, Ranked(next, r, b)
  PROVE  /\ ListFrom[Nil] = <<>>
         /\ \A n \in Node : ListFrom[n] = <<v[n]>> \o ListFrom[next[n]]
  BY ListsSolve, NodeAssumption DEF Solves

(* A heap that keeps the nodes of a closed set keeps the lists from them.  *)
LEMMA SameList ==
  ASSUME HeadTypeOK, HeadTypeOK', NEW r, NEW b, Ranked(next, r, b),
         NEW q, NEW c, Ranked(next', q, c),
         NEW L \in SUBSET (Node \cup {Nil}), Closed(next, L),
         \A n \in L : n # Nil => v'[n] = v[n] /\ next'[n] = next[n]
  PROVE  \A n \in L : ListFrom'[n] = ListFrom[n]
  <1>1. Solves(ListFrom, Node \cup {Nil}, v, next) /\ Solves(ListFrom', Node \cup {Nil}, v', next')
    BY ListsSolve
  <1>2. Solves(ListFrom, L, v, next) /\ Solves(ListFrom', L, v', next')
    BY <1>1 DEF Solves
  <1>3. \A n \in L : n # Nil => next[n] \in L /\ next'[n] = next[n] /\ v'[n] = v[n]
    BY DEF Closed
  <1>4. \A n \in L : ListFrom[n] = ListFrom'[n]
    <2> DEFINE f == ListFrom
               g == ListFrom'
               w == v
               y == v'
               nx == next
               ny == next'
    <2>1. /\ nx \in [Node -> Node \cup {Nil}] /\ Ranked(nx, r, b)
          /\ Solves(f, L, w, nx) /\ Solves(g, L, y, ny)
          /\ Kept(L, w, nx, y, ny)
      BY <1>2, <1>3 DEF HeadTypeOK, Kept
    <2>2. \A n \in L : f[n] = g[n]
      <3> HIDE DEF f, g, w, y, nx, ny
      <3> QED BY <2>1, SameChains
    <2> QED BY <2>2
  <1> QED BY <1>4

(* A node that is not in a closed set is linked to one of it. *)
LEMMA Relinks ==
  ASSUME NEW nx \in [Node -> Node \cup {Nil}], NEW r, NEW b, Ranked(nx, r, b),
         NEW L \in SUBSET (Node \cup {Nil}), Closed(nx, L), NEW m \in L,
         NEW n \in Node, n \notin L
  PROVE  /\ \E q, c : Ranked([nx EXCEPT ![n] = m], q, c)
         /\ Closed([nx EXCEPT ![n] = m], L)
  <1> DEFINE z  == [nx EXCEPT ![n] = m]
             c == b + r[m] + 1
             q == [x \in Node \cup {Nil} |-> IF x \in L THEN r[x] ELSE r[x] + r[m] + 1]
  <1>1. b \in Nat /\ \A x \in Node \cup {Nil} : r[x] \in Nat /\ r[x] <= b
    BY DEF Ranked
  <1>2. c \in Nat /\ q \in [Node \cup {Nil} -> 0 .. c]
    <2>1. \A x \in Node \cup {Nil} : r[x] \in 0 .. c /\ r[x] + r[m] + 1 \in 0 .. c
      BY <1>1
    <2> QED BY <1>1, <2>1
  <1>3. \A x \in Node : q[z[x]] < q[x]
    <2> SUFFICES ASSUME NEW x \in Node PROVE q[z[x]] < q[x]
      OBVIOUS
    <2>1. CASE x = n
      <3>1. z[x] = m /\ q[m] = r[m] /\ q[x] = r[x] + r[m] + 1
        BY <2>1
      <3> QED BY <1>1, <3>1
    <2>2. CASE x # n
      <3>1. z[x] = nx[x] /\ nx[x] \in Node \cup {Nil} /\ r[nx[x]] < r[x]
        BY <2>2 DEF Ranked
      <3>2. x \in L => nx[x] \in L
        BY NodeAssumption DEF Closed
      <3> QED BY <1>1, <3>1, <3>2
    <2> QED BY <2>1, <2>2
  <1>4. Ranked(z, q, c)
    BY <1>2, <1>3 DEF Ranked
  <1>5. Closed(z, L)
    BY DEF Closed
  <1> QED BY <1>4, <1>5
-----------------------------------------------------------------------------
(* The heap.  L is closed and has the head and no node that a Push has not *)
(* published; only such nodes are written, and new ones.                   *)

Links(L, r, b) ==
  /\ Ranked(next, r, b)
  /\ L \in SUBSET (Node \cup {Nil}) /\ head \in L /\ Closed(next, L)

Unpublished(L) ==
  /\ \A g \in Goroutine : node[g] \notin L \/ node[g] = Nil
  /\ \A g, h \in Goroutine : node[g] # Nil /\ node[g] = node[h] => g = h

(* A Push that has its node, and a Pop that has read the head. *)
Pushing(g) == op[g] = "push" /\ pc[g] \in {"load", "cas", "visit", "wait"}
Popping(g) == op[g] = "pop" /\ pc[g] = "cas"

(* A Push has its value in its node, and at the CompareAndSwap its prev    *)
(* after it.                                                               *)
Pushers ==
  \A g \in Goroutine : Pushing(g) =>
    /\ node[g] \in Node /\ v[node[g]] = arg[g]
    /\ pc[g] = "cas" => next[node[g]] = prev[g]

(* A Pop at the CompareAndSwap still has in val and next what its node     *)
(* has: the node has been published, is reachable, and is not written or   *)
(* allocated again. This is what keeps the code free of the ABA problem.   *)
Poppers ==
  \A g \in Goroutine : Popping(g) =>
    /\ prev[g] \in Node /\ \A h \in Goroutine : node[h] # prev[g]
    /\ top[g].val = v[prev[g]] /\ top[g].next = next[prev[g]]

Heap(L, r, b) == Links(L, r, b) /\ Unpublished(L) /\ Pushers /\ Poppers
HeapInv == \E L, r, b : Heap(L, r, b)

(* What a step of g leaves alone. *)
Apart(g) ==
  /\ \A h \in Goroutine \ {g} :
       /\ pc'[h] = pc[h] /\ op'[h] = op[h] /\ arg'[h] = arg[h]
       /\ node'[h] = node[h] /\ prev'[h] = prev[h] /\ top'[h] = top[h]

(* A step that does not write to the heap, nor to head.  *)
LEMMA HeapStays ==
  ASSUME NEW g \in Goroutine, HeapInv, Apart(g), UNCHANGED <<head, v, next>>,
         node'[g] = node[g] \/ node'[g] = Nil,
         ~Popping(g)',
         Pushing(g)' => Pushing(g) /\ pc'[g] # "cas" /\ node'[g] = node[g] /\ arg'[g] = arg[g]
  PROVE  HeapInv' /\ Contents' = Contents
  <1>1. PICK L, r, b : Heap(L, r, b)
    BY DEF HeapInv
  <1>2. Links(L, r, b)'
    BY <1>1 DEF Heap, Links
  <1>3. Unpublished(L)'
    BY <1>1 DEF Heap, Unpublished, Apart
  <1>4. Pushers'
    BY <1>1 DEF Heap, Pushers, Pushing, Apart
  <1>5. Poppers'
    <2> SUFFICES ASSUME NEW h \in Goroutine, Popping(h)'
                 PROVE  /\ prev'[h] \in Node /\ \A k \in Goroutine : node'[k] # prev'[h]
                        /\ top'[h].val = v'[prev'[h]] /\ top'[h].next = next'[prev'[h]]
      BY DEF Poppers
    <2>1. h # g
      OBVIOUS
    <2>2. Popping(h) /\ prev'[h] = prev[h] /\ top'[h] = top[h]
      BY <2>1 DEF Popping, Apart
    <2>3. prev[h] # Nil
      BY <1>1, <2>2, NodeAssumption DEF Heap, Poppers
    <2> QED BY <1>1, <2>2, <2>3 DEF Heap, Poppers, Apart
  <1>6. HeapInv'
    BY <1>2, <1>3, <1>4, <1>5 DEF Heap, HeapInv
  <1>7. Contents' = Contents
    BY DEF Contents, ListFrom
  <1> QED BY <1>6, <1>7

(* A Push links its node n, new or not, to the head. *)
LEMMA HeapLinks ==
  ASSUME NEW g \in Goroutine, HeadTypeOK, HeadTypeOK', NEW L, NEW r, NEW b, Heap(L, r, b),
         Apart(g), NEW n \in Node, n \notin L,
         \A h \in Goroutine \ {g} : node[h] # n,
         \A h \in Goroutine : Popping(h) => prev[h] # n,
         head' = head, next' = [next EXCEPT ![n] = head],
         \A m \in Node : m # n => v'[m] = v[m],
         node'[g] = n, prev'[g] = head, v'[n] = arg'[g], op'[g] = "push", pc'[g] = "cas"
  PROVE  HeapInv' /\ Contents' = Contents
  <1>1. Links(L, r, b) /\ next \in [Node -> Node \cup {Nil}]
    BY DEF Heap, HeadTypeOK
  <1>2. PICK q, c : Ranked([next EXCEPT ![n] = head], q, c)
    <2>1. \E q, c : Ranked([next EXCEPT ![n] = head], q, c)
      BY <1>1, Relinks DEF Links
    <2> QED BY <2>1
  <1>3. Closed([next EXCEPT ![n] = head], L)
    BY <1>1, Relinks DEF Links
  <1>4. Links(L, q, c)'
    BY <1>1, <1>2, <1>3 DEF Links
  <1>5. \A m \in L : m # Nil => m \in Node /\ v'[m] = v[m] /\ next'[m] = next[m]
    BY <1>1 DEF Links
  <1>6. \A m \in L : ListFrom'[m] = ListFrom[m]
    <2>1. Ranked(next, r, b) /\ Ranked(next', q, c) /\ L \in SUBSET (Node \cup {Nil})
          /\ Closed(next, L)
      BY <1>1, <1>2 DEF Links
    <2> QED BY <1>5, <2>1, SameList
  <1>7. Contents' = Contents
    BY <1>1, <1>6 DEF Contents, Links
  <1>8. \A h \in Goroutine : node'[h] = IF h = g THEN n ELSE node[h]
    BY DEF Apart
  <1>9. Unpublished(L)'
    BY <1>8 DEF Heap, Unpublished
  <1>10. Pushers'
    <2> SUFFICES ASSUME NEW h \in Goroutine, Pushing(h)'
                 PROVE  /\ node'[h] \in Node /\ v'[node'[h]] = arg'[h]
                        /\ pc'[h] = "cas" => next'[node'[h]] = prev'[h]
      BY DEF Pushers
    <2>1. CASE h = g
      BY <1>1, <2>1
    <2>2. CASE h # g
      <3>1. /\ Pushing(h) /\ node'[h] = node[h] /\ node[h] # n /\ arg'[h] = arg[h]
            /\ pc'[h] = pc[h] /\ prev'[h] = prev[h]
        BY <2>2 DEF Pushing, Apart
      <3>2. node[h] \in Node /\ v[node[h]] = arg[h] /\ (pc[h] = "cas" => next[node[h]] = prev[h])
        BY <3>1 DEF Heap, Pushers
      <3> QED BY <1>1, <3>1, <3>2
    <2> QED BY <2>1, <2>2
  <1>11. Poppers'
    <2> SUFFICES ASSUME NEW h \in Goroutine, Popping(h)'
                 PROVE  /\ prev'[h] \in Node /\ \A k \in Goroutine : node'[k] # prev'[h]
                        /\ top'[h].val = v'[prev'[h]] /\ top'[h].next = next'[prev'[h]]
      BY DEF Poppers
    <2>1. h # g
      BY DEF Popping
    <2>2. Popping(h) /\ prev'[h] = prev[h] /\ top'[h] = top[h]
      BY <2>1 DEF Popping, Apart
    <2>3. /\ prev[h] \in Node /\ \A k \in Goroutine : node[k] # prev[h]
          /\ top[h].val = v[prev[h]] /\ top[h].next = next[prev[h]] /\ prev[h] # n
      BY <2>2 DEF Heap, Poppers
    <2> QED BY <1>1, <1>8, <2>2, <2>3
  <1>12. HeapInv'
    BY <1>4, <1>9, <1>10, <1>11 DEF Heap, HeapInv
  <1> QED BY <1>7, <1>12
-----------------------------------------------------------------------------
(* How the calls of the list keep the heap, and what they do to the        *)
(* stack.                                                                  *)

(* A Push allocates a node that nothing reaches, and links it. *)
LEMMA PushStarts ==
  ASSUME NEW g \in Goroutine, NEW S, Callers(S), HeadTypeOK, HeadTypeOK', HeapInv, TreiberPush(g)
  PROVE  HeapInv' /\ Contents' = Contents
  <1>1. PICK L, r, b : Heap(L, r, b)
    BY DEF HeapInv
  <1> DEFINE n == Fresh
             M == L \cap Reachable
  <1>2. n \in Node /\ n \notin Reachable
    BY FreshNode DEF TreiberPush, AllocateAndLoad
  <1>3. Roots \subseteq Reachable /\ Closed(next, Reachable)
    BY ReachableCloses
  <1>4. \A h \in Goroutine : node[h] # n /\ prev[h] # n
    BY <1>2, <1>3 DEF Roots
  <1>5. head \in M
    BY <1>1, <1>3 DEF Heap, Links, Roots
  <1>6. Heap(M, r, b)
    <2>1. Closed(next, M) /\ M \in SUBSET (Node \cup {Nil}) /\ Ranked(next, r, b)
      BY <1>1, <1>3 DEF Closed, Heap, Links
    <2> QED BY <1>1, <1>5, <2>1 DEF Heap, Links, Unpublished
  <1>7. /\ pc[g] = "idle" /\ pc' = [pc EXCEPT ![g] = "cas"] /\ op' = [op EXCEPT ![g] = "push"]
        /\ arg' = [arg EXCEPT ![g] = calls + 1]
    BY DEF TreiberPush, Start, Puts
  <1>8. /\ v' = [v EXCEPT ![n] = calls + 1] /\ next' = [next EXCEPT ![n] = head]
        /\ node' = [node EXCEPT ![g] = n] /\ prev' = [prev EXCEPT ![g] = head]
        /\ head' = head /\ top' = top
    BY DEF TreiberPush, AllocateAndLoad
  <1>9. /\ pc \in [Goroutine -> S] /\ op \in [Goroutine -> {"none", "push", "pop", "enqueue", "dequeue"}]
        /\ arg \in [Goroutine -> Nat] /\ v \in [Node -> Nat]
        /\ node \in [Goroutine -> Node \cup {Nil}] /\ prev \in [Goroutine -> Node \cup {Nil}]
    BY DEF Callers, ClientTypeOK, HeadTypeOK
  <1> HIDE DEF n, M
  <1>10. Apart(g)
    BY <1>7, <1>8, <1>9 DEF Apart
  <1>11. /\ node'[g] = n /\ prev'[g] = head /\ v'[n] = arg'[g] /\ op'[g] = "push" /\ pc'[g] = "cas"
         /\ \A m \in Node : m # n => v'[m] = v[m]
    BY <1>2, <1>7, <1>8, <1>9
  <1>12. n \notin M
    BY <1>2 DEF M
  <1> QED BY <1>2, <1>4, <1>6, <1>8, <1>10, <1>11, <1>12, HeapLinks

(* A Pop begins. *)
LEMMA PopStarts ==
  ASSUME NEW g \in Goroutine, NEW S, Callers(S), HeapInv, TreiberPop(g)
  PROVE  HeapInv' /\ Contents' = Contents
  <1>1. /\ pc' = [pc EXCEPT ![g] = "load"] /\ op' = [op EXCEPT ![g] = "pop"]
        /\ arg' = [arg EXCEPT ![g] = zero] /\ UNCHANGED <<head, v, next, node, prev, top>>
    BY DEF TreiberPop, Start, Puts, headVars
  <1>2. /\ pc \in [Goroutine -> S] /\ op \in [Goroutine -> {"none", "push", "pop", "enqueue", "dequeue"}]
        /\ arg \in [Goroutine -> Nat]
    BY DEF Callers, ClientTypeOK
  <1>3. Apart(g)
    BY <1>1, <1>2 DEF Apart
  <1>4. ~Popping(g)' /\ ~Pushing(g)'
    BY <1>1, <1>2 DEF Popping, Pushing
  <1> QED BY <1>1, <1>3, <1>4, HeapStays

(* A Push links its node again, or a Pop reads the head and its node. *)
LEMMA LoadKeeps ==
  ASSUME NEW g \in Goroutine, NEW S, Callers(S), HeadTypeOK, HeadTypeOK', HeapInv, TreiberLoad(g)
  PROVE  HeapInv' /\ Contents' = Contents
  <1>1. PICK L, r, b : Heap(L, r, b)
    BY DEF HeapInv
  <1>2. /\ pc[g] = "load" /\ pc' = [pc EXCEPT ![g] = "cas"] /\ UNCHANGED <<op, arg>>
        /\ prev' = [prev EXCEPT ![g] = head] /\ head' = head /\ v' = v /\ node' = node
    BY DEF TreiberLoad, Goto, LoadForPush, LoadForPop
  <1>3. /\ pc \in [Goroutine -> S] /\ next \in [Node -> Node \cup {Nil}]
        /\ node \in [Goroutine -> Node \cup {Nil}] /\ prev \in [Goroutine -> Node \cup {Nil}]
        /\ top \in [Goroutine -> [val : Nat, next : Node \cup {Nil}]] /\ head \in Node \cup {Nil}
    BY DEF Callers, HeadTypeOK
  <1>4. CASE op[g] = "push" /\ LoadForPush(g)
    <2> DEFINE n == node[g]
    <2>1. next' = [next EXCEPT ![n] = head] /\ top' = top
      BY <1>4 DEF LoadForPush
    <2>2. Pushing(g)
      BY <1>2, <1>4 DEF Pushing
    <2>3. n \in Node /\ v[n] = arg[g]
      BY <1>1, <2>2 DEF Heap, Pushers
    <2>4. n # Nil
      BY <2>3, NodeAssumption
    <2>5. n \notin L /\ (\A h \in Goroutine \ {g} : node[h] # n)
      BY <1>1, <2>4 DEF Heap, Unpublished
    <2>6. \A h \in Goroutine : Popping(h) => prev[h] # n
      BY <1>1 DEF Heap, Poppers
    <2>7. Apart(g)
      BY <1>2, <1>3, <2>1 DEF Apart
    <2>8. /\ node'[g] = n /\ prev'[g] = head /\ v'[n] = arg'[g] /\ op'[g] = "push" /\ pc'[g] = "cas"
          /\ \A m \in Node : m # n => v'[m] = v[m]
      BY <1>2, <1>3, <1>4, <2>3
    <2> HIDE DEF n
    <2> QED BY <1>1, <1>2, <2>1, <2>3, <2>5, <2>6, <2>7, <2>8, HeapLinks
  <1>5. CASE op[g] = "pop" /\ LoadForPop(g)
    <2>1. /\ head # Nil /\ next' = next
          /\ top' = [top EXCEPT ![g] = [val |-> v[head], next |-> next[head]]]
      BY <1>5 DEF LoadForPop
    <2>2. \A h \in Goroutine : node[h] # head
      BY <1>1, <2>1 DEF Heap, Unpublished, Links
    <2>3. Links(L, r, b)' /\ Unpublished(L)'
      BY <1>1, <1>2, <2>1 DEF Heap, Links, Unpublished
    <2>4. Pushers'
      <3> SUFFICES ASSUME NEW h \in Goroutine, Pushing(h)'
                   PROVE  /\ node'[h] \in Node /\ v'[node'[h]] = arg'[h]
                          /\ pc'[h] = "cas" => next'[node'[h]] = prev'[h]
        BY DEF Pushers
      <3>1. h # g
        BY <1>2, <1>5 DEF Pushing
      <3>2. Pushing(h) /\ pc'[h] = pc[h] /\ prev'[h] = prev[h]
        BY <1>2, <1>3, <3>1 DEF Pushing
      <3> QED BY <1>1, <1>2, <2>1, <3>2 DEF Heap, Pushers
    <2>5. Poppers'
      <3> SUFFICES ASSUME NEW h \in Goroutine, Popping(h)'
                   PROVE  /\ prev'[h] \in Node /\ \A k \in Goroutine : node'[k] # prev'[h]
                          /\ top'[h].val = v'[prev'[h]] /\ top'[h].next = next'[prev'[h]]
        BY DEF Poppers
      <3>1. CASE h = g
        <4>1. prev'[h] = head /\ top'[h] = [val |-> v[head], next |-> next[head]]
          BY <1>2, <1>3, <2>1, <3>1
        <4> QED BY <1>2, <1>3, <2>1, <2>2, <4>1
      <3>2. CASE h # g
        <4>1. Popping(h) /\ prev'[h] = prev[h] /\ top'[h] = top[h]
          BY <1>2, <1>3, <2>1, <3>2 DEF Popping
        <4> QED BY <1>1, <1>2, <2>1, <4>1 DEF Heap, Poppers
      <3> QED BY <3>1, <3>2
    <2>6. HeapInv'
      BY <2>3, <2>4, <2>5 DEF Heap, HeapInv
    <2>7. Contents' = Contents
      BY <1>2, <2>1 DEF Contents, ListFrom
    <2> QED BY <2>6, <2>7
  <1> QED BY <1>4, <1>5 DEF TreiberLoad

(* The head and the tail of a list with a value put on it. *)
LEMMA FrontTail ==
  ASSUME NEW x \in Nat, NEW s \in Seq(Nat), NEW q, q = <<x>> \o s
  PROVE  q # <<>> /\ Head(q) = x /\ Tail(q) = s
  <1>1. <<x>> \in Seq(Nat) /\ Len(<<x>>) = 1 /\ <<x>>[1] = x
    OBVIOUS
  <1>2. q \in Seq(Nat) /\ Len(q) = 1 + Len(s) /\ q[1] = x /\ Len(s) \in Nat
    BY <1>1, ConcatProperties, LenProperties
  <1>3. \A i \in 1 .. Len(s) : q[i + 1] = s[i]
    BY <1>1, <1>2, ConcatProperties
  <1>4. q # <<>> /\ Head(q) = x
    BY <1>2
  <1>5. Tail(q) \in Seq(Nat) /\ Len(Tail(q)) = Len(q) - 1 /\ \A i \in 1 .. Len(q) - 1 : Tail(q)[i] = q[i + 1]
    BY <1>2, <1>4, HeadTailProperties
  <1>6. Tail(q) = s
    BY <1>2, <1>3, <1>5, SeqEqual
  <1> QED BY <1>4, <1>6

(* The CompareAndSwap of a Push puts its value on the list. *)
LEMMA PushSwings ==
  ASSUME NEW g \in Goroutine, NEW S, Callers(S), HeadTypeOK, HeadTypeOK', HeapInv,
         op[g] = "push", Finish(g, "cas", None), SwingForPush(g)
  PROVE  HeapInv' /\ Contents' = <<arg[g]>> \o Contents
  <1>1. PICK L, r, b : Heap(L, r, b)
    BY DEF HeapInv
  <1>0. PICK n : n = node[g]
    OBVIOUS
  <1> DEFINE M == L \cup {n}
  <1>2. /\ pc[g] = "cas" /\ pc' = [pc EXCEPT ![g] = "done"] /\ UNCHANGED <<op, arg, v, next, top>>
        /\ head = prev[g] /\ head' = n
        /\ node' = [node EXCEPT ![g] = Nil] /\ prev' = [prev EXCEPT ![g] = Nil]
    BY <1>0 DEF Finish, SwingForPush
  <1>3. /\ pc \in [Goroutine -> S] /\ next \in [Node -> Node \cup {Nil}]
        /\ node \in [Goroutine -> Node \cup {Nil}] /\ prev \in [Goroutine -> Node \cup {Nil}]
        /\ head \in Node \cup {Nil}
    BY DEF Callers, HeadTypeOK
  <1>4. n \in Node /\ v[n] = arg[g] /\ next[n] = head
    BY <1>0, <1>1, <1>2 DEF Heap, Pushers, Pushing
  <1>5. \A h \in Goroutine : node'[h] = IF h = g THEN Nil ELSE node[h]
    BY <1>2, <1>3
  <1>6. \A h \in Goroutine : h # g => node[h] # n
    BY <1>0, <1>1, <1>4, NodeAssumption DEF Heap, Unpublished
  <1>7. Links(M, r, b)'
    <2>1. Closed(next, M)
      BY <1>1, <1>4 DEF Heap, Links, Closed
    <2>2. Ranked(next, r, b) /\ M \in SUBSET (Node \cup {Nil}) /\ head' \in M
      BY <1>1, <1>2, <1>4 DEF Heap, Links
    <2>3. next' = next
      BY <1>2
    <2> HIDE DEF M
    <2> QED BY <2>1, <2>2, <2>3 DEF Links
  <1>8. Unpublished(M)'
    BY <1>1, <1>5, <1>6 DEF Heap, Unpublished
  <1>9. ASSUME NEW h \in Goroutine, pc'[h] # "done"
        PROVE  h # g /\ pc'[h] = pc[h] /\ node'[h] = node[h] /\ prev'[h] = prev[h]
    BY <1>2, <1>3, <1>9
  <1>10. Pushers'
    <2> SUFFICES ASSUME NEW h \in Goroutine, Pushing(h)'
                 PROVE  /\ node'[h] \in Node /\ v'[node'[h]] = arg'[h]
                        /\ pc'[h] = "cas" => next'[node'[h]] = prev'[h]
      BY DEF Pushers
    <2>1. pc'[h] # "done"
      BY DEF Pushing
    <2>2. Pushing(h)
      BY <1>2, <1>9, <2>1 DEF Pushing
    <2> QED BY <1>1, <1>2, <1>9, <2>1, <2>2 DEF Heap, Pushers
  <1>11. Poppers'
    <2> SUFFICES ASSUME NEW h \in Goroutine, Popping(h)'
                 PROVE  /\ prev'[h] \in Node /\ \A k \in Goroutine : node'[k] # prev'[h]
                        /\ top'[h].val = v'[prev'[h]] /\ top'[h].next = next'[prev'[h]]
      BY DEF Poppers
    <2>1. pc'[h] # "done"
      BY DEF Popping
    <2>2. Popping(h)
      BY <1>2, <1>9, <2>1 DEF Popping
    <2>3. prev[h] # Nil
      BY <1>1, <2>2, NodeAssumption DEF Heap, Poppers
    <2> QED BY <1>1, <1>2, <1>5, <1>9, <2>1, <2>2, <2>3 DEF Heap, Poppers
  <1>12. HeapInv'
    BY <1>7, <1>8, <1>10, <1>11 DEF Heap, HeapInv
  <1>13. Contents' = <<arg[g]>> \o Contents
    <2>1. Contents' = ListFrom[n] /\ Contents = ListFrom[head]
      BY <1>2 DEF Contents, ListFrom
    <2>2. ListFrom[n] = <<v[n]>> \o ListFrom[next[n]]
      BY <1>1, <1>4, ListFirst DEF Heap, Links
    <2> QED BY <1>4, <2>1, <2>2
  <1> QED BY <1>12, <1>13

(* The CompareAndSwap of a Pop takes the first value off it: the node it   *)
(* has read is still the head, and has not been written since.             *)
LEMMA PopSwings ==
  ASSUME NEW g \in Goroutine, NEW S, Callers(S), HeadTypeOK, HeadTypeOK', HeapInv,
         op[g] = "pop", NEW x, Finish(g, "cas", x), SwingForPop(g)
  PROVE  /\ HeapInv'
         /\ Contents # <<>> /\ Contents' = Tail(Contents) /\ top[g].val = Head(Contents)
  <1>1. PICK L, r, b : Heap(L, r, b)
    BY DEF HeapInv
  <1>2. /\ pc[g] = "cas" /\ pc' = [pc EXCEPT ![g] = "done"] /\ UNCHANGED <<op, arg, v, next, node>>
        /\ head = prev[g] /\ head' = top[g].next
        /\ prev' = [prev EXCEPT ![g] = Nil] /\ top' = [top EXCEPT ![g] = NoTop]
    BY DEF Finish, SwingForPop
  <1>3. /\ pc \in [Goroutine -> S] /\ next \in [Node -> Node \cup {Nil}] /\ v \in [Node -> Nat]
        /\ prev \in [Goroutine -> Node \cup {Nil}]
        /\ top \in [Goroutine -> [val : Nat, next : Node \cup {Nil}]]
    BY DEF Callers, HeadTypeOK
  <1>4. head \in Node /\ top[g].val = v[head] /\ top[g].next = next[head]
    BY <1>1, <1>2 DEF Heap, Poppers, Popping
  <1>5. Links(L, r, b)' /\ Unpublished(L)'
    <2>1. next[head] \in L
      BY <1>1, <1>4, NodeAssumption DEF Heap, Links, Closed
    <2> QED BY <1>1, <1>2, <1>4, <2>1 DEF Heap, Links, Unpublished
  <1>6. ASSUME NEW h \in Goroutine, pc'[h] # "done"
        PROVE  h # g /\ pc'[h] = pc[h] /\ prev'[h] = prev[h] /\ top'[h] = top[h]
    BY <1>2, <1>3, <1>6
  <1>7. Pushers'
    <2> SUFFICES ASSUME NEW h \in Goroutine, Pushing(h)'
                 PROVE  /\ node'[h] \in Node /\ v'[node'[h]] = arg'[h]
                        /\ pc'[h] = "cas" => next'[node'[h]] = prev'[h]
      BY DEF Pushers
    <2>1. pc'[h] # "done"
      BY DEF Pushing
    <2>2. Pushing(h)
      BY <1>2, <1>6, <2>1 DEF Pushing
    <2> QED BY <1>1, <1>2, <1>6, <2>1, <2>2 DEF Heap, Pushers
  <1>8. Poppers'
    <2> SUFFICES ASSUME NEW h \in Goroutine, Popping(h)'
                 PROVE  /\ prev'[h] \in Node /\ \A k \in Goroutine : node'[k] # prev'[h]
                        /\ top'[h].val = v'[prev'[h]] /\ top'[h].next = next'[prev'[h]]
      BY DEF Poppers
    <2>1. pc'[h] # "done"
      BY DEF Popping
    <2>2. Popping(h)
      BY <1>2, <1>6, <2>1 DEF Popping
    <2> QED BY <1>1, <1>2, <1>6, <2>1, <2>2 DEF Heap, Poppers
  <1>9. HeapInv'
    BY <1>5, <1>7, <1>8 DEF Heap, HeapInv
  <1>10. Contents' = ListFrom[next[head]] /\ Contents = ListFrom[head]
    BY <1>2, <1>4 DEF Contents, ListFrom
  <1>11. Contents = <<v[head]>> \o ListFrom[next[head]]
    BY <1>1, <1>4, <1>10, ListFirst DEF Heap, Links
  <1>12. ListFrom[next[head]] \in Seq(Nat) /\ v[head] \in Nat
    <2>1. next[head] \in Node \cup {Nil} /\ v[head] \in Nat /\ Ranked(next, r, b)
      BY <1>1, <1>3, <1>4 DEF Heap, Links
    <2> QED BY <2>1, ListType
  <1>13. Contents # <<>> /\ Head(Contents) = v[head] /\ Tail(Contents) = ListFrom[next[head]]
    BY <1>11, <1>12, FrontTail
  <1> QED BY <1>4, <1>9, <1>10, <1>13

(* A head that is nil is an empty stack. *)
LEMMA EmptyContents ==
  ASSUME HeadTypeOK, HeapInv, head = Nil
  PROVE  Contents = <<>>
  <1>1. PICK L, r, b : Heap(L, r, b)
    BY DEF HeapInv
  <1> QED BY <1>1, ListFirst DEF Heap, Links, Contents
-----------------------------------------------------------------------------
(* The steps of AbstractStack, with its variables replaced by what         *)
(* Linearizable puts for them.                                             *)

TheStack  == IF impl = "Mutex" THEN MutexContents ELSE Contents
TheStatus == CASE impl = "LockFree"    -> ListStatus
               [] impl = "Elimination" -> Status
               [] impl = "Mutex"       -> ListStatus
TheRet    == IF impl = "Elimination" THEN Result ELSE ret

Impls == {"LockFree", "Elimination", "Mutex"}

AbstractStep == [Abstract!Next]_(Abstract!vars)

(* What the mapping makes of one goroutine. *)
StatusOf(h) ==
  IF pc[h] \in {"idle", "done"} THEN pc[h]
  ELSE IF impl = "Elimination" /\ (pc[h] \in {"give", "signal"} \/ Taken(h)) THEN "done"
  ELSE op[h]
RetOf(h) ==
  IF impl = "Elimination" /\ Taken(h) /\ op[h] = "pop"
    THEN IF \E k \in Goroutine : curr[k] = mine[h]
           THEN <<arg[CHOOSE k \in Goroutine : curr[k] = mine[h]], TRUE>>
           ELSE <<value[mine[h]], TRUE>>
    ELSE ret[h]

Typed == impl \in Impls /\ ret \in [Goroutine -> Nat \X BOOLEAN]

(* The mapping, goroutine by goroutine. *)
Mapping ==
  Typed => /\ TheStatus = [h \in Goroutine |-> StatusOf(h)]
           /\ TheRet = [h \in Goroutine |-> RetOf(h)]

LEMMA Mapped == Mapping
  <1> SUFFICES ASSUME Typed
               PROVE  /\ TheStatus = [h \in Goroutine |-> StatusOf(h)]
                      /\ TheRet = [h \in Goroutine |-> RetOf(h)]
    BY DEF Mapping
  <1>1. TheStatus = [h \in Goroutine |-> StatusOf(h)]
    <2>1. CASE impl \in {"LockFree", "Mutex"}
      BY <2>1 DEF TheStatus, StatusOf, ListStatus
    <2>2. CASE impl = "Elimination"
      <3>1. \A h \in Goroutine : Status[h] = StatusOf(h)
        BY <2>2 DEF StatusOf, Status
      <3>2. Status = [h \in Goroutine |-> StatusOf(h)]
        BY <2>2 DEF StatusOf, Status
      <3> QED BY <2>2, <3>2 DEF TheStatus
    <2> QED BY <2>1, <2>2 DEF Typed, Impls
  <1>2. TheRet = [h \in Goroutine |-> RetOf(h)]
    <2>1. CASE impl # "Elimination"
      BY <2>1 DEF TheRet, RetOf, Typed
    <2>2. CASE impl = "Elimination"
      BY <2>2 DEF TheRet, RetOf, Result
    <2> QED BY <2>1, <2>2
  <1> QED BY <1>1, <1>2

LEMMA MappedStep ==
  ASSUME Typed, Typed'
  PROVE  /\ TheStatus = [h \in Goroutine |-> StatusOf(h)]
         /\ TheRet = [h \in Goroutine |-> RetOf(h)]
         /\ TheStatus' = [h \in Goroutine |-> StatusOf(h)']
         /\ TheRet' = [h \in Goroutine |-> RetOf(h)']
  <1>1. Mapping'
    BY Mapped, PTL
  <1> QED BY <1>1, Mapped DEF Mapping

(* A step of g that shows nothing of the others. *)
Unseen(g) ==
  \A h \in Goroutine \ {g} : StatusOf(h)' = StatusOf(h) /\ RetOf(h)' = RetOf(h)

(* A step that shows only g is an update of the functions at g. *)
LEMMA OneMoves ==
  ASSUME Typed, Typed', NEW g \in Goroutine, Unseen(g)
  PROVE  /\ TheStatus' = [TheStatus EXCEPT ![g] = StatusOf(g)']
         /\ TheRet' = [TheRet EXCEPT ![g] = RetOf(g)']
         /\ TheStatus[g] = StatusOf(g) /\ TheRet[g] = RetOf(g)
         /\ StatusOf(g)' = StatusOf(g) => TheStatus' = TheStatus
         /\ RetOf(g)' = RetOf(g) => TheRet' = TheRet
  <1>1. /\ TheStatus = [h \in Goroutine |-> StatusOf(h)]
        /\ TheRet = [h \in Goroutine |-> RetOf(h)]
        /\ TheStatus' = [h \in Goroutine |-> StatusOf(h)']
        /\ TheRet' = [h \in Goroutine |-> RetOf(h)']
    BY MappedStep
  <1> QED BY <1>1 DEF Unseen

(* One lemma for each action of AbstractStack: what a step has to do to    *)
(* the stack and to its goroutine.                                         *)
LEMMA AbstractNothing ==
  ASSUME Typed, Typed', UNCHANGED <<impl, calls, arg>>, NEW g \in Goroutine, Unseen(g),
         TheStack' = TheStack, StatusOf(g)' = StatusOf(g), RetOf(g)' = RetOf(g)
  PROVE  AbstractStep
  <1>1. TheStatus' = TheStatus /\ TheRet' = TheRet
    BY OneMoves
  <1> QED BY <1>1 DEF AbstractStep, Abstract!vars, TheStack, TheStatus, TheRet

LEMMA AbstractCall ==
  ASSUME Typed, Typed', UNCHANGED impl, NEW g \in Goroutine, Unseen(g),
         NEW k \in {"push", "pop"},
         TheStack' = TheStack, RetOf(g)' = RetOf(g),
         StatusOf(g) = "idle", StatusOf(g)' = k, calls' = calls + 1,
         arg' = [arg EXCEPT ![g] = IF k = "push" THEN calls + 1 ELSE 0]
  PROVE  AbstractStep
  <1>1. /\ TheRet' = TheRet /\ TheStatus[g] = "idle" /\ TheStatus' = [TheStatus EXCEPT ![g] = k]
    BY OneMoves
  <1> QED BY <1>1 DEF AbstractStep, Abstract!Next, Abstract!Call, TheStack, TheStatus, TheRet

LEMMA AbstractReturn ==
  ASSUME Typed, Typed', UNCHANGED <<impl, calls, arg>>, NEW g \in Goroutine, Unseen(g),
         TheStack' = TheStack, StatusOf(g) = "done", StatusOf(g)' = "idle", RetOf(g)' = None
  PROVE  AbstractStep
  <1>1. /\ TheRet' = [TheRet EXCEPT ![g] = None] /\ TheStatus[g] = "done"
        /\ TheStatus' = [TheStatus EXCEPT ![g] = "idle"]
    BY OneMoves
  <1> QED BY <1>1 DEF AbstractStep, Abstract!Next, Abstract!Return, Abstract!None, None, zero,
                      TheStack, TheStatus, TheRet

LEMMA AbstractPush ==
  ASSUME Typed, Typed', UNCHANGED <<impl, calls, arg>>, NEW g \in Goroutine, Unseen(g),
         TheStack' = <<arg[g]>> \o TheStack,
         StatusOf(g) = "push", StatusOf(g)' = "done", RetOf(g)' = RetOf(g)
  PROVE  AbstractStep
  <1>1. /\ TheRet' = TheRet /\ TheStatus[g] = "push"
        /\ TheStatus' = [TheStatus EXCEPT ![g] = "done"]
    BY OneMoves
  <1> QED BY <1>1 DEF AbstractStep, Abstract!Next, Abstract!Push, TheStack, TheStatus, TheRet

LEMMA AbstractPop ==
  ASSUME Typed, Typed', UNCHANGED <<impl, calls, arg>>, NEW g \in Goroutine, Unseen(g),
         TheStack # <<>>, TheStack' = Tail(TheStack),
         StatusOf(g) = "pop", StatusOf(g)' = "done", RetOf(g)' = <<Head(TheStack), TRUE>>
  PROVE  AbstractStep
  <1>1. /\ TheRet' = [TheRet EXCEPT ![g] = <<Head(TheStack), TRUE>>] /\ TheStatus[g] = "pop"
        /\ TheStatus' = [TheStatus EXCEPT ![g] = "done"]
    BY OneMoves
  <1> QED BY <1>1 DEF AbstractStep, Abstract!Next, Abstract!Pop, TheStack, TheStatus, TheRet

LEMMA AbstractPopEmpty ==
  ASSUME Typed, Typed', UNCHANGED <<impl, calls, arg>>, NEW g \in Goroutine, Unseen(g),
         TheStack = <<>>, TheStack' = TheStack,
         StatusOf(g) = "pop", StatusOf(g)' = "done", RetOf(g)' = RetOf(g)
  PROVE  AbstractStep
  <1>1. /\ TheRet' = TheRet /\ TheStatus[g] = "pop"
        /\ TheStatus' = [TheStatus EXCEPT ![g] = "done"]
    BY OneMoves
  <1> QED BY <1>1 DEF AbstractStep, Abstract!Next, Abstract!Pop, TheStack, TheStatus, TheRet

(* Two calls meet. *)
LEMMA AbstractEliminate ==
  ASSUME Typed, Typed', UNCHANGED <<impl, calls, arg>>, NEW g \in Goroutine, NEW h \in Goroutine,
         g # h,
         \A k \in Goroutine \ {g, h} : StatusOf(k)' = StatusOf(k) /\ RetOf(k)' = RetOf(k),
         TheStack' = TheStack,
         StatusOf(g) = "push", StatusOf(g)' = "done", RetOf(g)' = RetOf(g),
         StatusOf(h) = "pop", StatusOf(h)' = "done", RetOf(h)' = <<arg[g], TRUE>>
  PROVE  AbstractStep
  <1>1. /\ TheStatus = [k \in Goroutine |-> StatusOf(k)]
        /\ TheRet = [k \in Goroutine |-> RetOf(k)]
        /\ TheStatus' = [k \in Goroutine |-> StatusOf(k)']
        /\ TheRet' = [k \in Goroutine |-> RetOf(k)']
    BY MappedStep
  <1>2. /\ TheStatus[g] = "push" /\ TheStatus[h] = "pop"
        /\ TheStatus' = [TheStatus EXCEPT ![g] = "done", ![h] = "done"]
        /\ TheRet' = [TheRet EXCEPT ![h] = <<arg[g], TRUE>>]
    BY <1>1
  <1> QED BY <1>2 DEF AbstractStep, Abstract!Next, Abstract!Eliminate, TheStack, TheStatus, TheRet
-----------------------------------------------------------------------------
(* A step of a stack without elimination, as AbstractStack sees it.        *)

(* Only a call that is over, or that a Pop has yet to signal, has a        *)
(* result.                                                                 *)
Quiet == \A h \in Goroutine : pc[h] \notin {"done", "signal"} => ret[h] = None

LEMMA PlainStep ==
  ASSUME impl # "Elimination", impl' = impl, NEW g \in Goroutine,
         \A h \in Goroutine \ {g} : pc'[h] = pc[h] /\ op'[h] = op[h] /\ ret'[h] = ret[h]
  PROVE  /\ Unseen(g)
         /\ StatusOf(g) = IF pc[g] \in {"idle", "done"} THEN pc[g] ELSE op[g]
         /\ StatusOf(g)' = IF pc'[g] \in {"idle", "done"} THEN pc'[g] ELSE op'[g]
         /\ RetOf(g) = ret[g] /\ RetOf(g)' = ret'[g]
  BY DEF Unseen, StatusOf, RetOf

(* The steps of CallClient, goroutine by goroutine. *)
LEMMA CallersMove ==
  ASSUME NEW S, Callers(S), NEW g \in Goroutine
  PROVE  /\ \A k \in {"push", "pop"} : \A to : Start(g, k, to) =>
              /\ \A h \in Goroutine \ {g} :
                   pc'[h] = pc[h] /\ op'[h] = op[h] /\ ret'[h] = ret[h] /\ arg'[h] = arg[h]
              /\ pc[g] = "idle" /\ pc'[g] = to /\ op'[g] = k /\ ret' = ret
              /\ calls' = calls + 1
              /\ arg' = [arg EXCEPT ![g] = IF k = "push" THEN calls + 1 ELSE 0]
         /\ \A from, to : Goto(g, from, to) =>
              /\ \A h \in Goroutine \ {g} : pc'[h] = pc[h]
              /\ pc[g] = from /\ pc'[g] = to /\ UNCHANGED <<calls, op, arg, ret>>
         /\ \A from, r : Finish(g, from, r) =>
              /\ \A h \in Goroutine \ {g} : pc'[h] = pc[h] /\ ret'[h] = ret[h]
              /\ pc[g] = from /\ pc'[g] = "done" /\ ret'[g] = r
              /\ UNCHANGED <<calls, op, arg>>
         /\ Leave(g) =>
              /\ \A h \in Goroutine \ {g} : pc'[h] = pc[h] /\ ret'[h] = ret[h]
              /\ pc[g] = "done" /\ pc'[g] = "idle" /\ ret'[g] = None
              /\ UNCHANGED <<calls, op, arg>>
  <1>1. /\ pc \in [Goroutine -> S] /\ ret \in [Goroutine -> Nat \X BOOLEAN]
        /\ op \in [Goroutine -> {"none", "push", "pop", "enqueue", "dequeue"}]
        /\ arg \in [Goroutine -> Nat]
    BY DEF Callers, ClientTypeOK
  <1>2. ASSUME NEW k \in {"push", "pop"}, NEW to, Start(g, k, to)
        PROVE  /\ \A h \in Goroutine \ {g} :
                   pc'[h] = pc[h] /\ op'[h] = op[h] /\ ret'[h] = ret[h] /\ arg'[h] = arg[h]
               /\ pc[g] = "idle" /\ pc'[g] = to /\ op'[g] = k /\ ret' = ret
               /\ calls' = calls + 1
               /\ arg' = [arg EXCEPT ![g] = IF k = "push" THEN calls + 1 ELSE 0]
    BY <1>1, <1>2 DEF Start, Puts, zero
  <1>3. ASSUME NEW from, NEW to, Goto(g, from, to)
        PROVE  /\ \A h \in Goroutine \ {g} : pc'[h] = pc[h]
               /\ pc[g] = from /\ pc'[g] = to /\ UNCHANGED <<calls, op, arg, ret>>
    BY <1>1, <1>3 DEF Goto
  <1>4. ASSUME NEW from, NEW r, Finish(g, from, r)
        PROVE  /\ \A h \in Goroutine \ {g} : pc'[h] = pc[h] /\ ret'[h] = ret[h]
               /\ pc[g] = from /\ pc'[g] = "done" /\ ret'[g] = r
               /\ UNCHANGED <<calls, op, arg>>
    BY <1>1, <1>4 DEF Finish
  <1>5. ASSUME Leave(g)
        PROVE  /\ \A h \in Goroutine \ {g} : pc'[h] = pc[h] /\ ret'[h] = ret[h]
               /\ pc[g] = "done" /\ pc'[g] = "idle" /\ ret'[g] = None
               /\ UNCHANGED <<calls, op, arg>>
    BY <1>1, <1>5 DEF Leave
  <1> QED BY <1>2, <1>3, <1>4, <1>5

(* The four kinds of step. *)
LEMMA PlainCall ==
  ASSUME Typed, Typed', impl # "Elimination", impl' = impl, NEW S, Callers(S),
         NEW g \in Goroutine, NEW k \in {"push", "pop"}, NEW to, to \notin {"idle", "done"},
         Start(g, k, to), TheStack' = TheStack
  PROVE  AbstractStep
  <1>1. /\ \A h \in Goroutine \ {g} : pc'[h] = pc[h] /\ op'[h] = op[h] /\ ret'[h] = ret[h]
        /\ pc[g] = "idle" /\ pc'[g] = to /\ op'[g] = k /\ ret' = ret /\ calls' = calls + 1
        /\ arg' = [arg EXCEPT ![g] = IF k = "push" THEN calls + 1 ELSE 0]
    BY CallersMove
  <1>2. /\ Unseen(g) /\ StatusOf(g) = "idle" /\ StatusOf(g)' = k /\ RetOf(g)' = RetOf(g)
    BY <1>1, PlainStep
  <1> QED BY <1>1, <1>2, AbstractCall

LEMMA PlainGoto ==
  ASSUME Typed, Typed', impl # "Elimination", impl' = impl, NEW S, Callers(S),
         NEW g \in Goroutine, NEW from, NEW to, {from, to} \cap {"idle", "done"} = {},
         Goto(g, from, to), TheStack' = TheStack
  PROVE  AbstractStep
  <1>1. /\ \A h \in Goroutine \ {g} : pc'[h] = pc[h]
        /\ pc[g] = from /\ pc'[g] = to /\ UNCHANGED <<calls, op, arg, ret>>
    BY CallersMove
  <1>2. /\ Unseen(g) /\ StatusOf(g)' = StatusOf(g) /\ RetOf(g)' = RetOf(g)
    BY <1>1, PlainStep
  <1> QED BY <1>1, <1>2, AbstractNothing

LEMMA PlainReturn ==
  ASSUME Typed, Typed', impl # "Elimination", impl' = impl, NEW S, Callers(S),
         NEW g \in Goroutine, Leave(g), TheStack' = TheStack
  PROVE  AbstractStep
  <1>1. /\ \A h \in Goroutine \ {g} : pc'[h] = pc[h] /\ ret'[h] = ret[h]
        /\ pc[g] = "done" /\ pc'[g] = "idle" /\ ret'[g] = None
        /\ UNCHANGED <<calls, op, arg>>
    BY CallersMove
  <1>2. /\ Unseen(g) /\ StatusOf(g) = "done" /\ StatusOf(g)' = "idle" /\ RetOf(g)' = None
    BY <1>1, PlainStep
  <1> QED BY <1>1, <1>2, AbstractReturn

LEMMA PlainFinish ==
  ASSUME impl # "Elimination", impl' = impl, NEW S, Callers(S),
         NEW g \in Goroutine, NEW from, from \notin {"idle", "done"}, NEW r, Finish(g, from, r),
         Quiet, from # "signal"
  PROVE  /\ Unseen(g) /\ StatusOf(g) = op[g] /\ StatusOf(g)' = "done"
         /\ RetOf(g) = None /\ RetOf(g)' = r /\ UNCHANGED <<calls, op, arg>>
  <1>1. /\ \A h \in Goroutine \ {g} : pc'[h] = pc[h] /\ ret'[h] = ret[h]
        /\ pc[g] = from /\ pc'[g] = "done" /\ ret'[g] = r
        /\ UNCHANGED <<calls, op, arg>>
    BY CallersMove
  <1>2. ret[g] = None
    BY <1>1 DEF Quiet
  <1> QED BY <1>1, <1>2, PlainStep
-----------------------------------------------------------------------------
(* The stacks under a mutex *)

Top(s) == IF linked THEN s ELSE [i \in 1 .. Len(s) |-> s[Len(s) - i + 1]]

(* The linked list has its top first, the slice last. *)
LEMMA TopFirst ==
  ASSUME NEW s \in Seq(Nat), NEW x \in Nat
  PROVE  /\ linked => Top(<<x>> \o s) = <<x>> \o Top(s)
         /\ ~linked => Top(Append(s, x)) = <<x>> \o Top(s)
         /\ Top(<<>>) = <<>>
         /\ s # <<>> => Top(s) # <<>>
         /\ s # <<>> /\ linked => Head(Top(s)) = Head(s) /\ Tail(Top(s)) = Top(Tail(s))
         /\ s # <<>> /\ ~linked => /\ Head(Top(s)) = s[Len(s)]
                                   /\ Tail(Top(s)) = Top(SubSeq(s, 1, Len(s) - 1))
  <1>1. Len(s) \in Nat /\ \A i \in 1 .. Len(s) : s[i] \in Nat
    BY LenProperties, ElementOfSeq
  <1>2. CASE linked
    <2>1. /\ Top(<<x>> \o s) = <<x>> \o Top(s) /\ Top(<<>>) = <<>> /\ Top(s) = s
          /\ Top(Tail(s)) = Tail(s)
      BY <1>2 DEF Top
    <2> QED BY <1>2, <2>1
  <1>3. CASE ~linked
    <2>1. Top(s) = [i \in 1 .. Len(s) |-> s[Len(s) - i + 1]]
      BY <1>3 DEF Top
    <2>2. Top(s) \in Seq(Nat) /\ Len(Top(s)) = Len(s)
      <3>1. \A i \in 1 .. Len(s) : s[Len(s) - i + 1] \in Nat
        BY <1>1
      <3>2. Top(s) \in [1 .. Len(s) -> Nat]
        BY <2>1, <3>1
      <3> QED BY <1>1, <2>1, <3>2, SeqDef, LenProperties
    <2>3. Top(Append(s, x)) = <<x>> \o Top(s)
      <3> DEFINE a == Append(s, x)
                 b == <<x>> \o Top(s)
      <3>1. /\ Len(a) = Len(s) + 1 /\ a[Len(s) + 1] = x
            /\ \A i \in 1 .. Len(s) : a[i] = s[i]
        BY AppendProperties
      <3>2. <<x>> \in Seq(Nat) /\ Len(<<x>>) = 1 /\ <<x>>[1] = x
        OBVIOUS
      <3>3. /\ b \in Seq(Nat) /\ Len(b) = Len(s) + 1 /\ b[1] = x
            /\ \A i \in 2 .. Len(s) + 1 : b[i] = Top(s)[i - 1]
        <4>1. /\ b \in Seq(Nat) /\ Len(b) = 1 + Len(Top(s)) /\ b[1] = <<x>>[1]
              /\ \A i \in 1 .. Len(Top(s)) : b[1 + i] = Top(s)[i]
          BY <2>2, <3>2, ConcatProperties
        <4> HIDE DEF b
        <4>2. ASSUME NEW i \in 2 .. Len(s) + 1
              PROVE  b[i] = Top(s)[i - 1]
          <5>1. i - 1 \in 1 .. Len(Top(s)) /\ 1 + (i - 1) = i
            BY <1>1, <2>2
          <5> QED BY <4>1, <5>1
        <4>3. Len(b) = Len(s) + 1
          BY <1>1, <2>2, <4>1
        <4> QED BY <3>2, <4>1, <4>2, <4>3
      <3>4. Top(a) = [i \in 1 .. Len(a) |-> a[Len(a) - i + 1]]
        BY <1>3 DEF Top
      <3>5. Top(a) \in Seq(Nat) /\ Len(Top(a)) = Len(s) + 1
        <4>1. \A i \in 1 .. Len(a) : a[Len(a) - i + 1] \in Nat
          BY <1>1, <3>1
        <4>2. Top(a) \in [1 .. Len(a) -> Nat]
          BY <3>4, <4>1
        <4>3. Len(a) \in Nat
          BY <1>1, <3>1
        <4> QED BY <3>1, <3>4, <4>2, <4>3, SeqDef, LenProperties
      <3>6. \A i \in 1 .. Len(s) + 1 : Top(a)[i] = b[i]
        <4> SUFFICES ASSUME NEW i \in 1 .. Len(s) + 1 PROVE Top(a)[i] = b[i]
          OBVIOUS
        <4>0. Top(a)[i] = a[Len(s) + 1 - i + 1]
          BY <3>1, <3>4
        <4>1. CASE i = 1
          BY <1>1, <3>1, <3>3, <4>0, <4>1
        <4>2. CASE i # 1
          <5>1. i - 1 \in 1 .. Len(s) /\ i \in 2 .. Len(s) + 1
            BY <1>1, <4>2
          <5>2. b[i] = s[Len(s) - (i - 1) + 1]
            BY <2>1, <3>3, <5>1
          <5>3. Len(s) + 1 - i + 1 = Len(s) - (i - 1) + 1 /\ Len(s) - (i - 1) + 1 \in 1 .. Len(s)
            BY <1>1, <5>1
          <5> QED BY <3>1, <4>0, <5>2, <5>3
        <4> QED BY <4>1, <4>2
      <3> HIDE DEF a, b
      <3>7. Top(a) = b
        BY <1>1, <3>3, <3>5, <3>6, SeqEqual
      <3> QED BY <3>7 DEF a, b
    <2>4. Top(<<>>) = <<>>
      <3>1. Top(<<>>) = [i \in 1 .. 0 |-> <<>>[0 - i + 1]]
        BY <1>3 DEF Top
      <3>2. Top(<<>>) \in Seq(Nat) /\ Len(Top(<<>>)) = 0
        <4>0. 1 .. 0 = {}
          OBVIOUS
        <4>1. Top(<<>>) \in [1 .. 0 -> Nat]
          BY <3>1, <4>0, Zenon
        <4>2. Top(<<>>) \in Seq(Nat)
          BY <4>1, SeqDef
        <4>3. DOMAIN Top(<<>>) = 1 .. 0
          BY <4>1
        <4>4. Len(Top(<<>>)) \in Nat /\ 1 .. Len(Top(<<>>)) = 1 .. 0
          BY <4>2, <4>3, LenProperties
        <4>5. 1 \notin 1 .. 0 /\ (Len(Top(<<>>)) # 0 => 1 \in 1 .. Len(Top(<<>>)))
          BY <4>4
        <4> QED BY <4>2, <4>4, <4>5
      <3> QED BY <3>2, EmptySeq
    <2>5. ASSUME s # <<>>
          PROVE  /\ Top(s) # <<>> /\ Head(Top(s)) = s[Len(s)]
                 /\ Tail(Top(s)) = Top(SubSeq(s, 1, Len(s) - 1))
      <3> DEFINE p == SubSeq(s, 1, Len(s) - 1)
                 t == Tail(Top(s))
      <3>1. Len(s) > 0
        BY <1>1, <2>5, EmptySeq
      <3>2. Top(s) # <<>>
        BY <2>2, <3>1, EmptySeq
      <3>3. Head(Top(s)) = s[Len(s)]
        <4>1. Head(Top(s)) = Top(s)[1]
          BY <2>2, <3>2, HeadTailProperties
        <4> QED BY <1>1, <2>1, <3>1, <4>1
      <3>4. /\ t \in Seq(Nat) /\ Len(t) = Len(s) - 1
            /\ \A i \in 1 .. Len(s) - 1 : t[i] = Top(s)[i + 1]
        BY <2>2, <3>2, HeadTailProperties
      <3>5. /\ p \in Seq(Nat) /\ Len(p) = Len(s) - 1
            /\ \A i \in 1 .. Len(s) - 1 : p[i] = s[i]
        <4>1. Len(s) - 1 \in Int /\ \A i \in 1 .. Len(s) - 1 : s[i] \in Nat
          BY <1>1
        <4>2. /\ p \in Seq(Nat)
              /\ Len(p) = IF 1 <= Len(s) - 1 THEN Len(s) - 1 - 1 + 1 ELSE 0
              /\ \A i \in 1 .. Len(s) - 1 - 1 + 1 : p[i] = s[1 + i - 1]
          BY <4>1, SubSeqProperties
        <4>3. Len(p) = Len(s) - 1 /\ Len(s) - 1 - 1 + 1 = Len(s) - 1
          <5> HIDE DEF p
          <5>1. PICK n : n = Len(s)
            OBVIOUS
          <5>2. n \in Nat /\ n > 0 /\ Len(p) = IF 1 <= n - 1 THEN n - 1 - 1 + 1 ELSE 0
            BY <1>1, <3>1, <4>2, <5>1
          <5> QED BY <5>1, <5>2
        <4>4. \A i \in 1 .. Len(s) - 1 : 1 + i - 1 = i
          BY <1>1
        <4> QED BY <4>2, <4>3, <4>4
      <3>6. Top(p) = [i \in 1 .. Len(s) - 1 |-> p[Len(s) - 1 - i + 1]]
        BY <1>3, <3>5 DEF Top
      <3>7. Top(p) \in Seq(Nat) /\ Len(Top(p)) = Len(s) - 1
        <4>1. \A i \in 1 .. Len(s) - 1 : p[Len(s) - 1 - i + 1] \in Nat
          BY <1>1, <3>5
        <4>2. Top(p) \in [1 .. Len(s) - 1 -> Nat]
          BY <3>6, <4>1
        <4>3. Len(s) - 1 \in Nat
          BY <1>1, <3>1
        <4> QED BY <3>6, <4>2, <4>3, SeqDef, LenProperties
      <3>8. \A i \in 1 .. Len(s) - 1 : t[i] = Top(p)[i]
        <4> SUFFICES ASSUME NEW i \in 1 .. Len(s) - 1 PROVE t[i] = Top(p)[i]
          OBVIOUS
        <4>1. /\ i + 1 \in 1 .. Len(s) /\ Len(s) - (i + 1) + 1 = Len(s) - 1 - i + 1
              /\ Len(s) - 1 - i + 1 \in 1 .. Len(s) - 1
          BY <1>1
        <4>2. t[i] = s[Len(s) - (i + 1) + 1]
          BY <2>1, <3>4, <4>1
        <4>3. Top(p)[i] = p[Len(s) - 1 - i + 1]
          BY <3>6
        <4> QED BY <3>5, <4>1, <4>2, <4>3
      <3> HIDE DEF p, t
      <3>9. t = Top(p)
        BY <3>4, <3>7, <3>8, SeqEqual
      <3> QED BY <3>2, <3>3, <3>9 DEF p, t
    <2> QED BY <1>3, <2>3, <2>4, <2>5
  <1> QED BY <1>2, <1>3

(* The body under the mutex is the linearization point. *)
LEMMA MutexImplements ==
  ASSUME Typed, Typed', impl = "Mutex", impl' = impl,
         Callers(MutexPoints), MutexTypes, Quiet, linked' = linked,
         NEW g \in Goroutine, MutexCall(g) \/ MutexWork(g)
  PROVE  AbstractStep
  <1>1. TheStack = Top(rep) /\ TheStack' = Top(rep')
    BY DEF TheStack, MutexContents, Top
  <1>2. rep \in Seq(Nat) /\ (pc[g] = "locked" /\ op[g] = "push" => arg[g] \in Nat)
    <2>1. 1 .. MaxCalls \subseteq Nat
      BY MaxCallsAssumption
    <2>2. rep \in Seq(1 .. MaxCalls)
      BY DEF MutexTypes
    <2>3. \A i \in 1 .. Len(rep) : rep[i] \in Nat
      BY <2>1, <2>2, ElementOfSeq
    <2>4. rep \in Seq(Nat)
      BY <2>2, <2>3, SeqDef, LenProperties
    <2> QED BY <2>1, <2>4 DEF MutexTypes
  <1>3. CASE MutexCall(g)
    <2>1. PICK k \in {"push", "pop"} : Start(g, k, "locked")
      BY <1>3 DEF MutexCall
    <2>2. rep' = rep
      BY <1>3 DEF MutexCall, mutexVars
    <2> QED BY <1>1, <2>1, <2>2, PlainCall
  <1>4. CASE MutexPush(g)
    <2>1. op[g] = "push" /\ Finish(g, "locked", None) /\ pc[g] = "locked"
      BY <1>4 DEF MutexPush, Finish
    <2>2. /\ Unseen(g) /\ StatusOf(g) = "push" /\ StatusOf(g)' = "done"
          /\ RetOf(g)' = RetOf(g) /\ UNCHANGED <<calls, op, arg>>
      BY <2>1, PlainFinish
    <2>3. rep' = IF linked THEN <<arg[g]>> \o rep ELSE Append(rep, arg[g])
      BY <1>4 DEF MutexPush
    <2>4. arg[g] \in Nat
      BY <1>2, <2>1
    <2>5. TheStack' = <<arg[g]>> \o TheStack
      BY <1>1, <1>2, <2>3, <2>4, TopFirst
    <2> QED BY <2>2, <2>5, AbstractPush
  <1>5. CASE MutexPop(g)
    <2>1. op[g] = "pop"
      BY <1>5 DEF MutexPop
    <2>2. CASE rep = <<>> /\ Finish(g, "locked", None) /\ rep' = rep
      <3>1. /\ Unseen(g) /\ StatusOf(g) = "pop" /\ StatusOf(g)' = "done"
            /\ RetOf(g)' = RetOf(g) /\ UNCHANGED <<calls, op, arg>>
        BY <2>1, <2>2, PlainFinish
      <3>2. TheStack = <<>> /\ TheStack' = TheStack
        BY <1>1, <1>2, <2>2, TopFirst
      <3> QED BY <3>1, <3>2, AbstractPopEmpty
    <2>3. CASE rep # <<>> /\ linked /\ Finish(g, "locked", <<Head(rep), TRUE>>) /\ rep' = Tail(rep)
      <3>1. /\ Unseen(g) /\ StatusOf(g) = "pop" /\ StatusOf(g)' = "done"
            /\ RetOf(g)' = <<Head(rep), TRUE>> /\ UNCHANGED <<calls, op, arg>>
        BY <2>1, <2>3, PlainFinish
      <3>2. TheStack # <<>> /\ TheStack' = Tail(TheStack) /\ Head(TheStack) = Head(rep)
        BY <1>1, <1>2, <2>3, TopFirst
      <3> QED BY <3>1, <3>2, AbstractPop
    <2>4. CASE /\ rep # <<>> /\ ~linked /\ Finish(g, "locked", <<rep[Len(rep)], TRUE>>)
               /\ rep' = SubSeq(rep, 1, Len(rep) - 1)
      <3>1. /\ Unseen(g) /\ StatusOf(g) = "pop" /\ StatusOf(g)' = "done"
            /\ RetOf(g)' = <<rep[Len(rep)], TRUE>> /\ UNCHANGED <<calls, op, arg>>
        BY <2>1, <2>4, PlainFinish
      <3>2. TheStack # <<>> /\ TheStack' = Tail(TheStack) /\ Head(TheStack) = rep[Len(rep)]
        BY <1>1, <1>2, <2>4, TopFirst
      <3> QED BY <3>1, <3>2, AbstractPop
    <2> QED BY <1>5, <2>2, <2>3, <2>4 DEF MutexPop
  <1>6. CASE MutexReturn(g)
    <2>1. Leave(g) /\ rep' = rep
      BY <1>6 DEF MutexReturn, mutexVars
    <2> QED BY <1>1, <2>1, PlainReturn
  <1> QED BY <1>3, <1>4, <1>5, <1>6 DEF MutexWork
-----------------------------------------------------------------------------
(* The Treiber stack *)

(* A call gets its result when it finishes, or when a Pop takes an op. *)
LEMMA QuietStep ==
  ASSUME NEW S, Callers(S), Quiet, NEW g \in Goroutine,
         \/ \E k \in {"push", "pop"} : \E to : Start(g, k, to)
         \/ \E from, to : from \notin {"done", "signal"} /\ Goto(g, from, to)
         \/ \E from, r : Finish(g, from, r)
         \/ Leave(g)
         \/ \E r : /\ pc' = [pc EXCEPT ![g] = "signal"]
                   /\ ret' = [ret EXCEPT ![g] = r]
  PROVE  Quiet'
  <1>1. CASE \E k \in {"push", "pop"} : \E to : Start(g, k, to)
    <2>1. PICK k \in {"push", "pop"} : \E to : Start(g, k, to)
      BY <1>1
    <2>2. /\ \A h \in Goroutine \ {g} : pc'[h] = pc[h]
          /\ pc[g] = "idle" /\ ret' = ret
      BY <2>1, CallersMove
    <2> QED BY <2>2 DEF Quiet
  <1>2. CASE \E from, to : from \notin {"done", "signal"} /\ Goto(g, from, to)
    <2>1. PICK from, to : from \notin {"done", "signal"} /\ Goto(g, from, to)
      BY <1>2
    <2>2. /\ \A h \in Goroutine \ {g} : pc'[h] = pc[h]
          /\ pc[g] = from /\ ret' = ret
      BY <2>1, CallersMove
    <2> QED BY <2>1, <2>2 DEF Quiet
  <1>3. CASE \E from, r : Finish(g, from, r)
    <2>1. PICK from, r : Finish(g, from, r)
      BY <1>3
    <2>2. /\ \A h \in Goroutine \ {g} : pc'[h] = pc[h] /\ ret'[h] = ret[h]
          /\ pc'[g] = "done"
      BY <2>1, CallersMove
    <2> QED BY <2>2 DEF Quiet
  <1>4. CASE Leave(g)
    <2>1. /\ \A h \in Goroutine \ {g} : pc'[h] = pc[h] /\ ret'[h] = ret[h]
          /\ ret'[g] = None
      BY <1>4, CallersMove
    <2> QED BY <2>1 DEF Quiet
  <1>5. CASE \E r : /\ pc' = [pc EXCEPT ![g] = "signal"]
                    /\ ret' = [ret EXCEPT ![g] = r]
    <2>1. /\ \A h \in Goroutine \ {g} : pc'[h] = pc[h] /\ ret'[h] = ret[h]
          /\ pc'[g] = "signal"
      BY <1>5 DEF Callers, ClientTypeOK
    <2> QED BY <2>1 DEF Quiet
  <1> QED BY <1>1, <1>2, <1>3, <1>4, <1>5

(* A call of the list that neither loads nor swings the head.              *)
LEMMA ListStays ==
  ASSUME NEW g \in Goroutine, NEW S, Callers(S), HeadTypeOK, HeapInv,
         \/ \E from, to : to # "cas" /\ Goto(g, from, to)
                          /\ (Pushing(g)' => Pushing(g))
         \/ \E from, r : Finish(g, from, r)
         \/ Leave(g)
         \/ pc' = [pc EXCEPT ![g] = "signal"] /\ UNCHANGED <<op, arg>>,
         SwingFails(g) \/ LoadNil(g) \/ Drop(g) \/ UNCHANGED headVars,
         Pushing(g)' => node' = node
  PROVE  HeapInv' /\ Contents' = Contents
  <1>1. /\ node \in [Goroutine -> Node \cup {Nil}] /\ prev \in [Goroutine -> Node \cup {Nil}]
        /\ top \in [Goroutine -> [val : Nat, next : Node \cup {Nil}]]
    BY DEF HeadTypeOK
  <1>2. /\ UNCHANGED <<head, v, next>> /\ (node'[g] = node[g] \/ node'[g] = Nil)
        /\ \A h \in Goroutine \ {g} :
             node'[h] = node[h] /\ prev'[h] = prev[h] /\ top'[h] = top[h]
    BY <1>1 DEF SwingFails, LoadNil, Drop, headVars
  <1>3. /\ UNCHANGED <<op, arg>> /\ \A h \in Goroutine \ {g} : pc'[h] = pc[h]
        /\ pc'[g] # "cas" /\ (Pushing(g)' => Pushing(g))
    <2>1. CASE \E from, to : to # "cas" /\ Goto(g, from, to) /\ (Pushing(g)' => Pushing(g))
      BY <2>1, CallersMove
    <2>2. CASE \E from, r : Finish(g, from, r)
      <3>1. UNCHANGED <<op, arg>> /\ (\A h \in Goroutine \ {g} : pc'[h] = pc[h]) /\ pc'[g] = "done"
        BY <2>2, CallersMove
      <3> QED BY <3>1 DEF Pushing
    <2>3. CASE Leave(g)
      <3>1. UNCHANGED <<op, arg>> /\ (\A h \in Goroutine \ {g} : pc'[h] = pc[h]) /\ pc'[g] = "idle"
        BY <2>3, CallersMove
      <3> QED BY <3>1 DEF Pushing
    <2>4. CASE pc' = [pc EXCEPT ![g] = "signal"] /\ UNCHANGED <<op, arg>>
      BY <2>4 DEF Pushing, Callers
    <2> QED BY <2>1, <2>2, <2>3, <2>4
  <1>4. Apart(g)
    BY <1>2, <1>3 DEF Apart
  <1>5. ~Popping(g)'
    BY <1>3 DEF Popping
  <1>6. Pushing(g)' => Pushing(g) /\ pc'[g] # "cas" /\ node'[g] = node[g] /\ arg'[g] = arg[g]
    BY <1>3
  <1>7. UNCHANGED <<head, v, next>> /\ (node'[g] = node[g] \/ node'[g] = Nil)
    BY <1>2
  <1> QED BY <1>4, <1>5, <1>6, <1>7, HeapStays

(* Every step of the Treiber stack is one of AbstractStack or a stutter. *)
LEMMA TreiberImplements ==
  ASSUME Typed, Typed', impl = "LockFree", impl' = impl,
         Callers(TreiberPoints), HeadTypeOK, HeadTypeOK', HeapInv, Quiet,
         NEW g \in Goroutine, TreiberCall(g) \/ TreiberWork(g)
  PROVE  HeapInv' /\ Quiet' /\ AbstractStep
  <1>1. TheStack = Contents /\ TheStack' = Contents'
    BY DEF TheStack
  <1>2. CASE TreiberPush(g)
    <2>1. HeapInv' /\ Contents' = Contents
      BY <1>2, PushStarts
    <2>2. Start(g, "push", "cas")
      BY <1>2 DEF TreiberPush
    <2>3. Quiet'
      BY <2>2, QuietStep
    <2>4. AbstractStep
      BY <1>1, <2>1, <2>2, PlainCall
    <2> QED BY <2>1, <2>3, <2>4
  <1>3. CASE TreiberPop(g)
    <2>1. HeapInv' /\ Contents' = Contents
      BY <1>3, PopStarts
    <2>2. Start(g, "pop", "load")
      BY <1>3 DEF TreiberPop
    <2>3. Quiet'
      BY <2>2, QuietStep
    <2>4. AbstractStep
      BY <1>1, <2>1, <2>2, PlainCall
    <2> QED BY <2>1, <2>3, <2>4
  <1>4. CASE TreiberLoad(g)
    <2>1. HeapInv' /\ Contents' = Contents
      BY <1>4, LoadKeeps
    <2>2. Goto(g, "load", "cas")
      BY <1>4 DEF TreiberLoad
    <2>3. Quiet'
      BY <2>2, QuietStep
    <2>4. AbstractStep
      BY <1>1, <2>1, <2>2, PlainGoto
    <2> QED BY <2>1, <2>3, <2>4
  <1>5. CASE TreiberEmpty(g)
    <2>1. op[g] = "pop" /\ head = Nil /\ Finish(g, "load", None) /\ UNCHANGED headVars
      BY <1>5 DEF TreiberEmpty
    <2>2. HeapInv' /\ Contents' = Contents
      <3>1. node' = node
        BY <2>1 DEF headVars
      <3> QED BY <2>1, <3>1, ListStays
    <2>3. Quiet'
      BY <2>1, QuietStep
    <2>4. /\ Unseen(g) /\ StatusOf(g) = "pop" /\ StatusOf(g)' = "done"
          /\ RetOf(g)' = RetOf(g) /\ UNCHANGED <<calls, op, arg>>
      BY <2>1, PlainFinish
    <2>5. Contents = <<>>
      BY <2>1, EmptyContents
    <2>6. AbstractStep
      BY <1>1, <2>2, <2>4, <2>5, AbstractPopEmpty
    <2> QED BY <2>2, <2>3, <2>6
  <1>6. CASE op[g] = "push" /\ Finish(g, "cas", None) /\ SwingForPush(g)
    <2>1. HeapInv' /\ Contents' = <<arg[g]>> \o Contents
      BY <1>6, PushSwings
    <2>2. Quiet'
      BY <1>6, QuietStep
    <2>3. /\ Unseen(g) /\ StatusOf(g) = "push" /\ StatusOf(g)' = "done"
          /\ RetOf(g)' = RetOf(g) /\ UNCHANGED <<calls, op, arg>>
      BY <1>6, PlainFinish
    <2>4. AbstractStep
      BY <1>1, <2>1, <2>3, AbstractPush
    <2> QED BY <2>1, <2>2, <2>4
  <1>7. CASE op[g] = "pop" /\ Finish(g, "cas", <<top[g].val, TRUE>>) /\ SwingForPop(g)
    <2>1. /\ HeapInv'
          /\ Contents # <<>> /\ Contents' = Tail(Contents) /\ top[g].val = Head(Contents)
      BY <1>7, PopSwings
    <2>2. Quiet'
      BY <1>7, QuietStep
    <2>3. /\ Unseen(g) /\ StatusOf(g) = "pop" /\ StatusOf(g)' = "done"
          /\ RetOf(g)' = <<top[g].val, TRUE>> /\ UNCHANGED <<calls, op, arg>>
      BY <1>7, PlainFinish
    <2>4. AbstractStep
      BY <1>1, <2>1, <2>3, AbstractPop
    <2> QED BY <2>1, <2>2, <2>4
  <1>8. CASE Goto(g, "cas", "load") /\ SwingFails(g)
    <2>1. node' = node
      BY <1>8 DEF SwingFails
    <2>2. Pushing(g)' => Pushing(g)
      BY <1>8, CallersMove DEF Pushing
    <2>3. HeapInv' /\ Contents' = Contents
      BY <1>8, <2>1, <2>2, ListStays
    <2>4. Quiet'
      BY <1>8, QuietStep
    <2>5. AbstractStep
      BY <1>1, <1>8, <2>3, PlainGoto
    <2> QED BY <2>3, <2>4, <2>5
  <1>9. CASE TreiberReturn(g)
    <2>1. Leave(g) /\ UNCHANGED headVars
      BY <1>9 DEF TreiberReturn
    <2>2. HeapInv' /\ Contents' = Contents
      <3>1. node' = node
        BY <2>1 DEF headVars
      <3> QED BY <2>1, <3>1, ListStays
    <2>3. Quiet'
      BY <2>1, QuietStep
    <2>4. AbstractStep
      BY <1>1, <2>1, <2>2, PlainReturn
    <2> QED BY <2>2, <2>3, <2>4
  <1> QED BY <1>2, <1>3, <1>4, <1>5, <1>6, <1>7, <1>8, <1>9
          DEF TreiberCall, TreiberWork, TreiberCAS, SwingHead

(* Under the mutex a call gets its result when it finishes. *)
LEMMA MutexQuiet ==
  ASSUME Callers(MutexPoints), Quiet, NEW g \in Goroutine, MutexCall(g) \/ MutexWork(g)
  PROVE  Quiet'
  <1>1. \/ \E k \in {"push", "pop"} : \E to : Start(g, k, to)
        \/ \E from, r : Finish(g, from, r)
        \/ Leave(g)
    BY DEF MutexCall, MutexWork, MutexPush, MutexPop, MutexReturn
  <1> QED BY <1>1, QuietStep
-----------------------------------------------------------------------------
(* The elimination array again: who has met whom, and with what value.     *)

Waits(g) == pc[g] \in {"wait", "wait2"}

(* An op is its owner's; whoever takes it is of the opposite kind; a       *)
(* pusher at signal has written its value; and done is not set before the  *)
(* partner signals.                                                        *)
Meetings ==
  /\ \A g \in Goroutine : Waits(g) =>
       /\ kind[mine[g]] = op[g]
       /\ op[g] = "push" => value[mine[g]] = arg[g]
  /\ \A g \in Goroutine : pc[g] = "wait2" => slot[at[g]] # mine[g]
  /\ \A g, h \in Goroutine : Waits(g) /\ curr[h] = mine[g] => op[h] # op[g]
  /\ \A h \in Goroutine : pc[h] = "give" => op[h] = "push"
  /\ \A h \in Goroutine : pc[h] = "signal" /\ op[h] = "push" => value[curr[h]] = arg[h]
  /\ \A h \in Goroutine : pc[h] \in {"give", "signal"} => ~done[curr[h]]
  /\ \A h \in Goroutine : pc[h] = "recheck" => op[h] = "pop"

(* A step of g that neither waits before nor after it, nor has a partner.  *)
LEMMA MeetingsElsewhere ==
  ASSUME Exchange, Meetings, NEW g \in Goroutine,
         \A h \in Goroutine \ {g} : pc'[h] = pc[h] /\ op'[h] = op[h] /\ arg'[h] = arg[h],
         pc[g] \notin Partners, pc'[g] \notin Partners, pc'[g] = "recheck" => op'[g] = "pop",
         UNCHANGED <<slot, mine, curr, at, kind, value, done>>
  PROVE  Meetings'
  <1>1. \A h \in Goroutine : (Waits(h)' \/ pc'[h] \in {"give", "signal"}) =>
           h # g /\ pc'[h] = pc[h] /\ op'[h] = op[h] /\ arg'[h] = arg[h]
    BY DEF Waits, Partners
  <1>2. \A h, k \in Goroutine : Waits(k)' /\ curr'[h] = mine'[k] => op'[h] # op'[k]
    <2> SUFFICES ASSUME NEW h \in Goroutine, NEW k \in Goroutine, Waits(k)', curr'[h] = mine'[k]
                 PROVE  op'[h] # op'[k]
      OBVIOUS
    <2>1. k # g /\ Waits(k) /\ op'[k] = op[k]
      BY <1>1 DEF Waits
    <2>2. curr[h] = mine[k] /\ mine[k] # Nil
      BY <2>1 DEF Exchange, Waits
    <2>3. h # g
      BY <2>2 DEF Exchange, Partners
    <2> QED BY <2>1, <2>2, <2>3 DEF Meetings
  <1>3. \A h \in Goroutine : pc'[h] = "recheck" => op'[h] = "pop"
    BY DEF Meetings
  <1> QED BY <1>1, <1>2, <1>3 DEF Meetings, Waits

(* A step of g that stops waiting.  *)
LEMMA MeetingsEnds ==
  ASSUME Exchange, Meetings, NEW g \in Goroutine, Waits(g),
         \A h \in Goroutine \ {g} : pc'[h] = pc[h] /\ mine'[h] = mine[h],
         pc'[g] \notin Partners, pc'[g] = "recheck" => op[g] = "pop",
         \A s \in Slot : slot'[s] = slot[s] \/ slot'[s] = Nil,
         at \in [Goroutine -> Slot],
         UNCHANGED <<op, arg, curr, at, kind, value, done>>
  PROVE  Meetings'
  <1>1. \A h \in Goroutine : (Waits(h)' \/ pc'[h] \in {"give", "signal"}) =>
           h # g /\ pc'[h] = pc[h] /\ mine'[h] = mine[h]
    BY DEF Waits, Partners
  <1>2. \A h \in Goroutine : pc'[h] = "wait2" => slot'[at'[h]] # mine'[h]
    <2> SUFFICES ASSUME NEW h \in Goroutine, pc'[h] = "wait2"
                 PROVE  slot'[at[h]] # mine'[h]
      OBVIOUS
    <2>1. h # g /\ pc[h] = "wait2" /\ mine'[h] = mine[h] /\ mine[h] # Nil
      BY <1>1 DEF Waits, Exchange
    <2>2. slot[at[h]] # mine[h] /\ at[h] \in Slot
      BY <2>1 DEF Meetings
    <2> QED BY <2>1, <2>2
  <1>3. \A h, k \in Goroutine : Waits(k)' /\ curr'[h] = mine'[k] => op'[h] # op'[k]
    BY <1>1 DEF Meetings, Waits
  <1>4. \A h \in Goroutine : pc'[h] = "recheck" => op'[h] = "pop"
    BY DEF Meetings
  <1> QED BY <1>1, <1>2, <1>3, <1>4 DEF Meetings, Waits

(* Every step of the elimination stack keeps this. *)
LEMMA MeetingsStep ==
  ASSUME Callers(EliminationPoints), ArrayTypes, Exchange, Meetings,
         NEW g \in Goroutine, Call(g) \/ Work(g)
  PROVE  Meetings'
  <1>0. /\ slot \in [Slot -> Op \cup {Nil}] /\ at \in [Goroutine -> Slot]
        /\ mine \in [Goroutine -> Op \cup {Nil}] /\ curr \in [Goroutine -> Op \cup {Nil}]
        /\ kind \in [Op -> {"push", "pop"}] /\ value \in [Op -> Nat] /\ done \in [Op -> BOOLEAN]
        /\ Nil \notin Op /\ pc \in [Goroutine -> EliminationPoints]
    BY EliminationAssumption DEF ArrayTypes, Callers
  <1>1. CASE Push(g) \/ Pop(g)
    <2>1. PICK k \in {"push", "pop"} : \E to \in {"cas", "load"} : Start(g, k, to)
      BY <1>1 DEF Push, Pop, TreiberPush, TreiberPop
    <2>2. /\ \A h \in Goroutine \ {g} : pc'[h] = pc[h] /\ op'[h] = op[h] /\ arg'[h] = arg[h]
          /\ pc[g] = "idle" /\ pc'[g] \in {"cas", "load"}
      BY <2>1, CallersMove
    <2>3. UNCHANGED <<slot, mine, curr, at, kind, value, done>>
      BY <1>1 DEF Push, Pop, eliminationVars
    <2> QED BY <2>2, <2>3, MeetingsElsewhere DEF Partners
  <1>2. CASE Load(g) \/ LoadNil(g) \/ CASHead(g) \/ Recheck(g) \/ Return(g)
    <2>1. /\ \A h \in Goroutine \ {g} : pc'[h] = pc[h]
          /\ pc[g] \in {"load", "cas", "recheck", "done"}
          /\ pc'[g] \in {"idle", "load", "cas", "done", "visit"}
          /\ UNCHANGED <<op, arg>>
      BY <1>0, <1>2 DEF Load, LoadNil, CASHead, Recheck, Return, TreiberLoad, SwingHead, Goto, Finish,
                        Leave
    <2>2. UNCHANGED <<slot, mine, curr, at, kind, value, done>>
      BY <1>2 DEF Load, LoadNil, CASHead, Recheck, Return, Begin, eliminationVars
    <2> QED BY <2>1, <2>2, MeetingsElsewhere DEF Partners
  <1>3. ASSUME NEW from, VisitFails(g, from)
        PROVE  /\ \A h \in Goroutine \ {g} : pc'[h] = pc[h]
               /\ pc[g] = from /\ pc'[g] \in {"visit", "recheck", "load"}
               /\ pc'[g] = "recheck" => op[g] = "pop"
               /\ UNCHANGED <<op, arg>>
    BY <1>0, <1>3 DEF VisitFails, Goto
  <1>4. ASSUME NEW s \in Slot, Clash(g, s)
        PROVE  Meetings'
    <2>1. VisitFails(g, "visit") /\ UNCHANGED <<slot, mine, curr, at, kind, value, done>>
      BY <1>4 DEF Clash
    <2> QED BY <1>3, <2>1, MeetingsElsewhere DEF Partners
  <1>5. ASSUME NEW s \in Slot, Install(g, s)
        PROVE  Meetings'
    <2>0. PICK o : o = FreshOp
      OBVIOUS
    <2>1. /\ o \in Op /\ o # Nil
          /\ \A t \in Slot : slot[t] # o
          /\ \A h \in Goroutine : mine[h] # o /\ curr[h] # o
      BY <1>5, <2>0, FreshOpFacts DEF Install
    <2>2. /\ pc[g] = "visit" /\ pc' = [pc EXCEPT ![g] = "wait"] /\ UNCHANGED <<op, arg>>
          /\ slot' = [slot EXCEPT ![s] = o] /\ mine' = [mine EXCEPT ![g] = o]
          /\ at' = [at EXCEPT ![g] = s] /\ done' = [done EXCEPT ![o] = FALSE]
          /\ kind' = [kind EXCEPT ![o] = op[g]] /\ value' = [value EXCEPT ![o] = arg[g]]
          /\ curr' = curr
      BY <1>5, <2>0 DEF Install, Goto
    <2>3. /\ \A h \in Goroutine : pc'[h] = IF h = g THEN "wait" ELSE pc[h]
          /\ \A h \in Goroutine : mine'[h] = IF h = g THEN o ELSE mine[h]
          /\ \A h \in Goroutine : at'[h] = IF h = g THEN s ELSE at[h]
      BY <1>0, <2>2
    <2>4. /\ \A p \in Op : kind'[p] = IF p = o THEN op[g] ELSE kind[p]
          /\ \A p \in Op : value'[p] = IF p = o THEN arg[g] ELSE value[p]
          /\ \A p \in Op : p # o => done'[p] = done[p]
      BY <1>0, <2>1, <2>2
    <2>5. \A h \in Goroutine : Waits(h) => mine[h] \in Op
      BY <1>0 DEF Exchange, Waits
    <2>6. \A h \in Goroutine : pc[h] \in {"give", "signal"} => curr[h] \in Op
      BY <1>0 DEF Exchange
    <2>7. \A h \in Goroutine : Waits(h)' =>
            /\ kind'[mine'[h]] = op'[h]
            /\ op'[h] = "push" => value'[mine'[h]] = arg'[h]
      BY <2>1, <2>2, <2>3, <2>4, <2>5 DEF Meetings, Waits
    <2>8. \A h \in Goroutine : pc'[h] = "wait2" => slot'[at'[h]] # mine'[h]
      <3> SUFFICES ASSUME NEW h \in Goroutine, pc'[h] = "wait2" PROVE slot'[at'[h]] # mine'[h]
        OBVIOUS
      <3>1. h # g /\ pc[h] = "wait2" /\ mine'[h] = mine[h] /\ at'[h] = at[h] /\ mine[h] # o
        BY <2>1, <2>3
      <3>2. slot[at[h]] # mine[h] /\ at[h] \in Slot
        BY <1>0, <3>1 DEF Meetings
      <3>3. slot'[at[h]] = IF at[h] = s THEN o ELSE slot[at[h]]
        BY <1>0, <2>2, <3>2
      <3> QED BY <3>1, <3>2, <3>3
    <2>9. \A h, k \in Goroutine : Waits(k)' /\ curr'[h] = mine'[k] => op'[h] # op'[k]
      BY <2>1, <2>2, <2>3 DEF Meetings, Waits
    <2>10. /\ \A h \in Goroutine : pc'[h] = "give" => op'[h] = "push"
           /\ \A h \in Goroutine : pc'[h] = "signal" /\ op'[h] = "push" => value'[curr'[h]] = arg'[h]
           /\ \A h \in Goroutine : pc'[h] \in {"give", "signal"} => ~done'[curr'[h]]
           /\ \A h \in Goroutine : pc'[h] = "recheck" => op'[h] = "pop"
      BY <2>1, <2>2, <2>3, <2>4, <2>6 DEF Meetings
    <2> QED BY <2>7, <2>8, <2>9, <2>10 DEF Meetings
  <1>6. ASSUME NEW s \in Slot, Take(g, s)
        PROVE  Meetings'
    <2>1. PICK to \in {"give", "signal"} :
            /\ pc[g] = "visit" /\ pc' = [pc EXCEPT ![g] = to] /\ UNCHANGED <<op, arg>>
            /\ to = "give" <=> op[g] = "push"
      BY <1>6 DEF Take, Goto
    <2>2. /\ slot[s] # Nil /\ kind[slot[s]] # op[g] /\ slot' = [slot EXCEPT ![s] = Nil]
          /\ curr' = [curr EXCEPT ![g] = slot[s]] /\ UNCHANGED <<mine, at, kind, value, done>>
      BY <1>6 DEF Take
    <2>3. PICK w \in Goroutine : mine[w] = slot[s] /\ at[w] = s /\ pc[w] = "wait"
      BY <2>2 DEF Exchange
    <2>4. op[w] # op[g] /\ w # g /\ ~done[slot[s]]
      BY <2>1, <2>2, <2>3 DEF Meetings, Waits, Exchange
    <2>5. /\ \A h \in Goroutine : pc'[h] = IF h = g THEN to ELSE pc[h]
          /\ \A h \in Goroutine : curr'[h] = IF h = g THEN slot[s] ELSE curr[h]
      BY <1>0, <2>1, <2>2
    <2>6. \A h \in Goroutine : Waits(h)' => Waits(h) /\ mine[h] # Nil
      BY <2>5 DEF Waits, Exchange
    <2>7. \A h \in Goroutine : pc'[h] = "wait2" => slot'[at'[h]] # mine'[h]
      <3> SUFFICES ASSUME NEW h \in Goroutine, pc'[h] = "wait2" PROVE slot'[at[h]] # mine[h]
        BY <2>2
      <3>1. pc[h] = "wait2" /\ mine[h] # Nil
        BY <2>5, <2>6 DEF Waits
      <3>2. slot[at[h]] # mine[h] /\ at[h] \in Slot
        BY <1>0, <3>1 DEF Meetings
      <3> QED BY <1>0, <2>2, <3>1, <3>2
    <2>8. \A h, k \in Goroutine : Waits(k)' /\ curr'[h] = mine'[k] => op'[h] # op'[k]
      <3> SUFFICES ASSUME NEW h \in Goroutine, NEW k \in Goroutine, Waits(k)', curr'[h] = mine[k]
                   PROVE  op[h] # op[k]
        BY <2>1, <2>2
      <3>1. CASE h = g
        <4>1. mine[k] = mine[w] /\ mine[k] # Nil
          BY <2>3, <2>5, <2>6, <3>1
        <4>2. k = w
          BY <4>1 DEF Exchange
        <4> QED BY <2>4, <3>1, <4>2
      <3>2. CASE h # g
        BY <2>5, <2>6, <3>2 DEF Meetings
      <3> QED BY <3>1, <3>2
    <2>9. \A h \in Goroutine : Waits(h)' =>
            /\ kind'[mine'[h]] = op'[h]
            /\ op'[h] = "push" => value'[mine'[h]] = arg'[h]
      BY <2>1, <2>2, <2>6 DEF Meetings
    <2>10. /\ \A h \in Goroutine : pc'[h] = "give" => op'[h] = "push"
           /\ \A h \in Goroutine : pc'[h] = "signal" /\ op'[h] = "push" => value'[curr'[h]] = arg'[h]
           /\ \A h \in Goroutine : pc'[h] \in {"give", "signal"} => ~done'[curr'[h]]
           /\ \A h \in Goroutine : pc'[h] = "recheck" => op'[h] = "pop"
      BY <2>1, <2>2, <2>4, <2>5 DEF Meetings
    <2> QED BY <2>7, <2>8, <2>9, <2>10 DEF Meetings
  <1>7. CASE Give(g)
    <2>1. /\ pc[g] = "give" /\ pc' = [pc EXCEPT ![g] = "signal"] /\ UNCHANGED <<op, arg>>
          /\ value' = [value EXCEPT ![curr[g]] = arg[g]]
          /\ UNCHANGED <<slot, mine, curr, at, kind, done>>
      BY <1>7 DEF Give, Goto
    <2>2. \A h \in Goroutine : pc'[h] = IF h = g THEN "signal" ELSE pc[h]
      BY <1>0, <2>1
    <2>3. curr[g] \in Op /\ op[g] = "push"
      BY <1>0, <2>1 DEF Exchange, Meetings
    <2>4. \A p \in Op : value'[p] = IF p = curr[g] THEN arg[g] ELSE value[p]
      BY <1>0, <2>1, <2>3
    <2>5. \A h \in Goroutine : Waits(h)' => Waits(h) /\ mine[h] \in Op
      BY <1>0, <2>2 DEF Waits, Exchange
    <2>6. \A h \in Goroutine : Waits(h)' /\ op[h] = "push" => value'[mine[h]] = arg[h]
      BY <2>3, <2>4, <2>5 DEF Meetings
    <2>7. \A h \in Goroutine : pc[h] \in {"give", "signal"} => curr[h] \in Op
      BY <1>0 DEF Exchange
    <2>8. \A h \in Goroutine : pc'[h] = "signal" /\ op'[h] = "push" => value'[curr'[h]] = arg'[h]
      <3> SUFFICES ASSUME NEW h \in Goroutine, pc'[h] = "signal", op[h] = "push"
                   PROVE  value'[curr[h]] = arg[h]
        BY <2>1
      <3>1. CASE h = g
        BY <2>3, <2>4, <3>1
      <3>2. CASE h # g
        <4>1. pc[h] = "signal" /\ curr[h] \in Op /\ value[curr[h]] = arg[h]
          BY <2>2, <2>7, <3>2 DEF Meetings
        <4>2. curr[h] # curr[g]
          BY <1>0, <2>3, <3>2 DEF Exchange
        <4> QED BY <2>4, <4>1, <4>2
      <3> QED BY <3>1, <3>2
    <2> QED BY <2>1, <2>2, <2>5, <2>6, <2>8 DEF Meetings, Waits
  <1>8. CASE Signal(g)
    <2>1. /\ pc[g] = "signal" /\ pc' = [pc EXCEPT ![g] = "done"] /\ UNCHANGED <<op, arg>>
          /\ done' = [done EXCEPT ![curr[g]] = TRUE] /\ curr' = [curr EXCEPT ![g] = Nil]
          /\ UNCHANGED <<slot, mine, at, kind, value>>
      BY <1>8 DEF Signal, Finish
    <2>2. /\ \A h \in Goroutine : pc'[h] = IF h = g THEN "done" ELSE pc[h]
          /\ \A h \in Goroutine : curr'[h] = IF h = g THEN Nil ELSE curr[h]
      BY <1>0, <2>1
    <2>3. curr[g] # Nil /\ \A p \in Op : p # curr[g] => done'[p] = done[p]
      BY <1>0, <2>1 DEF Exchange
    <2>4. \A h \in Goroutine : pc'[h] \in {"give", "signal"} => ~done'[curr'[h]]
      <3> SUFFICES ASSUME NEW h \in Goroutine, pc'[h] \in {"give", "signal"}
                   PROVE  ~done'[curr'[h]]
        OBVIOUS
      <3>1. h # g /\ pc[h] \in {"give", "signal"} /\ curr'[h] = curr[h]
        BY <2>2
      <3>2. curr[h] \in Op /\ curr[h] # curr[g] /\ ~done[curr[h]]
        BY <1>0, <2>3, <3>1 DEF Exchange, Meetings
      <3> QED BY <2>3, <3>1, <3>2
    <2>5. \A h \in Goroutine : Waits(h)' => Waits(h) /\ mine[h] # Nil
      BY <2>2 DEF Waits, Exchange
    <2> QED BY <2>1, <2>2, <2>4, <2>5 DEF Meetings, Waits
  <1>9. ASSUME NEW from \in {"wait", "wait2"}, Matched(g, from)
        PROVE  Meetings'
    <2>1. /\ \A h \in Goroutine \ {g} : pc'[h] = pc[h] /\ mine'[h] = mine[h]
          /\ Waits(g) /\ pc'[g] = "done" /\ UNCHANGED <<op, arg, slot, curr, at, kind, value, done>>
      BY <1>0, <1>9 DEF Matched, Finish, Waits
    <2> QED BY <1>0, <2>1, MeetingsEnds DEF Partners
  <1>10. CASE SeeDone(g) \/ SpinOut(g)
    BY <1>9, <1>10 DEF SeeDone, SpinOut
  <1>11. CASE Withdraw(g)
    <2>1. CASE /\ pc[g] = "wait" /\ slot[at[g]] = mine[g]
               /\ VisitFails(g, "wait")
               /\ slot' = [slot EXCEPT ![at[g]] = Nil]
               /\ mine' = [mine EXCEPT ![g] = Nil]
               /\ UNCHANGED <<curr, at, kind, value, done, headVars>>
      <3>1. /\ \A h \in Goroutine \ {g} : pc'[h] = pc[h] /\ mine'[h] = mine[h]
            /\ \A s \in Slot : slot'[s] = slot[s] \/ slot'[s] = Nil
        BY <1>0, <1>3, <2>1
      <3>2. /\ Waits(g) /\ pc'[g] \in {"visit", "recheck", "load"}
            /\ (pc'[g] = "recheck" => op[g] = "pop") /\ UNCHANGED <<op, arg>>
        BY <1>3, <2>1 DEF Waits
      <3> QED BY <1>0, <2>1, <3>1, <3>2, MeetingsEnds DEF Partners
    <2>2. CASE slot[at[g]] # mine[g] /\ Goto(g, "wait", "wait2")
                 /\ UNCHANGED <<headVars, eliminationVars>>
      <3>1. /\ \A h \in Goroutine : pc'[h] = IF h = g THEN "wait2" ELSE pc[h]
            /\ pc[g] = "wait" /\ UNCHANGED <<op, arg, slot, mine, curr, at, kind, value, done>>
        BY <1>0, <2>2 DEF Goto, eliminationVars
      <3> QED BY <2>2, <3>1 DEF Meetings, Waits
    <2> QED BY <1>11, <2>1, <2>2 DEF Withdraw
  <1> QED BY <1>1, <1>2, <1>4, <1>5, <1>6, <1>7, <1>8, <1>10, <1>11 DEF Call, Work
-----------------------------------------------------------------------------
(* What AbstractStack sees of the elimination stack.                       *)

(* The result of a Pop whose op has been taken: the value of its partner   *)
(* until the partner signals, then the value of the op. As a formula, to   *)
(* be used of the next state as well.                                      *)
ResultIs ==
  Exchange /\ impl = "Elimination" =>
    \A k \in Goroutine : Taken(k) /\ op[k] = "pop" =>
      /\ \A h \in Goroutine : curr[h] = mine[k] => RetOf(k) = <<arg[h], TRUE>>
      /\ (\A h \in Goroutine : curr[h] # mine[k]) => RetOf(k) = <<value[mine[k]], TRUE>>

LEMMA TakenResult == ResultIs
  <1> SUFFICES ASSUME Exchange, impl = "Elimination", NEW k \in Goroutine, Taken(k), op[k] = "pop"
               PROVE  /\ \A h \in Goroutine : curr[h] = mine[k] => RetOf(k) = <<arg[h], TRUE>>
                      /\ (\A h \in Goroutine : curr[h] # mine[k])
                           => RetOf(k) = <<value[mine[k]], TRUE>>
    BY DEF ResultIs
  <1>1. ASSUME NEW h \in Goroutine, curr[h] = mine[k]
        PROVE  RetOf(k) = <<arg[h], TRUE>>
    <2>1. mine[k] # Nil
      BY DEF Exchange, Taken
    <2>2. \A x \in Goroutine : curr[x] = mine[k] <=> x = h
      BY <1>1, <2>1 DEF Exchange
    <2>3. (CHOOSE x \in Goroutine : curr[x] = mine[k]) = h
      BY <2>2
    <2> QED BY <1>1, <2>3 DEF RetOf
  <1>2. ASSUME \A h \in Goroutine : curr[h] # mine[k]
        PROVE  RetOf(k) = <<value[mine[k]], TRUE>>
    BY <1>2 DEF RetOf
  <1> QED BY <1>1, <1>2

LEMMA TakenResults ==
  ASSUME Exchange, Exchange', impl = "Elimination", impl' = impl, NEW k \in Goroutine
  PROVE  /\ Taken(k) /\ op[k] = "pop" =>
              /\ \A h \in Goroutine : curr[h] = mine[k] => RetOf(k) = <<arg[h], TRUE>>
              /\ (\A h \in Goroutine : curr[h] # mine[k]) => RetOf(k) = <<value[mine[k]], TRUE>>
         /\ Taken(k)' /\ op'[k] = "pop" =>
              /\ \A h \in Goroutine : curr'[h] = mine'[k] => RetOf(k)' = <<arg'[h], TRUE>>
              /\ (\A h \in Goroutine : curr'[h] # mine'[k])
                   => RetOf(k)' = <<value'[mine'[k]], TRUE>>
  <1>1. ResultIs'
    BY TakenResult, PTL
  <1> QED BY <1>1, TakenResult DEF ResultIs

(* What the mapping makes of a goroutine, by where it stands. *)
ViewOf(k) ==
  /\ ~Waits(k) =>
       /\ RetOf(k) = ret[k]
       /\ StatusOf(k) = IF pc[k] \in {"idle", "done"} THEN pc[k]
                        ELSE IF pc[k] \in {"give", "signal"} THEN "done"
                        ELSE op[k]
  /\ (Waits(k) /\ slot[at[k]] = mine[k]) =>
       /\ RetOf(k) = ret[k] /\ StatusOf(k) = op[k]
  /\ (Waits(k) /\ slot[at[k]] # mine[k]) =>
       /\ Taken(k) /\ StatusOf(k) = "done"
       /\ op[k] # "pop" => RetOf(k) = ret[k]

Viewed == impl = "Elimination" => \A k \in Goroutine : ViewOf(k)

LEMMA AllViewed == Viewed
  BY DEF Viewed, ViewOf, Waits, Taken, StatusOf, RetOf

LEMMA Views ==
  ASSUME impl = "Elimination", impl' = impl, NEW k \in Goroutine
  PROVE  ViewOf(k) /\ ViewOf(k)'
  <1>1. Viewed'
    BY AllViewed, PTL
  <1> QED BY <1>1, AllViewed DEF Viewed

(* Whoever keeps its op, and its partner's value, is seen as before. *)
LEMMA SameView ==
  ASSUME impl = "Elimination", impl' = impl, Exchange, Exchange', NEW k \in Goroutine,
         pc'[k] = pc[k] \/ (Waits(k) /\ Waits(k)'),
         op'[k] = op[k], ret'[k] = ret[k], mine'[k] = mine[k], at'[k] = at[k],
         Waits(k) => (slot'[at[k]] = mine[k] <=> slot[at[k]] = mine[k]),
         Waits(k) =>
           /\ \A h \in Goroutine : curr'[h] = mine[k] <=> curr[h] = mine[k]
           /\ \A h \in Goroutine : curr[h] = mine[k] => arg'[h] = arg[h]
           /\ (\A h \in Goroutine : curr[h] # mine[k]) => value'[mine[k]] = value[mine[k]]
  PROVE  StatusOf(k)' = StatusOf(k) /\ RetOf(k)' = RetOf(k)
  <1>1. CASE ~Waits(k)
    <2>1. pc'[k] = pc[k] /\ ~Waits(k)'
      BY <1>1 DEF Waits
    <2> QED BY <1>1, <2>1, Views DEF ViewOf
  <1>2. CASE Waits(k) /\ slot[at[k]] = mine[k]
    <2>1. Waits(k)' /\ slot'[at'[k]] = mine'[k]
      BY <1>2 DEF Waits
    <2> QED BY <1>2, <2>1, Views DEF ViewOf
  <1>3. CASE Waits(k) /\ slot[at[k]] # mine[k]
    <2>1. Waits(k)' /\ slot'[at'[k]] # mine'[k]
      BY <1>3 DEF Waits
    <2>2. /\ Taken(k) /\ StatusOf(k) = "done" /\ (op[k] # "pop" => RetOf(k) = ret[k])
          /\ Taken(k)' /\ StatusOf(k)' = "done" /\ (op[k] # "pop" => RetOf(k)' = ret[k])
      BY <1>3, <2>1, Views DEF ViewOf
    <2>3. CASE op[k] = "pop"
      <3>1. CASE \E h \in Goroutine : curr[h] = mine[k]
        <4>1. PICK h \in Goroutine : curr[h] = mine[k]
          BY <3>1
        <4>2. curr'[h] = mine'[k] /\ arg'[h] = arg[h]
          BY <1>3, <4>1
        <4>3. RetOf(k) = <<arg[h], TRUE>>
          BY <2>2, <2>3, <4>1, TakenResults
        <4>4. RetOf(k)' = <<arg'[h], TRUE>>
          <5>1. Taken(k)' /\ op'[k] = "pop"
            BY <2>2, <2>3
          <5> QED BY <4>2, <5>1, TakenResults
        <4> QED BY <2>2, <4>2, <4>3, <4>4
      <3>2. CASE \A h \in Goroutine : curr[h] # mine[k]
        <4>1. \A h \in Goroutine : curr'[h] # mine'[k]
          BY <1>3, <3>2
        <4>2. value'[mine'[k]] = value[mine[k]]
          BY <1>3, <3>2
        <4>3. RetOf(k) = <<value[mine[k]], TRUE>>
          BY <2>2, <2>3, <3>2, TakenResults
        <4>4. RetOf(k)' = <<value'[mine'[k]], TRUE>>
          <5>1. Taken(k)' /\ op'[k] = "pop"
            BY <2>2, <2>3
          <5> QED BY <4>1, <5>1, TakenResults
        <4> QED BY <2>2, <4>2, <4>3, <4>4
      <3> QED BY <3>1, <3>2
    <2> QED BY <2>2, <2>3
  <1> QED BY <1>1, <1>2, <1>3
-----------------------------------------------------------------------------
(* The steps of the elimination stack, as AbstractStack sees them.         *)

(* A step of g that changes no partner or value of another waiter. *)
LEMMA OthersSeen ==
  ASSUME impl = "Elimination", impl' = impl, Exchange, Exchange', NEW g \in Goroutine,
         \A k \in Goroutine \ {g} :
           /\ pc'[k] = pc[k] /\ op'[k] = op[k] /\ ret'[k] = ret[k] /\ arg'[k] = arg[k]
           /\ mine'[k] = mine[k] /\ curr'[k] = curr[k] /\ at'[k] = at[k],
         \A k \in Goroutine \ {g} : Waits(k) =>
           /\ slot'[at[k]] = mine[k] <=> slot[at[k]] = mine[k]
           /\ curr'[g] = mine[k] <=> curr[g] = mine[k]
           /\ curr[g] = mine[k] => arg'[g] = arg[g]
           /\ (\A h \in Goroutine : curr[h] # mine[k]) => value'[mine[k]] = value[mine[k]]
  PROVE  Unseen(g)
  <1> SUFFICES ASSUME NEW k \in Goroutine \ {g}
               PROVE  StatusOf(k)' = StatusOf(k) /\ RetOf(k)' = RetOf(k)
    BY DEF Unseen
  <1>1. Waits(k) =>
           /\ \A h \in Goroutine : curr'[h] = mine[k] <=> curr[h] = mine[k]
           /\ \A h \in Goroutine : curr[h] = mine[k] => arg'[h] = arg[h]
           /\ (\A h \in Goroutine : curr[h] # mine[k]) => value'[mine[k]] = value[mine[k]]
    OBVIOUS
  <1> QED BY <1>1, SameView

(* A step of g that has no business in the array. *)
LEMMA OutsideSeen ==
  ASSUME impl = "Elimination", impl' = impl, Exchange, Exchange', NEW g \in Goroutine,
         \A k \in Goroutine \ {g} :
           pc'[k] = pc[k] /\ op'[k] = op[k] /\ ret'[k] = ret[k] /\ arg'[k] = arg[k],
         pc[g] \notin Partners, pc'[g] \notin Partners,
         UNCHANGED <<slot, mine, curr, at, value>>
  PROVE  /\ Unseen(g)
         /\ StatusOf(g) = IF pc[g] \in {"idle", "done"} THEN pc[g] ELSE op[g]
         /\ StatusOf(g)' = IF pc'[g] \in {"idle", "done"} THEN pc'[g] ELSE op'[g]
         /\ RetOf(g) = ret[g] /\ RetOf(g)' = ret'[g]
  <1>1. \A k \in Goroutine \ {g} : Waits(k) => curr[g] # mine[k]
    BY DEF Exchange, Waits, Partners
  <1>2. Unseen(g)
    BY <1>1, OthersSeen
  <1>3. ~Waits(g) /\ ~Waits(g)'
    BY DEF Waits, Partners
  <1>4. ViewOf(g) /\ ViewOf(g)'
    BY Views
  <1> QED BY <1>2, <1>3, <1>4 DEF ViewOf, Partners

(* The four kinds of step outside the array. *)
LEMMA OutsideCall ==
  ASSUME Typed, Typed', impl = "Elimination", impl' = impl, Exchange, Exchange',
         NEW S, Callers(S), NEW g \in Goroutine, NEW k \in {"push", "pop"}, NEW to,
         to \notin {"idle", "done"}, to \notin Partners,
         Start(g, k, to), UNCHANGED <<slot, mine, curr, at, value>>, TheStack' = TheStack
  PROVE  AbstractStep
  <1>1. /\ \A h \in Goroutine \ {g} :
             pc'[h] = pc[h] /\ op'[h] = op[h] /\ ret'[h] = ret[h] /\ arg'[h] = arg[h]
        /\ pc[g] = "idle" /\ pc'[g] = to /\ op'[g] = k /\ ret' = ret /\ calls' = calls + 1
        /\ arg' = [arg EXCEPT ![g] = IF k = "push" THEN calls + 1 ELSE 0]
    BY CallersMove
  <1>2. /\ Unseen(g) /\ StatusOf(g) = "idle" /\ StatusOf(g)' = k /\ RetOf(g)' = RetOf(g)
    BY <1>1, OutsideSeen DEF Partners
  <1> QED BY <1>1, <1>2, AbstractCall

LEMMA OutsideGoto ==
  ASSUME Typed, Typed', impl = "Elimination", impl' = impl, Exchange, Exchange',
         NEW S, Callers(S), NEW g \in Goroutine, NEW from, NEW to,
         {from, to} \cap {"idle", "done"} = {}, {from, to} \cap Partners = {},
         Goto(g, from, to), UNCHANGED <<slot, mine, curr, at, value>>, TheStack' = TheStack
  PROVE  AbstractStep
  <1>1. /\ \A h \in Goroutine \ {g} : pc'[h] = pc[h]
        /\ pc[g] = from /\ pc'[g] = to /\ UNCHANGED <<calls, op, arg, ret>>
    BY CallersMove
  <1>2. /\ Unseen(g) /\ StatusOf(g)' = StatusOf(g) /\ RetOf(g)' = RetOf(g)
    BY <1>1, OutsideSeen
  <1> QED BY <1>1, <1>2, AbstractNothing

LEMMA OutsideReturn ==
  ASSUME Typed, Typed', impl = "Elimination", impl' = impl, Exchange, Exchange',
         NEW S, Callers(S), NEW g \in Goroutine,
         Leave(g), UNCHANGED <<slot, mine, curr, at, value>>, TheStack' = TheStack
  PROVE  AbstractStep
  <1>1. /\ \A h \in Goroutine \ {g} : pc'[h] = pc[h] /\ ret'[h] = ret[h]
        /\ pc[g] = "done" /\ pc'[g] = "idle" /\ ret'[g] = None
        /\ UNCHANGED <<calls, op, arg>>
    BY CallersMove
  <1>2. /\ Unseen(g) /\ StatusOf(g) = "done" /\ StatusOf(g)' = "idle" /\ RetOf(g)' = None
    BY <1>1, OutsideSeen DEF Partners
  <1> QED BY <1>1, <1>2, AbstractReturn

LEMMA OutsideFinish ==
  ASSUME impl = "Elimination", impl' = impl, Exchange, Exchange', Quiet,
         NEW S, Callers(S), NEW g \in Goroutine, NEW from, from \notin {"idle", "done"},
         from \notin Partners, NEW r, Finish(g, from, r),
         UNCHANGED <<slot, mine, curr, at, value>>
  PROVE  /\ Unseen(g) /\ StatusOf(g) = op[g] /\ StatusOf(g)' = "done"
         /\ RetOf(g) = None /\ RetOf(g)' = r /\ UNCHANGED <<calls, op, arg>>
  <1>1. /\ \A h \in Goroutine \ {g} : pc'[h] = pc[h] /\ ret'[h] = ret[h]
        /\ pc[g] = from /\ pc'[g] = "done" /\ ret'[g] = r
        /\ UNCHANGED <<calls, op, arg>>
    BY CallersMove
  <1>2. ret[g] = None
    BY <1>1 DEF Quiet, Partners
  <1> QED BY <1>1, <1>2, OutsideSeen DEF Partners
-----------------------------------------------------------------------------
(* The elimination array touches neither the list nor its links. *)

LEMMA EliminationKeeps ==
  ASSUME Callers(EliminationPoints), HeadTypeOK, HeadTypeOK', HeapInv, Quiet, Meetings,
         NEW g \in Goroutine, Call(g) \/ Work(g), ~SwingHead(g)
  PROVE  HeapInv' /\ Quiet' /\ Contents' = Contents
  <1>0. /\ pc \in [Goroutine -> EliminationPoints]
        /\ ret \in [Goroutine -> Nat \X BOOLEAN]
        /\ node \in [Goroutine -> Node \cup {Nil}]
    BY DEF Callers, ClientTypeOK, HeadTypeOK
  <1>1. CASE Push(g)
    <2>1. HeapInv' /\ Contents' = Contents
      BY <1>1, PushStarts DEF Push
    <2>2. Start(g, "push", "cas")
      BY <1>1 DEF Push, TreiberPush
    <2> QED BY <2>1, <2>2, QuietStep
  <1>2. CASE Pop(g)
    <2>1. HeapInv' /\ Contents' = Contents
      BY <1>2, PopStarts DEF Pop
    <2>2. Start(g, "pop", "load")
      BY <1>2 DEF Pop, TreiberPop
    <2> QED BY <2>1, <2>2, QuietStep
  <1>3. CASE Load(g)
    <2>1. HeapInv' /\ Contents' = Contents
      BY <1>3, LoadKeeps DEF Load
    <2>2. Goto(g, "load", "cas")
      BY <1>3 DEF Load, TreiberLoad
    <2> QED BY <2>1, <2>2, QuietStep
  <1>4. ASSUME NEW from, NEW to, from \notin {"done", "signal"}, to # "cas", Goto(g, from, to),
               LoadNil(g) \/ UNCHANGED headVars,
               to \in {"load", "visit", "wait"} => op[g] = "pop" \/ from \in {"cas", "visit", "wait"}
        PROVE  HeapInv' /\ Quiet' /\ Contents' = Contents
    <2>1. Quiet'
      BY <1>4, QuietStep
    <2>2. pc[g] = from /\ pc'[g] = to /\ UNCHANGED <<op, arg>>
      BY <1>4, CallersMove
    <2>3. Pushing(g)' => Pushing(g)
      BY <1>4, <2>2 DEF Pushing
    <2>4. node' = node
      BY <1>4 DEF LoadNil, headVars
    <2>5. HeapInv' /\ Contents' = Contents
      BY <1>4, <2>3, <2>4, ListStays
    <2> QED BY <2>1, <2>5
  <1>5. ASSUME NEW from, NEW r, Finish(g, from, r), Drop(g) \/ UNCHANGED headVars
        PROVE  HeapInv' /\ Quiet' /\ Contents' = Contents
    <2>1. Quiet'
      BY <1>5, QuietStep
    <2>2. ~Pushing(g)'
      <3>1. pc'[g] = "done"
        BY <1>5, CallersMove
      <3> QED BY <3>1 DEF Pushing
    <2>3. HeapInv' /\ Contents' = Contents
      BY <1>5, <2>2, ListStays
    <2> QED BY <2>1, <2>3
  <1>6. ASSUME NEW from \in {"visit", "wait"}, VisitFails(g, from), UNCHANGED headVars
        PROVE  HeapInv' /\ Quiet' /\ Contents' = Contents
    <2>1. PICK to \in {"visit", "recheck", "load"} : Goto(g, from, to)
      <3>1. CASE tries[g] > 1
        BY <1>6, <3>1 DEF VisitFails
      <3>2. CASE ~(tries[g] > 1) /\ op[g] = "pop" /\ prev[g] = Nil
        BY <1>6, <3>2 DEF VisitFails
      <3>3. CASE ~(tries[g] > 1) /\ ~(op[g] = "pop" /\ prev[g] = Nil)
        BY <1>6, <3>3 DEF VisitFails
      <3> QED BY <3>1, <3>2, <3>3
    <2> QED BY <1>4, <1>6, <2>1
  <1>7. CASE LoadNil(g)
    BY <1>4, <1>7 DEF LoadNil
  <1>8. CASE CASHead(g)
    BY <1>4, <1>8 DEF CASHead
  <1>9. CASE Recheck(g)
    <2>1. CASE head = Nil /\ Finish(g, "recheck", None)
      BY <1>5, <1>9, <2>1 DEF Recheck
    <2>2. CASE head # Nil /\ Goto(g, "recheck", "load")
      <3>1. op[g] = "pop"
        BY <2>2 DEF Goto, Meetings
      <3> QED BY <1>4, <1>9, <2>2, <3>1 DEF Recheck
    <2> QED BY <1>9, <2>1, <2>2 DEF Recheck
  <1>10. ASSUME NEW s \in Slot, Install(g, s)
         PROVE  HeapInv' /\ Quiet' /\ Contents' = Contents
    <2>1. Goto(g, "visit", "wait") /\ UNCHANGED headVars
      BY <1>10 DEF Install
    <2> QED BY <1>4, <2>1
  <1>11. ASSUME NEW s \in Slot, Clash(g, s)
         PROVE  HeapInv' /\ Quiet' /\ Contents' = Contents
    <2>1. VisitFails(g, "visit") /\ UNCHANGED headVars
      BY <1>11 DEF Clash
    <2> QED BY <1>6, <2>1
  <1>12. ASSUME NEW s \in Slot, Take(g, s)
         PROVE  HeapInv' /\ Quiet' /\ Contents' = Contents
    <2>1. UNCHANGED headVars
      BY <1>12 DEF Take
    <2>2. CASE Goto(g, "visit", "give")
      BY <1>4, <2>1, <2>2
    <2>3. CASE /\ pc' = [pc EXCEPT ![g] = "signal"]
               /\ ret' = [ret EXCEPT ![g] = <<value[slot[s]], TRUE>>]
               /\ UNCHANGED <<calls, op, arg>>
      <3>1. Quiet'
        BY <2>3, QuietStep
      <3>2. ~Pushing(g)'
        BY <1>0, <2>3 DEF Pushing
      <3>3. HeapInv' /\ Contents' = Contents
        BY <2>1, <2>3, <3>2, ListStays
      <3> QED BY <3>1, <3>3
    <2> QED BY <1>12, <2>2, <2>3 DEF Take
  <1>13. CASE Give(g)
    <2>1. Goto(g, "give", "signal") /\ UNCHANGED headVars
      BY <1>13 DEF Give
    <2> QED BY <1>4, <2>1
  <1>14. CASE Signal(g)
    BY <1>5, <1>14 DEF Signal
  <1>15. CASE SeeDone(g) \/ SpinOut(g)
    BY <1>5, <1>15 DEF SeeDone, SpinOut, Matched
  <1>16. CASE Withdraw(g)
    <2>1. CASE VisitFails(g, "wait") /\ UNCHANGED headVars
      BY <1>6, <2>1
    <2>2. CASE Goto(g, "wait", "wait2") /\ UNCHANGED headVars
      BY <1>4, <2>2
    <2> QED BY <1>16, <2>1, <2>2 DEF Withdraw
  <1>17. CASE Return(g)
    <2>1. Leave(g) /\ UNCHANGED headVars
      BY <1>17 DEF Return
    <2>2. Quiet'
      BY <2>1, QuietStep
    <2>3. ~Pushing(g)'
      <3>1. pc'[g] = "idle"
        BY <2>1, CallersMove
      <3> QED BY <3>1 DEF Pushing
    <2>4. HeapInv' /\ Contents' = Contents
      BY <2>1, <2>3, ListStays
    <2> QED BY <2>2, <2>4
  <1> QED BY <1>1, <1>2, <1>3, <1>7, <1>8, <1>9, <1>10, <1>11, <1>12, <1>13, <1>14, <1>15, <1>16,
             <1>17 DEF Call, Work
-----------------------------------------------------------------------------
(* A step of the elimination array leaves the abstract stack as it is,     *)
(* except that two calls meet when one takes the other's op.               *)

LEMMA ArrayImplements ==
  ASSUME Typed, Typed', impl = "Elimination", impl' = impl, PusherMayStall = FALSE,
         Callers(EliminationPoints), ArrayTypes, Exchange, Exchange', Quiet, Meetings,
         Contents' = Contents, NEW g \in Goroutine,
         \/ \E s \in Slot : Install(g, s) \/ Clash(g, s) \/ Take(g, s)
         \/ Give(g) \/ Signal(g) \/ SeeDone(g) \/ Withdraw(g) \/ SpinOut(g)
  PROVE  AbstractStep
  <1>0. /\ slot \in [Slot -> Op \cup {Nil}] /\ at \in [Goroutine -> Slot]
        /\ mine \in [Goroutine -> Op \cup {Nil}] /\ curr \in [Goroutine -> Op \cup {Nil}]
        /\ kind \in [Op -> {"push", "pop"}] /\ value \in [Op -> Nat] /\ done \in [Op -> BOOLEAN]
        /\ Nil \notin Op /\ pc \in [Goroutine -> EliminationPoints]
        /\ ret \in [Goroutine -> Nat \X BOOLEAN]
    BY EliminationAssumption DEF ArrayTypes, Callers, ClientTypeOK
  <1>1. TheStack' = TheStack
    BY DEF TheStack
  <1>2. \A k \in Goroutine : Waits(k) => mine[k] \in Op /\ at[k] \in Slot
    BY <1>0 DEF Exchange, Waits
  <1>3. \A k, h \in Goroutine : Waits(k) /\ mine[k] = mine[h] => k = h
    BY DEF Exchange, Waits
  <1>4. /\ ViewOf(g) /\ ViewOf(g)'
        /\ pc[g] \notin {"idle", "done"} => op[g] \in {"push", "pop"}
    BY Views DEF Callers
  <1>5. ASSUME NEW from \in {"visit", "wait"}, VisitFails(g, from)
        PROVE  /\ \A h \in Goroutine \ {g} : pc'[h] = pc[h]
               /\ pc[g] = from /\ pc'[g] \in {"visit", "recheck", "load"}
               /\ UNCHANGED <<calls, op, arg, ret>>
    BY <1>0, <1>5 DEF VisitFails, Goto
  <1>6. ASSUME NEW s \in Slot, Install(g, s)
        PROVE  AbstractStep
    <2>0. PICK o : o = FreshOp
      OBVIOUS
    <2>1. /\ o \in Op /\ \A k \in Goroutine : mine[k] # o /\ curr[k] # o
      BY <1>6, <2>0, FreshOpFacts DEF Install
    <2>2. /\ pc[g] = "visit" /\ pc' = [pc EXCEPT ![g] = "wait"] /\ UNCHANGED <<calls, op, arg, ret>>
          /\ slot[s] = Nil /\ slot' = [slot EXCEPT ![s] = o] /\ mine' = [mine EXCEPT ![g] = o]
          /\ at' = [at EXCEPT ![g] = s] /\ value' = [value EXCEPT ![o] = arg[g]] /\ curr' = curr
      BY <1>6, <2>0 DEF Install, Goto
    <2>3. \A k \in Goroutine \ {g} :
             /\ pc'[k] = pc[k] /\ op'[k] = op[k] /\ ret'[k] = ret[k] /\ arg'[k] = arg[k]
             /\ mine'[k] = mine[k] /\ curr'[k] = curr[k] /\ at'[k] = at[k]
      BY <1>0, <2>2
    <2>4. /\ \A t \in Slot : slot'[t] = IF t = s THEN o ELSE slot[t]
          /\ \A p \in Op : p # o => value'[p] = value[p]
      BY <1>0, <2>1, <2>2
    <2>5. \A k \in Goroutine \ {g} : Waits(k) =>
             /\ slot'[at[k]] = mine[k] <=> slot[at[k]] = mine[k]
             /\ value'[mine[k]] = value[mine[k]]
      BY <1>0, <1>2, <2>1, <2>2, <2>4
    <2>6. Unseen(g)
      BY <2>2, <2>3, <2>5, OthersSeen
    <2>7. /\ pc'[g] = "wait" /\ mine'[g] = o /\ at'[g] = s /\ slot'[s] = o
      BY <1>0, <2>2
    <2>8. Waits(g)' /\ ~Waits(g)
      BY <2>2, <2>7 DEF Waits
    <2>9. StatusOf(g)' = StatusOf(g) /\ RetOf(g)' = RetOf(g)
      BY <1>4, <2>2, <2>7, <2>8 DEF ViewOf
    <2> QED BY <1>1, <2>2, <2>6, <2>9, AbstractNothing
  <1>7. ASSUME NEW s \in Slot, Clash(g, s)
        PROVE  AbstractStep
    <2>1. VisitFails(g, "visit") /\ UNCHANGED <<slot, mine, curr, at, value>>
      BY <1>7 DEF Clash
    <2>2. /\ \A h \in Goroutine \ {g} : pc'[h] = pc[h]
          /\ pc[g] = "visit" /\ pc'[g] \in {"visit", "recheck", "load"}
          /\ UNCHANGED <<calls, op, arg, ret>>
      BY <1>5, <2>1
    <2>3. Unseen(g) /\ StatusOf(g)' = StatusOf(g) /\ RetOf(g)' = RetOf(g)
      BY <2>1, <2>2, OutsideSeen DEF Partners
    <2> QED BY <1>1, <2>2, <2>3, AbstractNothing
  <1>8. ASSUME NEW s \in Slot, Take(g, s)
        PROVE  AbstractStep
    <2>1. PICK o : o = slot[s]
      OBVIOUS
    <2>2. /\ o # Nil /\ kind[o] # op[g] /\ slot' = [slot EXCEPT ![s] = Nil]
          /\ curr' = [curr EXCEPT ![g] = o] /\ UNCHANGED <<mine, at, kind, value, done>>
          /\ UNCHANGED <<calls, op, arg>>
          /\ \/ op[g] = "push" /\ pc[g] = "visit" /\ pc' = [pc EXCEPT ![g] = "give"] /\ ret' = ret
             \/ /\ op[g] = "pop" /\ pc[g] = "visit" /\ pc' = [pc EXCEPT ![g] = "signal"]
                /\ ret' = [ret EXCEPT ![g] = <<value[o], TRUE>>]
      BY <1>8, <2>1 DEF Take, Goto
    <2>3. PICK w \in Goroutine : mine[w] = o /\ at[w] = s /\ pc[w] = "wait"
      BY <2>1, <2>2 DEF Exchange
    <2>4. \A h \in Goroutine : curr[h] # o
      BY <2>1, <2>2 DEF Exchange
    <2>5. /\ Waits(w) /\ w # g /\ pc[g] = "visit" /\ curr[g] = Nil
          /\ kind[o] = op[w] /\ (op[w] = "push" => value[o] = arg[w])
      BY <2>2, <2>3 DEF Waits, Meetings, Exchange
    <2>6. op[w] \in {"push", "pop"} /\ op[g] \in {"push", "pop"} /\ op[w] # op[g]
      BY <2>2, <2>3, <2>5 DEF Callers
    <2>7. /\ \A t \in Slot : slot'[t] = IF t = s THEN Nil ELSE slot[t]
          /\ \A k \in Goroutine : curr'[k] = IF k = g THEN o ELSE curr[k]
          /\ \A k \in Goroutine \ {g} : pc'[k] = pc[k] /\ ret'[k] = ret[k]
      BY <1>0, <2>2
    <2>8. \A k \in Goroutine \ {g, w} : StatusOf(k)' = StatusOf(k) /\ RetOf(k)' = RetOf(k)
      <3> SUFFICES ASSUME NEW k \in Goroutine \ {g, w}
                   PROVE  StatusOf(k)' = StatusOf(k) /\ RetOf(k)' = RetOf(k)
        OBVIOUS
      <3>1. Waits(k) => mine[k] # o /\ mine[k] # Nil
        BY <1>0, <1>2, <1>3, <2>3
      <3>2. Waits(k) => (slot'[at[k]] = mine[k] <=> slot[at[k]] = mine[k])
        BY <1>2, <2>1, <2>7, <3>1
      <3>3. Waits(k) => \A h \in Goroutine : curr'[h] = mine[k] <=> curr[h] = mine[k]
        BY <2>5, <2>7, <3>1
      <3> QED BY <2>2, <2>7, <3>2, <3>3, SameView
    <2>9. ViewOf(w) /\ ViewOf(w)'
      BY Views
    <2>10. Waits(w)' /\ slot[at[w]] = mine[w] /\ slot'[at'[w]] # mine'[w]
      BY <2>1, <2>2, <2>3, <2>5, <2>7 DEF Waits
    <2>11. /\ StatusOf(w) = op[w] /\ RetOf(w) = ret[w] /\ Taken(w)' /\ StatusOf(w)' = "done"
           /\ (op[w] # "pop" => RetOf(w)' = ret[w])
      BY <2>2, <2>5, <2>7, <2>9, <2>10 DEF ViewOf
    <2>12. ~Waits(g) /\ StatusOf(g) = op[g] /\ RetOf(g) = ret[g]
      BY <1>4, <2>5 DEF ViewOf, Waits
    <2>13. pc'[g] \in {"give", "signal"}
      BY <1>0, <2>2
    <2>14. StatusOf(g)' = "done" /\ RetOf(g)' = ret'[g]
      BY <1>4, <2>13 DEF ViewOf, Waits
    <2>15. CASE op[g] = "push"
      <3>1. op[w] = "pop" /\ ret' = ret
        BY <2>2, <2>6, <2>15
      <3>2. curr'[g] = mine'[w]
        BY <2>2, <2>3, <2>7
      <3>3. RetOf(w)' = <<arg[g], TRUE>>
        BY <2>2, <2>11, <3>1, <3>2, TakenResults
      <3> QED BY <1>1, <2>2, <2>5, <2>8, <2>11, <2>12, <2>14, <2>15, <3>1, <3>3, AbstractEliminate
    <2>16. CASE op[g] = "pop"
      <3>1. op[w] = "push" /\ ret'[g] = <<arg[w], TRUE>>
        BY <1>0, <2>2, <2>5, <2>6, <2>16
      <3> QED BY <1>1, <2>2, <2>5, <2>8, <2>11, <2>12, <2>14, <2>16, <3>1, AbstractEliminate
    <2> QED BY <2>6, <2>15, <2>16
  <1>9. CASE Give(g)
    <2>1. /\ pc[g] = "give" /\ pc' = [pc EXCEPT ![g] = "signal"] /\ UNCHANGED <<calls, op, arg, ret>>
          /\ value' = [value EXCEPT ![curr[g]] = arg[g]] /\ UNCHANGED <<slot, mine, curr, at>>
      BY <1>9 DEF Give, Goto
    <2>2. \A k \in Goroutine : pc'[k] = IF k = g THEN "signal" ELSE pc[k]
      BY <1>0, <2>1
    <2>3. \A k \in Goroutine : Waits(k) /\ curr[g] # mine[k] => value'[mine[k]] = value[mine[k]]
      BY <1>0, <1>2, <2>1
    <2>4. Unseen(g)
      BY <2>1, <2>2, <2>3, OthersSeen
    <2>5. ~Waits(g) /\ ~Waits(g)' /\ pc'[g] = "signal"
      BY <2>1, <2>2 DEF Waits
    <2>6. StatusOf(g)' = StatusOf(g) /\ RetOf(g)' = RetOf(g)
      BY <1>4, <2>1, <2>5 DEF ViewOf
    <2> QED BY <1>1, <2>1, <2>4, <2>6, AbstractNothing
  <1>10. CASE Signal(g)
    <2>1. /\ pc[g] = "signal" /\ pc' = [pc EXCEPT ![g] = "done"] /\ UNCHANGED <<calls, op, arg>>
          /\ ret' = [ret EXCEPT ![g] = ret[g]] /\ curr' = [curr EXCEPT ![g] = Nil]
          /\ UNCHANGED <<slot, mine, at, value>>
      BY <1>10 DEF Signal, Finish
    <2>2. /\ \A k \in Goroutine : pc'[k] = IF k = g THEN "done" ELSE pc[k]
          /\ \A k \in Goroutine : curr'[k] = IF k = g THEN Nil ELSE curr[k]
          /\ ret' = ret
      BY <1>0, <2>1
    <2>3. curr[g] # Nil /\ op[g] \in {"push", "pop"}
      BY <1>4, <2>1 DEF Exchange
    <2>4. Unseen(g)
      <3> SUFFICES ASSUME NEW k \in Goroutine \ {g}
                   PROVE  StatusOf(k)' = StatusOf(k) /\ RetOf(k)' = RetOf(k)
        BY DEF Unseen
      <3>1. CASE Waits(k) /\ curr[g] = mine[k]
        <4>1. op[g] # op[k] /\ op[k] \in {"push", "pop"}
          BY <3>1 DEF Meetings, Callers, Waits
        <4>2. slot[at[k]] # mine[k]
          BY <1>2, <2>3, <3>1 DEF Exchange
        <4>3. ViewOf(k) /\ ViewOf(k)'
          BY Views
        <4>4. Waits(k)' /\ slot'[at'[k]] # mine'[k]
          BY <2>1, <2>2, <3>1, <4>2 DEF Waits
        <4>5. /\ Taken(k) /\ StatusOf(k) = "done" /\ Taken(k)' /\ StatusOf(k)' = "done"
              /\ op[k] # "pop" => RetOf(k) = ret[k] /\ RetOf(k)' = ret[k]
          BY <2>1, <2>2, <3>1, <4>2, <4>3, <4>4 DEF ViewOf
        <4>6. CASE op[k] = "pop"
          <5>1. value[mine[k]] = arg[g]
            BY <2>1, <2>3, <3>1, <4>1, <4>6 DEF Meetings
          <5>2. RetOf(k) = <<arg[g], TRUE>>
            BY <3>1, <4>5, <4>6, TakenResults
          <5>3. \A h \in Goroutine : curr'[h] # mine'[k]
            BY <2>1, <2>2, <2>3, <3>1 DEF Exchange
          <5>4. RetOf(k)' = <<arg[g], TRUE>>
            BY <2>1, <4>5, <4>6, <5>1, <5>3, TakenResults
          <5> QED BY <4>5, <5>2, <5>4
        <4> QED BY <4>5, <4>6
      <3>2. CASE ~(Waits(k) /\ curr[g] = mine[k])
        <4>1. Waits(k) => \A h \in Goroutine : curr'[h] = mine[k] <=> curr[h] = mine[k]
          BY <1>0, <1>2, <2>2, <3>2
        <4> QED BY <2>1, <2>2, <4>1, SameView
      <3> QED BY <3>1, <3>2
    <2>5. ~Waits(g) /\ ~Waits(g)' /\ pc'[g] = "done"
      BY <2>1, <2>2 DEF Waits
    <2>6. StatusOf(g)' = StatusOf(g) /\ RetOf(g)' = RetOf(g)
      BY <1>4, <2>1, <2>2, <2>5 DEF ViewOf
    <2> QED BY <1>1, <2>1, <2>4, <2>6, AbstractNothing
  <1>11. ASSUME NEW from \in {"wait", "wait2"}, Matched(g, from), slot[at[g]] # mine[g],
                op[g] = "pop" => \A h \in Goroutine : curr[h] # mine[g]
         PROVE  AbstractStep
    <2>1. /\ pc[g] = from /\ pc' = [pc EXCEPT ![g] = "done"] /\ UNCHANGED <<calls, op, arg>>
          /\ ret' = [ret EXCEPT ![g] = IF op[g] = "pop" THEN <<value[mine[g]], TRUE>> ELSE None]
          /\ mine' = [mine EXCEPT ![g] = Nil] /\ UNCHANGED <<slot, curr, at, value>>
      BY <1>11 DEF Matched, Finish
    <2>2. /\ \A k \in Goroutine : pc'[k] = IF k = g THEN "done" ELSE pc[k]
          /\ \A k \in Goroutine \ {g} : mine'[k] = mine[k] /\ ret'[k] = ret[k]
          /\ ret'[g] = IF op[g] = "pop" THEN <<value[mine[g]], TRUE>> ELSE None
      BY <1>0, <2>1
    <2>3. Unseen(g)
      BY <2>1, <2>2, OthersSeen
    <2>4. Waits(g) /\ ~Waits(g)'
      BY <1>11, <2>1, <2>2 DEF Waits
    <2>5. StatusOf(g) = "done" /\ StatusOf(g)' = "done" /\ RetOf(g)' = ret'[g] /\ Taken(g)
      BY <1>4, <1>11, <2>2, <2>4 DEF ViewOf
    <2>6. RetOf(g) = ret'[g]
      <3>1. CASE op[g] = "pop"
        BY <1>11, <2>2, <2>5, <3>1, TakenResults
      <3>2. CASE op[g] # "pop"
        <4>1. RetOf(g) = ret[g]
          BY <1>4, <1>11, <2>4, <3>2 DEF ViewOf
        <4>2. ret[g] = None
          BY <2>4 DEF Quiet, Waits
        <4> QED BY <2>2, <3>2, <4>1, <4>2
      <3> QED BY <3>1, <3>2
    <2> QED BY <1>1, <2>1, <2>3, <2>5, <2>6, AbstractNothing
  <1>12. CASE SeeDone(g)
    <2>1. PICK from \in {"wait", "wait2"} : pc[g] = from /\ done[mine[g]] /\ Matched(g, from)
      BY <1>12 DEF SeeDone
    <2>2. mine[g] # Nil /\ at[g] \in Slot
      BY <1>0, <2>1 DEF Exchange
    <2>3. slot[at[g]] # mine[g]
      BY <2>1, <2>2 DEF Exchange
    <2>4. \A h \in Goroutine : curr[h] # mine[g]
      BY <2>1, <2>2 DEF Exchange, Meetings
    <2> QED BY <1>11, <2>1, <2>3, <2>4
  <1>13. CASE SpinOut(g)
    <2>1. pc[g] = "wait2" /\ op[g] # "pop" /\ Matched(g, "wait2")
      BY <1>13 DEF SpinOut
    <2>2. slot[at[g]] # mine[g]
      BY <2>1 DEF Meetings
    <2> QED BY <1>11, <2>1, <2>2
  <1>14. CASE /\ pc[g] = "wait" /\ slot[at[g]] = mine[g]
              /\ VisitFails(g, "wait")
              /\ slot' = [slot EXCEPT ![at[g]] = Nil]
              /\ mine' = [mine EXCEPT ![g] = Nil]
              /\ UNCHANGED <<curr, at, kind, value, done, headVars>>
    <2>1. /\ \A k \in Goroutine \ {g} : pc'[k] = pc[k] /\ mine'[k] = mine[k]
          /\ pc'[g] \in {"visit", "recheck", "load"} /\ UNCHANGED <<calls, op, arg, ret>>
      BY <1>0, <1>5, <1>14
    <2>2. Waits(g) /\ ~Waits(g)'
      BY <1>14, <2>1 DEF Waits
    <2>3. \A t \in Slot : slot'[t] = IF t = at[g] THEN Nil ELSE slot[t]
      BY <1>0, <1>14
    <2>4. \A k \in Goroutine \ {g} : Waits(k) => mine[k] # mine[g] /\ mine[k] # Nil
      BY <1>0, <1>2, <1>3
    <2>5. \A k \in Goroutine \ {g} : Waits(k) =>
             (slot'[at[k]] = mine[k] <=> slot[at[k]] = mine[k])
      BY <1>2, <1>14, <2>3, <2>4
    <2>6. Unseen(g)
      BY <1>14, <2>1, <2>5, OthersSeen
    <2>7. StatusOf(g)' = StatusOf(g) /\ RetOf(g)' = RetOf(g)
      BY <1>4, <1>14, <2>1, <2>2 DEF ViewOf
    <2> QED BY <1>1, <2>1, <2>6, <2>7, AbstractNothing
  <1>15. CASE slot[at[g]] # mine[g] /\ Goto(g, "wait", "wait2") /\ UNCHANGED <<headVars, eliminationVars>>
    <2>1. /\ pc[g] = "wait" /\ pc' = [pc EXCEPT ![g] = "wait2"]
          /\ UNCHANGED <<calls, op, arg, ret, slot, mine, curr, at, value>>
      BY <1>15 DEF Goto, eliminationVars
    <2>2. \A k \in Goroutine : pc'[k] = IF k = g THEN "wait2" ELSE pc[k]
      BY <1>0, <2>1
    <2>3. Waits(g) /\ Waits(g)'
      BY <2>1, <2>2 DEF Waits
    <2>4. \A k \in Goroutine : StatusOf(k)' = StatusOf(k) /\ RetOf(k)' = RetOf(k)
      BY <2>1, <2>2, <2>3, SameView
    <2> QED BY <1>1, <2>1, <2>4, AbstractNothing DEF Unseen
  <1> QED BY <1>6, <1>7, <1>8, <1>9, <1>10, <1>12, <1>13, <1>14, <1>15 DEF Withdraw

LEMMA EliminationImplements ==
  ASSUME Typed, Typed', impl = "Elimination", impl' = impl, PusherMayStall = FALSE,
         Callers(EliminationPoints), HeadTypeOK, HeadTypeOK', ArrayTypes, Exchange, Exchange',
         HeapInv, Quiet, Meetings, NEW g \in Goroutine, Call(g) \/ Work(g)
  PROVE  HeapInv' /\ Quiet' /\ AbstractStep
  <1>1. TheStack = Contents /\ TheStack' = Contents'
    BY DEF TheStack
  <1>2. CASE SwingHead(g) /\ UNCHANGED eliminationVars /\ op[g] = "push"
    <2>1. Finish(g, "cas", None) /\ SwingForPush(g) /\ UNCHANGED <<slot, mine, curr, at, value>>
      BY <1>2 DEF SwingHead, eliminationVars
    <2>2. HeapInv' /\ Contents' = <<arg[g]>> \o Contents
      BY <1>2, <2>1, PushSwings
    <2>3. Quiet'
      BY <2>1, QuietStep
    <2>4. /\ Unseen(g) /\ StatusOf(g) = "push" /\ StatusOf(g)' = "done"
          /\ RetOf(g)' = RetOf(g) /\ UNCHANGED <<calls, op, arg>>
      BY <1>2, <2>1, OutsideFinish DEF Partners
    <2>5. AbstractStep
      BY <1>1, <2>2, <2>4, AbstractPush
    <2> QED BY <2>2, <2>3, <2>5
  <1>3. CASE SwingHead(g) /\ UNCHANGED eliminationVars /\ op[g] = "pop"
    <2>1. /\ Finish(g, "cas", <<top[g].val, TRUE>>) /\ SwingForPop(g)
          /\ UNCHANGED <<slot, mine, curr, at, value>>
      BY <1>3 DEF SwingHead, eliminationVars
    <2>2. /\ HeapInv'
          /\ Contents # <<>> /\ Contents' = Tail(Contents) /\ top[g].val = Head(Contents)
      BY <1>3, <2>1, PopSwings
    <2>3. Quiet'
      BY <2>1, QuietStep
    <2>4. /\ Unseen(g) /\ StatusOf(g) = "pop" /\ StatusOf(g)' = "done"
          /\ RetOf(g)' = <<top[g].val, TRUE>> /\ UNCHANGED <<calls, op, arg>>
      BY <1>3, <2>1, OutsideFinish DEF Partners
    <2>5. AbstractStep
      BY <1>1, <2>2, <2>4, AbstractPop
    <2> QED BY <2>2, <2>3, <2>5
  <1>4. CASE ~SwingHead(g)
    <2>1. HeapInv' /\ Quiet' /\ Contents' = Contents
      BY <1>4, EliminationKeeps
    <2>2. CASE Push(g)
      <3>1. Start(g, "push", "cas") /\ UNCHANGED <<slot, mine, curr, at, value>>
        BY <2>2 DEF Push, TreiberPush, eliminationVars
      <3>2. AbstractStep
        BY <1>1, <2>1, <3>1, OutsideCall DEF Partners
      <3> QED BY <2>1, <3>2
    <2>3. CASE Pop(g)
      <3>1. Start(g, "pop", "load") /\ UNCHANGED <<slot, mine, curr, at, value>>
        BY <2>3 DEF Pop, TreiberPop, eliminationVars
      <3>2. AbstractStep
        BY <1>1, <2>1, <3>1, OutsideCall DEF Partners
      <3> QED BY <2>1, <3>2
    <2>4. CASE \/ Load(g) \/ LoadNil(g) \/ CASHead(g)
               \/ (Recheck(g) /\ head # Nil)
      <3>1. /\ Goto(g, "load", "cas") \/ Goto(g, "load", "visit") \/ Goto(g, "cas", "visit")
               \/ Goto(g, "recheck", "load")
        BY <1>4, <2>4 DEF Load, TreiberLoad, LoadNil, CASHead, Recheck
      <3>2. UNCHANGED <<slot, mine, curr, at, value>>
        BY <1>4, <2>4 DEF Load, LoadNil, CASHead, Recheck, Begin, eliminationVars
      <3>3. AbstractStep
        BY <1>1, <2>1, <3>1, <3>2, OutsideGoto DEF Partners
      <3> QED BY <2>1, <3>3
    <2>5. CASE Recheck(g) /\ head = Nil
      <3>1. /\ Finish(g, "recheck", None) /\ pc[g] = "recheck"
            /\ UNCHANGED <<slot, mine, curr, at, value>>
        BY <2>5 DEF Recheck, Finish, eliminationVars
      <3>2. op[g] = "pop"
        BY <3>1 DEF Meetings
      <3>3. /\ Unseen(g) /\ StatusOf(g) = "pop" /\ StatusOf(g)' = "done"
            /\ RetOf(g)' = RetOf(g) /\ UNCHANGED <<calls, op, arg>>
        BY <3>1, <3>2, OutsideFinish DEF Partners
      <3>4. Contents = <<>>
        BY <2>5, EmptyContents
      <3>5. AbstractStep
        BY <1>1, <2>1, <3>3, <3>4, AbstractPopEmpty
      <3> QED BY <2>1, <3>5
    <2>6. CASE Return(g)
      <3>1. Leave(g) /\ UNCHANGED <<slot, mine, curr, at, value>>
        BY <2>6 DEF Return, eliminationVars
      <3>2. AbstractStep
        BY <1>1, <2>1, <3>1, OutsideReturn
      <3> QED BY <2>1, <3>2
    <2>7. CASE \/ \E s \in Slot : Install(g, s) \/ Clash(g, s) \/ Take(g, s)
               \/ Give(g) \/ Signal(g) \/ SeeDone(g) \/ Withdraw(g) \/ SpinOut(g)
      <3>1. AbstractStep
        BY <2>1, <2>7, ArrayImplements
      <3> QED BY <2>1, <3>1
    <2> QED BY <2>2, <2>3, <2>4, <2>5, <2>6, <2>7 DEF Call, Work
  <1>5. CASE SwingHead(g) /\ ~UNCHANGED eliminationVars
    <2>1. pc[g] = "cas" /\ pc' = [pc EXCEPT ![g] = "done"] /\ pc \in [Goroutine -> EliminationPoints]
      BY <1>5 DEF SwingHead, Finish, Callers
    <2> QED BY <1>5, <2>1 DEF Call, Work, Push, Pop, Load, LoadNil, CASHead, Recheck, Return,
                    TreiberPush, TreiberPop, TreiberLoad, Start, Goto, Finish, Leave, Install, Clash, Take,
                    Give, Signal, SeeDone, Withdraw, SpinOut, Matched, VisitFails
  <1>6. SwingHead(g) => op[g] \in {"push", "pop"}
    BY DEF SwingHead
  <1> QED BY <1>2, <1>3, <1>4, <1>5, <1>6
-----------------------------------------------------------------------------
(* The inductive invariant of all the stacks.                              *)

StackInv ==
  /\ FamilyInv /\ impl \in Impls /\ Quiet
  /\ impl # "Mutex" => HeapInv
  /\ impl = "Elimination" => Meetings

LEMMA StacksTyped == StackInv => Typed
  BY DEF StackInv, FamilyInv, Impls, Callers, ClientTypeOK, Typed

LEMMA StacksStart == FamilyInit => StackInv /\ Abstract!Init
  <1> SUFFICES ASSUME FamilyInit PROVE StackInv /\ Abstract!Init
    OBVIOUS
  <1>1. FamilyInv /\ impl \in Impls
    BY FamilyInitInv DEF FamilyInit, Impls
  <1>2. /\ pc = [g \in Goroutine |-> "idle"] /\ calls = 0 /\ op = [g \in Goroutine |-> "none"]
        /\ arg = [g \in Goroutine |-> 0] /\ ret = [g \in Goroutine |-> None]
        /\ head = Nil /\ next = [n \in Node |-> Nil] /\ node = [g \in Goroutine |-> Nil]
        /\ rep = <<>>
    BY DEF FamilyInit, Init, ClientInit, HeadInit, MutexInit, zero
  <1>3. Quiet /\ Meetings
    BY <1>2 DEF Quiet, Meetings, Waits
  <1>4. HeapInv
    <2>1. PICK r : r = [n \in Node \cup {Nil} |-> IF n = Nil THEN 0 ELSE 1]
      OBVIOUS
    <2>2. r \in [Node \cup {Nil} -> 0 .. 1] /\ \A n \in Node : r[Nil] < r[n]
      BY <2>1, NodeAssumption
    <2>3. Ranked(next, r, 1)
      BY <1>2, <2>2 DEF Ranked
    <2>4. Links({Nil}, r, 1)
      BY <1>2, <2>3 DEF Links, Closed
    <2>5. Unpublished({Nil}) /\ Pushers /\ Poppers
      BY <1>2 DEF Unpublished, Pushers, Pushing, Poppers, Popping
    <2> QED BY <2>4, <2>5 DEF Heap, HeapInv
  <1>5. StackInv
    BY <1>1, <1>3, <1>4 DEF StackInv
  <1>6. TheStack = <<>>
    <2>1. CASE impl = "Mutex"
      <3>1. <<>> \in Seq(Nat) /\ 0 \in Nat
        BY EmptySeq
      <3>2. Top(<<>>) = <<>>
        BY <3>1, TopFirst
      <3> QED BY <1>2, <2>1, <3>2 DEF TheStack, MutexContents, Top
    <2>2. CASE impl # "Mutex"
      <3>1. HeadTypeOK
        BY <1>1 DEF FamilyInv
      <3>2. Contents = <<>>
        BY <1>2, <1>4, <3>1, EmptyContents
      <3> QED BY <2>2, <3>2 DEF TheStack
    <2> QED BY <2>1, <2>2
  <1>7. TheStatus = [g \in Goroutine |-> "idle"] /\ TheRet = [g \in Goroutine |-> None]
    <2>1. /\ TheStatus = [h \in Goroutine |-> StatusOf(h)]
          /\ TheRet = [h \in Goroutine |-> RetOf(h)]
      BY <1>5, StacksTyped, Mapped DEF Mapping
    <2>2. \A h \in Goroutine : StatusOf(h) = "idle" /\ RetOf(h) = None
      BY <1>2 DEF StatusOf, RetOf, Taken
    <2> QED BY <2>1, <2>2
  <1>8. Abstract!Init
    BY <1>2, <1>6, <1>7 DEF Abstract!Init, Abstract!None, None, zero, TheStack, TheStatus, TheRet
  <1> QED BY <1>5, <1>8

LEMMA StacksStutter ==
  ASSUME StackInv, UNCHANGED vars
  PROVE  Quiet' /\ (impl # "Mutex" => HeapInv') /\ (impl = "Elimination" => Meetings') /\ AbstractStep
  <1>1. UNCHANGED <<clientVars, headVars, eliminationVars, mutexVars, impl>>
    BY DEF vars
  <1>2. /\ UNCHANGED <<pc, calls, op, arg, ret, head, v, next, node, prev, top>>
        /\ UNCHANGED <<slot, mine, curr, at, tries, kind, value, done, linked, rep, impl>>
    BY <1>1 DEF clientVars, headVars, eliminationVars, mutexVars
  <1>3. Quiet' /\ (impl = "Elimination" => Meetings')
    BY <1>2 DEF StackInv, Quiet, Meetings, Waits
  <1>4. ASSUME HeapInv PROVE HeapInv'
    <2>1. PICK L, r, b : Heap(L, r, b)
      BY <1>4 DEF HeapInv
    <2>2. Heap(L, r, b)'
      BY <1>2, <2>1 DEF Heap, Links, Unpublished, Pushers, Pushing, Poppers, Popping
    <2> QED BY <2>2 DEF HeapInv
  <1>5. AbstractStep
    <2>1. TheStack' = TheStack /\ TheStatus' = TheStatus /\ TheRet' = TheRet
      BY <1>2 DEF TheStack, MutexContents, Contents, ListFrom, TheStatus, ListStatus, Status, Taken,
                  TheRet, Result
    <2> QED BY <1>2, <2>1 DEF AbstractStep, Abstract!vars, TheStack, TheStatus, TheRet
  <1> QED BY <1>3, <1>4, <1>5 DEF StackInv

LEMMA StacksStep ==
  ASSUME PusherMayStall = FALSE, StackInv, [FamilyNext]_vars
  PROVE  StackInv' /\ AbstractStep
  <1>1. FamilyInv'
    BY FamilyStepInv DEF StackInv
  <1>2. impl' = impl
    BY DEF vars, FamilyNext, FamilyCall, FamilyWork, UsesLockFree, UsesElimination, UsesMutex
  <1>3. Typed /\ impl \in Impls
    BY StacksTyped DEF StackInv
  <1>4. Typed'
    BY <1>1, <1>2, <1>3 DEF FamilyInv, Impls, Callers, ClientTypeOK, Typed
  <1>5. HeadTypeOK /\ HeadTypeOK' /\ ArrayTypes /\ Exchange /\ Exchange' /\ Quiet
    BY <1>1 DEF StackInv, FamilyInv
  <1>6. ASSUME NEW g \in Goroutine, TreiberCall(g) \/ TreiberWork(g), UsesLockFree
        PROVE  HeapInv' /\ Quiet' /\ AbstractStep /\ impl = "LockFree"
    <2>1. impl = "LockFree"
      BY <1>6 DEF UsesLockFree
    <2>2. Callers(TreiberPoints) /\ HeapInv
      BY <2>1 DEF StackInv, FamilyInv
    <2> QED BY <1>2, <1>3, <1>4, <1>5, <1>6, <2>1, <2>2, TreiberImplements
  <1>7. ASSUME NEW g \in Goroutine, Call(g) \/ Work(g), UsesElimination
        PROVE  HeapInv' /\ Quiet' /\ Meetings' /\ AbstractStep /\ impl = "Elimination"
    <2>1. impl = "Elimination"
      BY <1>7 DEF UsesElimination
    <2>2. Callers(EliminationPoints) /\ HeapInv /\ Meetings
      BY <2>1 DEF StackInv, FamilyInv
    <2>3. Meetings'
      BY <1>5, <1>7, <2>2, MeetingsStep
    <2>4. HeapInv' /\ Quiet' /\ AbstractStep
      BY <1>2, <1>3, <1>4, <1>5, <1>7, <2>1, <2>2, EliminationImplements
    <2> QED BY <2>1, <2>3, <2>4
  <1>8. ASSUME NEW g \in Goroutine, MutexCall(g) \/ MutexWork(g), UsesMutex
        PROVE  Quiet' /\ AbstractStep /\ impl = "Mutex"
    <2>1. impl = "Mutex"
      BY <1>8 DEF UsesMutex
    <2>2. Callers(MutexPoints) /\ MutexTypes
      BY <2>1 DEF StackInv, FamilyInv
    <2>3. linked' = linked
      BY <1>8 DEF MutexCall, MutexWork, MutexPush, MutexPop, MutexReturn, mutexVars
    <2>4. AbstractStep
      BY <1>2, <1>3, <1>4, <1>5, <1>8, <2>1, <2>2, <2>3, MutexImplements
    <2> QED BY <1>5, <1>8, <2>1, <2>2, <2>4, MutexQuiet
  <1>9. Quiet' /\ (impl # "Mutex" => HeapInv') /\ (impl = "Elimination" => Meetings') /\ AbstractStep
    <2>1. CASE UNCHANGED vars
      BY <2>1, StacksStutter
    <2>2. CASE FamilyNext
      BY <1>6, <1>7, <1>8, <2>2 DEF FamilyNext, FamilyCall, FamilyWork
    <2> QED BY <2>1, <2>2
  <1> QED BY <1>1, <1>2, <1>3, <1>9 DEF StackInv

(* Every stack of the package is linearizable to a LIFO stack              *)
(* (stack/Index.md:9), for any goroutines, calls, nodes and slots, as long *)
(* as no pusher stalls between taking a waiting Pop's op and done.Store    *)
(* until the Pop has given up: with such a pusher it is not, which         *)
(* LostValue.cfg shows.                                                    *)
THEOREM StacksLinearizable ==
  ASSUME PusherMayStall = FALSE
  PROVE  FamilySpec => Linearizable
  <1>1. FamilyInit => StackInv /\ Abstract!Init
    BY StacksStart
  <1>2. StackInv /\ [FamilyNext]_vars => StackInv' /\ [Abstract!Next]_(Abstract!vars)
    BY StacksStep DEF AbstractStep
  <1> QED BY <1>1, <1>2, PTL DEF FamilySpec, Linearizable, Abstract!Spec
=============================================================================
