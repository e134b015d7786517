------------------------------ MODULE Peterson ------------------------------
(***************************************************************************)
(* peterson.Lock: a lock of two goroutines, First (me = 0) and Second, out *)
(* of loads and stores of plain words.                                     *)
(*                                                                         *)
(* What plain words promise depends on the build and the machine.  Without *)
(* Buffered a store is seen by all at once, the order the algorithm is     *)
(* for; with it each goroutine's stores wait in the store buffer of its    *)
(* processor, as on amd64, and only their owner sees them (runtime.Gosched *)
(* may drain it, but only a goroutine that has to wait calls it).          *)
(*                                                                         *)
(* Control points: "turn" before the store of turn, "flag" and "wait"      *)
(* before the loads of flag[other] and of turn.                            *)
(***************************************************************************)
EXTENDS LockClient, Sequences

CONSTANTS First, Second, Buffered

VARIABLES
  flag, turn,
  buffer       (* buffer[g]: g's stores that memory has not seen, as pairs *)
               (* of a word and a value, oldest first                      *)

words == <<flag, turn, buffer>>
vars  == <<clientVars, words>>

Init ==
  /\ ClientInit
  /\ flag = [g \in Goroutine |-> FALSE] /\ turn = First
  /\ buffer = [g \in Goroutine |-> <<>>]

other(g) == IF g = First THEN Second ELSE First

(* g's store s reaches memory. *)
Commit(g, s) ==
  \/ s[1] = "flag" /\ flag' = [flag EXCEPT ![g] = s[2]] /\ UNCHANGED turn
  \/ s[1] = "turn" /\ turn' = s[2] /\ UNCHANGED flag
Store(g, s) ==
  IF Buffered
  THEN buffer' = [buffer EXCEPT ![g] = Append(@, s)] /\ UNCHANGED <<flag, turn>>
  ELSE Commit(g, s) /\ UNCHANGED buffer
(* What g reads in turn, which it has stored other(g) in if at all. *)
TurnSeen(g) ==
  IF \E i \in DOMAIN buffer[g] : buffer[g][i][1] = "turn" THEN other(g) ELSE turn

(* l.flag[me] = true *)
Lock(g) ==
  g \in {First, Second} /\ StartLock(g, "turn") /\ Store(g, <<"flag", TRUE>>)
(* l.turn = other *)
YieldTurn(g) == Goto(g, "turn", "flag") /\ Store(g, <<"turn", other(g)>>)
(* for l.flag[other] && l.turn == other *)
LoadFlag(g) ==
  Goto(g, "flag", IF flag[other(g)] THEN "wait" ELSE "cs") /\ UNCHANGED words
LoadTurn(g) ==
  Goto(g, "wait", IF TurnSeen(g) = other(g) THEN "flag" ELSE "cs")
  /\ UNCHANGED words
Unlock(g) == Goto(g, "cs", "idle") /\ Store(g, <<"flag", FALSE>>)

Drain(g) ==
  /\ buffer[g] # <<>>
  /\ Commit(g, Head(buffer[g]))
  /\ buffer' = [buffer EXCEPT ![g] = Tail(@)]
  /\ UNCHANGED clientVars

Work(g) == YieldTurn(g) \/ LoadFlag(g) \/ LoadTurn(g) \/ Unlock(g)
Next    == \E g \in Goroutine : Lock(g) \/ Work(g) \/ Drain(g)
Spec    == Init /\ [][Next]_vars

Phase == [g \in Goroutine |-> PhaseOf(g, {"turn", "flag", "wait"}, {"cs"})]

(* The two goroutines are never between Lock and Unlock at once: the test  *)
(* counts in the critical section and reports "lost updates"               *)
(* (peterson_test.go:29).                                                  *)
MutualExclusion == Exclusive(Phase)

TypeOK ==
  /\ pc \in [Goroutine -> {"idle", "turn", "flag", "wait", "cs"}]
  /\ ClientTypeOK
  /\ flag \in [Goroutine -> BOOLEAN] /\ turn \in {First, Second}

(* Inductive without Buffered: flag says who is inside, only First and     *)
(* Second are, and the turn of a goroutine in the critical section stands  *)
(* once the other has yielded.                                             *)
Inv ==
  /\ TypeOK
  /\ \A g \in Goroutine : /\ flag[g] <=> pc[g] # "idle"
                          /\ flag[g] => g \in {First, Second}
  /\ \A g \in {First, Second} :
        pc[g] = "cs" /\ pc[other(g)] \in {"flag", "wait", "cs"} => turn = g
=============================================================================
