------------------------------ MODULE MCGates -------------------------------
(***************************************************************************)
(* The latches, the WaitGroup, the barriers and Once of package syncx, one *)
(* at a time: impl picks the one a behaviour uses.  count is the counter   *)
(* of the latches and seats that of the barriers.                          *)
(***************************************************************************)
EXTENDS LatchClient

CONSTANTS N, MaxRounds, Epochs

ASSUME GatesAssumption ==
  /\ N \in Nat \ {0}
  /\ MaxRounds \in Nat
  /\ Epochs \in Nat /\ Epochs >= 2

VARIABLES
  impl,                              (* the gate in use                    *)
  count, closed,                     (* SpinLatch, ChanLatch               *)
  word, sema, groupSeen, towake,     (* WaitGroup                          *)
  entered, left, release, seats, seen,     (* the barriers                 *)
  state, mu, cell, runs, ended       (* Once                               *)

Latch == INSTANCE Latches
Group == INSTANCE WaitGroup WITH seen <- groupSeen
Party == INSTANCE Barriers
Cell  == INSTANCE Once

groupVars == <<word, sema, groupSeen, towake>>
barrierVars == <<entered, left, release, seats, seen>>
onceVars  == <<state, mu, cell, runs, ended>>
vars == <<clientVars, history, impl, count, closed, groupVars, barrierVars,
          onceVars>>

Impl == {"Spin", "Chan", "Group", "Counting", "Sense", "Once"}

Init ==
  /\ impl \in Impl
  /\ HistoryInit(IF impl \in {"Spin", "Chan"} THEN N ELSE 0)
  /\ count = N /\ closed = FALSE
  /\ word = Group!Zero /\ sema = 0
  /\ groupSeen = [g \in Goroutine |-> Group!Zero]
  /\ towake = [g \in Goroutine |-> 0]
  /\ Party!Init
  /\ Cell!Init

Uses(gate, others) == impl = gate /\ UNCHANGED <<impl, others>>

Call(g) ==
  \/ Uses("Spin", <<groupVars, barrierVars, onceVars>>) /\ Latch!SpinCall(g)
  \/ Uses("Chan", <<groupVars, barrierVars, onceVars>>) /\ Latch!ChanCall(g)
  \/ Uses("Group", <<count, closed, barrierVars, onceVars>>) /\ Group!Call(g)
  \/ Uses("Counting", <<history, count, closed, groupVars, onceVars>>)
     /\ Party!CountingCall(g)
  \/ Uses("Sense", <<history, count, closed, groupVars, onceVars>>)
     /\ Party!SenseCall(g)
  \/ Uses("Once", <<history, count, closed, groupVars, barrierVars>>) /\ Cell!Call(g)

Work(g) ==
  \/ Uses("Spin", <<groupVars, barrierVars, onceVars>>) /\ Latch!SpinWork(g)
  \/ Uses("Chan", <<groupVars, barrierVars, onceVars>>) /\ Latch!ChanWork(g)
  \/ Uses("Group", <<count, closed, barrierVars, onceVars>>) /\ Group!Work(g)
  \/ Uses("Counting", <<history, count, closed, groupVars, onceVars>>)
     /\ Party!CountingWork(g)
  \/ Uses("Sense", <<history, count, closed, groupVars, onceVars>>)
     /\ Party!SenseWork(g)
  \/ Uses("Once", <<history, count, closed, groupVars, barrierVars>>) /\ Cell!Work(g)

Next == \E g \in Goroutine : Call(g) \/ Work(g)
Spec == Init /\ [][Next]_vars /\ \A g \in Goroutine : WF_vars(Work(g))
-----------------------------------------------------------------------------
(* The words of every gate have their types. *)
TypeOK ==
  /\ HistoryTypeOK
  /\ count \in Int /\ closed \in BOOLEAN
  /\ Group!TypeOK
  /\ Party!RoundsTypeOK
  /\ seats \in 0 .. Party!seatCount /\ release \in 0 .. Epochs - 1
  /\ Cell!TypeOK

(* In this step, a Wait returns only if its announced units are finished.  *)
ReturnsInTime ==
  \A g \in Goroutine : InWait(g) /\ pc'[g] = "idle" => finished >= due[g]

(* A Wait of a latch or a WaitGroup returns only when every unit announced *)
(* before the call has been finished.                                      *)
NoEarlyWait == [][ReturnsInTime]_vars

(* Nobody leaves a round of a barrier before everybody has entered it, for *)
(* SenseReversingBarrier in round after round, across the wrap-around of   *)
(* its epoch (barriers.go:54-59).                                          *)
Together == impl \in {"Counting", "Sense"} => Party!Together

(* A goroutine parked in WaitGroup.Wait has exactly one permit coming, and *)
(* no permit outlives the round it was released in.                        *)
PermitsMatch == impl = "Group" => Group!PermitsMatch

(* Callers who keep the rule of latch.go:221 never meet one of WaitGroup's *)
(* misuse panics, and ChanLatch closes its channel once.                   *)
NoPanic == \A g \in Goroutine : pc[g] # "panic"

(* f runs once, and nobody returns from Do before it has ended. *)
RunsOnce == impl = "Once" => Cell!RunsOnce

(* Once the callers make no further call, everybody has returned but for   *)
(* the waiters whose Dones, or whose fellow parties, have not come.        *)
Settles ==
  <>[]\/ AllIdle
      \/ impl \in {"Spin", "Chan", "Group"} /\ added > finished
         /\ \A g \in Goroutine : pc[g] \in {"idle", "load", "park"}
      \/ impl \in {"Counting", "Sense"}
         /\ \A g \in Goroutine :
              \/ pc[g] = "idle"
              \/ pc[g] = "spin" /\ \E h \in Goroutine : entered[h] < entered[g]
=============================================================================
