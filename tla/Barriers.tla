------------------------------ MODULE Barriers ------------------------------
(***************************************************************************)
(* The barriers of package syncx: each party calls Wait once a round, and  *)
(* the number of seats is the number of parties.                           *)
(*                                                                         *)
(* CountingBarrier is good for one round (barriers.go:19).  The last to    *)
(* arrive at a SenseReversingBarrier resets the seats and then moves       *)
(* release, the epoch the others spin on, a uint32 that wraps around.      *)
(*                                                                         *)
(* Control points: "spin"; SenseReversingBarrier also has "arrive" before  *)
(* seats.Add, "reset" before seats.Store, "publish" before release.Add.    *)
(***************************************************************************)
EXTENDS GateClient

CONSTANTS
  MaxRounds,   (* bound: calls of Wait by one party                        *)
  Epochs       (* release is a word modulo Epochs (2^32), 2 or more        *)

VARIABLES
  entered,     (* entered[g]: calls of Wait g has started                  *)
  left,        (* left[g]:    calls of Wait g has returned from            *)
  seats,       (* CountingBarrier.seats, SenseReversingBarrier.seats       *)
  release,     (* SenseReversingBarrier.release                            *)
  seen         (* seen[g]: the local release                               *)

roundVars == <<entered, left>>
epochVars == <<release, seen>>

seatCount == Cardinality(Goroutine)

Init ==
  /\ ClientInit
  /\ entered = [g \in Goroutine |-> 0]
  /\ left = [g \in Goroutine |-> 0]
  /\ seats = seatCount
  /\ release = 0 /\ seen = [g \in Goroutine |-> 0]

Enter(g, to) ==
  /\ entered[g] < MaxRounds
  /\ pc[g] = "idle"
  /\ pc' = [pc EXCEPT ![g] = to]
  /\ entered' = [entered EXCEPT ![g] = @ + 1]
  /\ UNCHANGED <<calls, left>>

Leave(g, from) ==
  /\ Goto(g, from, "idle")
  /\ left' = [left EXCEPT ![g] = @ + 1]
  /\ UNCHANGED entered

Inside(g, from, to) == Goto(g, from, to) /\ UNCHANGED roundVars

RoundsTypeOK == {entered, left} \subseteq [Goroutine -> 0 .. MaxRounds]

(* Nobody leaves a round before everybody has entered it. *)
Together == \A g, h \in Goroutine : left[g] <= entered[h]
-----------------------------------------------------------------------------
(* CountingBarrier *)

(* b.seats.Add(-1) *)
TakeSeat(g) ==
  /\ entered[g] = 0
  /\ Enter(g, "spin")
  /\ seats' = seats - 1
  /\ UNCHANGED epochVars

(* for b.seats.Load() > 0 {} ends. *)
SeeFull(g) ==
  seats <= 0 /\ Leave(g, "spin") /\ UNCHANGED <<seats, epochVars>>

CountingCall(g) == TakeSeat(g)
CountingWork(g) == SeeFull(g)

(* Inductive: the seats count the parties still to arrive, and nobody has  *)
(* left unless all have.                                                   *)
Seated == {g \in Goroutine : entered[g] = 1}

CountingInv ==
  /\ pc \in [Goroutine -> {"idle", "spin"}]
  /\ entered \in [Goroutine -> {0, 1}] /\ left \in [Goroutine -> {0, 1}]
  /\ \A g \in Goroutine : entered[g] = left[g] + (IF pc[g] = "spin" THEN 1 ELSE 0)
  /\ seats = seatCount - Cardinality(Seated)
  /\ (\E g \in Goroutine : left[g] = 1) => Seated = Goroutine
-----------------------------------------------------------------------------
(* SenseReversingBarrier *)

(* release := s.release.Load() *)
Load(g) ==
  /\ Enter(g, "arrive")
  /\ seen' = [seen EXCEPT ![g] = release]
  /\ UNCHANGED <<release, seats>>

(* if s.seats.Add(-1) == 0 *)
Arrive(g) ==
  /\ Inside(g, "arrive", IF seats = 1 THEN "reset" ELSE "spin")
  /\ seats' = seats - 1
  /\ UNCHANGED <<release, seen>>

(* Mutant: the seat of the party that resets is forgotten. *)
ResetShort(g) ==
  /\ Inside(g, "reset", "publish")
  /\ seats' = seatCount - 1
  /\ UNCHANGED <<release, seen>>

(* s.seats.Store(s.count) *)
Reset(g) ==
  /\ Inside(g, "reset", "publish")
  /\ seats' = seatCount
  /\ UNCHANGED <<release, seen>>

(* s.release.Add(1) *)
Publish(g) ==
  /\ Leave(g, "publish")
  /\ release' = (release + 1) % Epochs
  /\ UNCHANGED <<seats, seen>>

(* for s.release.Load() == release {} ends. *)
Observe(g) ==
  /\ release # seen[g]
  /\ Leave(g, "spin")
  /\ UNCHANGED <<seats, epochVars>>

(* Mutant: the epoch moves before the seats are reset. *)
PublishFirst(g) ==
  /\ Inside(g, "reset", "publish")
  /\ release' = (release + 1) % Epochs
  /\ UNCHANGED <<seats, seen>>
ResetAfter(g) ==
  /\ Leave(g, "publish")
  /\ seats' = seatCount
  /\ UNCHANGED <<release, seen>>
WorkSwapped(g) == Arrive(g) \/ PublishFirst(g) \/ ResetAfter(g) \/ Observe(g)

SenseCall(g) == Load(g)
SenseWork(g) == Arrive(g) \/ Reset(g) \/ Publish(g) \/ Observe(g)

(* Where g is when release has moved r times: outside and done with r      *)
(* rounds, on its way out of round r, or in round r + 1.                   *)
Gone(g, r) == pc[g] = "idle" /\ entered[g] = r /\ left[g] = r
Late(g, r) == pc[g] = "spin" /\ entered[g] = r /\ left[g] + 1 = r
Current(g, r) ==
  /\ pc[g] \in {"arrive", "reset", "publish", "spin"}
  /\ entered[g] = r + 1 /\ left[g] = r
  /\ seen[g] = release

(* The parties that have taken their seat in round r + 1. *)
Arrived(r) == {g \in Goroutine : entered[g] = r + 1
                                 /\ pc[g] \in {"reset", "publish", "spin"}}

(* The party that took the last seat. *)
Last(g) == pc[g] \in {"reset", "publish"}

(* Inductive: the parties are spread over two rounds at most, the seats    *)
(* count those still to arrive, and one party is the last exactly when all *)
(* have arrived.                                                           *)
InRound(r) ==
  /\ \A g \in Goroutine : Gone(g, r) \/ Late(g, r) \/ Current(g, r)
  /\ seats = IF \E g \in Goroutine : pc[g] = "publish"
             THEN seatCount ELSE seatCount - Cardinality(Arrived(r))
  /\ (\E g \in Goroutine : Last(g)) <=> Goroutine # {} /\ Arrived(r) = Goroutine
  /\ \A g, h \in Goroutine : Last(g) /\ Last(h) => g = h

SenseInv ==
  /\ pc \in [Goroutine -> {"idle", "arrive", "reset", "publish", "spin"}]
  /\ entered \in [Goroutine -> Nat] /\ left \in [Goroutine -> Nat]
  /\ seats \in Int
  /\ DOMAIN seen = Goroutine /\ seen = [g \in Goroutine |-> seen[g]]
  /\ \E r \in Nat : InRound(r)
=============================================================================
