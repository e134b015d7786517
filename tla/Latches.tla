------------------------------ MODULE Latches -------------------------------
(***************************************************************************)
(* syncx.SpinLatch, whose Wait spins until N calls of Done have been made, *)
(* and syncx.ChanLatch, where the Done that brings the count to 0 closes a *)
(* channel and Wait receives from it.  Closing a closed channel panics.    *)
(***************************************************************************)
EXTENDS LatchClient

CONSTANT N       (* the n of NewSpinLatch and NewChanLatch, positive       *)

VARIABLES
  count,         (* SpinLatch.count, ChanLatch.count                       *)
  closed         (* is ChanLatch.done closed                               *)

Init == ClientInit /\ HistoryInit(N) /\ count = N /\ closed = FALSE

(* Wait is called; g is before its first look. *)
StartLatchWait(g) == StartWait(g) /\ UNCHANGED <<count, closed>>
-----------------------------------------------------------------------------
(* SpinLatch *)

SpinDone(g) ==
  StartDone(g, "idle") /\ count' = count - 1 /\ UNCHANGED closed

Open(g) == Goto(g, "load", "idle") /\ UNCHANGED <<count, closed, history>>
(* Mutant: the latch opens one Done too early. *)
OpenedEarly(g) == count <= 1 /\ Open(g)
(* for l.count.Load() > 0 {} ends. *)
SpinOpened(g)  == count <= 0 /\ Open(g)

SpinCall(g) == SpinDone(g) \/ StartLatchWait(g)
SpinWork(g) == SpinOpened(g)
-----------------------------------------------------------------------------
(* ChanLatch *)

(* Mutant: every Done that finds the count used up closes the channel. *)
DoneEager(g) ==
  /\ StartDone(g, IF count <= 1 THEN "close" ELSE "idle")
  /\ count' = count - 1
  /\ UNCHANGED closed
(* if l.count.Add(-1) == 0 *)
ChanDone(g) ==
  /\ StartDone(g, IF count = 1 THEN "close" ELSE "idle")
  /\ count' = count - 1
  /\ UNCHANGED closed

(* close(l.done) *)
Close(g) ==
  /\ Goto(g, "close", IF closed THEN "panic" ELSE "idle")
  /\ closed' = TRUE
  /\ UNCHANGED <<count, history>>

(* <-l.done *)
ChanOpened(g) == closed /\ Open(g)

ChanCall(g) == ChanDone(g) \/ StartLatchWait(g)
ChanWork(g) == Close(g) \/ ChanOpened(g)
-----------------------------------------------------------------------------
(* Inductive: the count is what has not been finished, and the channel is  *)
(* closed, or about to be by one goroutine, only when it is used up.       *)
Inv ==
  /\ HistoryTypeOK
  /\ count \in Int /\ closed \in BOOLEAN
  /\ pc \in [Goroutine -> {"idle", "load", "close"}]
  /\ added = N /\ count = N - finished
  /\ \A g \in Goroutine : due[g] <= added
  /\ closed => count <= 0
  /\ \A g \in Goroutine : pc[g] = "close" =>
       /\ count <= 0 /\ ~closed
       /\ \A h \in Goroutine : pc[h] = "close" => h = g
=============================================================================
