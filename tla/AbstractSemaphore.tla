------------------------- MODULE AbstractSemaphore --------------------------
(***************************************************************************)
(* What syncx.Semaphore promises (semaphore.go:10-16): N permits that are  *)
(* free, granted, owned by the callers or on their way back, never more    *)
(* and never fewer.  A semaphore documented as FIFO (MutexSemaphore,       *)
(* semaphore.go:77; ChannelSemaphore, whose channel queues its senders,    *)
(* semaphore.go:29) lets nobody overtake a goroutine that waits in line.   *)
(***************************************************************************)
EXTENDS Integers, Sequences

CONSTANTS Goroutine, Permits

VARIABLES
  fifo,      (* is the semaphore documented as FIFO                        *)
  free,      (* permits nobody has                                         *)
  line,      (* the goroutines that wait, first come first (FIFO only)     *)
  status,    (* "idle", "acquiring", "waiting", "granted", "releasing"     *)
  owned      (* permits the callers have                                   *)

vars == <<fifo, free, line, status, owned>>

Init ==
  /\ fifo \in BOOLEAN
  /\ free = Permits
  /\ line = <<>>
  /\ status = [g \in Goroutine |-> "idle"]
  /\ owned = 0

Move(g, from, to) ==
  /\ status[g] = from
  /\ status' = [status EXCEPT ![g] = to]
  /\ UNCHANGED fifo

CallAcquire(g) == Move(g, "idle", "acquiring") /\ UNCHANGED <<free, line, owned>>
CallRelease(g) == /\ owned > 0
                  /\ Move(g, "idle", "releasing")
                  /\ owned' = owned - 1
                  /\ UNCHANGED <<free, line>>

Grant(g) ==
  /\ free > 0 /\ line = <<>>
  /\ Move(g, "acquiring", "granted")
  /\ free' = free - 1
  /\ UNCHANGED <<line, owned>>

(* Acquire waits only when no permit is free. *)
Join(g) ==
  /\ fifo /\ free = 0
  /\ Move(g, "acquiring", "waiting")
  /\ line' = Append(line, g)
  /\ UNCHANGED <<free, owned>>

Return(g) ==
  /\ Move(g, "granted", "idle")
  /\ owned' = owned + 1
  /\ UNCHANGED <<free, line>>

Free(g) ==
  /\ line = <<>>
  /\ Move(g, "releasing", "idle")
  /\ free' = free + 1
  /\ UNCHANGED <<line, owned>>

(* The permit goes from the releaser to a waiter without becoming free. *)
HandOver(g, h) ==
  /\ status[g] = "releasing"
  /\ \/ fifo /\ line # <<>> /\ h = Head(line) /\ line' = Tail(line)
     \/ ~fifo /\ status[h] = "acquiring" /\ UNCHANGED line
  /\ status' = [status EXCEPT ![g] = "idle", ![h] = "granted"]
  /\ UNCHANGED <<fifo, free, owned>>

Next ==
  \/ \E g \in Goroutine :
       \/ CallAcquire(g) \/ CallRelease(g)
       \/ Grant(g) \/ Join(g) \/ Return(g) \/ Free(g)
  \/ \E g, h \in Goroutine : HandOver(g, h)
Spec == Init /\ [][Next]_vars
=============================================================================
