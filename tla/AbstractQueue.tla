--------------------------- MODULE AbstractQueue ----------------------------
(***************************************************************************)
(* What queue.Queue promises: a bounded FIFO queue.  queue/Index.md:9      *)
(* defines the order by the linearization order of committed operations.   *)
(*                                                                         *)
(* A strict queue (SPSCQueue, CachedSPSCQueue, MutexMPMC, MutexMPSC) is    *)
(* linearizable.  The sequence-numbered rings (LockFreeMPMC,               *)
(* LockFreePaddedMPMC, LockFreeMPSC) promise less: an Enqueue takes its    *)
(* place in line in one step and is ready in a later one, so that Dequeue  *)
(* may answer "empty" while the head of the line is not ready, and Enqueue *)
(* may answer "full" while a Dequeue has not finished.                     *)
(***************************************************************************)
EXTENDS Naturals, Sequences

CONSTANTS
  Goroutine,
  Size       (* capacity                                                   *)

VARIABLES
  strict,    (* is the queue a linearizable one                            *)
  line,      (* the line of [val, ready], head first                       *)
  status,    (* status[g]: "idle", "enqueue", "dequeue", "claimed", "done" *)
  calls,     (* calls so far: the n-th call, if an Enqueue, enqueues n     *)
  arg,       (* arg[g]: the value g enqueues                               *)
  ret        (* ret[g]: what a call that is done returns                   *)

vars == <<strict, line, status, calls, arg, ret>>

No  == <<0, FALSE>>
Yes == <<0, TRUE>>

Init ==
  /\ strict \in BOOLEAN
  /\ line = <<>>
  /\ status = [g \in Goroutine |-> "idle"]
  /\ calls = 0
  /\ arg = [g \in Goroutine |-> 0]
  /\ ret = [g \in Goroutine |-> No]

Call(g, kind) ==
  /\ status[g] = "idle"
  /\ status' = [status EXCEPT ![g] = kind]
  /\ calls' = calls + 1
  /\ arg' = [arg EXCEPT ![g] = IF kind = "enqueue" THEN calls + 1 ELSE 0]
  /\ UNCHANGED <<strict, line, ret>>

Move(g, from, to, r) ==
  /\ status[g] = from
  /\ status' = [status EXCEPT ![g] = to]
  /\ ret' = [ret EXCEPT ![g] = r]
  /\ UNCHANGED <<strict, calls, arg>>

Room == Len(line) < Size

Enqueue(g) ==
  /\ Room
  /\ Move(g, "enqueue", "done", Yes)
  /\ line' = Append(line, [val |-> arg[g], ready |-> TRUE])

(* Enqueue in two steps. *)
Claim(g) ==
  /\ ~strict /\ Room
  /\ Move(g, "enqueue", "claimed", No)
  /\ line' = Append(line, [val |-> arg[g], ready |-> FALSE])
Publish(g) ==
  /\ Move(g, "claimed", "done", Yes)
  /\ line' = [i \in 1..Len(line) |->
                IF line[i].val = arg[g] THEN [line[i] EXCEPT !.ready = TRUE]
                                        ELSE line[i]]

Dequeue(g) ==
  /\ line # <<>> /\ Head(line).ready
  /\ Move(g, "dequeue", "done", <<Head(line).val, TRUE>>)
  /\ line' = Tail(line)

Leaving(g) == status[g] = "done" /\ ret[g][1] # 0

ReportFull(g) ==
  /\ \/ ~Room
     \/ ~strict /\ \E h \in Goroutine : Leaving(h)
  /\ Move(g, "enqueue", "done", No)
  /\ UNCHANGED line

ReportEmpty(g) ==
  /\ \/ line = <<>>
     \/ ~strict /\ ~Head(line).ready
  /\ Move(g, "dequeue", "done", No)
  /\ UNCHANGED line

Return(g) == Move(g, "done", "idle", No) /\ UNCHANGED line

Next ==
  \E g \in Goroutine :
    \/ Call(g, "enqueue") \/ Call(g, "dequeue")
    \/ Enqueue(g) \/ Claim(g) \/ Publish(g) \/ Dequeue(g)
    \/ ReportFull(g) \/ ReportEmpty(g) \/ Return(g)
Spec == Init /\ [][Next]_vars
=============================================================================
