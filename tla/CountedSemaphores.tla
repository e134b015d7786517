------------------------- MODULE CountedSemaphores -------------------------
(***************************************************************************)
(* syncx.ChannelSemaphore, MutexSemaphore and CondSemaphore: all three     *)
(* count the permits that are out, up to Permits, and keep the Acquires    *)
(* that wait in a line of their own.                                       *)
(*                                                                         *)
(* Control points: "acquire" and "release" before the call's critical      *)
(* section or channel operation; "parked" in the channel's queue of        *)
(* senders or the notify list, "gate" before the second gate.Lock.         *)
(***************************************************************************)
EXTENDS PermitClient

VARIABLES
  count,      (* ChannelSemaphore.sem's fill; the count of the others      *)
  line,       (* the channel's queue of senders, MutexSemaphore.waiters,   *)
              (* the notify list of CondSemaphore.cond                     *)
  opened      (* the gates of MutexSemaphore that are unlocked             *)

countVars == <<count, line, opened>>

Init == ClientInit /\ count = 0 /\ line = <<>> /\ opened = {}

(* Acquire finds a permit and takes it. *)
Take(g) ==
  /\ count < Permits
  /\ Goto(g, "acquire", "granted")
  /\ count' = count + 1
  /\ UNCHANGED <<line, opened>>

(* Acquire finds none and joins the line. *)
Join(g, at) ==
  /\ count >= Permits
  /\ Goto(g, "acquire", at)
  /\ line' = Append(line, g)
  /\ UNCHANGED <<count, opened>>

Leave(g) == Return(g) /\ UNCHANGED countVars

(* The goroutines at a control point. *)
At(point) == {g \in Goroutine : pc[g] = point}

CountTypeOK == ClientTypeOK /\ line \in Seq(Goroutine)

(* Inductive, of all three: the permits that are out are the callers', an  *)
(* Acquire's that is about to return, or a Release's that is about to give *)
(* it back, and they are N at most.                                        *)
Out(handed) ==
  {g \in Goroutine : pc[g] \in {"granted", "release", "panic"} \/ g \in handed}

Conserved(handed) == count = owned + Cardinality(Out(handed)) /\ count <= Permits

(* Refinement mapping *)
FreePermits == Permits - count
-----------------------------------------------------------------------------
(* ChannelSemaphore: Acquire sends into a channel with a buffer of Permits *)
(* places, Release receives.  The channel (Go runtime): a send into a full *)
(* buffer joins the queue of senders, and a receive, which blocks while    *)
(* the buffer is empty, lets the first of them in.                         *)

(* c.sem <- struct{}{} *)
ChannelAcquire(g) == Take(g) \/ Join(g, "parked")

(* <-c.sem *)
ChannelRelease(g) ==
  /\ pc[g] = "release" /\ count > 0
  /\ \/ /\ line = <<>>
        /\ pc' = [pc EXCEPT ![g] = "idle"]
        /\ count' = count - 1
        /\ UNCHANGED line
     \/ /\ line # <<>>
        /\ pc' = [pc EXCEPT ![g] = "idle", ![Head(line)] = "granted"]
        /\ line' = Tail(line)
        /\ UNCHANGED count
  /\ UNCHANGED <<calls, owned, opened>>

ChannelWork(g) == ChannelAcquire(g) \/ ChannelRelease(g) \/ Leave(g)

ChannelTypeOK ==
  /\ CountTypeOK
  /\ pc \in [Goroutine -> {"idle", "acquire", "parked", "granted", "release"}]
  /\ count \in 0 .. Permits

ChannelStatus == StatusOf(At("parked"), {})
-----------------------------------------------------------------------------
(* MutexSemaphore: a count and a queue of pre-locked gate mutexes under    *)
(* one mutex.  All of Release and the part of Acquire before the second    *)
(* gate.Lock run under m.mu, so each is one step.  A blocked Acquire has   *)
(* one gate, named here by its goroutine.                                  *)

MutexAcquire(g) == Take(g) \/ Join(g, "gate")

(* The second gate.Lock() returns. *)
MutexPass(g) ==
  /\ g \in opened
  /\ Goto(g, "gate", "granted")
  /\ opened' = opened \ {g}
  /\ UNCHANGED <<count, line>>

(* Mutant: the count is decremented although the permit is handed on. *)
ReleaseCounted(g) ==
  /\ Goto(g, "release", IF count = 0 THEN "panic" ELSE "idle")
  /\ count' = IF count = 0 THEN count ELSE count - 1
  /\ IF count # 0 /\ line # <<>>
     THEN opened' = opened \cup {Head(line)} /\ line' = Tail(line)
     ELSE UNCHANGED <<line, opened>>

(* Mutant: the waiter is woken but stays at the head of the queue. *)
ReleaseKeeps(g) ==
  /\ Goto(g, "release", "idle")
  /\ IF line # <<>>
     THEN opened' = opened \cup {Head(line)} /\ UNCHANGED count
     ELSE count' = count - 1 /\ UNCHANGED opened
  /\ UNCHANGED line

MutexRelease(g) ==
  \/ /\ count = 0
     /\ Goto(g, "release", "panic")
     /\ UNCHANGED countVars
  \/ /\ count # 0 /\ line # <<>>
     /\ Goto(g, "release", "idle")
     /\ opened' = opened \cup {Head(line)}
     /\ line' = Tail(line)
     /\ UNCHANGED count
  \/ /\ count # 0 /\ line = <<>>
     /\ Goto(g, "release", "idle")
     /\ count' = count - 1
     /\ UNCHANGED <<line, opened>>

MutexWork(g) == MutexAcquire(g) \/ MutexPass(g) \/ MutexRelease(g) \/ Leave(g)

MutexTypeOK ==
  /\ CountTypeOK
  /\ pc \in [Goroutine -> {"idle", "acquire", "gate", "granted", "release", "panic"}]
  /\ count \in 0 .. Permits
  /\ opened \subseteq At("gate")

(* Refinement mapping: a permit is granted when the gate opens. *)
MutexStatus == StatusOf(At("gate"), opened)
-----------------------------------------------------------------------------
(* CondSemaphore: a count under a mutex, and a sync.Cond.  The cond (Go    *)
(* library): Wait joins the notify list and gives up the mutex in one      *)
(* step, Signal takes the first goroutine off the list, which then locks   *)
(* the mutex again and rechecks.                                           *)

(* From c.mu.Lock, or the return of Wait, to c.mu.Unlock or the next Wait. *)
CondAcquire(g) == Take(g) \/ Join(g, "parked")

(* Mutant: Signal only when the last permit comes back. *)
ReleaseQuietly(g) ==
  /\ pc[g] = "release"
  /\ count' = count - 1
  /\ \/ /\ line = <<>> \/ count > 1
        /\ pc' = [pc EXCEPT ![g] = "idle"]
        /\ UNCHANGED line
     \/ /\ line # <<>> /\ count = 1
        /\ pc' = [pc EXCEPT ![g] = "idle", ![Head(line)] = "acquire"]
        /\ line' = Tail(line)
  /\ UNCHANGED <<calls, owned, opened>>

(* c.count--; c.cond.Signal() *)
CondRelease(g) ==
  /\ pc[g] = "release"
  /\ count' = count - 1
  /\ \/ /\ line = <<>>
        /\ pc' = [pc EXCEPT ![g] = "idle"]
        /\ UNCHANGED line
     \/ /\ line # <<>>
        /\ pc' = [pc EXCEPT ![g] = "idle", ![Head(line)] = "acquire"]
        /\ line' = Tail(line)
  /\ UNCHANGED <<calls, owned, opened>>

CondWork(g) == CondAcquire(g) \/ CondRelease(g) \/ Leave(g)

CondTypeOK ==
  /\ CountTypeOK
  /\ pc \in [Goroutine -> {"idle", "acquire", "parked", "granted", "release"}]
  /\ count \in Int

CondStatus == StatusOf({}, {})
-----------------------------------------------------------------------------
(* Inductive: the line of a semaphore holds, once each, the goroutines     *)
(* that wait and have not been let go; while somebody of the FIFO ones is  *)
(* in line, no permit is free.                                             *)
Lists(s, W) ==
  /\ \A i, j \in DOMAIN s : s[i] = s[j] => i = j
  /\ \A g \in Goroutine : (\E i \in DOMAIN s : s[i] = g) <=> g \in W

ChannelInv ==
  /\ ChannelTypeOK /\ Conserved({})
  /\ Lists(line, At("parked"))
  /\ line # <<>> => count = Permits
MutexInv ==
  /\ MutexTypeOK /\ Conserved(opened)
  /\ Lists(line, At("gate") \ opened)
  /\ line # <<>> => count = Permits
CondInv ==
  /\ CondTypeOK /\ Conserved({})
  /\ Lists(line, At("parked"))
=============================================================================
