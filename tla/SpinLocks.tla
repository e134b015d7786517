----------------------------- MODULE SpinLocks ------------------------------
(***************************************************************************)
(* syncx.SpinLock and TicketLock, whose waiters spin on a word that all of *)
(* them share.                                                             *)
(***************************************************************************)
EXTENDS LockClient

VARIABLES
  state,      (* SpinLock.state: TRUE while the lock is held               *)
  ticket,     (* TicketLock.ticket: next ticket to hand out                *)
  serving,    (* TicketLock.serving: ticket that may enter                 *)
  my          (* my[g]: the ticket g took in its current (or last) Lock    *)

ticketVars == <<ticket, serving, my>>

Phase == [g \in Goroutine |-> PhaseOf(g, {"spin"}, {"cs"})]

(* At most one goroutine is between the step of Lock that takes the lock   *)
(* and the step of Unlock that gives it up.                                *)
MutualExclusion == Exclusive(Phase)

SpinsTypeOK == pc \in [Goroutine -> {"idle", "spin", "cs"}] /\ ClientTypeOK
-----------------------------------------------------------------------------
(* SpinLock: one atomic flag; Lock retries a CAS until it wins.  A CAS     *)
(* that fails changes nothing and is not a step of the model.              *)

SpinInit == ClientInit /\ state = FALSE

(* Lock is called; g is at the CAS loop. *)
SpinLock(g) == StartLock(g, "spin") /\ UNCHANGED state

(* s.state.CompareAndSwap(false, true) succeeds. *)
SpinAcquire(g) ==
  /\ ~state
  /\ Goto(g, "spin", "cs")
  /\ state' = TRUE

SpinUnlock(g) == Goto(g, "cs", "idle") /\ state' = FALSE

SpinWork(g) == SpinAcquire(g) \/ SpinUnlock(g)

SpinTypeOK == SpinsTypeOK /\ state \in BOOLEAN

(* Inductive: the flag is set exactly while one goroutine is inside. *)
SpinInv ==
  /\ SpinTypeOK
  /\ \A g \in Goroutine : pc[g] = "cs" => state
  /\ \A g, h \in Goroutine : pc[g] = "cs" /\ pc[h] = "cs" => g = h
-----------------------------------------------------------------------------
(* TicketLock: take the next ticket, wait until it is being served.  The   *)
(* two uint64 counters never wrap in the model: calls <= MaxCalls.         *)

TicketInit ==
  /\ ClientInit
  /\ ticket = 0
  /\ serving = 0
  /\ my = [g \in Goroutine |-> 0]

(* my := t.ticket.Add(1) - 1 *)
TicketLock(g) ==
  /\ StartLock(g, "spin")
  /\ my' = [my EXCEPT ![g] = ticket]
  /\ ticket' = ticket + 1
  /\ UNCHANGED serving

(* The wait loop ends: my = t.serving.Load(). *)
TicketAcquire(g) ==
  /\ my[g] = serving
  /\ Goto(g, "spin", "cs")
  /\ UNCHANGED ticketVars

(* Mutant: Unlock serves the newest ticket instead of the next one. *)
UnlockNewest(g) ==
  /\ Goto(g, "cs", "idle")
  /\ serving' = IF ticket > serving + 1 THEN ticket - 1 ELSE serving + 1
  /\ UNCHANGED <<ticket, my>>

(* t.serving.Add(1) *)
TicketUnlock(g) ==
  /\ Goto(g, "cs", "idle")
  /\ serving' = serving + 1
  /\ UNCHANGED <<ticket, my>>

TicketWork(g) == TicketAcquire(g) \/ TicketUnlock(g)

TicketTypeOK ==
  /\ SpinsTypeOK
  /\ {ticket, serving} \subseteq Nat
  /\ my \in [Goroutine -> Nat]

Inside(g) == pc[g] # "idle"

(* Inductive: the tickets in use are distinct and lie between serving and  *)
(* ticket, in the order of arrival, and the goroutine in the critical      *)
(* section holds serving.                                                  *)
TicketInv ==
  /\ TicketTypeOK
  /\ ticket = calls /\ my = stamp
  /\ serving <= ticket
  /\ \A g \in Goroutine :
        Inside(g) => serving <= my[g] /\ my[g] < ticket
  /\ \A g, h \in Goroutine :
        Inside(g) /\ Inside(h) /\ my[g] = my[h] => g = h
  /\ \A g \in Goroutine : pc[g] = "cs" => my[g] = serving
=============================================================================
