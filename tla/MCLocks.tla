------------------------------ MODULE MCLocks -------------------------------
(***************************************************************************)
(* Every lock of package syncx, and peterson.Lock, under the same client.  *)
(* impl picks the lock a behaviour uses; the words of the others keep      *)
(* their initial values, so the state space is the sum of the locks' own.  *)
(***************************************************************************)
EXTENDS LockClient

CONSTANTS
  Node, Nil,      (* the heap of the queue locks, and the nil pointer      *)
  First, Second   (* the two goroutines that share a peterson.Lock         *)

ASSUME NilAssumption == Nil \notin Node
ASSUME PartyAssumption == {First, Second} \subseteq Goroutine /\ First # Second

VARIABLES
  impl,                                              (* the lock in use    *)
  spinState,                                         (* SpinLock           *)
  ticket, serving, my,                               (* TicketLock         *)
  clhTail, clhState, clhNode, clhPrev,               (* CLHLock            *)
  mcsTail, owner, next, locked, mcsNode, link,       (* MCSLock            *)
  mutexState, sema,                                  (* MutexLock, Parker  *)
  flag, turn                                         (* peterson.Lock      *)

Spins  == INSTANCE SpinLocks WITH state <- spinState
CLH    == INSTANCE CLHLock   WITH tail <- clhTail, state <- clhState,
                                  node <- clhNode, prev <- clhPrev
MCS    == INSTANCE MCSLock   WITH tail <- mcsTail, node <- mcsNode
Mutex  == INSTANCE MutexLock WITH state <- mutexState
Pair   == INSTANCE Peterson  WITH Buffered <- FALSE,
                                  buffer <- [g \in Goroutine |-> <<>>]

spinVars   == <<spinState>>
ticketVars == <<ticket, serving, my>>
clhVars    == <<clhTail, clhState, clhNode, clhPrev>>
mcsVars    == <<mcsTail, owner, next, locked, mcsNode, link>>
mutexVars  == <<mutexState, sema>>
pairVars   == <<flag, turn>>
vars == <<clientVars, impl, spinVars, ticketVars, clhVars, mcsVars, mutexVars,
          pairVars>>

Impl == {"Spin", "Ticket", "CLH", "MCS", "Mutex", "Pair"}
FIFO == {"Ticket", "CLH", "MCS"}

Init ==
  /\ impl \in Impl
  /\ Spins!SpinInit /\ Spins!TicketInit /\ CLH!Init /\ MCS!Init /\ Mutex!Init /\ Pair!Init

Phase == CASE impl \in {"Spin", "Ticket"} -> Spins!Phase
           [] impl = "CLH"    -> CLH!Phase
           [] impl = "MCS"    -> MCS!Phase
           [] impl = "Mutex"  -> Mutex!Phase
           [] impl = "Pair"   -> Pair!Phase

Others(mine) ==
  /\ UNCHANGED impl
  /\ mine # "Spin"   => UNCHANGED spinVars
  /\ mine # "Ticket" => UNCHANGED ticketVars
  /\ mine # "CLH"    => UNCHANGED clhVars
  /\ mine # "MCS"    => UNCHANGED mcsVars
  /\ mine # "Mutex"  => UNCHANGED mutexVars
  /\ mine # "Pair"   => UNCHANGED pairVars

Start(g) ==
  /\ \/ impl = "Spin"   /\ Spins!SpinLock(g)
     \/ impl = "Ticket" /\ Spins!TicketLock(g)
     \/ impl = "CLH"    /\ CLH!Lock(g)
     \/ impl = "MCS"    /\ MCS!Lock(g)
     \/ impl = "Mutex"  /\ Mutex!Lock(g)
     \/ impl = "Pair"   /\ Pair!Lock(g)
  /\ Others(impl)

Work(g) ==
  /\ \/ impl = "Spin"   /\ Spins!SpinWork(g)
     \/ impl = "Ticket" /\ Spins!TicketWork(g)
     \/ impl = "CLH"    /\ CLH!Work(g)
     \/ impl = "MCS"    /\ MCS!Work(g)
     \/ impl = "Mutex"  /\ Mutex!Work(g)
     \/ impl = "Pair"   /\ Pair!Work(g)
  /\ Others(impl)

Next == \E g \in Goroutine : Start(g) \/ Work(g)
Spec == Init /\ [][Next]_vars /\ \A g \in Goroutine : WF_vars(Work(g))
-----------------------------------------------------------------------------
(* The words of the lock in use have their types. *)
TypeOK ==
  /\ impl \in Impl
  /\ impl = "Spin"   => Spins!SpinTypeOK
  /\ impl = "Ticket" => Spins!TicketTypeOK
  /\ impl = "CLH"    => CLH!TypeOK
  /\ impl = "MCS"    => MCS!TypeOK
  /\ impl = "Mutex"  => Mutex!TypeOK
  /\ impl = "Pair"   => Pair!TypeOK

(* Two goroutines are never between the step of Lock that takes the lock   *)
(* and the step of Unlock that gives it up (lock_test.go counts increments *)
(* of an unprotected counter; here every interleaving is covered).         *)
MutualExclusion ==
  /\ impl \in {"Spin", "Ticket"} => Spins!MutualExclusion
  /\ impl = "CLH"    => CLH!MutualExclusion
  /\ impl = "MCS"    => MCS!MutualExclusion
  /\ impl = "Mutex"  => Mutex!MutualExclusion
  /\ impl = "Pair"   => Pair!MutualExclusion

(* Every lock implements AbstractLock, and the ones documented as strict   *)
(* FIFO (lock.go:53, 279, 352) grant in the order of their doorway.        *)
Abstract == INSTANCE AbstractLock WITH fifo  <- impl \in FIFO,
                                       phase <- Phase
ImplementsLock == Abstract!Spec

(* No lost wakeup in MutexLock (lock.go:122-126). *)
NoLostWakeup == impl = "Mutex" => Mutex!NoLostWakeup

(* Every Lock returns, unless an Unlock has panicked in MCSLock.  With     *)
(* finitely many calls this is freedom from lost wakeups, lost handoffs    *)
(* and deadlock, not freedom from starvation, which SpinLock and MutexLock *)
(* do not claim.                                                           *)
LockReturns ==
  \A g \in Goroutine :
     Phase[g] = "trying" ~> \/ Phase[g] = "holding"
                            \/ \E h \in Goroutine : Phase[h] = "panicked"
=============================================================================
