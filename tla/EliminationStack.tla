-------------------------- MODULE EliminationStack --------------------------
(***************************************************************************)
(* stack.EliminationBackoffMPMC: a Treiber stack whose callers, when a CAS *)
(* of head fails (or a Pop finds the stack empty), try to meet a call of   *)
(* the opposite kind in a slot of the elimination array.  The slot the     *)
(* ticket generator picks is any slot.  A load of slot.op and the CAS that *)
(* depends on it are one step: an op's kind never changes, and a CAS that  *)
(* fails only goes round the loop.                                         *)
(*                                                                         *)
(* Control points: "load", "cas" on head; "visit" at a slot; "wait" in the *)
(* first waitForExchange, "wait2" in the second, after the CAS that would  *)
(* withdraw the op has failed; "give" between a pusher's CAS of a waiting  *)
(* Pop's op and curr.value = v; "signal" before curr.done.Store(true);     *)
(* "recheck" at the second head.Load of a Pop that found head nil.         *)
(***************************************************************************)
EXTENDS ListStacks

CONSTANTS
  Slot,             (* the elimination array                               *)
  Op,               (* addresses an eliminationOp can be allocated at      *)
  Attempts,         (* eliminationAttempts: slots visited in a row         *)
  PusherMayStall    (* may a Push that has taken a waiting Pop's op stall  *)
                    (* before done.Store for eliminationWaitSpins polls    *)

ASSUME EliminationAssumption ==
  /\ Nil \notin Op /\ Slot # {}
  /\ Attempts \in Nat \ {0}
  /\ PusherMayStall \in BOOLEAN

VARIABLES
  slot,      (* slot[s]: eliminationSlot.op                                *)
  mine,      (* mine[g]: the op g has installed, Nil if none               *)
  curr,      (* curr[g]: the partner's op that g has taken out of a slot   *)
  at,        (* at[g]:   the slot g has installed its op in                *)
  tries,     (* tries[g]: visits left in this tryEliminate                 *)
  kind,      (* kind[o]: eliminationOp.kind                                *)
  value,     (* value[o]: eliminationOp.value                              *)
  done       (* done[o]: eliminationOp.done                                *)

eliminationVars == <<slot, mine, curr, at, tries, kind, value, done>>

Init ==
  /\ ClientInit
  /\ HeadInit
  /\ slot = [s \in Slot |-> Nil]
  /\ mine = [g \in Goroutine |-> Nil]
  /\ curr = [g \in Goroutine |-> Nil]
  /\ at = [g \in Goroutine |-> CHOOSE s \in Slot : TRUE]
  /\ tries = [g \in Goroutine |-> 0]
  /\ kind = [o \in Op |-> "pop"]
  /\ value = [o \in Op |-> zero]
  /\ done = [o \in Op |-> FALSE]

Held    == {slot[s] : s \in Slot} \cup {mine[g] : g \in Goroutine}
                                  \cup {curr[g] : g \in Goroutine}
FreshOp == CHOOSE o \in Op : o \notin Held

-----------------------------------------------------------------------------
(* The stack itself *)

Push(g) == TreiberPush(g) /\ UNCHANGED eliminationVars
Pop(g)  == TreiberPop(g) /\ UNCHANGED eliminationVars
Load(g) == TreiberLoad(g) /\ UNCHANGED eliminationVars

(* tryEliminatePush or tryEliminatePop begins. *)
Begin(g) ==
  /\ tries' = [tries EXCEPT ![g] = Attempts]
  /\ UNCHANGED <<slot, mine, curr, at, kind, value, done>>

(* Pop finds head nil: it tries to eliminate before it reports empty. *)
LoadNil(g) ==
  /\ op[g] = "pop" /\ head = Nil
  /\ Goto(g, "load", "visit")
  /\ prev' = [prev EXCEPT ![g] = Nil]
  /\ top' = [top EXCEPT ![g] = NoTop]
  /\ UNCHANGED <<head, v, next, node>>
  /\ Begin(g)

CASHead(g) ==
  \/ SwingHead(g) /\ UNCHANGED eliminationVars
  \/ /\ head # prev[g]
     /\ Goto(g, "cas", "visit")
     /\ Begin(g)
     /\ UNCHANGED headVars

(* if e.head.Load() == nil { return zero, false } *)
Recheck(g) ==
  /\ \/ head = Nil /\ Finish(g, "recheck", None)
     \/ head # Nil /\ Goto(g, "recheck", "load")
  /\ UNCHANGED <<headVars, eliminationVars>>

-----------------------------------------------------------------------------
(* The elimination array *)

(* A visit has failed: another slot, or back to the stack.  A Pop whose    *)
(* prev is nil came from an empty stack and looks at head again.           *)
VisitFails(g, from) ==
  /\ tries' = [tries EXCEPT ![g] = @ - 1]
  /\ Goto(g, from, IF tries[g] > 1 THEN "visit"
                   ELSE IF op[g] = "pop" /\ prev[g] = Nil THEN "recheck"
                   ELSE "load")

(* The call has been eliminated; its node and locals are garbage. *)
Drop(g) ==
  /\ node' = [node EXCEPT ![g] = Nil]
  /\ prev' = [prev EXCEPT ![g] = Nil]
  /\ top' = [top EXCEPT ![g] = NoTop]
  /\ UNCHANGED <<head, v, next>>

(* The slot is empty: install an op and wait. *)
Install(g, s) ==
  /\ Goto(g, "visit", "wait")
  /\ slot[s] = Nil
  /\ Op \ Held # {}
  /\ slot' = [slot EXCEPT ![s] = FreshOp]
  /\ mine' = [mine EXCEPT ![g] = FreshOp]
  /\ at' = [at EXCEPT ![g] = s]
  /\ kind' = [kind EXCEPT ![FreshOp] = op[g]]
  /\ value' = [value EXCEPT ![FreshOp] = arg[g]]
  /\ done' = [done EXCEPT ![FreshOp] = FALSE]
  /\ UNCHANGED <<curr, tries, headVars>>

(* Another call of the same kind waits here. *)
Clash(g, s) ==
  /\ slot[s] # Nil /\ kind[slot[s]] = op[g]
  /\ VisitFails(g, "visit")
  /\ UNCHANGED <<slot, mine, curr, at, kind, value, done, headVars>>

(* Mutant: the partner's op is not taken out of the slot. *)
TakeLeaves(g, s) ==
  /\ slot[s] # Nil /\ kind[slot[s]] # op[g]
  /\ \/ op[g] = "push" /\ Goto(g, "visit", "give")
     \/ /\ op[g] = "pop" /\ pc[g] = "visit"
        /\ pc' = [pc EXCEPT ![g] = "signal"]
        /\ ret' = [ret EXCEPT ![g] = <<value[slot[s]], TRUE>>]
        /\ UNCHANGED <<calls, op, arg>>
  /\ curr' = [curr EXCEPT ![g] = slot[s]]
  /\ UNCHANGED <<slot, mine, at, tries, kind, value, done, headVars>>

(* A call of the opposite kind waits here: take its op out of the slot.    *)
(* A Pop reads the value with the same step: a Push wrote it before it     *)
(* installed the op.                                                       *)
Take(g, s) ==
  /\ slot[s] # Nil /\ kind[slot[s]] # op[g]
  /\ \/ op[g] = "push" /\ Goto(g, "visit", "give")
     \/ /\ op[g] = "pop" /\ pc[g] = "visit"
        /\ pc' = [pc EXCEPT ![g] = "signal"]
        /\ ret' = [ret EXCEPT ![g] = <<value[slot[s]], TRUE>>]
        /\ UNCHANGED <<calls, op, arg>>
  /\ slot' = [slot EXCEPT ![s] = Nil]
  /\ curr' = [curr EXCEPT ![g] = slot[s]]
  /\ UNCHANGED <<mine, at, tries, kind, value, done, headVars>>

(* curr.value = v *)
Give(g) ==
  /\ Goto(g, "give", "signal")
  /\ value' = [value EXCEPT ![curr[g]] = arg[g]]
  /\ UNCHANGED <<slot, mine, curr, at, tries, kind, done, headVars>>

(* Mutant: the partner returns without done.Store(true). *)
SignalForgets(g) ==
  /\ Finish(g, "signal", ret[g])
  /\ curr' = [curr EXCEPT ![g] = Nil]
  /\ Drop(g)
  /\ UNCHANGED <<slot, mine, at, tries, kind, value, done>>

(* curr.done.Store(true), and the call returns. *)
Signal(g) ==
  /\ Finish(g, "signal", ret[g])
  /\ done' = [done EXCEPT ![curr[g]] = TRUE]
  /\ curr' = [curr EXCEPT ![g] = Nil]
  /\ Drop(g)
  /\ UNCHANGED <<slot, mine, at, tries, kind, value>>

(* Mutant: a matched Pop returns the value its op was created with. *)
MatchedStale(g, from) ==
  /\ Finish(g, from, IF op[g] = "pop" THEN <<zero, TRUE>> ELSE None)
  /\ mine' = [mine EXCEPT ![g] = Nil]
  /\ Drop(g)
  /\ UNCHANGED <<slot, curr, at, tries, kind, value, done>>

(* The waiting call returns; a Pop returns op.value. *)
Matched(g, from) ==
  /\ Finish(g, from,
            IF op[g] = "pop" THEN <<value[mine[g]], TRUE>> ELSE None)
  /\ mine' = [mine EXCEPT ![g] = Nil]
  /\ Drop(g)
  /\ UNCHANGED <<slot, curr, at, tries, kind, value, done>>

(* waitForExchange sees done. *)
SeeDone(g) ==
  \E from \in {"wait", "wait2"} :
     pc[g] = from /\ done[mine[g]] /\ Matched(g, from)

(* The first wait expires; s.op.CompareAndSwap(op, nil). *)
Withdraw(g) ==
  \/ /\ pc[g] = "wait" /\ slot[at[g]] = mine[g]
     /\ VisitFails(g, "wait")
     /\ slot' = [slot EXCEPT ![at[g]] = Nil]
     /\ mine' = [mine EXCEPT ![g] = Nil]
     /\ UNCHANGED <<curr, at, kind, value, done, headVars>>
  \/ /\ slot[at[g]] # mine[g]
     /\ Goto(g, "wait", "wait2")
     /\ UNCHANGED <<headVars, eliminationVars>>

(* The second wait expires; its result is not looked at. *)
SpinOut(g) ==
  /\ pc[g] = "wait2"
  /\ op[g] = "pop" => PusherMayStall
  /\ Matched(g, "wait2")

Return(g) == Leave(g) /\ UNCHANGED <<headVars, eliminationVars>>

Call(g) == Push(g) \/ Pop(g)
Work(g) ==
  \/ Load(g) \/ LoadNil(g) \/ CASHead(g) \/ Recheck(g)
  \/ \E s \in Slot : Install(g, s) \/ Clash(g, s) \/ Take(g, s)
  \/ Give(g) \/ Signal(g) \/ SeeDone(g) \/ Withdraw(g) \/ SpinOut(g)
  \/ Return(g)

-----------------------------------------------------------------------------
(* Refinement mapping to AbstractStack.  A waiting call has taken effect   *)
(* once its op has been taken out of the slot; a Pop will return the value *)
(* of the Push that took it, written to op.value or still to be written.   *)
Taken(g) == pc[g] \in {"wait", "wait2"} /\ slot[at[g]] # mine[g]

Status ==
  [g \in Goroutine |->
     IF pc[g] = "idle" THEN "idle"
     ELSE IF pc[g] \in {"done", "give", "signal"} \/ Taken(g) THEN "done"
     ELSE op[g]]

Result ==
  [g \in Goroutine |->
     IF Taken(g) /\ op[g] = "pop"
       THEN IF \E h \in Goroutine : curr[h] = mine[g]
              THEN <<arg[CHOOSE h \in Goroutine : curr[h] = mine[g]], TRUE>>
              ELSE <<value[mine[g]], TRUE>>
       ELSE ret[g]]

TypeOK ==
  /\ ClientTypeOK
  /\ HeadTypeOK
  /\ pc \in [Goroutine -> {"idle", "load", "cas", "visit", "wait", "wait2",
                           "give", "signal", "recheck", "done"}]
  /\ slot \in [Slot -> Op \cup {Nil}]
  /\ {mine, curr} \subseteq [Goroutine -> Op \cup {Nil}]
  /\ at \in [Goroutine -> Slot]
  /\ tries \in [Goroutine -> 0..Attempts]
  /\ kind \in [Op -> {"push", "pop"}]
  /\ value \in [Op -> Nat]
  /\ done \in [Op -> BOOLEAN]

(* The exchange of a value is exclusive and ordered: an op is matched by   *)
(* one partner at most, and never while its owner can still withdraw it;   *)
(* and as long as the partner has not written op.value, done is not set,   *)
(* so that a reader who has seen done reads the value                      *)
(* (elimination_backoff_mpmc.go:19-22).                                    *)
ExchangeSafe ==
  /\ \A g, h \in Goroutine : curr[g] # Nil /\ curr[g] = curr[h] => g = h
  /\ \A g, h \in Goroutine :
        mine[g] # Nil /\ slot[at[g]] = mine[g] => curr[h] # mine[g]
  /\ \A h \in Goroutine : pc[h] = "give" => ~done[curr[h]]
=============================================================================
