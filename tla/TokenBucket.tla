---------------------------- MODULE TokenBucket ----------------------------
(***************************************************************************)
(* ratelimit.TokenBucket: a bucket that is refilled by the calls that look *)
(* at it.  Time passes in Ticks; elapsed is time.Since(last), and timer[g] *)
(* what is left of g's time.After.  The mutex is held from the refill to   *)
(* the decision, so that much of AllowN and of WaitN is one step.  A       *)
(* request for more than the capacity is refused before anything else and  *)
(* is left out.  interval is 0 for a rate of 0 and for one above 10^9.     *)
(***************************************************************************)
EXTENDS Naturals

CONSTANTS
  Goroutine,
  MaxCap, MaxInterval, (* bounds: of the arguments of NewTokenBucket       *)
  MaxElapsed,          (* bound: time between refills, more than a timer   *)
                       (* is ever set to plus an interval                  *)
  MaxCalls             (* bound: calls                                     *)

VARIABLES
  cap, interval,
  tokens, elapsed,
  done,        (* is the callers' context done                             *)
  pc,          (* "idle", before Lock ("try"), in the select ("timer"), in *)
               (* <-ctx.Done() of a bucket that is never refilled ("ctx")  *)
  want, timer, calls,
  level, phase (* history: a bucket that is given its token every interval,*)
               (* and the time since it was given the last one             *)

sharedVars == <<cap, interval, done>>
localVars  == <<pc, want, timer>>
vars == <<sharedVars, localVars, tokens, elapsed, calls, level, phase>>

Init ==
  /\ cap \in 0 .. MaxCap /\ interval \in 0 .. MaxInterval
  /\ tokens = cap /\ elapsed = 0 /\ done = FALSE
  /\ pc = [g \in Goroutine |-> "idle"] /\ want = [g \in Goroutine |-> 0]
  /\ timer = [g \in Goroutine |-> 0] /\ calls = 0
  /\ level = cap /\ phase = 0

Call == calls < MaxCalls /\ calls' = calls + 1
Full(n) == IF n < cap THEN n ELSE cap

(* Mutant: the level is not capped. *)
RefilledOver == IF interval = 0 THEN tokens ELSE tokens + elapsed \div interval
(* The level refillLocked leaves, and the time since the new last. *)
Refilled == IF interval = 0 THEN tokens ELSE Full(tokens + elapsed \div interval)
(* Mutant: last becomes the time of the call. *)
RemainderLost == IF interval = 0 THEN elapsed ELSE 0
Remainder == IF interval = 0 THEN elapsed ELSE elapsed % interval
refill(taken) ==
  /\ tokens' = Refilled - taken /\ elapsed' = Remainder
  /\ level' = level - taken
  /\ UNCHANGED <<sharedVars, phase>>

(* Allow is AllowN(1), Wait is WaitN(1). *)
AllowN(g, n) ==
  /\ pc[g] = "idle" /\ n <= cap /\ Call
  /\ refill(IF Refilled < n THEN 0 ELSE n)
  /\ UNCHANGED localVars

WaitN(g, n) ==
  /\ pc[g] = "idle" /\ n <= cap /\ Call
  /\ pc' = [pc EXCEPT ![g] = "try"] /\ want' = [want EXCEPT ![g] = n]
  /\ UNCHANGED <<sharedVars, tokens, elapsed, timer, level, phase>>
Leave(g) ==
  pc' = [pc EXCEPT ![g] = "idle"] /\ want' = [want EXCEPT ![g] = 0]
Take(g) ==
  /\ pc[g] = "try" /\ Refilled >= want[g]
  /\ refill(want[g]) /\ Leave(g)
  /\ UNCHANGED <<timer, calls>>
Sleep(g) ==
  /\ pc[g] = "try" /\ Refilled < want[g]
  /\ refill(0)
  /\ pc' = [pc EXCEPT ![g] = IF interval = 0 THEN "ctx" ELSE "timer"]
  /\ timer' = [timer EXCEPT ![g] = (want[g] - Refilled) * interval]
  /\ UNCHANGED <<want, calls>>
Wake(g) ==
  /\ pc[g] = "timer" /\ timer[g] = 0
  /\ pc' = [pc EXCEPT ![g] = "try"]
  /\ UNCHANGED <<sharedVars, want, timer, tokens, elapsed, calls, level, phase>>
GiveUp(g) ==
  /\ pc[g] \in {"timer", "ctx"} /\ done
  /\ Leave(g) /\ timer' = [timer EXCEPT ![g] = 0]
  /\ UNCHANGED <<sharedVars, tokens, elapsed, calls, level, phase>>

Cancel ==
  /\ ~done /\ done' = TRUE
  /\ UNCHANGED <<cap, interval, localVars, tokens, elapsed, calls, level, phase>>

Tick ==
  /\ elapsed < MaxElapsed /\ elapsed' = elapsed + 1
  /\ timer' = [g \in Goroutine |-> IF timer[g] = 0 THEN 0 ELSE timer[g] - 1]
  /\ LET due == interval # 0 /\ phase + 1 = interval
     IN  /\ level' = IF due THEN Full(level + 1) ELSE level
         /\ phase' = IF due \/ interval = 0 THEN 0 ELSE phase + 1
  /\ UNCHANGED <<sharedVars, pc, want, tokens, calls>>

Work(g) == Take(g) \/ Sleep(g) \/ Wake(g) \/ GiveUp(g)
Next ==
  \/ \E g \in Goroutine : Work(g) \/ \E n \in 1 .. MaxCap : AllowN(g, n) \/ WaitN(g, n)
  \/ Cancel \/ Tick
Spec ==
  Init /\ [][Next]_vars /\ WF_vars(Tick) /\ \A g \in Goroutine : WF_vars(Work(g))
-----------------------------------------------------------------------------
TypeOK ==
  /\ cap \in 0 .. MaxCap /\ interval \in 0 .. MaxInterval
  /\ tokens \in 0 .. cap /\ level \in 0 .. cap
  /\ elapsed \in 0 .. MaxElapsed /\ phase \in 0 .. MaxInterval
  /\ done \in BOOLEAN /\ calls \in 0 .. MaxCalls
  /\ pc \in [Goroutine -> {"idle", "try", "timer", "ctx"}]
  /\ want \in [Goroutine -> 0 .. cap]
  /\ timer \in [Goroutine -> 0 .. MaxCap * MaxInterval]

(* Refilling on demand loses no time and makes no token: at every moment   *)
(* the bucket holds what one holds that is given a token every interval,   *)
(* and is as far from its next (token_bucket.go:22, 45-48).                *)
AsIfEager ==
  /\ level = Refilled
  /\ interval # 0 => phase = elapsed % interval
=============================================================================
