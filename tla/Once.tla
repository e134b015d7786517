-------------------------------- MODULE Once --------------------------------
(***************************************************************************)
(* syncx.Once and the cells OnceCell, OnceCells over it: the first Do runs *)
(* f under a mutex and stores what it returns, the others return what is   *)
(* stored.  f may panic: the deferred calls then still store true and      *)
(* unlock, and the cell keeps its zero value.                              *)
(*                                                                         *)
(* Control points: "load" before the first state.Load, "lock" before       *)
(* mu.Lock, "run" inside f, "store" before the deferred state.Store,       *)
(* "unlock" before the deferred mu.Unlock, "read" before o.v is read.      *)
(***************************************************************************)
EXTENDS GateClient

VARIABLES
  state,       (* Once.state                                               *)
  mu,          (* the goroutines that hold Once.mu: none or one            *)
  cell,        (* OnceCell.v: "zero" or "value"                            *)
  runs,        (* history: how often f has been called                     *)
  ended        (* history: how f has ended: "no", "returned", "panicked"   *)

onceVars == <<state, mu, cell, runs, ended>>
vars == <<clientVars, onceVars>>

Init ==
  /\ ClientInit
  /\ state = FALSE
  /\ mu = {}
  /\ cell = "zero"
  /\ runs = 0
  /\ ended = "no"

(* The fast path. *)
Load(g) ==
  /\ Goto(g, "load", IF state THEN "read" ELSE "lock")
  /\ UNCHANGED onceVars

(* Mutant: no second look at state under the mutex. *)
LockUnchecked(g) ==
  /\ mu = {}
  /\ Goto(g, "lock", "run")
  /\ mu' = {g}
  /\ runs' = runs + 1
  /\ UNCHANGED <<state, cell, ended>>

(* o.mu.Lock(); if !o.state.Load() { ... f() *)
Lock(g) ==
  /\ mu = {}
  /\ Goto(g, "lock", IF state THEN "unlock" ELSE "run")
  /\ mu' = {g}
  /\ runs' = IF state THEN runs ELSE runs + 1
  /\ UNCHANGED <<state, cell, ended>>

(* f returns, and o.v = f(). *)
FReturns(g) ==
  /\ Goto(g, "run", "store")
  /\ cell' = "value"
  /\ ended' = "returned"
  /\ UNCHANGED <<state, mu, runs>>

FPanics(g) ==
  /\ Goto(g, "run", "store")
  /\ ended' = "panicked"
  /\ UNCHANGED <<state, mu, cell, runs>>

Store(g) ==
  /\ Goto(g, "store", "unlock")
  /\ state' = TRUE
  /\ UNCHANGED <<mu, cell, runs, ended>>

Unlock(g) ==
  /\ Goto(g, "unlock", "read")
  /\ mu' = {}
  /\ UNCHANGED <<state, cell, runs, ended>>

(* return o.v (after a panic of its own f, the panic goes on instead). *)
Read(g) == Goto(g, "read", "idle") /\ UNCHANGED onceVars

Call(g) == Start(g, "load") /\ UNCHANGED onceVars
Work(g) == \/ Load(g) \/ Lock(g) \/ FReturns(g) \/ FPanics(g)
           \/ Store(g) \/ Unlock(g) \/ Read(g)
Next == \E g \in Goroutine : Call(g) \/ Work(g)
Spec == Init /\ [][Next]_vars /\ \A g \in Goroutine : WF_vars(Work(g))

TypeOK ==
  /\ state \in BOOLEAN
  /\ mu \subseteq Goroutine
  /\ cell \in {"zero", "value"}
  /\ runs \in Nat
  /\ ended \in {"no", "returned", "panicked"}

(* f is called once at most; nobody comes back from Once.Do before f has   *)
(* ended, so that o.v is never read while f writes it, and what is read is *)
(* f's value unless f has panicked.                                        *)
RunsOnce ==
  /\ runs <= 1
  /\ \A g \in Goroutine : pc[g] = "read" =>
        /\ \A h \in Goroutine : pc[h] # "run"
        /\ cell = "value" \/ ended = "panicked"

(* Inductive: mu is held from the second look at state to Unlock, f has    *)
(* been called when state is set or its caller is between the two, and     *)
(* state is set only when f has ended.                                     *)
Inv ==
  /\ TypeOK
  /\ pc \in [Goroutine -> {"idle", "load", "lock", "run", "store", "unlock", "read"}]
  /\ \A g \in Goroutine : pc[g] \in {"run", "store", "unlock"} <=> g \in mu
  /\ \A g, h \in mu : g = h
  /\ runs = IF state \/ \E g \in Goroutine : pc[g] \in {"run", "store"} THEN 1 ELSE 0
  /\ \A g \in Goroutine :
        /\ pc[g] \in {"run", "store"} => ~state
        /\ pc[g] \in {"unlock", "read"} => state
        /\ pc[g] = "store" => ended # "no"
  /\ state => ended # "no"
  /\ ended = "returned" => cell = "value"
=============================================================================
