------------------------------ MODULE MCStacks ------------------------------
(***************************************************************************)
(* Every stack of package stack under the same client; impl picks the one  *)
(* a behaviour uses.  LockFreeMPMC and EliminationBackoffMPMC share the    *)
(* list variables of ListStacks.                                           *)
(***************************************************************************)
EXTENDS EliminationStack

VARIABLE impl

vars == <<clientVars, headVars, eliminationVars, mutexVars, impl>>

FamilyInit ==
  /\ impl \in {"LockFree", "Elimination", "Mutex"}
  /\ Init
  /\ MutexInit
  /\ linked \in IF impl = "Mutex" THEN BOOLEAN ELSE {TRUE}

UsesLockFree ==
  /\ impl = "LockFree"
  /\ UNCHANGED <<impl, eliminationVars, mutexVars>>
UsesElimination == impl = "Elimination" /\ UNCHANGED <<impl, mutexVars>>
UsesMutex ==
  /\ impl = "Mutex"
  /\ UNCHANGED <<impl, headVars, eliminationVars>>

FamilyCall(g) ==
  \/ TreiberCall(g) /\ UsesLockFree
  \/ Call(g) /\ UsesElimination
  \/ MutexCall(g) /\ UsesMutex
FamilyWork(g) ==
  \/ TreiberWork(g) /\ UsesLockFree
  \/ Work(g) /\ UsesElimination
  \/ MutexWork(g) /\ UsesMutex

FamilyNext == \E g \in Goroutine : FamilyCall(g) \/ FamilyWork(g)
FamilySpec ==
  /\ FamilyInit /\ [][FamilyNext]_vars
  /\ \A g \in Goroutine : WF_vars(FamilyWork(g))

-----------------------------------------------------------------------------
(* The words of every stack have their types. *)
FamilyTypeOK ==
  /\ impl = "Elimination" => TypeOK
  /\ impl = "LockFree" =>
        /\ ClientTypeOK /\ HeadTypeOK
        /\ pc \in [Goroutine -> {"idle", "load", "cas", "done"}]
  /\ impl = "Mutex" => ClientTypeOK /\ rep \in Seq(1..MaxCalls)

(* Every stack is linearizable to a LIFO stack (stack/Index.md:9): no      *)
(* value is lost, duplicated or reordered, an empty result means that the  *)
(* stack was empty during the call, and an eliminated Pop returns the      *)
(* value of the Push it met.                                               *)
Abstract == INSTANCE AbstractStack
  WITH stack  <- IF impl = "Mutex" THEN MutexContents ELSE Contents,
       status <- CASE impl = "LockFree"    -> ListStatus
                   [] impl = "Elimination" -> Status
                   [] impl = "Mutex"       -> ListStatus,
       ret    <- IF impl = "Elimination" THEN Result ELSE ret
Linearizable == Abstract!Spec

(* Every call returns: an elimination partner is never left waiting, and   *)
(* the loops end once no other call interferes.  (Calls are finitely many.)*)
CallsReturn == <>[](\A g \in Goroutine : pc[g] = "idle")
=============================================================================
