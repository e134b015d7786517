------------------------------ MODULE MCFeeds ------------------------------
(***************************************************************************)
(* What the repository puts between channels: the two adapters of package  *)
(* syncx and the Broadcast of package patterns, one at a time; feed picks  *)
(* the one a behaviour uses.                                               *)
(***************************************************************************)
EXTENDS Naturals, Sequences

CONSTANTS Size, MaxValues, Emitter, Subscriber, Topic, MaxEmits

ASSUME FeedsAssumption ==
  Size \in Nat \ {0} /\ MaxValues \in Nat /\ MaxEmits \in Nat /\ Topic # {}

VARIABLES
  feed,
  ordered, sent, offer, inClosed, received, wants, outClosed, at, hand, buf, ring,
  topics, done, emits, pc, about, value, rest, strays, waiting, got, copied

Adapter == INSTANCE ChannelAdapters
Cast    == INSTANCE Broadcast

adapterVars == <<ordered, sent, offer, inClosed, received, wants, outClosed, at,
                 hand, buf, ring>>
castVars == <<topics, done, emits, pc, about, value, rest, strays, waiting, got,
              copied>>
vars == <<feed, adapterVars, castVars>>

Init == feed \in {"adapter", "broadcast"} /\ Adapter!Init /\ Cast!Init

UsesAdapter == feed = "adapter" /\ UNCHANGED <<feed, castVars>>
UsesCast    == feed = "broadcast" /\ UNCHANGED <<feed, adapterVars>>

Next == (UsesAdapter /\ Adapter!Next) \/ (UsesCast /\ Cast!Next)

AdapterWork  == UsesAdapter /\ Adapter!Work
EmitWork(e)  == UsesCast /\ Cast!EmitWork(e)
StrayWork(x) == UsesCast /\ Cast!StrayWork(x)

Spec ==
  /\ Init /\ [][Next]_vars
  /\ WF_vars(AdapterWork)
  /\ \A e \in Emitter : WF_vars(EmitWork(e))
  /\ \A x \in Cast!Stray : WF_vars(StrayWork(x))
-----------------------------------------------------------------------------
(* The words of every feed have their types; the ring's head, tail and     *)
(* size agree.                                                             *)
TypeOK == Adapter!TypeOK /\ Cast!TypeOK

(* The adapters lose, duplicate, invent and, if ordered, reorder nothing,  *)
(* whatever their buffer does (channel_test.go:51-53, 89-90).              *)
Conserved == Adapter!Conserved

(* Broadcast gives each value once to each subscriber it copied.           *)
DeliveredOnce == Cast!DeliveredOnce

(* A sender to an adapter is never left blocked, a receiver only beside    *)
(* nothing it could have (channel_test.go:119-120, 57-64); every Emit      *)
(* returns although nobody receives, and strays end.                       *)
Settles == <>[](Adapter!Settled /\ Cast!Settled)
=============================================================================
