----------------------------- MODULE Broadcast -----------------------------
(***************************************************************************)
(* patterns.Broadcast: Emit hands a value to every channel registered for  *)
(* a topic.  A subscriber that does not receive before the timer fires is  *)
(* left to a goroutine of its own, a stray, and Emit goes on.              *)
(*                                                                         *)
(* External: a channel has no buffer; waiting[s] says that subscriber s is *)
(* blocked in a receive.  The two timers, of 5 ms and of 1 ms, may fire at *)
(* any moment.  The values are the numbers of the Emits.  doneOnce makes   *)
(* every Close but the first a no-op.                                      *)
(*                                                                         *)
(* pc[e] is "idle", "copy" before the mutex of Emit, or "loop" before its  *)
(* select; rest[e] is what the loop has left of chCopy.                    *)
(***************************************************************************)
EXTENDS Naturals, Sequences

CONSTANTS
  Emitter,     (* the goroutines that call Emit                            *)
  Subscriber,  (* the channels, each with the goroutine that receives      *)
  Topic,
  MaxEmits     (* bound: calls of Emit                                     *)

VARIABLES
  topics, done,        (* Broadcast.topics; is doneCh closed               *)
  emits,               (* Emits started so far                             *)
  pc, about, value, rest, (* the Emit of each emitter: control point,      *)
                       (* topic, value, channels left                      *)
  strays,              (* the strays: pairs of a channel and a value       *)
  waiting, got,        (* the subscribers                                  *)
  copied               (* history: copied[k] is the chCopy of the k-th Emit *)

emitVars == <<emits, pc, about, value, rest>>
subVars  == <<waiting, got>>
vars == <<topics, done, emitVars, strays, subVars, copied>>

InSeq(s, x) == \E i \in DOMAIN s : s[i] = x
Registered(s) == \E t \in Topic : InSeq(topics[t], s)

Init ==
  /\ topics = [t \in Topic |-> <<>>] /\ done = FALSE
  /\ emits = 0
  /\ pc = [e \in Emitter |-> "idle"]
  /\ about = [e \in Emitter |-> CHOOSE t \in Topic : TRUE]
  /\ value = [e \in Emitter |-> 0] /\ rest = [e \in Emitter |-> <<>>]
  /\ strays = {}
  /\ waiting = [s \in Subscriber |-> FALSE] /\ got = [s \in Subscriber |-> <<>>]
  /\ copied = [k \in 1 .. MaxEmits |-> <<>>]

(* A new channel each time: s has not been registered yet. *)
Register(s, t) ==
  /\ ~Registered(s)
  /\ topics' = [topics EXCEPT ![t] = Append(@, s)]
  /\ UNCHANGED <<done, emitVars, strays, subVars, copied>>

Close ==
  /\ ~done /\ done' = TRUE
  /\ UNCHANGED <<topics, emitVars, strays, subVars, copied>>

(* Emit up to its look at doneCh, which was open. *)
Emit(e, t) ==
  /\ pc[e] = "idle" /\ emits < MaxEmits /\ ~done
  /\ emits' = emits + 1
  /\ pc' = [pc EXCEPT ![e] = "copy"]
  /\ about' = [about EXCEPT ![e] = t]
  /\ value' = [value EXCEPT ![e] = emits']
  /\ UNCHANGED <<topics, done, rest, strays, subVars, copied>>

(* The critical section of sliceMu. *)
Copy(e) ==
  /\ pc[e] = "copy"
  /\ pc' = [pc EXCEPT ![e] = "loop"]
  /\ rest' = [rest EXCEPT ![e] = topics[about[e]]]
  /\ copied' = [copied EXCEPT ![value[e]] = topics[about[e]]]
  /\ UNCHANGED <<topics, done, emits, about, value, strays, subVars>>

(* Emit goes on to the next channel, or returns behind the last. *)
Goto(e, left) ==
  /\ rest' = [rest EXCEPT ![e] = left]
  /\ pc' = [pc EXCEPT ![e] = IF left = <<>> THEN "idle" ELSE "loop"]
  /\ value' = [value EXCEPT ![e] = IF left = <<>> THEN 0 ELSE @]
  /\ UNCHANGED <<topics, done, emits, about, copied>>
Receive(s, k) ==
  /\ waiting[s]
  /\ waiting' = [waiting EXCEPT ![s] = FALSE]
  /\ got' = [got EXCEPT ![s] = Append(@, k)]

AtSelect(e) == pc[e] = "loop" /\ rest[e] # <<>>
(* The three cases of Emit's select.  <-b.doneCh: *)
StopEmit(e) == AtSelect(e) /\ done /\ Goto(e, <<>>) /\ UNCHANGED <<strays, subVars>>
(* ch <- value: *)
Deliver(e) ==
  /\ AtSelect(e) /\ Receive(Head(rest[e]), value[e])
  /\ Goto(e, Tail(rest[e])) /\ UNCHANGED strays
(* Mutant: the slow channel is tried again although a stray waits on it. *)
TimeoutRetry(e) ==
  /\ AtSelect(e)
  /\ strays' = strays \cup {<<Head(rest[e]), value[e]>>}
  /\ Goto(e, rest[e]) /\ UNCHANGED subVars
(* <-after: *)
Timeout(e) ==
  /\ AtSelect(e)
  /\ strays' = strays \cup {<<Head(rest[e]), value[e]>>}
  /\ Goto(e, Tail(rest[e])) /\ UNCHANGED subVars
(* Nobody is registered. *)
NobodyThere(e) ==
  /\ pc[e] = "loop" /\ rest[e] = <<>> /\ Goto(e, <<>>)
  /\ UNCHANGED <<strays, subVars>>

(* The select of a stray. *)
StrayDelivers(x) ==
  /\ x \in strays /\ Receive(x[1], x[2]) /\ strays' = strays \ {x}
  /\ UNCHANGED <<topics, done, emitVars, copied>>
StrayStops(x) ==
  /\ x \in strays /\ done /\ strays' = strays \ {x}
  /\ UNCHANGED <<topics, done, emitVars, subVars, copied>>

Want(s) ==
  /\ Registered(s) /\ ~waiting[s]
  /\ waiting' = [waiting EXCEPT ![s] = TRUE]
  /\ UNCHANGED <<topics, done, emitVars, strays, got, copied>>

EmitWork(e) == Copy(e) \/ StopEmit(e) \/ Deliver(e) \/ Timeout(e) \/ NobodyThere(e)
StrayWork(x) == StrayDelivers(x) \/ StrayStops(x)
Stray == Subscriber \X (1 .. MaxEmits)

Next ==
  \/ \E s \in Subscriber : (\E t \in Topic : Register(s, t)) \/ Want(s)
  \/ \E e \in Emitter : (\E t \in Topic : Emit(e, t)) \/ EmitWork(e)
  \/ \E x \in Stray : StrayWork(x)
  \/ Close
Spec ==
  /\ Init /\ [][Next]_vars
  /\ \A e \in Emitter : WF_vars(EmitWork(e))
  /\ \A x \in Stray : WF_vars(StrayWork(x))
-----------------------------------------------------------------------------
TypeOK ==
  /\ topics \in [Topic -> Seq(Subscriber)] /\ done \in BOOLEAN
  /\ emits \in 0 .. MaxEmits
  /\ pc \in [Emitter -> {"idle", "copy", "loop"}] /\ about \in [Emitter -> Topic]
  /\ value \in [Emitter -> 0 .. emits] /\ rest \in [Emitter -> Seq(Subscriber)]
  /\ strays \subseteq Stray
  /\ waiting \in [Subscriber -> BOOLEAN] /\ got \in [Subscriber -> Seq(1 .. emits)]
  /\ copied \in [1 .. MaxEmits -> Seq(Subscriber)]

(* A subscriber gets every value emitted for it once: it has it, or it is  *)
(* still before it in the loop of its Emit, or one stray has it.  Only a   *)
(* Close may drop it.  Nobody gets a value who was not registered for its  *)
(* topic when it was copied.                                               *)
DeliveredOnce ==
  \A k \in 1 .. MaxEmits, s \in Subscriber :
    LET has     == {i \in DOMAIN got[s] : got[s][i] = k}
        stray   == <<s, k>> \in strays
        pending == \E e \in Emitter : value[e] = k /\ InSeq(rest[e], s)
        Once(A, B, C) == (A \/ B \/ C) /\ ~(A /\ B) /\ ~(B /\ C) /\ ~(A /\ C)
    IN  /\ \A i, j \in has : i = j
        /\ InSeq(copied[k], s) =>
             \/ Once(has # {}, stray, pending)
             \/ done /\ has = {} /\ ~stray /\ ~pending
        /\ ~InSeq(copied[k], s) => has = {} /\ ~stray

(* Every Emit returns, even if no subscriber ever receives.  A subscriber  *)
(* that receives is not left waiting beside a value meant for it, and no   *)
(* stray outlives a Close.                                                 *)
Settled ==
  /\ \A e \in Emitter : pc[e] = "idle"
  /\ \A x \in strays : ~done /\ ~waiting[x[1]]
=============================================================================
