----------------------------- MODULE Snapshots -----------------------------
(***************************************************************************)
(* Plain words read without a lock: syncx.SeqLock, memory.ReadyFlag and    *)
(* memory.PublishedPointer.  The value is a struct of two words, which are *)
(* written and read one at a time, as in lock_test.go:232-256 (words whose *)
(* own accesses are atomic).  A write fills both words with its number; a  *)
(* read returns only if it takes its snapshot for one value.               *)
(*                                                                         *)
(* mem[0] is what a SeqLock guards and the data of a ReadyFlag.  The       *)
(* caller of a PublishedPointer's k-th Publish may build the struct mem[k] *)
(* and publish its address k, or publish 0, which is nil, or an address it *)
(* published before.                                                       *)
(*                                                                         *)
(* A writer pc[g] is before writerMu.Lock ("lock"), seq.Add ("enter"), the *)
(* words ("first", "second"), and the step that publishes them             *)
(* ("publish"); SeqLock then has writerMu.Unlock ("unlock").  A reader is  *)
(* before its first load ("begin"), the words ("read", "reread") and its   *)
(* return or SeqLock's second load ("validate").                           *)
(***************************************************************************)
EXTENDS Naturals, Sequences

CONSTANTS
  Goroutine,
  MaxWrites,   (* bound: writes in one behaviour                           *)
  MaxReads     (* bound: reads                                             *)

VARIABLES
  cell,        (* the primitive in use                                     *)
  pc, writes, reads,
  mem,         (* the words                                                *)
  seq, writerMu,    (* SeqLock; writerMu: is it locked                     *)
  ready,       (* ReadyFlag                                                *)
  p,           (* PublishedPointer: 0 is nil                               *)
  val,         (* writer: the number it writes                             *)
  bracketed,   (* reader: does it use ReadBegin and ReadValidate, or Read  *)
  start, addr, snap, (* reader: the seq it loaded, where it reads, what it *)
               (* has read                                                 *)
  published,   (* history: what was published, in that order: numbers of   *)
               (* writes, and 0 for nil                                    *)
  since        (* history: Len(published) when the reader called           *)

Kind == {"SeqLock", "ReadyFlag", "PublishedPointer"}
Word == {1, 2}

sharedVars == <<mem, seq, writerMu, ready, p>>
localVars  == <<val, bracketed, start, addr, snap>>
vars == <<cell, pc, writes, reads, sharedVars, localVars, published, since>>

(* MCCells also gives cell other values; then nothing here moves.          *)
Init ==
  /\ pc = [g \in Goroutine |-> "idle"] /\ writes = 0 /\ reads = 0
  /\ mem = [a \in 0 .. MaxWrites |-> [w \in Word |-> 0]]
  /\ seq = 0 /\ writerMu = FALSE /\ ready = FALSE /\ p = 0
  /\ val = [g \in Goroutine |-> 0] /\ bracketed = [g \in Goroutine |-> FALSE]
  /\ start = [g \in Goroutine |-> 0] /\ addr = [g \in Goroutine |-> 0]
  /\ snap = [g \in Goroutine |-> [w \in Word |-> 0]]
  /\ published = <<>> /\ since = [g \in Goroutine |-> 0]

Goto(g, from, to) ==
  /\ pc[g] = from
  /\ pc' = [pc EXCEPT ![g] = to]
  /\ UNCHANGED <<cell, writes, reads>>
-----------------------------------------------------------------------------
(* Writers.  Publish of a ReadyFlag may be called once (publication.go:12).*)
(* A value is new: a published struct is never written again, "build a new *)
(* *T and publish that" (publication.go:40-43).                            *)
StartWrite(g) ==
  /\ pc[g] = "idle" /\ writes < MaxWrites
  /\ cell = "ReadyFlag" => writes = 0
  /\ writes' = writes + 1
  /\ pc' = [pc EXCEPT ![g] = IF cell = "SeqLock" THEN "lock" ELSE "first"]
  /\ val' = [val EXCEPT ![g] = writes']
  /\ addr' = [addr EXCEPT ![g] = IF cell = "PublishedPointer" THEN writes' ELSE 0]
  /\ UNCHANGED <<cell, reads, sharedVars, bracketed, start, snap, published, since>>

(* PublishedPointer.Publish of a pointer that needs no writes: nil, which  *)
(* is legal as the first one too (publication_test.go:318-339), or one     *)
(* published before, whose struct stays as it is.                          *)
Republish(g, v) ==
  /\ pc[g] = "idle" /\ writes < MaxWrites /\ cell = "PublishedPointer"
  /\ v = 0 \/ \E i \in DOMAIN published : published[i] = v
  /\ writes' = writes + 1 /\ pc' = [pc EXCEPT ![g] = "publish"]
  /\ val' = [val EXCEPT ![g] = v] /\ addr' = [addr EXCEPT ![g] = v]
  /\ UNCHANGED <<cell, reads, sharedVars, bracketed, start, snap, published, since>>

(* SeqLock.WriteLock *)
LockWriter(g) ==
  /\ ~writerMu /\ Goto(g, "lock", "enter") /\ writerMu' = TRUE
  /\ UNCHANGED <<mem, seq, ready, p, localVars, published, since>>
Enter(g) ==
  /\ Goto(g, "enter", "first") /\ seq' = seq + 1
  /\ UNCHANGED <<mem, writerMu, ready, p, localVars, published, since>>

(* The caller's writes; r.data = v; the initialisation of the pointee. *)
Write(g, from, to, word) ==
  /\ Goto(g, from, to)
  /\ mem' = [mem EXCEPT ![addr[g]][word] = val[g]]
  /\ UNCHANGED <<seq, writerMu, ready, p, localVars, published, since>>
WriteFirst(g)  == Write(g, "first", "second", 1)
WriteSecond(g) == Write(g, "second", "publish", 2)

Publishing(g, to) ==
  Goto(g, "publish", to) /\ published' = Append(published, val[g])
(* Mutant: WriteUnlock leaves seq odd. *)
LeaveOdd(g) ==
  /\ cell = "SeqLock" /\ Publishing(g, "unlock")
  /\ UNCHANGED <<mem, seq, writerMu, ready, p, localVars, since>>
(* SeqLock.WriteUnlock *)
Leave(g) ==
  /\ cell = "SeqLock" /\ Publishing(g, "unlock") /\ seq' = seq + 1
  /\ UNCHANGED <<mem, writerMu, ready, p, localVars, since>>
UnlockWriter(g) ==
  /\ Goto(g, "unlock", "idle") /\ writerMu' = FALSE
  /\ UNCHANGED <<mem, seq, ready, p, localVars, published, since>>
(* The CompareAndSwap of ReadyFlag.Publish and the Store of                *)
(* PublishedPointer.Publish.                                               *)
SetReady(g) ==
  /\ cell = "ReadyFlag" /\ Publishing(g, "idle") /\ ready' = TRUE
  /\ UNCHANGED <<mem, seq, writerMu, p, localVars, since>>
SetPointer(g) ==
  /\ cell = "PublishedPointer" /\ Publishing(g, "idle") /\ p' = addr[g]
  /\ UNCHANGED <<mem, seq, writerMu, ready, localVars, since>>
-----------------------------------------------------------------------------
(* Readers. *)
StartRead(g, pairs) ==
  /\ pc[g] = "idle" /\ reads < MaxReads
  /\ pairs => cell = "SeqLock"
  /\ reads' = reads + 1
  /\ pc' = [pc EXCEPT ![g] = "begin"]
  /\ bracketed' = [bracketed EXCEPT ![g] = pairs]
  /\ since' = [since EXCEPT ![g] = Len(published)]
  /\ UNCHANGED <<cell, writes, sharedVars, val, start, addr, snap, published>>

Odd(n) == n % 2 = 1

(* ReadBegin; the first load of Read, which goes on loading while seq is   *)
(* odd.                                                                    *)
BeginSeq(g) ==
  /\ cell = "SeqLock" /\ (~bracketed[g] => ~Odd(seq))
  /\ Goto(g, "begin", "read") /\ start' = [start EXCEPT ![g] = seq]
  /\ addr' = [addr EXCEPT ![g] = 0]
  /\ UNCHANGED <<sharedVars, val, bracketed, snap, published, since>>
(* r.ready.Load(), pp.p.Load() *)
BeginLoad(g) ==
  /\ \/ /\ cell = "ReadyFlag"
        /\ Goto(g, "begin", IF ready THEN "read" ELSE "idle")
        /\ addr' = [addr EXCEPT ![g] = 0]
     \/ /\ cell = "PublishedPointer"
        /\ Goto(g, "begin", IF p # 0 THEN "read" ELSE "idle")
        /\ addr' = [addr EXCEPT ![g] = p]
  /\ UNCHANGED <<sharedVars, val, bracketed, start, snap, published, since>>
ReadWord(g, from, to, word) ==
  /\ Goto(g, from, to)
  /\ snap' = [snap EXCEPT ![g][word] = mem[addr[g]][word]]
  /\ UNCHANGED <<sharedVars, val, bracketed, start, addr, published, since>>
Read(g)   == ReadWord(g, "read", "reread", 1)
Reread(g) == ReadWord(g, "reread", "validate", 2)

(* Mutant: only the parity is looked at again. *)
ValidParity(g) == ~Odd(seq) /\ (bracketed[g] => ~Odd(start[g]))
(* ReadValidate; the second load of Read *)
Valid(g) == seq = start[g] /\ (bracketed[g] => ~Odd(start[g]))
Validate(g) ==
  /\ Goto(g, "validate",
          IF cell = "SeqLock" /\ ~Valid(g) THEN "begin" ELSE "idle")
  /\ UNCHANGED <<sharedVars, localVars, published, since>>

Call(g) ==
  \/ StartWrite(g)
  \/ \E v \in 0 .. MaxWrites : Republish(g, v)
  \/ \E pairs \in BOOLEAN : StartRead(g, pairs)
Work(g) ==
  \/ LockWriter(g) \/ Enter(g) \/ WriteFirst(g) \/ WriteSecond(g)
  \/ Leave(g) \/ UnlockWriter(g) \/ SetReady(g) \/ SetPointer(g)
  \/ BeginSeq(g) \/ BeginLoad(g) \/ Read(g) \/ Reread(g) \/ Validate(g)
Next == \E g \in Goroutine : Call(g) \/ Work(g)
Spec ==
  cell \in Kind /\ Init /\ [][Next]_vars /\ \A g \in Goroutine : WF_vars(Work(g))
-----------------------------------------------------------------------------
TypeOK ==
  /\ pc \in [Goroutine -> {"idle", "lock", "enter", "first", "second", "publish",
                           "unlock", "begin", "read", "reread", "validate"}]
  /\ writes \in 0 .. MaxWrites /\ reads \in 0 .. MaxReads
  /\ mem \in [0 .. MaxWrites -> [Word -> 0 .. writes]]
  /\ seq \in Nat /\ {writerMu, ready} \subseteq BOOLEAN /\ p \in 0 .. writes
  /\ val \in [Goroutine -> 0 .. writes] /\ bracketed \in [Goroutine -> BOOLEAN]
  /\ start \in [Goroutine -> Nat] /\ addr \in [Goroutine -> 0 .. writes]
  /\ snap \in [Goroutine -> [Word -> 0 .. writes]]
  /\ published \in Seq(0 .. writes) /\ since \in [Goroutine -> 0 .. Len(published)]

(* Some write of v was not yet overwritten when g called; 0 is also what   *)
(* was there before the first.                                             *)
Fresh(g, v) ==
  \/ v = 0 /\ since[g] = 0
  \/ \E i \in DOMAIN published : since[g] <= i /\ published[i] = v

(* The snapshot of g is one such value, whole; only a SeqLock has a value  *)
(* before the first write.                                                 *)
Whole(g) ==
  /\ snap[g][1] = snap[g][2]
  /\ cell # "SeqLock" => snap[g][1] # 0
  /\ Fresh(g, snap[g][1])
=============================================================================
