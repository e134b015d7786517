------------------------------ MODULE MCCells ------------------------------
(***************************************************************************)
(* The repository's small shared structures, which know nothing of each    *)
(* other: words read without a lock (Snapshots), the LRU cache and the     *)
(* token bucket.  cell picks the one a behaviour uses.                     *)
(***************************************************************************)
EXTENDS Naturals, Sequences, FiniteSets

CONSTANTS
  Goroutine, MaxWrites, MaxReads,
  Key, Val, HeadNode, TailNode, Nil, MaxCap,
  MaxInterval, MaxElapsed, MaxCalls

ASSUME CellsAssumption ==
  /\ {MaxWrites, MaxReads, MaxCap, MaxInterval, MaxElapsed, MaxCalls} \subseteq Nat
  /\ HeadNode # TailNode /\ HeadNode # Nil /\ TailNode # Nil
  /\ {HeadNode, TailNode, Nil} \intersect Key = {}
  /\ MaxElapsed >= (MaxCap + 1) * MaxInterval

VARIABLES
  cell,
  (* Snapshots *)
  pc, writes, reads, mem, seq, writerMu, ready, p, val, bracketed, start, addr,
  snap, published, since,
  (* SyncLRU *)
  lruCap, cache, list, lruVal, answer, recency, last,
  (* TokenBucket *)
  bucketCap, interval, tokens, elapsed, done, waiter, want, timer, calls, level,
  phase

Words  == INSTANCE Snapshots
LRU    == INSTANCE SyncLRU WITH cap <- lruCap, val <- lruVal
Bucket == INSTANCE TokenBucket WITH cap <- bucketCap, pc <- waiter

wordsVars  == <<pc, writes, reads, mem, seq, writerMu, ready, p, val, bracketed,
                start, addr, snap, published, since>>
lruVars    == <<lruCap, cache, list, lruVal, answer, recency, last>>
bucketVars == <<bucketCap, interval, tokens, elapsed, done, waiter, want, timer,
                calls, level, phase>>
vars == <<cell, wordsVars, lruVars, bucketVars>>

(* What is not in use stands still in one of its initial states.           *)
Init ==
  /\ cell \in Words!Kind \cup {"SyncLRU", "TokenBucket"}
  /\ Words!Init /\ LRU!Init /\ Bucket!Init
  /\ cell # "SyncLRU" => lruCap = MaxCap
  /\ cell # "TokenBucket" => bucketCap = MaxCap /\ interval = MaxInterval

UsesWords  == cell \in Words!Kind /\ UNCHANGED <<cell, lruVars, bucketVars>>
UsesLRU    == cell = "SyncLRU" /\ UNCHANGED <<cell, wordsVars, bucketVars>>
UsesBucket == cell = "TokenBucket" /\ UNCHANGED <<cell, wordsVars, lruVars>>

Next ==
  \/ UsesWords /\ Words!Next
  \/ UsesLRU /\ LRU!Next
  \/ UsesBucket /\ Bucket!Next

WordsWork(g)  == UsesWords /\ Words!Work(g)
BucketWork(g) == UsesBucket /\ Bucket!Work(g)
BucketTick    == UsesBucket /\ Bucket!Tick

Spec ==
  /\ Init /\ [][Next]_vars
  /\ \A g \in Goroutine : WF_vars(WordsWork(g)) /\ WF_vars(BucketWork(g))
  /\ WF_vars(BucketTick)
-----------------------------------------------------------------------------
(* The words of every structure have their types.                          *)
TypeOK == Words!TypeOK /\ LRU!TypeOK /\ Bucket!TypeOK

(* A read that returns a snapshot returns the value of one write, whole,   *)
(* and none that had been overwritten when it was called (lock_test.go:    *)
(* 246-253); one that returns "not ready" was called before Publish, and   *)
(* nil is returned only before the first Publish and where a nil was       *)
(* published no earlier than the last before the call                      *)
(* (publication_test.go:318-339, 341-362).                                 *)
ReturnsWhole ==
  \A g \in Goroutine :
    /\ pc[g] = "validate" /\ pc'[g] = "idle" => Words!Whole(g)
    /\ pc[g] = "begin" /\ pc'[g] = "idle" => Words!Fresh(g, 0)
ReadsWhole == [][ReturnsWhole]_vars

(* The LRU's list is the order in which its keys were used (SyncLRU).      *)
MirrorsRecency == LRU!MirrorsRecency

(* The bucket holds what one refilled all the time holds (TokenBucket).    *)
AsIfEager == cell = "TokenBucket" => Bucket!AsIfEager

(* Once nobody makes a further call every reader and writer is done, a     *)
(* SeqLock reader in spite of its retries, and every WaitN has returned,   *)
(* with its tokens or at the end of its context; only a bucket that is     *)
(* never refilled keeps it until then (token_bucket.go:103-107).           *)
Settles ==
  <>[]\A g \in Goroutine :
        /\ pc[g] = "idle"
        /\ waiter[g] = "idle" \/ (waiter[g] = "ctx" /\ interval = 0 /\ ~done)
=============================================================================
