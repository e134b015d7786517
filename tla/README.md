# A TLA+ model of gopher-forge

gopher-forge is a library of concurrency primitives written in Go: locks,
semaphores, latches, barriers, queues, stacks, futures, a cache and a rate
limiter.  Almost every part of it is a handful of atomic operations whose
correctness lies in the order in which goroutines interleave them.  This
directory holds TLA+ modules translated from that code, one atomic operation to
an action, the TLC runs that check them, and TLAPS proofs.

Paths below are relative to the repository's root unless they end in `.tla` or
`.cfg`.

## 1. Inventory

| Component | Source | State | Operations | Status |
|---|---|---|---|---|
| Spin and queue locks | `syncx/lock.go` | `SpinLock.state`; `TicketLock.ticket/serving`; CLH's `tail` and node states; MCS's `tail`, `owner`, node `next`/`locked` | `Lock`, `Unlock` | modelled |
| `MutexLock`, `Parker` | `syncx/lock.go`, `park/park.go` | three-valued word, counting semaphore | `Lock`, `Unlock`, `Park`, `Unpark` | modelled |
| Lock-free stack | `stack/lockfree_mpmc.go` | `head`, heap nodes | `Push`, `Pop` | modelled |
| Elimination-backoff stack | `stack/elimination_backoff_mpmc.go` | `head`, slots, ops (`kind`, `value`, `done`) | `Push`, `Pop`, `tryEliminate`, `waitForExchange` | modelled |
| Mutex stacks | `stack/mutex_*.go` | list or slice under a mutex | `Push`, `Pop` | modelled |
| Sequence-numbered queues | `queue/lockfree_mpmc.go`, `lockfree_padded_mpmc.go`, `lockfree_mpsc.go` | `head`, `tail`, ring of `(seq, val)` | `Enqueue`, `Dequeue` | modelled |
| Single-producer queues | `queue/lockfree_spsc.go` | `head`, `tail`, cached copies, ring | `Enqueue`, `Dequeue` | modelled |
| Mutex queues | `queue/mutex_*.go` | ring under a mutex | `Enqueue`, `Dequeue` | modelled |
| Semaphores | `syncx/semaphore.go` | channel buffer; count and waiters; count and notify list; signed counter and gate queue; signed counter and runtime semaphore | `Acquire`, `Release` | modelled |
| Latches | `syncx/latch.go` | counter, channel | `Done`, `Wait` | modelled |
| `WaitGroup` | `syncx/latch.go` | counter and waiters in one word, semaphore | `Add`, `Done`, `Wait` | modelled |
| Barriers | `syncx/barriers.go` | `seats`, `release` | `Wait` | modelled |
| `Once`, `OnceCell`, `OnceCells` | `syncx/once.go` | `state`, mutex, value | `Do` | modelled |
| Futures and worker pool | `syncx/future.go`, `future_demo.go` | task list and map, pool map, done channels, context | `Resolve`, `Get`, `Poll`, workers, cancellation | modelled |
| Channel adapters | `syncx/channel.go` | growing ring, two channels | forwarding goroutine | modelled |
| `Broadcast` | `patterns/broadcast.go` | topics, done channel, stray senders | `Register`, `Emit`, `Close` | modelled |
| `SeqLock`, `ReadyFlag`, `PublishedPointer` | `syncx/lock.go`, `memory/publication.go` | plain words beside atomic ones | write/read brackets, `Read`, `Publish`, `Observe` | modelled |
| `peterson.Lock` | `peterson/peterson.go` | plain `flag`, `turn` | `Lock`, `Unlock` | modelled |
| `SyncLRU` | `mapx/lru.go` | map and linked list under a mutex | `Put`, `Get` | modelled |
| `TokenBucket` | `ratelimit/token_bucket.go` | `tokens`, `last` | `AllowN`, `WaitN` | modelled |
| Thin wrappers and stubs | see section 9 | | | not modelled |

**How they interact.**  `MutexLock` parks through `park.Parker`.
`LockfreeSemaphore` keeps its waiters in a `queue.LockFreeMPMC`.
`OnceCell(s)` is built on `Once`, `Once` and the mutex-based containers on
`sync.Mutex`; `CondSemaphore` on the runtime's notify list; `RuntimeSemaphore`,
`Parker` and `WaitGroup` on the runtime's semaphore.  A `Future` finds its task
through the process-wide `WorkerPool`.  Everything else shares memory only with
its callers.

**What is hard here.**  All of it is interleaving: what happens between the two
atomic operations of a call.  The cases nobody can write a test for are the
late write after a decisive CAS (`MCSLock.Unlock`), a decision taken on a word
that has changed since (`MutexLock`, `LockfreeSemaphore`, `SPSCQueue`), a
partner that times out while the answer is on its way (elimination), a wakeup
before or between registrations (semaphores, `WaitGroup`), a reset racing the
next round (barriers, `WaitGroup`), wrap-around of positions and epochs, and a
callback that panics under a lock (`Once`), a signal that wakes a worker which
another overtakes, a cancellation in the middle of a queue (`WorkerPool`), a
timer that fires while its value is being received (`Broadcast`), a snapshot
torn between two writes (`SeqLock`), plain stores seen out of order
(`peterson.Lock`).  PROJECT.json lists them line by
line under "hazards".  Nothing here persists and no message crosses a network,
so there is no recovery and no lost message.

**What makes each component correct.**

* Lock: mutual exclusion, order of arrival where the code promises it, every
  `Lock` returns, an `Unlock` that follows its own `Lock` does not panic.
* Stack, queue: linearizable to a LIFO (FIFO) container; a plain field is
  touched by one goroutine at a time; every call returns.
* Semaphore: permits are conserved, at most N are out, nobody waits beside a
  free permit, order of arrival where promised.
* Latch, `WaitGroup`: `Wait` returns not before, and eventually after, the last
  `Done`; no permit is left over for the next round; no misuse panic for
  callers who keep the rules.
* Barrier: nobody leaves a round before all have entered it, for any number of
  rounds; nobody is left behind.
* `Once`: one run, nobody returns before its end, no hang after a panic.
* Futures: an accepted task runs once, also when the pool is cancelled; a value
  is read after it has been written; no worker sleeps beside work.
* Channel adapters, `Broadcast`: nothing lost, duplicated or (where promised)
  reordered; the sender never waits for the receiver.
* Published words: a read returns one write, whole, and no stale one.
* LRU: the list is the order of use.  Token bucket: refilling on demand is
  indistinguishable from refilling all the time.

## 2. How the modules are built

A *client* module says what callers do (who may call what, and the bound on the
number of calls); each implementation EXTENDS its client and gives one action
per atomic operation; an *abstract* module says what any implementation
promises; an *MC* module INSTANCEs all implementations of a family side by side
under a variable `impl`, chosen in the initial state, and states the family's
properties once, for all of them.  The words of the implementations not in use
keep their initial values, so the states of a family add up and do not multiply.

    LockClient <- SpinLocks (SpinLock, TicketLock), MutexLock, CLHLock, MCSLock, Peterson
      MCLocks (all six)               refines AbstractLock
      Locks_proofs                    EXTENDS MCLocks, TLAPS

    CallClient <- ListStacks (LockFreeMPMC, the mutex stacks) <- EliminationStack
      MCStacks                        refines AbstractStack
      Stacks_proofs                   EXTENDS MCStacks, TLAPS

    CallClient <- Ring <- SlotQueues, StrictQueues
      MCQueues                        refines AbstractQueue
      Queues_proofs                   EXTENDS MCQueues, TLAPS

    PermitClient <- CountedSemaphores (ChannelSemaphore, MutexSemaphore, CondSemaphore)
                 <- SignedSemaphores (LockfreeSemaphore, RuntimeSemaphore)
      MCSemaphores                    refines AbstractSemaphore
      Semaphores_proofs               EXTENDS MCSemaphores, TLAPS

    GateClient <- LatchClient <- Latches, WaitGroup
               <- Barriers, Once
      MCGates
      Gates_proofs                    EXTENDS MCGates, TLAPS

    Futures                           the worker pool and DemoFuture
      Futures_proofs                  EXTENDS Futures, TLAPS
    ChannelAdapters, Broadcast        MCFeeds
      Feeds_proofs                    EXTENDS MCFeeds, TLAPS
    Snapshots, SyncLRU, TokenBucket   MCCells
      Cells_proofs                    EXTENDS MCCells, TLAPS

Conventions, the same everywhere:

* `pc[g]` is the control point of goroutine `g`; each module's header says
  which point stands before which operation.  An action is one atomic operation
  (or one critical section of a mutex that the code never leaves half-way)
  together with the goroutine-local computation around it.  Plain fields that
  other goroutines can reach (`slot.val`, `arr[i]`, `op.value`, `OnceCell.v`)
  are written and read in steps of their own, so that a race on them would show.
* Go's `sync/atomic` operations are sequentially consistent, so an interleaving
  of steps is the memory model the code may count on.
* Values are the number of the call that put them (CallClient); a container
  never looks at them.
* Memory is a small set of addresses.  An address may be allocated again once
  no pointer of the model reaches it, which is what the garbage collector
  guarantees, and what makes an ABA error show if a pointer were forgotten.
* `Call(g)` is a caller's decision to start a call, `Work(g)` everything the
  code does afterwards.  Fairness is `WF(Work(g))` for each goroutine: the Go
  scheduler runs every goroutine that can run (its preemption has been
  asynchronous since 1.14, so a spinning goroutine does not starve others).  No
  fairness is assumed of `Call`: nobody has to make a call.  Weak fairness does
  not give the winner of a race to anybody in particular; none of the
  properties needs that.
* Definitions that begin with a comment "Mutant:" are plausible bugs.  They
  take the place of the definition they resemble to confirm that each property
  notices the bug; they are no part of the specifications.

## 3. The locks

| Module | Code | Correspondence |
|---|---|---|
| SpinLocks | `lock.go:32-46` | SpinLock: `state`; a `Lock` that fails its CAS spins at "spin", `SpinAcquire` is the CAS that succeeds |
| | `69-82` | TicketLock: `ticket.Add` is the doorway, `my[g]` the local ticket; counters are unbounded naturals (wrap-around needs 2^64 calls and both wrap alike) |
| CLHLock | `315-340` | node states, implicit queue through `prev[g]` |
| MCSLock | `363-406` | every store and load of `Lock` and `Unlock` is a step, from "link" to "pass", including the two `owner.Store(nil)` |
| MutexLock | `149-178`, `park/park.go:89-99` | Swap loop, the two CASes of `Unlock`, and the Parker as a counting semaphore |
| Peterson | `peterson/peterson.go` | the store of `flag`, the store of `turn` and the two loads of the loop condition are a step each |

The run **locks** (`Locks.cfg`) checks all six with three goroutines, five
calls and five node addresses.  Three goroutines are what it takes to have a
holder, a waiter and a newcomer; the fifth call lets one goroutine come back
twice and nodes be reused.

* `MutualExclusion` and `TypeOK`.
* `NoLostWakeup`: if someone is parked in MutexLock and nobody is under way, a
  wakeup is stored or will be caused by the holder.
* `ImplementsLock`: a refinement of AbstractLock, which includes FIFO for the
  three locks documented so (`lock.go:53`, `279`, `352`).
* `LockReturns`: with finitely many calls, no handoff and no wakeup is lost.
  The property is excused once an `Unlock` of MCSLock has panicked.

The run **mcs_panic** (`MCSPanic.cfg`) shows why: an `Unlock` of MCSLock that
follows the same goroutine's `Lock` may panic.  The old holder's CAS empties the
queue, a newcomer takes the lock and stores itself in `owner`, and then the old
holder executes `m.owner.Store(nil)` (`lock.go:395`).  The newcomer's `Unlock`
reads nil and panics "unlock of unlocked MCSLock" although it holds the lock.
The remedy is to clear `owner` before the CAS, as the other path (line 403) does
before it passes the lock on.

`peterson.Lock` is made of plain words.  What plain words promise depends on the
build and the machine, so the module takes it as the constant `Buffered`.  In
the family (`Buffered = FALSE`) every store is seen by all at once: this is the
algorithm, and it is safe and live.  The run **peterson** (`Peterson.cfg`) sets
`Buffered = TRUE`: each goroutine's stores pass through a first-in first-out
store buffer that only it can see, which is the memory model of amd64, and the
weakest reordering any machine Go supports is free of.  Both goroutines then
read the other's flag as false and enter.  A fence, or `atomic` words, between
lines 13 and 14 would be needed; `peterson_test.go:28-29` says what it looks
like when it happens.

## 4. The stacks

| Module | Code | Correspondence |
|---|---|---|
| ListStacks | `stack/lockfree_mpmc.go`; the list is shared with the elimination stack | `head`, node values and links, allocation; load, CAS, retry |
| | `mutex_linked_mpmc.go`, `mutex_slice_mpmc.go` | `MutexPush`, `MutexPop`: one step a call; both representations |
| EliminationStack | `elimination_backoff_mpmc.go` | the array is a set of slots and the visited slot is any slot; a wait is either answered or runs out at any moment; ops are allocated from a small heap |

The run **stacks** (`Stacks.cfg`): three goroutines, four calls, one slot.
`Linearizable` is refinement of AbstractStack, also proved (section 8);
`ExchangeSafe` says that a value
is written before `done` is seen, by one side only, and read by the other;
`CallsReturn` that every call ends.  One slot makes calls meet most often; the
third goroutine is the one that interferes with a pair; four calls allow the
slot and the op's address to be used again.

`PusherMayStall = FALSE` in this run: a Push that has taken a waiting Pop's op
publishes the value before the Pop's second wait runs out.  The code has no
such guarantee (the second wait is bounded by `eliminationWaitSpins` polls), and
the run **lost_value** (`LostValue.cfg`, `PusherMayStall = TRUE`) shows what
happens without it: the Pop goes on without the value, the Push returns, and the
value is in no container.  The finding quotes `elimination_backoff_mpmc.go:19-22`.

## 5. The queues

| Module | Code | Correspondence |
|---|---|---|
| Ring | `queue/queue.go` and the fields of all rings | positions modulo `Modulus`, `& queueMask` as `% Size`, signed difference |
| SlotQueues | `lockfree_mpmc.go`, `lockfree_padded_mpmc.go`, `lockfree_mpsc.go` | `Enqueue`: load tail, load seq, CAS, write, publish; `Dequeue` with a CAS of `head`, and the single consumer's without |
| StrictQueues | `lockfree_spsc.go`, `mutex_mpmc.go`, `mutex_mpsc.go` | `SPSCQueue` and `CachedSPSCQueue` load by load and store by store; the mutex queues one step a call |

The run **queues** (`Queues.cfg`): three goroutines, four calls, two places,
positions modulo 16 starting at 15, so that positions wrap during the behaviour
and the ring fills up.  (`Modulus` has to be at least `2 * (MaxCalls + Size)` for
the signed comparison to be the one of 64-bit words.)

* `ImplementsQueue`: the mutex and SPSC queues are linearizable; the
  sequence-numbered rings may answer "empty" while the head of the line has
  been claimed and not yet published, and "full" while a Dequeue has not
  finished.  AbstractQueue states exactly this relaxation (`strict`).
* `PlaceExclusive`: no two goroutines are inside one place of the ring, the
  absence of a data race on `slot.val` and `arr[i]`.
* `CallsReturn`.

## 6. The semaphores and the gates

| Module | Code | Correspondence |
|---|---|---|
| PermitClient | callers | `Release` may be called by anyone while an acquired permit is out |
| CountedSemaphores | `syncx/semaphore.go` | `count` and `line`, shared by three: ChannelSemaphore has its buffer's fill and the channel's queue of senders (external: Go channels); MutexSemaphore its count, waiters and their gates, where the hand-over leaves `count` alone; CondSemaphore its count and notify list (external: `sync.Cond`) |
| SignedSemaphores | | LockfreeSemaphore and RuntimeSemaphore: the counter and its sign; the gate queue of `queue/lockfree_mpmc.go` as a line of claimed places, with the claim, the publication, the claim of the head, the slot's return to the ring and the opening of the gate as steps of their own; the runtime semaphore (external) |
| Latches | `syncx/latch.go` | SpinLatch, ChanLatch: counter; channel closed at 0 |
| WaitGroup | `syncx/latch.go` | packed word as a record `[counter, waiters]`, all misuse checks |
| Barriers | `syncx/barriers.go` | seats, epoch modulo `Epochs` |
| Once | `syncx/once.go` | state, mutex, the run of `f`, its return or panic |

**semaphores** (`Semaphores.cfg`): four goroutines, two permits, six Acquires,
a gate queue of two places.  Four goroutines allow two holders, a waiter and a
newcomer; six Acquires on two places let the queue wrap.  `AtMostN`,
`ImplementsSemaphore` (conservation of permits, and order of arrival for the two
FIFO ones) and `Settles`: once calls cease, nobody waits unless all permits are
with the callers.

LockfreeSemaphore's queue may refuse a waiter, and `Acquire` ignores that
(`semaphore.go:259`).  `Occupied` is when: the slot of the next place still
belongs to the place one lap back, because that one is in line (the line is
full), or because a Dequeue has claimed it and has not stored the slot's new
sequence number yet (`lockfree_mpmc.go:67-70`).  The second case needs no waiter
at all: it is enough that a Release stalls there while the positions go once
round the ring.  It is why "vacate" and "open" are control points, and why the
line has a `head` that counts places.  The moment that decides is the load of
`slot.seq`: a Dequeue that fails there is retried, an Enqueue that finds the slot
free and then loses its CAS starts again.  A refused goroutine is at "refused"
for good.  `Settles` says who else is held up: one Release at most for each
refused Acquire, and nobody besides.

**lost_waiter** (`LostWaiter.cfg`, `LockfreeSpec`): `WakesOneWaiter` is what
`semaphore.go:13` promises, for a LockfreeSemaphore that never has more waiters
than its queue has places.  It fails: in the trace a Release stalls in its
Dequeue, two others take the positions round the ring of two, the line is empty,
and the next Acquire to wait is refused and spins on a gate that no Release can
open.  In the code the ring has 1024 places, and the stall has to last for as
many waits; with more than 1024 waiters no stall is needed.

**gates** (`Gates.cfg`): three goroutines, seven calls, latches of two, barriers
of three parties for three rounds, and an epoch modulo 2.  `Epochs = 2` is the
hardest case of the wrap-around: two neighbouring epochs have to be enough.
`NoEarlyWait`, `Together`, `PermitsMatch`, `NoPanic`, `RunsOnce`, `Settles`.
Callers of `WaitGroup` keep the rule of `latch.go:221`; a party of a barrier
calls `Wait` once a round; CountingBarrier is used for one round, as its comment
demands.

`Settles` is one `<>[]` formula and not a family of `~>`: every behaviour has
finitely many calls, so "each waiter is eventually served" and "in the end
nobody waits who should not" say the same, and the latter is cheaper to check.

## 7. Futures, feeds and cells

| Module | Code | Correspondence |
|---|---|---|
| Futures | `syncx/future.go`, `future_demo.go` | a task is a number; `Resolve` is `submit` and `put` under `wpMu`; a worker polls, parks on the notify list (external: `sync.Cond`), runs `fn`, closes `doneCh`; `Get` and `Poll` look the task up and then select |
| ChannelAdapters | `syncx/channel.go` | one step for each receive, send and ring operation of the forwarding goroutine; RingQueue is a record with `arr`, `head`, `tail`, `size`, `mask`; channels are unbuffered, as `out` is |
| Broadcast | `patterns/broadcast.go` | `Emit` before its lock, its critical section, and each iteration of the select; a stray is a pair of a channel and a value |
| Snapshots | `lock.go:230-264`, `memory/publication.go:14-53` | the value is two words, read and written one at a time; a `Publish` of PublishedPointer publishes a new struct, or (`Republish`) nil or a pointer published before, which needs no writes |
| SyncLRU | `mapx/lru.go` | `prev`/`next` of every node; a splice is the code's assignments in order |
| TokenBucket | `ratelimit/token_bucket.go` | `last` is kept as the time since it, `elapsed`; a Tick is a unit of time and moves every timer |

**futures** (`Futures.cfg`): two goroutines, two workers, two promises, three
tasks, two calls of `Get` or `Poll`, and a cancellation at any moment.  Two
workers are what it takes for a signal to wake one while the other is on its
way; a third task makes one of them come back; two promises leave room for a
second `Resolve` of the same promise, which replaces the task its future sees.

* `RunsOnce`: an accepted task is in exactly one of the list, a worker's hands,
  and the past.
* `WorkConserving`: while a worker is parked, there are at least as many workers
  on their way to the list as tasks in it.  A `put` that signals only on the
  first task breaks it.
* `ReadsResult`: whoever gets past `doneCh`, `state` or `notify` reads what `fn`
  returned.
* `Settles`: every task accepted before the queue was closed has run and nobody
  hangs; after a cancellation the workers are gone.  A `Get` may end in the
  panic of line 250, which is not excluded by anything in the code, and a task
  accepted after the close may never run.

**feeds** (`Feeds.cfg`): a ring of two places and six values, so that the ring
wraps, fills and grows twice; two emitters, two subscribers, two topics and two
Emits.  `Conserved`, `DeliveredOnce` and the ring's arithmetic in `TypeOK`.  In
`Settles` the sender and every `Emit` are done although no receiver is ever
obliged to come (`Offer` and `Want` have no fairness); a receiver that waits is
served, except that UnorderedChannel withholds what it has buffered until `in`
is closed.  Nothing is said of the order in which a slow subscriber of
Broadcast gets its values: a stray may be overtaken by the next `Emit`.

**cells** (`Cells.cfg`): two goroutines with three writes and two reads; an LRU
of up to three places, four keys and two values; a bucket of up to three tokens and an
interval of up to three ticks.

* `ReadsWhole`: a read that returns a value has both words from one write, and
  one that was current at some moment since the call (`Fresh`).  An `Observe`
  that returns nil is held to the same: nothing had been published when it was
  called, or a nil was current at some moment since, for `Publish(nil)` is legal
  (`publication_test.go:318-339`).  Three writes allow a reader to lose two in a
  row, and a nil to come before, between or after two structs.
* `MirrorsRecency`: the list, read from either end, is the order of use, and
  the map has its keys.  The order of use is kept beside it as a sequence and
  not derived from the pointers.
* `AsIfEager`: `level` is a bucket that gets its token on every interval; the
  lazily refilled one always agrees with it, remainder included.
* `Settles`: SeqLock readers end once writers do (their retries are not wait
  free, `lock.go:222`), and every `WaitN` returns; only one on a bucket that is
  never refilled waits for its context.  Time passes (`WF(Tick)`), and
  `MaxElapsed` is more than any timer is set to, so the bounded clock never
  keeps a timer from firing.  A request for 0 tokens, which always succeeds,
  and one beyond the capacity, which is refused at once, are not enumerated.

## 8. What is proved

`Locks_proofs.tla`, for every finite or infinite set of goroutines, every bound
on calls and every set of addresses:

| Theorem | Statement |
|---|---|
| `TypeCorrectness` | `Spec => []TypeOK` |
| `MutualExclusionHolds` | `Spec => []MutualExclusion` |
| `NoWakeupIsLost` | `Spec => []NoLostWakeup` |
| `LocksImplementAbstractLock` | `Spec => ImplementsLock`, FIFO included |

`Gates_proofs.tla`, for every finite set of goroutines, every number of rounds
and calls, every `Epochs` of at least 2:

| Theorem | Statement |
|---|---|
| `TypeCorrectness` | `Spec => []TypeOK` |
| `NobodyReturnsEarly` | `Spec => NoEarlyWait` |
| `EveryPermitHasAWaiter` | `Spec => []PermitsMatch` |
| `NobodyPanics` | `Spec => []NoPanic` |
| `RoundsAreTogether` | `Spec => []Together` |
| `OnceRunsOnce` | `Spec => []RunsOnce` |

`Stacks_proofs.tla`, for all goroutines, slots and ops, every finite heap, every
number of attempts and calls, the first two with stalling pushers included:

| Theorem | Statement |
|---|---|
| `TypeCorrectness` | `FamilySpec => []FamilyTypeOK` |
| `ExchangeIsSafe` | `FamilySpec => []ExchangeSafe` |
| `StacksLinearizable` | `FamilySpec => Linearizable`, if `PusherMayStall = FALSE` |

`Queues_proofs.tla`, for all goroutines, every size of the ring, every width and
start of the positions, every number of calls but for the hypotheses below:

| Theorem | Statement |
|---|---|
| `TypeCorrectness` | `Spec => []TypeOK` |
| `NoSharedPlace` | `Spec => []PlaceExclusive`, if `Size > 1` and `MaxCalls + Size < Modulus` |
| `QueuesImplement` | `Spec => ImplementsQueue`, if `Size > 1` and `MaxCalls + Size <= Modulus \div 2` |

`Semaphores_proofs.tla`, for every finite set of goroutines, every N, every
length of the gate queue of at least two, every number of calls:

| Theorem | Statement |
|---|---|
| `TypeCorrectness` | `Spec => []TypeOK` |
| `NeverMoreThanN` | `Spec => []AtMostN`, whatever stray Releases there are |
| `PermitsAreConserved` | `Spec => ImplementsSemaphore`, if there is none (`Strays = 0`) |

`Futures_proofs.tla`, for all goroutines, promises and tasks and every finite
set of workers:

| Theorem | Statement |
|---|---|
| `TypeCorrectness` | `Spec => []TypeOK` |
| `EveryTaskRunsOnce` | `Spec => []RunsOnce` |
| `NobodySleepsBesideWork` | `Spec => []WorkConserving` |
| `GetReturnsTheResult` | `Spec => ReadsResult` |

`Feeds_proofs.tla`, for all emitters, subscribers and topics, every first size
of the ring, every number of values:

| Theorem | Statement |
|---|---|
| `TypeCorrectness` | `Spec => []TypeOK` |
| `NothingIsLost` | `Spec => []Conserved` |
| `EverySubscriberOnce` | `Spec => []DeliveredOnce` |

`Cells_proofs.tla`, for all goroutines, keys and values and every bound:

| Theorem | Statement |
|---|---|
| `TypeCorrectness` | `Spec => []TypeOK` |
| `ReadersSeeOneWrite` | `Spec => ReadsWhole` |
| `ListIsOrderOfUse` | `Spec => []MirrorsRecency` |
| `LazyIsEager` | `Spec => []AsIfEager` |

**The argument: locks.**  `MutualExclusion` says nothing about the words of the lock,
so it is not inductive; each lock module defines the `Inv` that is.

* SpinLock: the flag is set exactly while somebody holds the lock.
* TicketLock: the tickets in use are distinct and lie in `serving .. ticket-1`,
  and the holder has `serving`; two holders would have equal tickets.
* CLHLock (`Queued(front)`): the active goroutines hold consecutive places in
  the order of arrival; the front one spins on a released node or holds the
  lock, every other spins on the node, not yet released, of the one before it,
  and `tail` is the node of the last.
* MCSLock (`InLine(front)`): the same order; everyone behind the front has its
  flag set and is linked, or about to link itself, behind the one before it; a
  non-nil `next` is the node of the goroutine one place behind.  The invariant
  holds after a panic too: a goroutine whose `Unlock` panicked keeps its place.
* Peterson: `flag[g]` is set exactly while g is between `Lock` and `Unlock`, and
  if g is in the critical section and the other has stored `turn`, it is g's.
  The theorem is about `Buffered = FALSE`.
* MutexLock: the word is not `unlocked` while somebody holds the lock; a holder
  whose first CAS failed finds `lockedWait`; and `NoLostWakeup` itself, which
  needs no strengthening beyond these.

A lemma per lock shows that `Init` establishes `Inv` and one that every action
preserves it, one step per action; `FamilyInvariance` puts them together under
`impl`, and the first three theorems follow.  `LocksImplementAbstractLock` has a
lemma per lock that maps each action to a step of AbstractLock or a stutter,
using `Inv`: the order of places is what gives FIFO.

**Queues** (`QueueInv` in `Queues_proofs.tla`; `Shape` and `Values` are the parts
of `RingInv`).

* Positions: `%` is handled once, in lemmas on remainders; `Plus` is injective
  on fewer steps than there are words, and neighbours on the ring have different
  places, also where a position wraps (`Modulus % Size = 0`).
* SPSC queues (`Window(n, a, b)`): tail is n positions from head, a from the
  producer's copy of head, and the consumer's copy of tail is b from head, with
  b <= n <= a <= Size.  Past its comparison the producer knows a < Size and the
  consumer b > 0, so 0 < n < Size: the two places differ, however old the copies.
* Sequence-numbered rings (`Shape`): positions are counted without wrapping.
  Each place is free or full for one position; a goroutine that writes is at the
  position its place is free for, one that reads at the position it is full for,
  and no two are at the same one.  One about to CAS knows the same *if* the
  position is still tail's (head's), which is what the CAS tests.  The invariant is
  existential in the unwrapped counts, and counts the calls that have claimed a
  position, so that N claims need N calls.
* Values (`Values`): `A[m]` is the value enqueued at position m.  The values are
  the numbers of the calls that claimed a position, so they differ; a place
  full for m holds `A[m]`, a place behind the head has its reader still there,
  and a position in line that is not full has its writer at it.  The line is
  `A` from the head's position to the tail's, an entry *ready* if its place is
  full: one lemma (`RingLineState`) shows that this is the `Line` of SlotQueues,
  which reads sequence numbers and the arguments of the writers.
* `QueuesImplement` maps each step to AbstractQueue.  The CAS of an Enqueue puts
  an entry at the end, the store of `seq` makes it ready, the CAS of a Dequeue
  (the consumer's read in the MPSC ring) takes the head; the rest stutters,
  but for the comparisons.  A goroutine that answers "full" found `seq` *behind*
  its position: then the place has a reader that is leaving, or the line has
  Size entries *now*, although the goroutine loaded `tail` earlier; and "empty"
  means that the position is still the head's and the entry there is missing or
  not ready (`FullNow`, `EmptyNow`).
* Strict queues (`StrictInv`): before its store the producer's value is in the
  place after the line, and the consumer has read the head of the line.  A call
  takes effect at that store.  "Full" and "empty" are decided by the load of
  the other side's position, and are true at that load.
* The hypotheses are needed.  `Size > 1` (the code's is 1024): with one place
  a published sequence number is the released one.  `MaxCalls + Size < Modulus`:
  a goroutine that sleeps between its load of `seq` and its CAS while 2^64
  others' calls pass would take the position for a fresh one.
  `QueuesImplement` asks for half the words, because `int64(seq - pos)` has the
  right sign only for positions less than half the words apart (2^63 calls in
  the code).  TypeCorrectness needs none of them.

**Gates.**

* SpinLatch, ChanLatch (`Latches!Inv`): the counter is what is left to do, and
  may go below 0 on the SpinLatch; the channel is closed, or about to be by one
  goroutine, only once it has come to 0.
* WaitGroup (`WaitGroup!Inv`): the counter is what has been announced and not
  finished; while a `Done` stands between its `Load` and `Store(0)` the word is
  the one it has read, nobody else is there, and the counter is 0; permits are
  out, and woken goroutines under way, only while the word is zero; and
  `PermitsMatch` itself.  That the word does not change under the last `Done`
  is where the callers' rule is needed: it is what excludes the three panics.
* SenseReversingBarrier (`InRound(r)`): the parties are spread over at most two
  rounds (outside, on the way out of round r, or in round r + 1 with the current
  epoch in hand); `seats` is the number of parties that have not arrived; and
  somebody is about to reset and publish exactly when all have arrived.  The
  invariant needs no arithmetic on epochs, only that a party in the current
  round has read the current one, so it holds for every modulus.
* CountingBarrier: `seats` counts the parties to come, and nobody has left
  unless all have arrived.
* Once: the mutex is held from the second look at `state` to `Unlock`; `f` has
  been called exactly when `state` is set or its caller is under way; `state` is
  set only when `f` has ended.

**Semaphores.**  Each semaphore has an `Inv` beside its actions, and
`FamilyInv` puts them together under `impl`.

* Conservation (`Conserved`): the counter of the counted ones is what the
  callers own, plus one for each goroutine between the step that takes a permit
  and its return, or between the call of `Release` and the step that gives it
  back.  The signed counters are N less all these and less everybody who waits;
  and a waiter is either in deficit, or a Release is on its way to wake
  somebody, or a permit has been handed over (an open gate, `sema`).  `AtMostN`
  follows from the counts and the bound on the counter.
* Lines (`Lists`, and in LockfreeSemaphore `LineOK`, `TakenOK`): the line holds, once each, the goroutines that
  wait and have not been let go; the gates that Releases have taken from the line
  of a LockfreeSemaphore and not opened yet are different ones, of goroutines
  that spin and are in line no more.  So each gate is opened once, for the
  goroutine a permit is counted for.  For the FIFO semaphores a line that is not empty means
  `count = Permits`; without this a newcomer could pass the line, and the
  refinement's order would fail.
* `PermitsAreConserved` maps each step to AbstractSemaphore: a permit is granted
  by the step that takes it, by the Release that lets a sender in or opens a
  gate, and in RuntimeSemaphore by the waiter that takes what a Release has
  deposited.  `Strays = 0` is an assumption of this theorem only: what the
  implementations do of a stray Release differs, and in three of them it lets
  one Acquire more succeed, the divergence from `semaphore.go:14` recorded in
  PROJECT.json.

**Stacks** (`FamilyInv` and, for linearizability, `StackInv` in `Stacks_proofs.tla`).

* `Exchange` is what makes `ExchangeSafe` inductive.  A goroutine has an op of
  its own exactly while it waits, and a partner's exactly between taking and
  signalling; no two have the same one.  An op *in a slot* is not done, is in
  nobody's hands, and its owner is still in its first wait, at that slot.  So
  whoever takes the op out is alone with it, the owner's CAS to withdraw it must
  fail from then on, and `done` stays false until the partner's `Signal`, after
  `value`.  An op's address is reused only when nobody holds it (`FreshOpFacts`).
* None of this needs the Pop to outwait its Push: the theorem holds for either
  `PusherMayStall`.  What is lost then (run **lost_value**) is not the
  exclusiveness of the exchange but the value, which is read before `done`.
* `Counted`: a visit starts only with a try left, so that `tries` is a natural;
  `MutexTypes`: a Push under the mutex carries the number of its call, so the
  slice has nothing but pushed values in it.

* The list (`HeapInv`).  What the recursive function `ListFrom` returns is proved
  by well-founded induction, over a *rank* of the nodes: the heap has no cycle, so
  the next node ranks lower, and the equation `ListFrom` is written as has one
  solution (`Chains`, `OneChain`).  The invariant names a set `L` of nodes that
  has the head and the node after each of its own, and no node that a Push has
  not yet published.  Only unpublished nodes, of which each has one owner, and
  new ones are written, so all the lists in `L` stay what they are (`SameList`)
  until the head moves.
* No ABA problem (`Poppers`): between Pop's load and its CAS, `val` and `next` are
  what the node `prev` still holds.  The node may have left the list meanwhile,
  and may not have come back: it is reachable from `prev`, so no Push allocates
  it (`ReachableCloses` for the garbage collector), and a published node is
  never written.  So a CAS that finds `prev` at the head takes its value off it.
* `Meetings` says what two calls that meet owe each other: they are of opposite
  kinds; a waiting Push has its value in its op; a partner that is about to
  signal a waiting Pop has written its value there; and `done` stays false until
  then.  The taking of an op is the step at which both calls take effect, the
  Push and then the Pop.  A Pop's result is from then on its partner's `arg`, and
  `value` once the partner has signalled; the two agree at that step.
* `PusherMayStall = FALSE` is a hypothesis of this theorem and of no other: it
  says that a Pop whose op has been taken does not give up before `done`.
  Without it the statement is false, as run **lost_value** shows.
* The slice of MutexSliceMPMC has its top last; `MutexContents` turns it round,
  and `TopFirst` says what each operation does to the sequence turned round.

**Futures** (`Inv` in `Futures_proofs.tla`).

* `Placement` is `RunsOnce` without counting: the list has no task twice, two
  workers have different tasks, and each accepted task is in exactly one of
  list, hands and past.  `RunsOnce` counts the places, and follows with two
  lemmas on `Cardinality`.
* `Results`: a task's value is what `fn` returned from the step that stores it
  onwards, and so whenever `doneCh`, `state` or `notify` can be seen.
* `WorkConserving` is inductive beside `TypeOK`, which says that the notify list
  has the parked workers, once each: a `put` adds a task and, if anybody is
  parked, a worker on its way; a worker that takes a task or parks does so
  after a look at the list under its mutex.

**Feeds** (`FeedsInv` in `Feeds_proofs.tla`).

* RingQueue (`RingOf(q, V)`, `Nth(q, i)`): the tail is `size` places behind the
  head, round the end of the array.  One lemma for each operation says what it
  does to the i-th value in line: `Push` puts one behind the last, `Pop` takes
  the first and moves the others up, and `Grow` leaves every value where it is
  in line, for a full ring that has wrapped anywhere.  Positions are added
  without `%`; one lemma says when that is the same.
* Adapters (`AdapterInv`): OrderedChannel has received 1, 2, ..., has the next in
  hand if it is sending its last values, and the ring continues the count;
  UnorderedChannel's three places have as many values as were sent and miss
  none, so each has its place once.  `Conserved` reads these off the
  concatenation of the places.
* Broadcast (`CastInv`): `DeliveredOnce` of one value and one subscriber is
  inductive (`Fate`) beside two facts: no channel is listed twice, for a topic or
  in what an Emit has left, and two Emits under way have different values, so
  only one of them can have the channel still before it.

**Cells** (`Inv` in `Cells_proofs.tla`; one kind is in use at a time, and the
state of the others stands still).

* SeqLock: `writerMu` leaves one goroutine inside; `seq` is twice the number of
  published writes, plus one exactly while somebody writes; the words are the
  current value when it is even; and *as long as `seq` is still what the reader
  loaded, and even*, the words it has copied so far are the current value's.
  The last clause says nothing about a reader whose `seq` has moved, which is
  what makes it inductive, and `ReadValidate` what makes it enough.
* ReadyFlag: one writer, and it is done with the words when the flag is set.
  PublishedPointer: the goroutine that builds a struct is the only one to hold
  its address until it publishes it, so a published struct is complete and
  nobody writes to it again, also when its address is published once more; a
  reader's address is not nil and was published no earlier than the last before
  its call.
* LRU (`Mirrors(l, C, s)`): the pointers of `l`, from head sentinel to tail
  sentinel and back, are the sequence `s`, whose members are the keys `C`, once
  each.  One lemma says that `removeNode` of a key takes it out of the sequence,
  one that `appendTail` puts it at the end, and `Get`, `Update` and `Insert`
  (with its eviction of the first) are the two in a row.  The keys in use are
  finitely many because the list is, so nothing is assumed of `Key`.
* Token bucket: `AsIfEager` is inductive beside `TypeOK`.  Its proof rests on
  four facts about division: how quotient and remainder by the interval change
  when a tick is added, and when the refill takes whole intervals away.

The instances of a module that extends FiniteSets have their own copy of
`Cardinality`; a lemma at the top of each proof module says that it agrees with
the one the library's theorems are about.

**Assumptions.**  The proofs use what the modules ASSUME and no more:
the bounds are naturals, and only guards use them; `Nil \notin Node`; an
elimination array has a slot and at least one attempt is made;
`First` and `Second` are two goroutines for Peterson's lock; finitely many
goroutines for the gates and the semaphores and finitely many workers for the
pool (a running program has no others); the LRU's two sentinels and `nil` are
distinct and no keys; the gate queue has two places at least (with one, a
published sequence number would be a free one); the ring's first size is positive and there is a topic
(the topics of the program are the strings); `MaxElapsed` exceeds what a timer may be set to.

**Model-checked only.**  All liveness (`LockReturns`, `CallsReturn`, `Settles`),
since liveness under fairness and ENABLED are out of the prover's reach.  The
library's induction theorems take an operator as a parameter, which no installed
prover can instantiate; the stacks' lists are reached without them, from the
theorem that proper inclusion of finite sets is well-founded.

## 9. What is not modelled, and why

* `RWMutexLock`, `AtomicCell`, the counters,
  `queue.Sequence`: one call of the standard library each.
* `SemaLatch`, `NotifyListLatch`, the tree, tournament, dissemination and
  butterfly barriers, the Mesa condition variables, `BlockingWaitStrategy`,
  `TVar`: the methods are empty or absent.
* `park.ChanParker`: no user.
* `orderedMap.delete` and the map only it reads: no caller.
* What a task's `fn` does: it is opaque and returns.  A `fn` that calls `Get` on
  a task still queued holds its worker, and enough of them stop the pool.
* Overflow in TokenBucket (a capacity near 2^64, a wait of 292 years).
* `actor`, `arena`, `clock`, `crdt`, `deque`, `hazard`, `parallel`, `rcu`,
  `reclamation`, `scope`, `_lab`: notes without code.
* `runtime.Gosched`, back-off and spinning hints: stuttering steps.
* 2^64 tickets, 2^32 waiters: see section 3; `WaitGroup`'s 32-bit fields are
  integers, since overflow needs 2^31 goroutines.

## 10. Plan

1. Locks: done, proved.
2. Stacks, queues, semaphores and gates: done, proved.
3. Futures, feeds, published words, LRU, token bucket: done, proved.
4. Left with TLC: liveness.
