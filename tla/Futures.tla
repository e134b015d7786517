------------------------------ MODULE Futures ------------------------------
(***************************************************************************)
(* The futures of package syncx.  A Promise is resolved with a function    *)
(* that a worker of the process-wide WorkerPool runs; its Future finds the *)
(* task through the pool.  A DemoFuture runs its function in a goroutine   *)
(* of its own.  Both are tasks here, numbered in the order of creation; a  *)
(* function returns the number of its task, 0 is the zero value of T.      *)
(*                                                                         *)
(* wpMu is held from the write of the pool's map to the end of put, and    *)
(* the queue's mutex is never left half-way, so a submit and a pollWait up *)
(* to its Wait are one step each.  orderedMap.taskMap is read by nothing   *)
(* but orderedMap.delete, which has no caller; both are left out.          *)
(*                                                                         *)
(* A worker at[w] is before pollWait ("poll"), in Cond.Wait ("parked"), in *)
(* the task's function ("fn"), before close(doneCh) ("close") or gone      *)
(* ("exit").  A caller pc[g] is before Get's select ("select"), before     *)
(* Poll's ("look"), before DemoFuture's <-notify ("notify") or its read of *)
(* v ("read").                                                             *)
(***************************************************************************)
EXTENDS Naturals, Sequences, FiniteSets

CONSTANTS
  Goroutine,   (* the goroutines that use the futures                      *)
  Worker,      (* the workers of NewWorkerPool                             *)
  Promise,     (* the signatures of NewPromise                             *)
  MaxTasks,    (* bound: calls of Resolve and NewDemoFuture                *)
  MaxGets      (* bound: calls of Get and Poll                             *)

ASSUME FuturesAssumption ==
  IsFiniteSet(Worker) /\ MaxTasks \in Nat /\ MaxGets \in Nat

VARIABLES
  pooled,      (* does this behaviour use the pool, or DemoFuture: the two *)
               (* share no state                                           *)
  tasks,       (* tasks created so far                                     *)
  v, doneCh,   (* a task's value; is its doneCh (notify) closed            *)
  taskMap,     (* WorkerPool.taskMap: a promise's task, 0 if it has none   *)
  queue,       (* the list of orderedMap                                   *)
  closed,      (* orderedMap.closed                                        *)
  notify,      (* external: the goroutines in notEmpty.Wait, oldest first  *)
  canceled,    (* is WorkerPool.ctx done                                   *)
  at, runs,    (* control point of each worker and the task it runs        *)
  own, state,  (* DemoFuture: its goroutine's control point; state         *)
  pc, task,    (* control point of each caller and the task it looks at    *)
  gets,        (* calls of Get and Poll so far                             *)
  late         (* history: tasks submitted when the queue was closed       *)

poolVars   == <<pooled, taskMap, queue, closed, notify, canceled, at, runs, late>>
demoVars   == <<own, state>>
callerVars == <<pc, task, gets>>
vars == <<tasks, v, doneCh, poolVars, demoVars, callerVars>>

Task == 1 .. MaxTasks

Init ==
  /\ pooled \in BOOLEAN
  /\ tasks = 0
  /\ v = [t \in Task |-> 0] /\ doneCh = [t \in Task |-> FALSE]
  /\ taskMap = [p \in Promise |-> 0]
  /\ queue = <<>> /\ closed = FALSE /\ notify = <<>> /\ canceled = FALSE
  /\ at = [w \in Worker |-> "poll"] /\ runs = [w \in Worker |-> 0]
  /\ own = [t \in Task |-> "none"] /\ state = [t \in Task |-> FALSE]
  /\ pc = [g \in Goroutine |-> "idle"] /\ task = [g \in Goroutine |-> 0]
  /\ gets = 0 /\ late = {}
-----------------------------------------------------------------------------
(* The worker pool. *)

NewTask == tasks < MaxTasks /\ tasks' = tasks + 1

(* Mutant: Signal leaves the goroutine it wakes on the list. *)
SignalAgain ==
  \/ notify = <<>> /\ UNCHANGED <<notify, at>>
  \/ /\ notify # <<>>
     /\ at' = [at EXCEPT ![Head(notify)] = "poll"]
     /\ UNCHANGED notify
(* Mutant: put signals only when the queue was empty. *)
SignalFirst ==
  \/ (notify = <<>> \/ queue # <<>>) /\ UNCHANGED <<notify, at>>
  \/ /\ notify # <<>> /\ queue = <<>>
     /\ at' = [at EXCEPT ![Head(notify)] = "poll"]
     /\ notify' = Tail(notify)
(* notEmpty.Signal() *)
Signal ==
  \/ notify = <<>> /\ UNCHANGED <<notify, at>>
  \/ /\ notify # <<>>
     /\ at' = [at EXCEPT ![Head(notify)] = "poll"]
     /\ notify' = Tail(notify)

(* Promise.Resolve: WorkerPool.submit, orderedMap.put. *)
Resolve(p) ==
  /\ pooled /\ NewTask
  /\ taskMap' = [taskMap EXCEPT ![p] = tasks']
  /\ queue' = Append(queue, tasks')
  /\ Signal
  /\ late' = IF closed THEN late \cup {tasks'} ELSE late
  /\ UNCHANGED <<pooled, v, doneCh, closed, canceled, runs, demoVars, callerVars>>

(* Mutant: pollWait leaves the task at the head of the list. *)
PollWaitKeeps(w) ==
  /\ at[w] = "poll"
  /\ \/ /\ queue # <<>>
        /\ runs' = [runs EXCEPT ![w] = Head(queue)]
        /\ at' = [at EXCEPT ![w] = "fn"]
        /\ UNCHANGED <<queue, notify>>
     \/ /\ queue = <<>>
        /\ at' = [at EXCEPT ![w] = IF closed THEN "exit" ELSE "parked"]
        /\ notify' = IF closed THEN notify ELSE Append(notify, w)
        /\ UNCHANGED <<queue, runs>>
  /\ UNCHANGED <<pooled, tasks, v, doneCh, taskMap, closed, canceled, late, demoVars,
                 callerVars>>
(* pollWait up to its return or to notEmpty.Wait(). *)
PollWait(w) ==
  /\ at[w] = "poll"
  /\ \/ /\ queue # <<>>
        /\ runs' = [runs EXCEPT ![w] = Head(queue)]
        /\ queue' = Tail(queue)
        /\ at' = [at EXCEPT ![w] = "fn"]
        /\ UNCHANGED notify
     \/ /\ queue = <<>>
        /\ at' = [at EXCEPT ![w] = IF closed THEN "exit" ELSE "parked"]
        /\ notify' = IF closed THEN notify ELSE Append(notify, w)
        /\ UNCHANGED <<queue, runs>>
  /\ UNCHANGED <<pooled, tasks, v, doneCh, taskMap, closed, canceled, late, demoVars,
                 callerVars>>

WorkerStep(w, from, to) ==
  /\ at[w] = from
  /\ at' = [at EXCEPT ![w] = to]
  /\ runs' = [runs EXCEPT ![w] = IF to = "poll" THEN 0 ELSE @]
  /\ UNCHANGED <<pooled, tasks, taskMap, queue, closed, notify, canceled, late,
                 demoVars, callerVars>>
(* Mutant: doneCh is closed before the function has returned. *)
RunEarly(w) ==
  /\ WorkerStep(w, "fn", "close")
  /\ doneCh' = [doneCh EXCEPT ![runs[w]] = TRUE]
  /\ UNCHANGED v
(* t.v = t.fn() *)
Run(w) ==
  /\ WorkerStep(w, "fn", "close")
  /\ v' = [v EXCEPT ![runs[w]] = runs[w]]
  /\ UNCHANGED doneCh
(* close(t.doneCh) *)
CloseDone(w) ==
  /\ WorkerStep(w, "close", "poll")
  /\ doneCh' = [doneCh EXCEPT ![runs[w]] = TRUE]
  /\ UNCHANGED v

(* The owner of the pool cancels its context. *)
Cancel ==
  /\ pooled /\ ~canceled /\ canceled' = TRUE
  /\ UNCHANGED <<pooled, tasks, v, doneCh, taskMap, queue, closed, notify, at, runs, late,
                 demoVars, callerVars>>

(* Mutant: close wakes one worker. *)
CloseQueueSignals ==
  /\ canceled /\ ~closed
  /\ closed' = TRUE
  /\ Signal
  /\ UNCHANGED <<pooled, tasks, v, doneCh, taskMap, queue, canceled, runs, late,
                 demoVars, callerVars>>
(* start's first goroutine: <-ctx.Done(), then orderedMap.close. *)
CloseQueue ==
  /\ canceled /\ ~closed
  /\ closed' = TRUE
  /\ notify' = <<>>
  /\ at' = [w \in Worker |-> IF at[w] = "parked" THEN "poll" ELSE at[w]]
  /\ UNCHANGED <<pooled, tasks, v, doneCh, taskMap, queue, canceled, runs, late,
                 demoVars, callerVars>>
-----------------------------------------------------------------------------
(* DemoFuture: the goroutine of NewDemoFuture. *)

NewDemoFuture ==
  /\ ~pooled /\ NewTask
  /\ own' = [own EXCEPT ![tasks'] = "fn"]
  /\ UNCHANGED <<v, doneCh, state, poolVars, callerVars>>
OwnStep(t, from, to) ==
  /\ own[t] = from
  /\ own' = [own EXCEPT ![t] = to]
  /\ UNCHANGED <<tasks, poolVars, callerVars>>
(* future.v, future.err = fn() *)
Fn(t) ==
  OwnStep(t, "fn", "store") /\ v' = [v EXCEPT ![t] = t] /\ UNCHANGED <<doneCh, state>>
Store(t) ==
  OwnStep(t, "store", "close") /\ state' = [state EXCEPT ![t] = TRUE]
                               /\ UNCHANGED <<v, doneCh>>
CloseNotify(t) ==
  OwnStep(t, "close", "end") /\ doneCh' = [doneCh EXCEPT ![t] = TRUE]
                             /\ UNCHANGED <<v, state>>
-----------------------------------------------------------------------------
(* The callers.  A call that looks at task t begins at control point to.   *)

Look(g, t, to) ==
  /\ pc[g] = "idle" /\ gets < MaxGets
  /\ gets' = gets + 1
  /\ task' = [task EXCEPT ![g] = t]
  /\ pc' = [pc EXCEPT ![g] = to]
  /\ UNCHANGED <<tasks, v, doneCh, poolVars, demoVars>>
(* Future.Get and Future.Poll up to the select: WorkerPool.get, and a      *)
(* panic if the pool knows no task.                                        *)
LookUp(g, p, to) ==
  pooled /\ Look(g, taskMap[p], IF taskMap[p] = 0 THEN "panic" ELSE to)
Get(g, p)  == LookUp(g, p, "select")
Poll(g, p) == LookUp(g, p, "look")
(* DemoFuture.Get: f.state.Load() *)
DemoGet(g, t) ==
  own[t] # "none" /\ Look(g, t, IF state[t] THEN "read" ELSE "notify")

Answer(g, from, to) ==
  /\ pc[g] = from
  /\ pc' = [pc EXCEPT ![g] = to]
  /\ task' = [task EXCEPT ![g] = IF to = "idle" THEN 0 ELSE @]
  /\ UNCHANGED <<tasks, v, doneCh, poolVars, demoVars, gets>>
(* Get's select: it picks either case if both are ready. *)
Select(g)        == Answer(g, "select", "idle") /\ doneCh[task[g]]
SelectCancel(g)  == Answer(g, "select", "panic") /\ canceled
(* Poll's select: (v, true), or (zero, false) by default. *)
LookNow(g)       == Answer(g, "look", "idle")
Await(g)         == Answer(g, "notify", "read") /\ doneCh[task[g]]
Read(g)          == Answer(g, "read", "idle")

CallerWork(g) == Select(g) \/ SelectCancel(g) \/ LookNow(g) \/ Await(g) \/ Read(g)
WorkerWork(w) == PollWait(w) \/ Run(w) \/ CloseDone(w)
OwnWork(t)    == Fn(t) \/ Store(t) \/ CloseNotify(t)

Next ==
  \/ \E p \in Promise : Resolve(p)
  \/ NewDemoFuture
  \/ \E g \in Goroutine, p \in Promise : Get(g, p) \/ Poll(g, p)
  \/ \E g \in Goroutine, t \in Task : DemoGet(g, t)
  \/ \E g \in Goroutine : CallerWork(g)
  \/ \E w \in Worker : WorkerWork(w)
  \/ \E t \in Task : OwnWork(t)
  \/ Cancel \/ CloseQueue

Spec ==
  /\ Init /\ [][Next]_vars
  /\ \A g \in Goroutine : WF_vars(CallerWork(g))
  /\ \A w \in Worker : WF_vars(WorkerWork(w))
  /\ \A t \in Task : WF_vars(OwnWork(t))
  /\ WF_vars(CloseQueue)

-----------------------------------------------------------------------------
(* The goroutines on the notify list are exactly the parked workers, once  *)
(* each, and the list holds tasks that exist.                              *)
TypeOK ==
  /\ pooled \in BOOLEAN
  /\ tasks \in 0 .. MaxTasks /\ gets \in 0 .. MaxGets
  /\ v \in [Task -> {0} \cup Task] /\ doneCh \in [Task -> BOOLEAN]
  /\ taskMap \in [Promise -> 0 .. tasks]
  /\ queue \in Seq(1 .. tasks) /\ late \subseteq 1 .. tasks
  /\ closed \in BOOLEAN /\ canceled \in BOOLEAN
  /\ notify \in Seq(Worker)
  /\ at \in [Worker -> {"poll", "parked", "fn", "close", "exit"}]
  /\ \A w \in Worker : at[w] = "parked" <=> \E i \in DOMAIN notify : notify[i] = w
  /\ \A i, j \in DOMAIN notify : notify[i] = notify[j] => i = j
  /\ runs \in [Worker -> 0 .. tasks]
  /\ own \in [Task -> {"none", "fn", "store", "close", "end"}]
  /\ state \in [Task -> BOOLEAN]
  /\ pc \in [Goroutine -> {"idle", "select", "look", "notify", "read", "panic"}]
  /\ task \in [Goroutine -> 0 .. tasks]

Busy(w) == at[w] \in {"fn", "close"}

(* An accepted task is in one place: in the list once, in the hands of one *)
(* worker, or done.  So fn runs once (future_test.go:22), doneCh is closed *)
(* once, and closing the queue drops nothing that was accepted.            *)
RunsOnce ==
  pooled => \A t \in 1 .. tasks :
     LET queued  == {i \in DOMAIN queue : queue[i] = t}
         running == {w \in Worker : Busy(w) /\ runs[w] = t}
     IN  Cardinality(queued) + Cardinality(running)
           + (IF doneCh[t] THEN 1 ELSE 0) = 1

(* No worker sleeps beside work: while one is parked, a worker that has    *)
(* been woken, or has not parked yet, is on its way to every queued task.  *)
WorkConserving ==
  notify # <<>> => Len(queue) <= Cardinality({w \in Worker : at[w] = "poll"})

(* A Get or Poll that returns a value returns the one fn returned, not the *)
(* zero value of a task that has not been run (future_test.go:15, 23).     *)
ReturnsResult ==
  \A g \in Goroutine :
    pc[g] \in {"select", "look", "read"} /\ pc'[g] = "idle"
    => \/ v[task[g]] = task[g]
       \/ pc[g] = "look" /\ ~doneCh[task[g]]
ReadsResult == [][ReturnsResult]_vars

(* Once the owners make no further call, every Get has returned or         *)
(* panicked (after a cancellation, or because its promise had no task when *)
(* it looked); every task accepted before the queue was closed has run;    *)
(* and the workers are parked or, after a cancellation, gone.  A Get of a  *)
(* task that is neither run nor cancelled would hang.                      *)
Settles ==
  <>[]/\ \A g \in Goroutine : pc[g] \in {"idle", "panic"}
      /\ \A t \in 1 .. tasks : t \notin late => doneCh[t]
      /\ \A w \in Worker : at[w] = IF canceled THEN "exit" ELSE "parked"
=============================================================================
