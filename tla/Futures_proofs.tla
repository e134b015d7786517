--------------------------- MODULE Futures_proofs ---------------------------
(***************************************************************************)
(* Proofs about the worker pool and DemoFuture, for any goroutines,        *)
(* promises and tasks, and any finite set of workers.                      *)
(***************************************************************************)
EXTENDS Futures, FiniteSetTheorems, SequenceTheorems, TLAPS

Queued(t)  == \E i \in DOMAIN queue : queue[i] = t
Running(t) == \E w \in Worker : Busy(w) /\ runs[w] = t
Polling    == {w \in Worker : at[w] = "poll"}
Parked     == {w \in Worker : at[w] = "parked"}

(* A pooled task is in one place, and once: RunsOnce without counting.     *)
Placement ==
  /\ \A i, j \in DOMAIN queue : queue[i] = queue[j] => i = j
  /\ \A w, u \in Worker : Busy(w) /\ Busy(u) /\ runs[w] = runs[u] => w = u
  /\ \A w \in Worker : Busy(w) => runs[w] # 0
  /\ \A t \in 1 .. tasks :
       /\ Queued(t) \/ Running(t) \/ doneCh[t]
       /\ ~(Queued(t) /\ Running(t))
       /\ ~(Queued(t) /\ doneCh[t])
       /\ ~(Running(t) /\ doneCh[t])
  /\ \A t \in Task : doneCh[t] => t <= tasks

(* A caller looks at a task that exists, and reads v where v is the result.*)
CallerResults ==
  \A g \in Goroutine :
    /\ pc[g] \in {"select", "look", "notify", "read"} => task[g] \in 1 .. tasks
    /\ pc[g] = "read" => v[task[g]] = task[g]

(* What a task's value is, from where its function has returned.           *)
Results ==
  /\ \A t \in Task : doneCh[t] \/ state[t] => v[t] = t
  /\ \A w \in Worker : at[w] = "close" => v[runs[w]] = runs[w]
  /\ \A t \in Task : own[t] \in {"store", "close", "end"} => v[t] = t
  /\ CallerResults

(* The two kinds of futures share no state.                                *)
Apart ==
  /\ pooled => \A t \in Task : own[t] = "none"
  /\ ~pooled => queue = <<>> /\ \A w \in Worker : ~Busy(w)

(* DemoFutures are numbered as they are made.                              *)
Created == \A t \in Task : own[t] # "none" => t <= tasks

Inv == /\ TypeOK /\ Created /\ Apart /\ Results
       /\ pooled => Placement
       /\ WorkConserving
-----------------------------------------------------------------------------
(* The notify list *)

(* A sequence lists the members of W, once each.                           *)
Lists(s, W) ==
  /\ \A i, j \in DOMAIN s : s[i] = s[j] => i = j
  /\ \A w \in Worker : w \in W <=> \E i \in DOMAIN s : s[i] = w

LEMMA ListsAppend ==
  ASSUME NEW s \in Seq(Worker), NEW W \in SUBSET Worker, Lists(s, W),
         NEW w \in Worker, w \notin W
  PROVE  Append(s, w) \in Seq(Worker) /\ Lists(Append(s, w), W \cup {w})
  <1> DEFINE t == Append(s, w)
  <1>1. /\ t \in Seq(Worker) /\ Len(s) \in Nat
        /\ DOMAIN s = 1 .. Len(s) /\ DOMAIN t = 1 .. Len(s) + 1
        /\ \A i \in DOMAIN s : t[i] = s[i]
        /\ t[Len(s) + 1] = w
    OBVIOUS
  <1> HIDE DEF t
  <1>2. DOMAIN t = DOMAIN s \cup {Len(s) + 1}
    BY <1>1
  <1>3. \A i \in DOMAIN s : s[i] # w
    BY DEF Lists
  <1>4. \A i, j \in DOMAIN t : t[i] = t[j] => i = j
    BY <1>1, <1>2, <1>3 DEF Lists
  <1>5. \A u \in Worker : u \in W \cup {w} <=> \E i \in DOMAIN t : t[i] = u
    BY <1>1, <1>2 DEF Lists
  <1> QED BY <1>1, <1>4, <1>5 DEF Lists, t

LEMMA ListsTail ==
  ASSUME NEW s \in Seq(Worker), s # <<>>, NEW W \in SUBSET Worker, Lists(s, W)
  PROVE  /\ Head(s) \in W /\ Tail(s) \in Seq(Worker)
         /\ Lists(Tail(s), W \ {Head(s)})
  <1> DEFINE t == Tail(s)
  <1>1. /\ t \in Seq(Worker) /\ Len(s) \in Nat \ {0}
        /\ Head(s) = s[1] /\ 1 \in DOMAIN s /\ s[1] \in Worker
        /\ DOMAIN s = 1 .. Len(s) /\ DOMAIN t = 1 .. Len(s) - 1
        /\ \A i \in DOMAIN t : t[i] = s[i + 1]
    OBVIOUS
  <1> HIDE DEF t
  <1>2. /\ \A i \in DOMAIN t : i + 1 \in DOMAIN s /\ i + 1 # 1
        /\ \A i \in DOMAIN s : i = 1 \/ (i - 1 \in DOMAIN t /\ t[i - 1] = s[i])
    BY <1>1
  <1>3. \A i, j \in DOMAIN t : t[i] = t[j] => i = j
    <2> SUFFICES ASSUME NEW i \in DOMAIN t, NEW j \in DOMAIN t, t[i] = t[j]
                 PROVE  i = j
      OBVIOUS
    <2>1. i + 1 = j + 1
      BY <1>1, <1>2 DEF Lists
    <2> QED BY <1>1, <2>1
  <1>4. ASSUME NEW u \in Worker
        PROVE  u \in W \ {s[1]} <=> \E i \in DOMAIN t : t[i] = u
    <2>1. ASSUME NEW i \in DOMAIN t, t[i] = u PROVE u \in W \ {s[1]}
      BY <1>1, <1>2, <2>1 DEF Lists
    <2>2. ASSUME u \in W \ {s[1]} PROVE \E i \in DOMAIN t : t[i] = u
      <3>1. PICK i \in DOMAIN s : s[i] = u
        BY <2>2 DEF Lists
      <3> QED BY <1>2, <2>2, <3>1
    <2> QED BY <2>1, <2>2
  <1>5. s[1] \in W
    BY <1>1 DEF Lists
  <1> QED BY <1>1, <1>3, <1>4, <1>5 DEF Lists, t

(* What the type invariant says of the notify list.                        *)
LEMMA NotifyLists == TypeOK => notify \in Seq(Worker) /\ Lists(notify, Parked)
  BY DEF TypeOK, Lists, Parked

-----------------------------------------------------------------------------
(* Types *)

(* The part of the type invariant that the notify list has no share in.    *)
Typed ==
  /\ pooled \in BOOLEAN
  /\ tasks \in 0 .. MaxTasks /\ gets \in 0 .. MaxGets
  /\ v \in [Task -> {0} \cup Task] /\ doneCh \in [Task -> BOOLEAN]
  /\ taskMap \in [Promise -> 0 .. tasks]
  /\ queue \in Seq(1 .. tasks) /\ late \subseteq 1 .. tasks
  /\ closed \in BOOLEAN /\ canceled \in BOOLEAN
  /\ at \in [Worker -> {"poll", "parked", "fn", "close", "exit"}]
  /\ runs \in [Worker -> 0 .. tasks]
  /\ own \in [Task -> {"none", "fn", "store", "close", "end"}]
  /\ state \in [Task -> BOOLEAN]
  /\ pc \in [Goroutine -> {"idle", "select", "look", "notify", "read", "panic"}]
  /\ task \in [Goroutine -> 0 .. tasks]

LEMMA TypeParts == TypeOK <=> Typed /\ notify \in Seq(Worker) /\ Lists(notify, Parked)
  BY DEF TypeOK, Typed, Lists, Parked

(* Signal takes the longest parked worker off the list.                    *)
LEMMA SignalStep ==
  ASSUME TypeOK, Signal
  PROVE  /\ at' \in [Worker -> {"poll", "parked", "fn", "close", "exit"}]
         /\ notify' \in Seq(Worker) /\ Lists(notify', Parked')
         /\ \/ notify = <<>> /\ notify' = notify /\ at' = at
            \/ \E w \in Worker : at[w] = "parked" /\ at' = [at EXCEPT ![w] = "poll"]
  <1>1. /\ notify \in Seq(Worker) /\ Lists(notify, Parked)
        /\ at \in [Worker -> {"poll", "parked", "fn", "close", "exit"}]
        /\ Parked \in SUBSET Worker
    BY NotifyLists DEF TypeOK, Parked
  <1>2. CASE notify = <<>> /\ UNCHANGED <<notify, at>>
    <2>1. Parked' = Parked
      BY <1>2 DEF Parked
    <2>2. Lists(notify', Parked')
      BY <1>1, <1>2, <2>1
    <2> QED BY <1>1, <1>2, <2>2
  <1>3. CASE notify # <<>> /\ at' = [at EXCEPT ![Head(notify)] = "poll"] /\ notify' = Tail(notify)
    <2> DEFINE w == Head(notify)
    <2>1. w \in Parked /\ Tail(notify) \in Seq(Worker) /\ Lists(Tail(notify), Parked \ {w})
      BY <1>1, <1>3, ListsTail
    <2> HIDE DEF w
    <2>2. at' = [at EXCEPT ![w] = "poll"] /\ w \in Worker /\ at[w] = "parked"
      BY <1>3, <2>1 DEF w, Parked
    <2>3. Parked' = Parked \ {w}
      BY <1>1, <2>2 DEF Parked
    <2>4. Lists(notify', Parked')
      BY <1>3, <2>1, <2>3
    <2> QED BY <1>1, <1>3, <2>1, <2>2, <2>4
  <1> QED BY <1>2, <1>3 DEF Signal

LEMMA TypeStart == Init => TypeOK
  <1> SUFFICES ASSUME Init PROVE TypeOK
    OBVIOUS
  <1>0. queue \in Seq(1 .. tasks)
    BY DEF Init
  <1>1. Typed
    <2>1. 0 \in 0 .. MaxTasks /\ 0 \in 0 .. MaxGets /\ 0 \in 0 .. 0
      BY FuturesAssumption
    <2> QED BY <1>0, <2>1 DEF Init, Typed
  <1>2. notify \in Seq(Worker) /\ Lists(notify, Parked)
    BY DEF Init, Lists, Parked
  <1> QED BY <1>1, <1>2, TypeParts

(* The parked workers and the notify list, for a step that parks nobody    *)
(* and wakes nobody.                                                       *)
LEMMA NobodyMoves ==
  ASSUME TypeOK, notify' = notify, Parked' = Parked, Typed'
  PROVE  TypeOK'
  <1>1. notify' \in Seq(Worker) /\ Lists(notify', Parked')
    BY NotifyLists
  <1> QED BY <1>1, TypeParts DEF TypeOK, Typed, Lists, Parked

LEMMA TypeStep == TypeOK /\ Created /\ [Next]_vars => TypeOK'
  <1> SUFFICES ASSUME TypeOK, Created, [Next]_vars PROVE TypeOK'
    OBVIOUS
  <1>0. Typed /\ tasks \in Nat /\ MaxTasks \in Nat /\ MaxGets \in Nat
    BY TypeParts, FuturesAssumption DEF Typed
  <1> USE DEF poolVars, demoVars, callerVars
  <1>1. ASSUME NEW p \in Promise, Resolve(p)
        PROVE  TypeOK'
    <2>1. /\ tasks' = tasks + 1 /\ tasks' \in 0 .. MaxTasks
          /\ taskMap' = [taskMap EXCEPT ![p] = tasks'] /\ queue' = Append(queue, tasks')
          /\ late' \subseteq late \cup {tasks'} /\ Signal
          /\ UNCHANGED <<pooled, v, doneCh, closed, canceled, runs, demoVars, callerVars>>
      BY <1>0, <1>1 DEF Resolve, NewTask, Typed
    <2>2. \A t \in 0 .. tasks : t \in 0 .. tasks'
      BY <1>0, <2>1
    <2>3. \A t \in 1 .. tasks : t \in 1 .. tasks'
      BY <1>0, <2>1
    <2>4. tasks' \in 1 .. tasks' /\ tasks' \in 0 .. tasks'
      BY <1>0, <2>1
    <2>5. queue' \in Seq(1 .. tasks')
      <3> DEFINE S == 1 .. tasks
                 T == 1 .. tasks'
      <3>1. queue \in Seq(S) /\ S \subseteq T /\ tasks' \in T
        BY <1>0, <2>3, <2>4 DEF Typed
      <3> HIDE DEF S, T
      <3>2. Append(queue, tasks') \in Seq(T)
        BY <3>1
      <3> QED BY <2>1, <3>2 DEF T
    <2>6. Typed'
      BY <1>0, <2>1, <2>2, <2>3, <2>4, <2>5, SignalStep DEF Typed
    <2>7. notify' \in Seq(Worker) /\ Lists(notify', Parked')
      BY <2>1, SignalStep
    <2> QED BY <2>6, <2>7 DEF TypeOK, Typed, Lists, Parked
  <1>2. CASE NewDemoFuture
    <2>1. /\ tasks' = tasks + 1 /\ tasks' \in 0 .. MaxTasks
          /\ own' = [own EXCEPT ![tasks'] = "fn"]
          /\ UNCHANGED <<v, doneCh, state, poolVars, callerVars>>
      BY <1>0, <1>2 DEF NewDemoFuture, NewTask, Typed
    <2>2. \A t \in 0 .. tasks : t \in 0 .. tasks'
      BY <1>0, <2>1
    <2>3. \A t \in 1 .. tasks : t \in 1 .. tasks'
      BY <1>0, <2>1
    <2>4. queue' \in Seq(1 .. tasks')
      <3> DEFINE S == 1 .. tasks
                 T == 1 .. tasks'
      <3>1. queue \in Seq(S) /\ S \subseteq T
        BY <1>0, <2>3 DEF Typed
      <3> HIDE DEF S, T
      <3>2. queue \in Seq(T)
        BY <3>1
      <3> QED BY <2>1, <3>2 DEF T
    <2>5. Typed'
      BY <1>0, <2>1, <2>2, <2>3, <2>4 DEF Typed
    <2>6. notify' = notify /\ Parked' = Parked
      BY <2>1 DEF Parked
    <2> QED BY <2>5, <2>6, NobodyMoves
  <1>3. ASSUME NEW w \in Worker, PollWait(w)
        PROVE  TypeOK'
    <2>1. CASE queue # <<>>
      <3>1. Head(queue) \in 1 .. tasks /\ Tail(queue) \in Seq(1 .. tasks)
        <4> DEFINE S == 1 .. tasks
        <4>1. queue \in Seq(S)
          BY <1>0 DEF Typed
        <4> HIDE DEF S
        <4>2. Head(queue) \in S /\ Tail(queue) \in Seq(S)
          BY <2>1, <4>1
        <4> QED BY <4>2 DEF S
      <3>2. Head(queue) \in 0 .. tasks
        BY <3>1
      <3>3. Typed'
        BY <1>0, <1>3, <2>1, <3>1, <3>2 DEF PollWait, Typed
      <3>4. notify' = notify /\ Parked' = Parked
        BY <1>0, <1>3, <2>1 DEF PollWait, Parked, Typed
      <3> QED BY <3>3, <3>4, NobodyMoves
    <2>2. CASE queue = <<>> /\ closed
      <3>1. Typed'
        BY <1>0, <1>3, <2>2 DEF PollWait, Typed
      <3>2. notify' = notify /\ Parked' = Parked
        BY <1>0, <1>3, <2>2 DEF PollWait, Parked, Typed
      <3> QED BY <3>1, <3>2, NobodyMoves
    <2>3. CASE queue = <<>> /\ ~closed
      <3>1. Typed'
        BY <1>0, <1>3, <2>3 DEF PollWait, Typed
      <3>2. /\ notify' = Append(notify, w) /\ w \notin Parked
            /\ Parked' = Parked \cup {w} /\ Parked \in SUBSET Worker
        BY <1>0, <1>3, <2>3 DEF PollWait, Parked, Typed
      <3>3. notify' \in Seq(Worker) /\ Lists(notify', Parked')
        BY <3>2, NotifyLists, ListsAppend
      <3> QED BY <3>1, <3>3 DEF TypeOK, Typed, Lists, Parked
    <2> QED BY <2>1, <2>2, <2>3
  <1>4. ASSUME NEW w \in Worker, Run(w) \/ CloseDone(w)
        PROVE  TypeOK'
    <2>1. Typed'
      <3>1. CASE Run(w)
        <4>1. runs[w] \in Task => runs[w] \in {0} \cup Task
          OBVIOUS
        <4> QED BY <1>0, <3>1, <4>1 DEF Run, WorkerStep, Typed
      <3>2. CASE CloseDone(w)
        <4>1. 0 \in 0 .. tasks
          BY <1>0
        <4> QED BY <1>0, <3>2, <4>1 DEF CloseDone, WorkerStep, Typed
      <3> QED BY <1>4, <3>1, <3>2
    <2>2. notify' = notify /\ Parked' = Parked
      BY <1>0, <1>4 DEF Run, CloseDone, WorkerStep, Parked, Typed
    <2> QED BY <2>1, <2>2, NobodyMoves
  <1>5. CASE CloseQueue
    <2>1. Typed'
      BY <1>0, <1>5 DEF CloseQueue, Typed
    <2>2. notify' = <<>> /\ Parked' = {}
      BY <1>0, <1>5 DEF CloseQueue, Parked, Typed
    <2>3. notify' \in Seq(Worker) /\ Lists(notify', Parked')
      BY <2>2 DEF Lists
    <2> QED BY <2>1, <2>3 DEF TypeOK, Typed, Lists, Parked
  <1>6. CASE UNCHANGED <<at, notify>> /\ Typed'
    <2>1. Parked' = Parked
      BY <1>6 DEF Parked
    <2> QED BY <1>6, <2>1, NobodyMoves
  <1>7. ASSUME Cancel \/ (\E t \in Task : OwnWork(t))
        PROVE  TypeOK'
    <2>1. CASE Cancel
      BY <1>0, <1>6, <2>1 DEF Cancel, Typed
    <2>2. ASSUME NEW t \in Task, OwnWork(t)
          PROVE  Typed' /\ UNCHANGED <<at, notify>>
      <3>1. CASE Fn(t)
        BY <1>0, <3>1 DEF Fn, OwnStep, Typed
      <3>2. CASE Store(t)
        BY <1>0, <3>2 DEF Store, OwnStep, Typed
      <3>3. CASE CloseNotify(t)
        BY <1>0, <3>3 DEF CloseNotify, OwnStep, Typed
      <3> QED BY <2>2, <3>1, <3>2, <3>3 DEF OwnWork
    <2> QED BY <1>6, <1>7, <2>1, <2>2
  <1>8. ASSUME NEW g \in Goroutine,
               \/ \E p \in Promise : Get(g, p) \/ Poll(g, p)
               \/ \E t \in Task : DemoGet(g, t)
        PROVE  TypeOK'
    <2>1. ASSUME NEW t \in 0 .. tasks, NEW to \in {"select", "look", "notify", "read", "panic"},
                 Look(g, t, to)
          PROVE  Typed' /\ UNCHANGED <<at, notify>>
      BY <1>0, <2>1 DEF Look, Typed
    <2>2. ASSUME NEW p \in Promise, Get(g, p) \/ Poll(g, p)
          PROVE  Typed' /\ UNCHANGED <<at, notify>>
      <3>1. taskMap[p] \in 0 .. tasks
        BY <1>0 DEF Typed
      <3>2. \E to \in {"select", "look", "panic"} : Look(g, taskMap[p], to)
        BY <2>2 DEF Get, Poll, LookUp
      <3> QED BY <2>1, <3>1, <3>2
    <2>3. ASSUME NEW t \in Task, DemoGet(g, t)
          PROVE  Typed' /\ UNCHANGED <<at, notify>>
      <3>1. t \in 0 .. tasks
        BY <1>0, <2>3 DEF DemoGet, Created, Task
      <3>2. \E to \in {"read", "notify"} : Look(g, t, to)
        BY <2>3 DEF DemoGet
      <3> QED BY <2>1, <3>1, <3>2
    <2> QED BY <1>6, <1>8, <2>2, <2>3
  <1>9. ASSUME NEW g \in Goroutine, CallerWork(g)
        PROVE  TypeOK'
    <2>1. Typed' /\ UNCHANGED <<at, notify>>
      <3>1. \E from \in {"select", "look", "notify", "read"}, to \in {"idle", "panic", "read"} :
               Answer(g, from, to)
        BY <1>9 DEF CallerWork, Select, SelectCancel, LookNow, Await, Read
      <3>2. PICK to \in {"idle", "panic", "read"} :
              /\ pc' = [pc EXCEPT ![g] = to]
              /\ task' = [task EXCEPT ![g] = IF to = "idle" THEN 0 ELSE @]
              /\ UNCHANGED <<tasks, v, doneCh, poolVars, demoVars, gets>>
        BY <3>1 DEF Answer
      <3>3. 0 \in 0 .. tasks
        BY <1>0 DEF Typed
      <3>4. pc' \in [Goroutine -> {"idle", "select", "look", "notify", "read", "panic"}]
        BY <1>0, <3>2 DEF Typed
      <3>5. task' \in [Goroutine -> 0 .. tasks]
        BY <1>0, <3>2, <3>3 DEF Typed
      <3> QED BY <1>0, <3>2, <3>4, <3>5 DEF Typed, poolVars, demoVars
    <2> QED BY <1>6, <2>1
  <1>10. CASE UNCHANGED vars
    BY <1>0, <1>6, <1>10 DEF vars, Typed
  <1> QED BY <1>1, <1>2, <1>3, <1>4, <1>5, <1>7, <1>8, <1>9, <1>10
          DEF Next, WorkerWork

LEMMA CreatedStep == TypeOK /\ Created /\ [Next]_vars => Created'
  <1> SUFFICES ASSUME TypeOK, Created, [Next]_vars PROVE Created'
    OBVIOUS
  <1>0. /\ tasks \in Nat /\ own \in [Task -> {"none", "fn", "store", "close", "end"}]
        /\ \A t \in Task : t \in Nat
    BY FuturesAssumption DEF TypeOK, Task
  <1>1. CASE NewDemoFuture
    <2>1. tasks' = tasks + 1 /\ own' = [own EXCEPT ![tasks + 1] = "fn"]
      BY <1>1 DEF NewDemoFuture, NewTask
    <2>2. \A t \in Task : own'[t] # "none" => own[t] # "none" \/ t = tasks + 1
      BY <1>0, <2>1
    <2> QED BY <1>0, <2>1, <2>2 DEF Created
  <1>2. ASSUME NEW t \in Task, OwnWork(t)
        PROVE  Created'
    BY <1>0, <1>2 DEF OwnWork, Fn, Store, CloseNotify, OwnStep, Created
  <1>3. ASSUME NEW p \in Promise, Resolve(p)
        PROVE  Created'
    BY <1>0, <1>3 DEF Resolve, NewTask, Created, demoVars
  <1>4. CASE UNCHANGED <<tasks, own>>
    BY <1>4 DEF Created
  <1>5. CASE \/ \E g \in Goroutine, p \in Promise : Get(g, p) \/ Poll(g, p)
             \/ \E g \in Goroutine, t \in Task : DemoGet(g, t)
             \/ \E g \in Goroutine : CallerWork(g)
    <2>1. UNCHANGED <<tasks, demoVars>>
      BY <1>5 DEF Get, Poll, LookUp, DemoGet, Look, CallerWork, Select, SelectCancel, LookNow,
         Await, Read, Answer
    <2> QED BY <1>4, <2>1 DEF demoVars
  <1>6. CASE (\E w \in Worker : WorkerWork(w)) \/ Cancel \/ CloseQueue \/ UNCHANGED vars
    <2>1. UNCHANGED <<tasks, demoVars>>
      BY <1>6 DEF WorkerWork, PollWait, Run, CloseDone, WorkerStep, Cancel, CloseQueue, vars
    <2> QED BY <1>4, <2>1 DEF demoVars
  <1> QED BY <1>1, <1>2, <1>3, <1>5, <1>6 DEF Next

-----------------------------------------------------------------------------
(* Where a task is                                                         *)

(* The callers and the owner who cancels change nothing a task is in.      *)
Quiet == UNCHANGED <<pooled, tasks, v, doneCh, queue, notify, at, runs, own, state>>

LEMMA QuietSteps ==
  ASSUME [Next]_vars
  PROVE  \/ \E p \in Promise : Resolve(p)
         \/ NewDemoFuture
         \/ \E w \in Worker : PollWait(w) \/ Run(w) \/ CloseDone(w)
         \/ CloseQueue
         \/ \E t \in Task : OwnWork(t)
         \/ Quiet
  <1>1. CASE \/ \E g \in Goroutine, p \in Promise : Get(g, p) \/ Poll(g, p)
             \/ \E g \in Goroutine, t \in Task : DemoGet(g, t)
             \/ \E g \in Goroutine : CallerWork(g)
    BY <1>1 DEF Get, Poll, LookUp, DemoGet, Look, CallerWork, Select, SelectCancel, LookNow,
       Await, Read, Answer, poolVars, demoVars, Quiet
  <1>2. CASE Cancel \/ UNCHANGED vars
    BY <1>2 DEF Cancel, vars, poolVars, demoVars, Quiet
  <1> QED BY <1>1, <1>2 DEF Next, WorkerWork

LEMMA ApartStep == TypeOK /\ Apart /\ [Next]_vars => Apart'
  <1> SUFFICES ASSUME TypeOK, Apart, [Next]_vars PROVE Apart'
    OBVIOUS
  <1>0. /\ at \in [Worker -> {"poll", "parked", "fn", "close", "exit"}]
        /\ own \in [Task -> {"none", "fn", "store", "close", "end"}]
    BY DEF TypeOK
  <1> USE DEF poolVars, demoVars, callerVars, Apart, Busy
  <1>1. ASSUME NEW p \in Promise, Resolve(p)
        PROVE  Apart'
    BY <1>1 DEF Resolve
  <1>2. CASE NewDemoFuture
    BY <1>0, <1>2 DEF NewDemoFuture
  <1>3. ASSUME NEW w \in Worker, PollWait(w)
        PROVE  Apart'
    BY <1>0, <1>3 DEF PollWait
  <1>4. ASSUME NEW w \in Worker, Run(w) \/ CloseDone(w)
        PROVE  Apart'
    BY <1>0, <1>4 DEF Run, CloseDone, WorkerStep
  <1>5. CASE CloseQueue
    BY <1>0, <1>5 DEF CloseQueue
  <1>6. ASSUME NEW t \in Task, OwnWork(t)
        PROVE  Apart'
    BY <1>0, <1>6 DEF OwnWork, Fn, Store, CloseNotify, OwnStep
  <1>7. CASE Quiet
    BY <1>7 DEF Quiet
  <1> QED BY <1>1, <1>2, <1>3, <1>4, <1>5, <1>6, <1>7, QuietSteps

(* A pooled task is in its one place after every step.                     *)
LEMMA PlacementStep ==
  ASSUME TypeOK, Apart, pooled, Placement, [Next]_vars
  PROVE  Placement'
  <1>0. /\ tasks \in Nat /\ queue \in Seq(1 .. tasks)
        /\ at \in [Worker -> {"poll", "parked", "fn", "close", "exit"}]
        /\ runs \in [Worker -> 0 .. tasks] /\ doneCh \in [Task -> BOOLEAN]
        /\ \A t \in Task : t \in Nat
        /\ MaxTasks \in Nat
    BY FuturesAssumption DEF TypeOK, Task
  <1>q. /\ \A i \in DOMAIN queue : queue[i] \in 1 .. tasks
        /\ Len(queue) \in Nat /\ DOMAIN queue = 1 .. Len(queue)
    <2> DEFINE S == 1 .. tasks
    <2>1. queue \in Seq(S)
      BY <1>0
    <2> HIDE DEF S
    <2>2. /\ \A i \in DOMAIN queue : queue[i] \in S
          /\ Len(queue) \in Nat /\ DOMAIN queue = 1 .. Len(queue)
      BY <2>1
    <2> QED BY <2>2 DEF S
  <1> USE DEF poolVars, demoVars, callerVars, Busy
  (* A new task goes to the end of the list. *)
  <1>1. ASSUME NEW p \in Promise, Resolve(p)
        PROVE  Placement'
    <2> DEFINE new == tasks + 1
    <2>1. /\ tasks' = new /\ queue' = Append(queue, new) /\ Signal
          /\ UNCHANGED <<doneCh, runs>>
      BY <1>1 DEF Resolve, NewTask
    <2>2. /\ DOMAIN queue' = DOMAIN queue \cup {Len(queue) + 1}
          /\ \A i \in DOMAIN queue : queue'[i] = queue[i]
          /\ queue'[Len(queue) + 1] = new
      BY <1>0, <1>q, <2>1
    <2>3. \A w \in Worker : Busy(w)' <=> Busy(w)
      BY <1>0, <2>1, SignalStep
    <2>4. /\ \A i \in DOMAIN queue : queue[i] # new
          /\ \A w \in Worker : runs[w] # new
          /\ \A t \in Task : doneCh[t] => t # new
      BY <1>0, <1>q DEF Placement
    <2>5. \A t \in Nat : Queued(t)' <=> Queued(t) \/ t = new
      BY <1>0, <2>2 DEF Queued
    <2>6. \A t \in Nat : Running(t)' <=> Running(t)
      BY <2>1, <2>3 DEF Running
    <2>7. \A t \in 1 .. tasks' : t \in 1 .. tasks \/ t = new
      BY <1>0, <2>1
    <2>8. /\ \A t \in 1 .. tasks' : t \in Nat
          /\ ~Queued(new) /\ ~Running(new)
          /\ new \in Nat
      BY <1>0, <2>1, <2>4 DEF Queued, Running
    <2>9. new \in Task => ~doneCh[new]
      BY <1>0, <2>4
    <2>10. new \in Task
      BY <1>0, <1>1 DEF Resolve, NewTask, Task
    <2> HIDE DEF new
    <2>11. \A i, j \in DOMAIN queue' : queue'[i] = queue'[j] => i = j
      BY <1>q, <2>2, <2>4 DEF Placement
    <2>12. /\ \A u, w \in Worker : Busy(u)' /\ Busy(w)' /\ runs'[u] = runs'[w] => u = w
           /\ \A w \in Worker : Busy(w)' => runs'[w] # 0
      BY <2>1, <2>3 DEF Placement
    <2>13. \A t \in 1 .. tasks' :
             /\ Queued(t)' \/ Running(t)' \/ doneCh'[t]
             /\ ~(Queued(t)' /\ Running(t)')
             /\ ~(Queued(t)' /\ doneCh'[t])
             /\ ~(Running(t)' /\ doneCh'[t])
      BY <2>1, <2>5, <2>6, <2>7, <2>8, <2>9, <2>10 DEF Placement
    <2>14. \A t \in Task : doneCh'[t] => t <= tasks'
      BY <1>0, <2>1 DEF Placement, new
    <2> QED BY <2>11, <2>12, <2>13, <2>14 DEF Placement
  (* A step that leaves the tasks where they are. *)
  <1>2. CASE /\ UNCHANGED <<tasks, queue, runs, doneCh>>
             /\ \A w \in Worker : Busy(w)' <=> Busy(w)
    <2>1. \A t : (Queued(t)' <=> Queued(t)) /\ (Running(t)' <=> Running(t))
      BY <1>2 DEF Queued, Running
    <2> HIDE DEF Busy
    <2> QED BY <1>2, <2>1 DEF Placement
  (* The first task in the list goes to a worker. *)
  <1>3. ASSUME NEW w \in Worker, PollWait(w)
        PROVE  Placement'
    <2>1. CASE queue = <<>>
      <3>1. UNCHANGED <<tasks, queue, runs, doneCh>>
        BY <1>3, <2>1 DEF PollWait
      <3>2. \A u \in Worker : Busy(u)' <=> Busy(u)
        BY <1>0, <1>3, <2>1 DEF PollWait
      <3> QED BY <1>2, <3>1, <3>2
    <2>2. CASE queue # <<>>
      <3> DEFINE h == queue[1]
      <3>1. /\ Head(queue) = h /\ h \in 1 .. tasks /\ 1 \in DOMAIN queue
            /\ DOMAIN queue' = 1 .. Len(queue) - 1
            /\ \A i \in DOMAIN queue' : queue'[i] = queue[i + 1]
        <4> DEFINE S == 1 .. tasks
        <4>1. queue \in Seq(S) /\ queue' = Tail(queue)
          BY <1>0, <1>3, <2>2 DEF PollWait
        <4> HIDE DEF S
        <4>2. /\ Head(queue) = queue[1] /\ 1 \in DOMAIN queue
              /\ DOMAIN Tail(queue) = 1 .. Len(queue) - 1
              /\ \A i \in DOMAIN Tail(queue) : Tail(queue)[i] = queue[i + 1]
          BY <2>2, <4>1
        <4> QED BY <1>q, <4>1, <4>2
      <3>2. /\ \A i \in DOMAIN queue' : i + 1 \in DOMAIN queue /\ i + 1 # 1
            /\ \A i \in DOMAIN queue : i = 1 \/ (i - 1 \in DOMAIN queue' /\ queue'[i - 1] = queue[i])
        BY <1>q, <3>1
      <3>3. Queued(h) /\ ~Running(h) /\ ~doneCh[h] /\ h # 0
        BY <3>1 DEF Queued, Placement
      <3> HIDE DEF h
      <3>4. /\ at[w] = "poll" /\ at' = [at EXCEPT ![w] = "fn"]
            /\ runs' = [runs EXCEPT ![w] = h] /\ UNCHANGED <<tasks, doneCh>>
        BY <1>3, <2>2, <3>1 DEF PollWait
      <3>5. \A i, j \in DOMAIN queue' : queue'[i] = queue'[j] => i = j
        <4> SUFFICES ASSUME NEW i \in DOMAIN queue', NEW j \in DOMAIN queue', queue'[i] = queue'[j]
                     PROVE  i = j
          OBVIOUS
        <4>1. i + 1 = j + 1
          BY <3>1, <3>2 DEF Placement
        <4> QED BY <1>q, <3>1, <4>1
      <3>6. \A t : Queued(t)' <=> Queued(t) /\ t # h
        <4> SUFFICES ASSUME NEW t PROVE Queued(t)' <=> Queued(t) /\ t # h
          OBVIOUS
        <4>1. ASSUME NEW i \in DOMAIN queue', queue'[i] = t PROVE Queued(t) /\ t # h
          BY <3>1, <3>2, <4>1 DEF Queued, Placement, h
        <4>2. ASSUME NEW i \in DOMAIN queue, queue[i] = t, t # h PROVE Queued(t)'
          BY <3>2, <4>2 DEF Queued, h
        <4> QED BY <4>1, <4>2 DEF Queued
      <3>7. \A u \in Worker : (Busy(u)' <=> Busy(u) \/ u = w) /\ ~Busy(w)
        BY <1>0, <3>4
      <3>8. runs'[w] = h /\ \A u \in Worker : u # w => runs'[u] = runs[u]
        BY <1>0, <3>4
      <3> HIDE DEF Busy
      <3>9. \A t : Running(t)' <=> Running(t) \/ t = h
        BY <3>7, <3>8 DEF Running
      <3>10. /\ \A u, x \in Worker : Busy(u)' /\ Busy(x)' /\ runs'[u] = runs'[x] => u = x
             /\ \A u \in Worker : Busy(u)' => runs'[u] # 0
        BY <3>3, <3>7, <3>8 DEF Placement, Running
      <3>11. \A t \in 1 .. tasks' :
               /\ Queued(t)' \/ Running(t)' \/ doneCh'[t]
               /\ ~(Queued(t)' /\ Running(t)')
               /\ ~(Queued(t)' /\ doneCh'[t])
               /\ ~(Running(t)' /\ doneCh'[t])
        BY <3>3, <3>4, <3>6, <3>9 DEF Placement
      <3> QED BY <3>4, <3>5, <3>10, <3>11 DEF Placement
    <2> QED BY <2>1, <2>2
  (* A worker's task is done. *)
  <1>4. ASSUME NEW w \in Worker, CloseDone(w)
        PROVE  Placement'
    <2> DEFINE r == runs[w]
    <2>1. /\ at[w] = "close" /\ at' = [at EXCEPT ![w] = "poll"]
          /\ runs' = [runs EXCEPT ![w] = 0] /\ doneCh' = [doneCh EXCEPT ![r] = TRUE]
          /\ UNCHANGED <<tasks, queue>>
      BY <1>4 DEF CloseDone, WorkerStep
    <2>2. \A u \in Worker : (Busy(u)' <=> Busy(u) /\ u # w) /\ Busy(w)
      BY <1>0, <2>1
    <2>3. \A u \in Worker : u # w => runs'[u] = runs[u]
      BY <1>0, <2>1
    <2>4. r \in 1 .. tasks
      BY <1>0, <2>2 DEF Placement
    <2>5. r \in Task
      BY <2>4, FuturesAssumption DEF TypeOK, Task
    <2> HIDE DEF r, Busy
    <2>6. \A t \in Task : doneCh'[t] = (doneCh[t] \/ t = r)
      BY <1>0, <2>1, <2>5
    <2>7. \A t : (Running(t)' <=> Running(t) /\ t # r) /\ (Queued(t)' <=> Queued(t))
      BY <2>1, <2>2, <2>3 DEF Running, Queued, Placement, r
    <2>8. /\ \A u, x \in Worker : Busy(u)' /\ Busy(x)' /\ runs'[u] = runs'[x] => u = x
          /\ \A u \in Worker : Busy(u)' => runs'[u] # 0
      BY <2>2, <2>3 DEF Placement
    <2>9. Running(r)
      BY <2>2 DEF Running, r
    <2>10. \A t \in 1 .. tasks' : t \in 1 .. tasks /\ t \in Task
      BY <2>1, FuturesAssumption DEF TypeOK, Task
    <2>11. \A t \in 1 .. tasks' :
             /\ Queued(t)' \/ Running(t)' \/ doneCh'[t]
             /\ ~(Queued(t)' /\ Running(t)')
             /\ ~(Queued(t)' /\ doneCh'[t])
             /\ ~(Running(t)' /\ doneCh'[t])
      BY <2>4, <2>6, <2>7, <2>9, <2>10 DEF Placement
    <2>12. \A t \in Task : doneCh'[t] => t <= tasks'
      BY <1>0, <2>1, <2>4, <2>6 DEF Placement
    <2>13. \A i, j \in DOMAIN queue' : queue'[i] = queue'[j] => i = j
      BY <2>1 DEF Placement
    <2> QED BY <2>8, <2>11, <2>12, <2>13 DEF Placement
  <1>5. ASSUME NEW w \in Worker, Run(w)
        PROVE  Placement'
    <2>1. UNCHANGED <<tasks, queue, runs, doneCh>>
      BY <1>0, <1>5 DEF Run, WorkerStep
    <2>2. \A u \in Worker : Busy(u)' <=> Busy(u)
      BY <1>0, <1>5 DEF Run, WorkerStep
    <2> QED BY <1>2, <2>1, <2>2
  <1>6. CASE CloseQueue
    <2>1. UNCHANGED <<tasks, queue, runs, doneCh>>
      BY <1>6 DEF CloseQueue
    <2>2. \A u \in Worker : Busy(u)' <=> Busy(u)
      BY <1>0, <1>6 DEF CloseQueue
    <2> QED BY <1>2, <2>1, <2>2
  <1>7. CASE Quiet
    BY <1>2, <1>7 DEF Quiet
  <1>8. ~NewDemoFuture /\ \A t \in Task : ~OwnWork(t)
    BY DEF NewDemoFuture, OwnWork, Fn, Store, CloseNotify, OwnStep, Apart
  <1> QED BY <1>1, <1>3, <1>4, <1>5, <1>6, <1>7, <1>8, QuietSteps

-----------------------------------------------------------------------------
(* What a Get returns                                                      *)

LEMMA ResultsStep ==
  ASSUME TypeOK, Created, Apart, pooled => Placement, Results, [Next]_vars
  PROVE  Results'
  <1>0. /\ tasks \in Nat /\ MaxTasks \in Nat /\ tasks \in 0 .. MaxTasks
        /\ at \in [Worker -> {"poll", "parked", "fn", "close", "exit"}]
        /\ runs \in [Worker -> 0 .. tasks] /\ doneCh \in [Task -> BOOLEAN]
        /\ state \in [Task -> BOOLEAN] /\ v \in [Task -> {0} \cup Task]
        /\ own \in [Task -> {"none", "fn", "store", "close", "end"}]
        /\ pc \in [Goroutine -> {"idle", "select", "look", "notify", "read", "panic"}]
        /\ task \in [Goroutine -> 0 .. tasks]
        /\ taskMap \in [Promise -> 0 .. tasks]
        /\ \A t \in Task : t \in Nat
    BY FuturesAssumption DEF TypeOK, Task
  <1> USE DEF poolVars, demoVars, callerVars
  <1>b. /\ \A w \in Worker : at[w] \in {"fn", "close"} => pooled /\ runs[w] \in Task
        /\ 1 .. tasks \subseteq Task
    BY <1>0 DEF Apart, Busy, Placement, Task
  (* What a function has returned stays, and tasks are only added. *)
  <1>1. tasks <= tasks' /\ \A x \in Task : v[x] = x => v'[x] = x
    <2>1. ASSUME NEW w \in Worker, Run(w)
          PROVE  v' = [v EXCEPT ![runs[w]] = runs[w]] /\ UNCHANGED tasks
      BY <2>1 DEF Run, WorkerStep
    <2>2. ASSUME NEW t \in Task, Fn(t)
          PROVE  v' = [v EXCEPT ![t] = t] /\ UNCHANGED tasks
      BY <2>2 DEF Fn, OwnStep
    <2>3. \/ UNCHANGED v
          \/ \E w \in Worker : Run(w)
          \/ \E t \in Task : Fn(t)
      BY QuietSteps DEF Resolve, NewDemoFuture, PollWait, CloseDone, CloseQueue, OwnWork,
         Store, CloseNotify, Quiet
    <2>4. tasks' = tasks \/ tasks' = tasks + 1
      BY QuietSteps DEF Resolve, NewDemoFuture, NewTask, PollWait, Run, CloseDone, WorkerStep,
         CloseQueue, OwnWork, Fn, Store, CloseNotify, OwnStep, Quiet
    <2> QED BY <1>0, <2>1, <2>2, <2>3, <2>4
  <1>2. \A t \in Task : doneCh'[t] \/ state'[t] => v'[t] = t
    <2>1. CASE UNCHANGED <<doneCh, state>>
      BY <1>1, <2>1 DEF Results
    <2>2. ASSUME NEW w \in Worker, CloseDone(w)
          PROVE  \A t \in Task : doneCh'[t] \/ state'[t] => v'[t] = t
      <3>1. /\ doneCh' = [doneCh EXCEPT ![runs[w]] = TRUE] /\ state' = state
            /\ at[w] = "close" /\ v' = v
        BY <2>2 DEF CloseDone, WorkerStep
      <3>2. v[runs[w]] = runs[w]
        BY <3>1 DEF Results
      <3> QED BY <1>0, <1>1, <3>1, <3>2 DEF Results
    <2>3. ASSUME NEW t \in Task, Store(t) \/ CloseNotify(t)
          PROVE  \A x \in Task : doneCh'[x] \/ state'[x] => v'[x] = x
      <3>1. /\ own[t] \in {"store", "close"} /\ v' = v
            /\ \/ doneCh' = [doneCh EXCEPT ![t] = TRUE] /\ state' = state
               \/ state' = [state EXCEPT ![t] = TRUE] /\ doneCh' = doneCh
        BY <2>3 DEF Store, CloseNotify, OwnStep
      <3>2. v[t] = t
        BY <3>1 DEF Results
      <3> QED BY <1>0, <3>1, <3>2 DEF Results
    <2> QED BY <2>1, <2>2, <2>3, QuietSteps DEF Resolve, NewDemoFuture, PollWait, Run,
            WorkerStep, CloseQueue, OwnWork, Fn, OwnStep, Quiet
  <1>3. \A w \in Worker : at'[w] = "close" => v'[runs'[w]] = runs'[w]
    <2>1. CASE /\ runs' = runs
               /\ \A w \in Worker : at'[w] = "close" => at[w] = "close"
      BY <1>b, <1>1, <2>1 DEF Results
    <2>2. ASSUME NEW p \in Promise, Resolve(p)
          PROVE  runs' = runs /\ \A w \in Worker : at'[w] = "close" => at[w] = "close"
      BY <1>0, <2>2, SignalStep DEF Resolve
    <2>3. ASSUME NEW w \in Worker, PollWait(w) \/ CloseDone(w)
          PROVE  \A u \in Worker : at'[u] = "close" => v'[runs'[u]] = runs'[u]
      <3>1. \A u \in Worker : at'[u] = "close" => at[u] = "close" /\ u # w
        BY <1>0, <2>3 DEF PollWait, CloseDone, WorkerStep
      <3>2. \A u \in Worker : u # w => runs'[u] = runs[u]
        BY <1>0, <2>3 DEF PollWait, CloseDone, WorkerStep
      <3> QED BY <1>b, <1>1, <3>1, <3>2 DEF Results
    <2>4. ASSUME NEW w \in Worker, Run(w)
          PROVE  \A u \in Worker : at'[u] = "close" => v'[runs'[u]] = runs'[u]
      <3>1. /\ at[w] = "fn" /\ at' = [at EXCEPT ![w] = "close"]
            /\ v' = [v EXCEPT ![runs[w]] = runs[w]]
        BY <2>4 DEF Run, WorkerStep
      <3>2. \A u \in Worker : runs'[u] = runs[u]
        BY <1>0, <2>4 DEF Run, WorkerStep
      <3>3. v'[runs[w]] = runs[w]
        BY <1>0, <1>b, <3>1
      <3>4. \A u \in Worker : at'[u] = "close" => u = w \/ at[u] = "close"
        BY <1>0, <3>1
      <3> QED BY <1>b, <1>1, <3>2, <3>3, <3>4 DEF Results
    <2>5. CASE CloseQueue
      BY <1>0, <2>1, <2>5 DEF CloseQueue
    <2>6. CASE UNCHANGED <<at, runs>>
      BY <2>1, <2>6
    <2> QED BY <2>1, <2>2, <2>3, <2>4, <2>5, <2>6, QuietSteps
            DEF NewDemoFuture, OwnWork, Fn, Store, CloseNotify, OwnStep, Quiet
  <1>4. \A t \in Task : own'[t] \in {"store", "close", "end"} => v'[t] = t
    <2>1. CASE UNCHANGED own
      BY <1>1, <2>1 DEF Results
    <2>2. CASE NewDemoFuture
      <3>1. \A t \in Task : own'[t] \in {"store", "close", "end"} => own'[t] = own[t]
        BY <1>0, <2>2 DEF NewDemoFuture
      <3> QED BY <1>1, <3>1 DEF Results
    <2>3. ASSUME NEW t \in Task, Fn(t)
          PROVE  \A x \in Task : own'[x] \in {"store", "close", "end"} => v'[x] = x
      <3>1. v' = [v EXCEPT ![t] = t] /\ own' = [own EXCEPT ![t] = "store"]
        BY <2>3 DEF Fn, OwnStep
      <3> QED BY <1>0, <1>1, <3>1 DEF Results
    <2>4. ASSUME NEW t \in Task, Store(t) \/ CloseNotify(t)
          PROVE  \A x \in Task : own'[x] \in {"store", "close", "end"} => v'[x] = x
      <3>1. /\ own[t] \in {"store", "close"} /\ v' = v
            /\ own' = [own EXCEPT ![t] = "close"] \/ own' = [own EXCEPT ![t] = "end"]
        BY <2>4 DEF Store, CloseNotify, OwnStep
      <3> QED BY <1>0, <3>1 DEF Results
    <2> QED BY <2>1, <2>2, <2>3, <2>4, QuietSteps DEF Resolve, PollWait, Run, CloseDone,
            WorkerStep, CloseQueue, OwnWork, Quiet
  <1>5. CallerResults'
    <2>0. \A t \in 1 .. tasks : t \in 1 .. tasks'
      <3>1. tasks' = tasks \/ tasks' = tasks + 1
        BY QuietSteps DEF Resolve, NewDemoFuture, NewTask, PollWait, Run, CloseDone, WorkerStep,
           CloseQueue, OwnWork, Fn, Store, CloseNotify, OwnStep, Quiet
      <3> QED BY <1>0, <3>1
    <2>1. CASE UNCHANGED <<pc, task>>
      BY <1>b, <1>1, <2>0, <2>1 DEF Results, CallerResults
    <2>2. ASSUME NEW g \in Goroutine, NEW t, NEW to, Look(g, t, to),
                 to \in {"select", "look", "notify", "read"} => t \in 1 .. tasks,
                 to = "read" => v[t] = t
          PROVE  CallerResults'
      <3>1. pc' = [pc EXCEPT ![g] = to] /\ task' = [task EXCEPT ![g] = t] /\ UNCHANGED <<tasks, v>>
        BY <2>2 DEF Look
      <3> QED BY <1>0, <2>2, <3>1 DEF Results, CallerResults
    <2>3. ASSUME NEW g \in Goroutine, NEW p \in Promise, Get(g, p) \/ Poll(g, p)
          PROVE  CallerResults'
      <3>1. taskMap[p] # 0 => taskMap[p] \in 1 .. tasks
        BY <1>0
      <3>2. \E to \in {"select", "look", "panic"} :
               Look(g, taskMap[p], to) /\ (taskMap[p] = 0 => to = "panic")
        BY <2>3 DEF Get, Poll, LookUp
      <3> QED BY <2>2, <3>1, <3>2
    <2>4. ASSUME NEW g \in Goroutine, NEW t \in Task, DemoGet(g, t)
          PROVE  CallerResults'
      <3>1. t \in 1 .. tasks
        BY <1>0, <2>4 DEF DemoGet, Created, Task
      <3>2. \E to \in {"read", "notify"} : Look(g, t, to) /\ (to = "read" => state[t])
        BY <2>4 DEF DemoGet
      <3> QED BY <2>2, <3>1, <3>2 DEF Results
    <2>5. ASSUME NEW g \in Goroutine, CallerWork(g)
          PROVE  CallerResults'
      <3>1. /\ UNCHANGED <<tasks, v>>
            /\ \/ \E to \in {"idle", "panic"} : pc' = [pc EXCEPT ![g] = to]
               \/ pc[g] = "notify" /\ pc' = [pc EXCEPT ![g] = "read"] /\ doneCh[task[g]]
                  /\ task' = task
            /\ \A h \in Goroutine : h # g => task'[h] = task[h]
        BY <1>0, <2>5 DEF CallerWork, Select, SelectCancel, LookNow, Await, Read, Answer
      <3> QED BY <1>0, <1>b, <3>1 DEF Results, CallerResults
    <2>6. \/ UNCHANGED <<pc, task>>
          \/ \E g \in Goroutine, p \in Promise : Get(g, p) \/ Poll(g, p)
          \/ \E g \in Goroutine, t \in Task : DemoGet(g, t)
          \/ \E g \in Goroutine : CallerWork(g)
      BY DEF Next, Resolve, NewDemoFuture, WorkerWork, PollWait, Run, CloseDone, WorkerStep,
         OwnWork, Fn, Store, CloseNotify, OwnStep, Cancel, CloseQueue, vars
    <2> QED BY <2>1, <2>3, <2>4, <2>5, <2>6
  <1> QED BY <1>2, <1>3, <1>4, <1>5 DEF Results

-----------------------------------------------------------------------------
(* No worker sleeps beside work                                            *)

LEMMA Counts ==
  ASSUME NEW S \in SUBSET Worker, NEW w \in Worker
  PROVE  /\ Cardinality(S) \in Nat
         /\ w \notin S => Cardinality(S \cup {w}) = Cardinality(S) + 1
         /\ w \in S => Cardinality(S \ {w}) = Cardinality(S) - 1
  <1>1. IsFiniteSet(S) /\ Cardinality(S) \in Nat
    BY FuturesAssumption, FS_Subset, FS_CardinalityType
  <1>2. CASE w \notin S
    BY <1>1, <1>2, FS_AddElement
  <1>3. CASE w \in S
    BY <1>1, <1>3, FS_RemoveElement
  <1> QED BY <1>1, <1>2, <1>3

(* The workers that poll are enough for the list, unless none is parked.   *)
LEMMA WorkConservingStep ==
  ASSUME TypeOK, WorkConserving, [Next]_vars
  PROVE  WorkConserving'
  <1>0. /\ at \in [Worker -> {"poll", "parked", "fn", "close", "exit"}]
        /\ Polling \in SUBSET Worker /\ IsFiniteSet(Worker)
        /\ tasks \in Nat
    BY FuturesAssumption DEF TypeOK, Polling
  <1>q. Len(queue) \in Nat /\ (queue = <<>> => Len(queue) = 0)
    <2> DEFINE S == 1 .. tasks
    <2>1. queue \in Seq(S)
      BY DEF TypeOK
    <2> HIDE DEF S
    <2> QED BY <2>1
  <1>c. Cardinality(Polling) \in Nat
    BY <1>0, FS_Subset, FS_CardinalityType
  <1>i. notify # <<>> => Len(queue) <= Cardinality(Polling)
    BY DEF WorkConserving, Polling
  <1>g. SUFFICES notify' # <<>> => Len(queue') <= Cardinality(Polling')
    BY DEF WorkConserving, Polling
  <1>1. ASSUME NEW p \in Promise, Resolve(p), notify # <<>>
        PROVE  notify' # <<>> => Len(queue') <= Cardinality(Polling')
    <2>1. Len(queue') = Len(queue) + 1
      <3> DEFINE S == 1 .. tasks + 1
      <3>1. queue' = Append(queue, tasks + 1)
        BY <1>1 DEF Resolve, NewTask
      <3> QED BY <3>1
    <2>2. PICK w \in Worker : at[w] = "parked" /\ at' = [at EXCEPT ![w] = "poll"]
      BY <1>1, SignalStep DEF Resolve
    <2>3. Polling' = Polling \cup {w} /\ w \notin Polling
      BY <1>0, <2>2 DEF Polling
    <2>4. Cardinality(Polling') = Cardinality(Polling) + 1
      BY <1>0, <2>3, Counts
    <2> QED BY <1>q, <1>c, <1>i, <1>1, <2>1, <2>4
  <1>2. ASSUME NEW p \in Promise, Resolve(p), notify = <<>>
        PROVE  notify' = <<>>
    BY <1>2 DEF Resolve, Signal
  <1>3. ASSUME NEW w \in Worker, PollWait(w)
        PROVE  notify' # <<>> => Len(queue') <= Cardinality(Polling')
    <2>1. Polling' = Polling \ {w} /\ w \in Polling
      BY <1>0, <1>3 DEF PollWait, Polling
    <2>2. Cardinality(Polling') = Cardinality(Polling) - 1 /\ Cardinality(Polling') \in Nat
      <3>1. Polling \ {w} \in SUBSET Worker
        BY <1>0
      <3> QED BY <1>0, <2>1, <3>1, Counts
    <2>3. CASE queue = <<>>
      <3>1. queue' = queue
        BY <1>3, <2>3 DEF PollWait
      <3> QED BY <1>q, <2>2, <2>3, <3>1
    <2>4. CASE queue # <<>>
      <3>1. notify' = notify /\ queue' = Tail(queue)
        BY <1>3, <2>4 DEF PollWait
      <3>2. Len(queue') = Len(queue) - 1
        <4> DEFINE S == 1 .. tasks
        <4>1. queue \in Seq(S)
          BY DEF TypeOK
        <4> HIDE DEF S
        <4> QED BY <2>4, <3>1, <4>1
      <3> QED BY <1>q, <1>c, <1>i, <2>2, <3>1, <3>2
    <2> QED BY <2>3, <2>4
  <1>4. ASSUME NEW w \in Worker, CloseDone(w)
        PROVE  notify' # <<>> => Len(queue') <= Cardinality(Polling')
    <2>1. /\ Polling' = Polling \cup {w} /\ w \notin Polling
          /\ notify' = notify /\ queue' = queue
      BY <1>0, <1>4 DEF CloseDone, WorkerStep, Polling
    <2>2. Cardinality(Polling') = Cardinality(Polling) + 1
      BY <1>0, <2>1, Counts
    <2> QED BY <1>q, <1>c, <1>i, <2>1, <2>2
  <1>5. CASE CloseQueue
    BY <1>5 DEF CloseQueue
  <1>6. CASE UNCHANGED <<queue, notify>> /\ Polling' = Polling
    BY <1>i, <1>6
  <1>7. ASSUME NEW w \in Worker, Run(w)
        PROVE  UNCHANGED <<queue, notify>> /\ Polling' = Polling
    BY <1>0, <1>7 DEF Run, WorkerStep, Polling
  <1>8. ASSUME NewDemoFuture \/ (\E t \in Task : OwnWork(t)) \/ Quiet
        PROVE  UNCHANGED <<queue, notify>> /\ Polling' = Polling
    BY <1>8 DEF NewDemoFuture, OwnWork, Fn, Store, CloseNotify, OwnStep, Quiet, poolVars, Polling
  <1> QED BY <1>1, <1>2, <1>3, <1>4, <1>5, <1>6, <1>7, <1>8, QuietSteps

-----------------------------------------------------------------------------
(* Theorems                                                                *)

LEMMA Start == Init => Inv
  <1> SUFFICES ASSUME Init PROVE Inv
    OBVIOUS
  <1>1. Created /\ Apart /\ Results
    BY DEF Init, Created, Apart, Results, CallerResults, Busy
  <1>2. Placement
    <2>1. \A t \in 1 .. tasks : FALSE
      BY DEF Init
    <2> QED BY <2>1 DEF Init, Placement, Busy
  <1>3. WorkConserving
    BY DEF Init, WorkConserving
  <1> QED BY <1>1, <1>2, <1>3, TypeStart DEF Inv

LEMMA Invariance == Spec => []Inv
  <1>1. Inv /\ [Next]_vars => Inv'
    <2> SUFFICES ASSUME Inv, [Next]_vars PROVE Inv'
      OBVIOUS
    <2>1. TypeOK' /\ Created' /\ Apart' /\ WorkConserving'
      BY TypeStep, CreatedStep, ApartStep, WorkConservingStep DEF Inv
    <2>2. Results'
      BY ResultsStep DEF Inv
    <2>3. pooled' = pooled
      BY QuietSteps DEF Resolve, NewDemoFuture, PollWait, Run, CloseDone, WorkerStep, CloseQueue,
         OwnWork, Fn, Store, CloseNotify, OwnStep, Quiet, poolVars
    <2>4. pooled' => Placement'
      BY <2>3, PlacementStep DEF Inv
    <2> QED BY <2>1, <2>2, <2>4 DEF Inv
  <1> QED BY <1>1, Start, PTL DEF Spec

(* The goroutines on the notify list are the parked workers, once each.    *)
THEOREM TypeCorrectness == Spec => []TypeOK
  <1>1. Inv => TypeOK
    BY DEF Inv
  <1> QED BY <1>1, Invariance, PTL

(* Every task that the pool accepts is in one place: in the list, with one *)
(* worker, or done.                                                        *)
THEOREM EveryTaskRunsOnce == Spec => []RunsOnce
  <1>1. ASSUME Inv PROVE RunsOnce
    <2> SUFFICES ASSUME pooled, NEW t \in 1 .. tasks
                 PROVE  LET queued  == {i \in DOMAIN queue : queue[i] = t}
                            running == {w \in Worker : Busy(w) /\ runs[w] = t}
                        IN  Cardinality(queued) + Cardinality(running)
                              + (IF doneCh[t] THEN 1 ELSE 0) = 1
      BY DEF RunsOnce
    <2> DEFINE queued  == {i \in DOMAIN queue : queue[i] = t}
               running == {w \in Worker : Busy(w) /\ runs[w] = t}
    <2>0. Placement
      BY <1>1 DEF Inv
    <2>1. /\ ~Queued(t) => Cardinality(queued) = 0
          /\ Queued(t) => Cardinality(queued) = 1
      <3>1. ~Queued(t) => queued = {}
        BY DEF Queued
      <3>2. ASSUME Queued(t) PROVE \E i : queued = {i}
        <4>1. PICK i \in DOMAIN queue : queue[i] = t
          BY <3>2 DEF Queued
        <4>2. \A j \in DOMAIN queue : queue[j] = t => j = i
          BY <2>0, <4>1 DEF Placement
        <4>3. queued = {i}
          BY <4>1, <4>2
        <4> QED BY <4>3
      <3> HIDE DEF queued
      <3> QED BY <3>1, <3>2, FS_EmptySet, FS_Singleton
    <2>2. /\ ~Running(t) => Cardinality(running) = 0
          /\ Running(t) => Cardinality(running) = 1
      <3>1. ~Running(t) => running = {}
        BY DEF Running
      <3>2. Running(t) => \E w : running = {w}
        BY <2>0 DEF Running, Placement
      <3> HIDE DEF running
      <3> QED BY <3>1, <3>2, FS_EmptySet, FS_Singleton
    <2>3. /\ Queued(t) \/ Running(t) \/ doneCh[t]
          /\ ~(Queued(t) /\ Running(t))
          /\ ~(Queued(t) /\ doneCh[t])
          /\ ~(Running(t) /\ doneCh[t])
      BY <2>0 DEF Placement
    <2> HIDE DEF queued, running
    <2>4. Cardinality(queued) + Cardinality(running) + (IF doneCh[t] THEN 1 ELSE 0) = 1
      BY <2>1, <2>2, <2>3
    <2> QED BY <2>4 DEF queued, running
  <1> QED BY <1>1, Invariance, PTL

(* No worker sleeps beside work.                                           *)
THEOREM NobodySleepsBesideWork == Spec => []WorkConserving
  <1>1. Inv => WorkConserving
    BY DEF Inv
  <1> QED BY <1>1, Invariance, PTL

(* A Get or Poll that returns a value returns the one fn returned.         *)
THEOREM GetReturnsTheResult == Spec => ReadsResult
  <1>1. Inv /\ [Next]_vars => [ReturnsResult]_vars
    <2> SUFFICES ASSUME Inv, [Next]_vars, NEW g \in Goroutine,
                        pc[g] \in {"select", "look", "read"}, pc'[g] = "idle"
                 PROVE  \/ v[task[g]] = task[g]
                        \/ pc[g] = "look" /\ ~doneCh[task[g]]
      BY DEF ReturnsResult
    <2>1. /\ pc \in [Goroutine -> {"idle", "select", "look", "notify", "read", "panic"}]
          /\ task[g] \in Task
      BY FuturesAssumption DEF Inv, TypeOK, Results, CallerResults, Task
    <2>2. CASE pc[g] = "select"
      <3>1. Select(g)
        BY <2>1, <2>2 DEF Next, Resolve, NewDemoFuture, WorkerWork, PollWait, Run, CloseDone,
           WorkerStep, OwnWork, Fn, Store, CloseNotify, OwnStep, Cancel, CloseQueue, vars,
           callerVars, Get, Poll, LookUp, DemoGet, Look, CallerWork, Select, SelectCancel,
           LookNow, Await, Read, Answer
      <3> QED BY <2>1, <3>1 DEF Select, Inv, Results
    <2>3. CASE pc[g] = "look"
      BY <2>1, <2>3 DEF Inv, Results
    <2>4. CASE pc[g] = "read"
      BY <2>4 DEF Inv, Results, CallerResults
    <2> QED BY <2>2, <2>3, <2>4
  <1> QED BY <1>1, Invariance, PTL DEF Spec, ReadsResult

=============================================================================
