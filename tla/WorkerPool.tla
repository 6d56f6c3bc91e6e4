----------------------------- MODULE WorkerPool ------------------------------
(***************************************************************************)
(* WorkerThreadPool (util_threadpool.h) over AtomicQueue                   *)
(* (util_atomic_queue.h): one producer that schedules, toggles idle        *)
(* waiting and destroys the pool, N workers that pop, steal and sleep, and *)
(* one consumer of the futures (the CS thread).                            *)
(*                                                                         *)
(* The n-th accepted task is the number n; its result is n too.  A step is *)
(* an access to a variable another thread reads or writes; what a mutex    *)
(* covers is one step, except the pop, whose spinlock the producer does    *)
(* not take.                                                               *)
(***************************************************************************)
EXTENDS Integers, Sequences, FiniteSets, FiniteSetsExt

CONSTANTS N,                 \* m_numThread
          NumTasksPerThread, \* capacity of a ring, one slot of which stays free
          Pools,             \* instantiations of the template, one per behaviour
          MaxTasks,          \* bound: tasks accepted
          MaxToggles         \* bound: calls of setIdleWaiting

ASSUME WorkersAssumption  == N \in Nat \ {0}
ASSUME CapacityAssumption == NumTasksPerThread \in Nat \ {0, 1}
ASSUME PoolAssumption ==
    /\ {MaxTasks, MaxToggles} \subseteq Nat
    /\ Pools \subseteq [stealing : BOOLEAN, lowLatency : BOOLEAN, idle : BOOLEAN,
                       collected : BOOLEAN]
    /\ \A p \in Pools : p.idle => p.lowLatency /\ p.stealing

Workers  == 0 .. N - 1
Position == 0 .. NumTasksPerThread - 1

(* m_taskCount: a power of two, so that a mask does as a modulo.           *)
TaskCount == Min({2 ^ k : k \in 0 .. N * NumTasksPerThread} \cap
                 {n \in 1 .. 2 * N * NumTasksPerThread : n >= N * NumTasksPerThread})

ASSUME TaskCountAssumption == TaskCount \in Nat /\ TaskCount >= N * NumTasksPerThread

Slot(t) == t % TaskCount
Task    == 0 .. MaxTasks - 1

Nobody == -1

VARIABLES
    pool,       \* the instantiation of this behaviour
    stopWork, enabled, numTasks,
    head, tail, data,            \* m_workerTasks
    lock,                        \* holder of m_threadMutex
    slots,                       \* m_tasks
    taskId, schedulerIndex,
    ppc, target, toggles,        \* the producer
    wpc, victim, popped, item,   \* the workers
    futures,                     \* futures the consumer holds, oldest first
    started, cancelled,          \* history: tasks that ran, tasks the destructor cancelled
    overrun                      \* history: a task was captured over one not yet finished

ring     == <<head, tail, data>>
producer == <<ppc, target, toggles, taskId, schedulerIndex>>
worker   == <<wpc, victim, popped, item>>
history  == <<started, cancelled, overrun>>
vars == <<pool, stopWork, enabled, numTasks, ring, lock, slots, producer,
          worker, futures, history>>

Empty == [task |-> Nobody, thunk |-> FALSE, hasResult |-> FALSE, disposed |-> FALSE]

(* Result::get and Result::cancel leave the same flags.                    *)
Disposed(s) == [s EXCEPT !.hasResult = FALSE, !.disposed = TRUE]

Init ==
    /\ pool \in Pools
    /\ stopWork = FALSE /\ enabled = pool.idle /\ numTasks = 0
    /\ head = [w \in Workers |-> 0]
    /\ tail = [w \in Workers |-> 0]
    /\ data = [w \in Workers |-> [i \in Position |-> 0]]
    /\ lock = Nobody
    /\ slots = [s \in 0 .. TaskCount - 1 |-> Empty]
    /\ taskId = 0 /\ schedulerIndex = 0
    /\ ppc = "idle" /\ target = 0 /\ toggles = 0
    /\ wpc = [w \in Workers |-> "start"]
    /\ victim = [w \in Workers |-> w]
    /\ popped = [w \in Workers |-> 0]
    /\ item = [w \in Workers |-> 0]
    /\ futures = <<>>
    /\ started = {} /\ cancelled = {} /\ overrun = FALSE

-----------------------------------------------------------------------------
(* The ring.                                                               *)

Succ(i) == IF i + 1 = NumTasksPerThread THEN 0 ELSE i + 1

isFull(w)  == Succ(tail[w]) = head[w]
isEmpty(w) == head[w] = tail[w]

(* Positions of ring w that hold a task.                                   *)
Occupied(w) == IF head[w] <= tail[w] THEN head[w] .. tail[w] - 1
               ELSE Position \ (tail[w] .. head[w] - 1)

idleWaiting == pool.idle /\ enabled

(* m_numTasks > 0, of an unsigned counter.                                 *)
HasTasks == numTasks # 0

-----------------------------------------------------------------------------
(* Wake-ups: the sleepers of the one condition variable the pool has.  A   *)
(* worker in high-latency mode evaluates its predicate at the loop's head. *)

Asleep == {w \in Workers : wpc[w] = "asleep"}
Woken(ws) == [w \in Workers |-> IF w \notin ws THEN wpc[w]
                                ELSE IF pool.lowLatency THEN "waking" ELSE "start"]

NotifyAll == wpc' = Woken(Asleep)
NotifyOne == \/ Asleep = {} /\ UNCHANGED wpc
             \/ \E w \in Asleep : wpc' = Woken({w})

(* Mutant: a wake-up is forgotten.                                         *)
NotifyNobody == UNCHANGED wpc

-----------------------------------------------------------------------------
(* The producer.                                                           *)

Held     == {futures[i] : i \in DOMAIN futures}
Finished(t) == t < taskId /\ ~(slots[Slot(t)].task = t /\ slots[Slot(t)].thunk)

Captured(t) == [task |-> t, thunk |-> TRUE, hasResult |-> FALSE, disposed |-> FALSE]

(* Mutant: the task is counted once it has been published.                *)
CountedLate(step) == IF step = "notify" THEN 1 ELSE 0

(* What a step of Schedule adds to m_numTasks: the task is accounted for   *)
(* before it is published.                                                 *)
Counted(step) == IF step = "schedule" THEN 1 ELSE 0

(* Schedule up to the count.  Only a full ring refuses a task: the slot is *)
(* captured whether or not the task it had is finished, or its future      *)
(* consumed.                                                               *)
Schedule ==
    /\ ppc = "idle" /\ ~stopWork
    /\ taskId < MaxTasks
    /\ target' = schedulerIndex
    /\ schedulerIndex' = (schedulerIndex + 1) % N
    /\ IF isFull(target')
       THEN UNCHANGED <<taskId, slots, numTasks, futures, ppc, overrun>>
       ELSE /\ taskId' = taskId + 1
            /\ slots' = [slots EXCEPT ![Slot(taskId)] = Captured(taskId)]
            /\ overrun' = (overrun \/ slots[Slot(taskId)].thunk)
            /\ numTasks' = numTasks + Counted("schedule")
            /\ futures' = IF pool.collected THEN Append(futures, taskId) ELSE futures
            /\ ppc' = "write"
    /\ UNCHANGED <<pool, stopWork, enabled, ring, lock, toggles, worker, started, cancelled>>

(* push, whose result Schedule ignores: a full ring drops the task, else   *)
(* the item is stored and then the tail published.                         *)
PushWrite ==
    /\ ppc = "write"
    /\ IF isFull(target)
       THEN /\ UNCHANGED data
            /\ ppc' = "notify"
       ELSE /\ data' = [data EXCEPT ![target][tail[target]] = Slot(taskId - 1)]
            /\ ppc' = "publish"
    /\ UNCHANGED <<pool, stopWork, enabled, numTasks, head, tail, lock, slots, target,
                   toggles, taskId, schedulerIndex, worker, futures, history>>

PushPublish ==
    /\ ppc = "publish"
    /\ tail' = [tail EXCEPT ![target] = Succ(tail[target])]
    /\ ppc' = "notify"
    /\ UNCHANGED <<pool, stopWork, enabled, numTasks, head, data, lock, slots, target, toggles,
                   taskId, schedulerIndex, worker, futures, history>>

ScheduleNotify ==
    /\ ppc = "notify"
    /\ IF idleWaiting \/ ~pool.lowLatency
       THEN IF pool.stealing THEN NotifyOne ELSE NotifyAll
       ELSE UNCHANGED wpc
    /\ numTasks' = numTasks + Counted("notify")
    /\ ppc' = "idle"
    /\ UNCHANGED <<pool, stopWork, enabled, ring, lock, slots, target, toggles,
                   taskId, schedulerIndex, victim, popped, item, futures, history>>

(* setIdleWaiting: the exchange, then the notification under the mutex.    *)
SetIdleWaiting ==
    /\ ppc = "idle" /\ ~stopWork /\ pool.idle
    /\ toggles < MaxToggles
    /\ toggles' = toggles + 1
    /\ enabled' = ~enabled
    /\ ppc' = "toggled"
    /\ UNCHANGED <<pool, stopWork, numTasks, ring, lock, slots, target, taskId,
                   schedulerIndex, worker, futures, history>>

ToggleWakes == NotifyAll

ToggleNotify ==
    /\ ppc = "toggled" /\ ToggleWakes
    /\ ppc' = "idle"
    /\ UNCHANGED <<pool, stopWork, enabled, numTasks, ring, lock, slots, target, toggles,
                   taskId, schedulerIndex, victim, popped, item, futures, history>>

(* The destructor: stop, notify under the mutex, join, drain.              *)
StopWork ==
    /\ ppc = "idle" /\ ~stopWork
    /\ stopWork' = TRUE
    /\ ppc' = "stopping"
    /\ UNCHANGED <<pool, enabled, numTasks, ring, lock, slots, target, toggles, taskId,
                   schedulerIndex, worker, futures, history>>

StopWakes == IF pool.idle \/ ~pool.lowLatency THEN NotifyAll ELSE UNCHANGED wpc

StopNotify ==
    /\ ppc = "stopping" /\ StopWakes
    /\ ppc' = "joining"
    /\ UNCHANGED <<pool, stopWork, enabled, numTasks, ring, lock, slots, target, toggles,
                   taskId, schedulerIndex, victim, popped, item, futures, history>>

AfterJoin == IF HasTasks THEN "draining" ELSE "gone"

Join ==
    /\ ppc = "joining"
    /\ \A w \in Workers : wpc[w] = "exited"
    /\ ppc' = AfterJoin
    /\ UNCHANGED <<pool, stopWork, enabled, numTasks, ring, lock, slots, target, toggles,
                   taskId, schedulerIndex, worker, futures, history>>

(* Mutant: the destructor executes a task it did not cancel.               *)
DrainExecutes(t) == started \cup {t}

(* The tasks that ran once the cancelled t is executed: its lambda is      *)
(* destroyed only.                                                         *)
AfterDrain(t) == started

FirstFilled == Min({w \in Workers : ~isEmpty(w)})

Drain ==
    /\ ppc = "draining"
    /\ \E w \in Workers : ~isEmpty(w)
    /\ LET w == FirstFilled
           s == data[w][head[w]]
           t == slots[s].task
       IN /\ slots[s].thunk
          /\ head' = [head EXCEPT ![w] = Succ(head[w])]
          /\ slots' = [slots EXCEPT ![s] = [Disposed(@) EXCEPT !.thunk = FALSE]]
          /\ cancelled' = cancelled \cup {t}
          /\ started' = AfterDrain(t)
    /\ numTasks' = numTasks - 1
    /\ UNCHANGED <<pool, stopWork, enabled, tail, data, lock, producer, worker,
                   futures, overrun>>

Drained ==
    /\ ppc = "draining"
    /\ \A w \in Workers : isEmpty(w)
    /\ ppc' = "gone"
    /\ UNCHANGED <<pool, stopWork, enabled, numTasks, ring, lock, slots, target, toggles,
                   taskId, schedulerIndex, worker, futures, history>>

-----------------------------------------------------------------------------
(* processWork.                                                            *)

Goto(w, pc) == wpc' = [wpc EXCEPT ![w] = pc]

(* The head of the loop: the wait of the high-latency mode, the halt, and  *)
(* on to the worker's own ring.                                            *)
LoopHead(w) ==
    /\ wpc[w] = "start"
    /\ Goto(w, IF ~pool.lowLatency /\ ~HasTasks /\ ~stopWork THEN "asleep"
               ELSE IF stopWork THEN "exited" ELSE "pop")
    /\ UNCHANGED <<pool, stopWork, enabled, numTasks, ring, lock, slots, producer,
                   victim, popped, item, futures, history>>

(* Mutant: pop without m_threadMutex.                                      *)
NoLock == TRUE

LockFree == lock = Nobody

NextVictim(w) == (victim[w] + 1) % N

(* executeTask takes the spinlock; pop finds the ring empty, or publishes  *)
(* the new head.                                                           *)
PopEmpty(w) ==
    /\ wpc[w] = "pop" /\ LockFree
    /\ isEmpty(victim[w])
    /\ IF pool.stealing /\ NextVictim(w) # w
       THEN /\ victim' = [victim EXCEPT ![w] = NextVictim(w)]
            /\ UNCHANGED wpc
       ELSE /\ Goto(w, IF pool.idle THEN "empty" ELSE "start")
            /\ victim' = [victim EXCEPT ![w] = w]
    /\ UNCHANGED <<pool, stopWork, enabled, numTasks, ring, lock, slots, producer,
                   popped, item, futures, history>>

PopPublish(w) ==
    /\ wpc[w] = "pop" /\ LockFree
    /\ ~isEmpty(victim[w])
    /\ popped' = [popped EXCEPT ![w] = head[victim[w]]]
    /\ head' = [head EXCEPT ![victim[w]] = Succ(head[victim[w]])]
    /\ lock' = w
    /\ Goto(w, "read")
    /\ UNCHANGED <<pool, stopWork, enabled, numTasks, tail, data, slots, producer,
                   victim, item, futures, history>>

(* pop reads the slot it has given up; the count goes down; unlock.        *)
PopRead(w) ==
    /\ wpc[w] = "read"
    /\ item' = [item EXCEPT ![w] = data[victim[w]][popped[w]]]
    /\ numTasks' = numTasks - 1
    /\ lock' = Nobody
    /\ Goto(w, "run")
    /\ popped' = [popped EXCEPT ![w] = 0]
    /\ victim' = [victim EXCEPT ![w] = w]
    /\ UNCHANGED <<pool, stopWork, enabled, ring, slots, producer, futures, history>>

(* The thunk: the lambda, unless the task was cancelled, then its result.  *)
(* After an overrun two ring entries name one slot, and the later of them  *)
(* may find no thunk; calling it ends the process, so that the worker,     *)
(* like the destructor in Drain, goes no further.                          *)
Run(w) ==
    /\ wpc[w] = "run"
    /\ slots[item[w]].thunk
    /\ LET t == slots[item[w]].task
       IN IF slots[item[w]].disposed
          THEN /\ Goto(w, "epilogue")
               /\ UNCHANGED started
          ELSE /\ Goto(w, "set")
               /\ started' = started \cup {t}
    /\ UNCHANGED <<pool, stopWork, enabled, numTasks, ring, lock, slots, producer, victim,
                   popped, item, futures, cancelled, overrun>>

SetResult(w) ==
    /\ wpc[w] = "set"
    /\ slots' = [slots EXCEPT ![item[w]].hasResult = TRUE]
    /\ Goto(w, "epilogue")
    /\ UNCHANGED <<pool, stopWork, enabled, numTasks, ring, lock, producer, victim, popped,
                   item, futures, history>>

(* After the result: the lambda is destroyed and the thunk forgotten.      *)
Epilogue(w) ==
    /\ wpc[w] = "epilogue"
    /\ slots' = [slots EXCEPT ![item[w]].thunk = FALSE]
    /\ Goto(w, "start")
    /\ item' = [item EXCEPT ![w] = 0]
    /\ UNCHANGED <<pool, stopWork, enabled, numTasks, ring, lock, producer, victim, popped,
                   futures, history>>

(* Every ring was empty: scan again, or after 32 such scans sleep if idle  *)
(* waiting is on.  A pool without it always scans again.                   *)
ScanAgain(w) ==
    /\ wpc[w] = "empty"
    /\ Goto(w, "start")
    /\ UNCHANGED <<pool, stopWork, enabled, numTasks, ring, lock, slots, producer, victim,
                   popped, item, futures, history>>

MayStayAwake == HasTasks \/ stopWork \/ ~enabled

IdleWait(w) ==
    /\ \/ wpc[w] = "empty" /\ idleWaiting
       \/ wpc[w] = "waking"
    /\ Goto(w, IF MayStayAwake THEN "start" ELSE "asleep")
    /\ UNCHANGED <<pool, stopWork, enabled, numTasks, ring, lock, slots, producer, victim,
                   popped, item, futures, history>>

-----------------------------------------------------------------------------
(* The consumer.  Future::get spins until there is a result and consumes   *)
(* it; a rejected draw drops its future, and cancel() disposes the task's  *)
(* result first.  The futures of a pool are not used after it is gone.     *)

Get ==
    /\ futures # <<>> /\ ppc \notin {"draining", "gone"}
    /\ slots[Slot(Head(futures))].hasResult
    /\ slots' = [slots EXCEPT ![Slot(Head(futures))] = Disposed(@)]
    /\ futures' = Tail(futures)
    /\ UNCHANGED <<pool, stopWork, enabled, numTasks, ring, lock, producer, worker, history>>

-----------------------------------------------------------------------------
Producer == \/ Schedule \/ PushWrite \/ PushPublish \/ ScheduleNotify
            \/ SetIdleWaiting \/ ToggleNotify
            \/ StopWork \/ StopNotify \/ Join \/ Drain \/ Drained

WorkerStep(w) == \/ LoopHead(w) \/ PopEmpty(w) \/ PopPublish(w) \/ PopRead(w)
                 \/ Run(w) \/ SetResult(w) \/ Epilogue(w)
                 \/ ScanAgain(w) \/ IdleWait(w)

Next == \/ Producer
        \/ \E w \in Workers : WorkerStep(w)
        \/ Get

(* The threads are scheduled; a call that has begun goes on, and nothing   *)
(* obliges the client to schedule, toggle, stop or consume.                *)
Continues == ppc # "idle" /\ Producer

Fairness == /\ WF_vars(Continues)
            /\ \A w \in Workers : WF_vars(WorkerStep(w))

Spec == Init /\ [][Next]_vars /\ Fairness

-----------------------------------------------------------------------------
(* Properties.                                                             *)

(* Types; the count is never negative, so m_numTasks, which is unsigned,   *)
(* does not wrap and keep every worker awake.                              *)
TypeOK ==
    /\ pool \in Pools
    /\ {stopWork, enabled, overrun} \subseteq BOOLEAN
    /\ numTasks \in 0 .. MaxTasks
    /\ head \in [Workers -> Position]
    /\ tail \in [Workers -> Position]
    /\ data \in [Workers -> [Position -> 0 .. TaskCount - 1]]
    /\ lock \in Workers \cup {Nobody}
    /\ slots \in [0 .. TaskCount - 1 ->
                     [task : Task \cup {Nobody}, thunk : BOOLEAN, hasResult : BOOLEAN,
                      disposed : BOOLEAN]]
    /\ taskId \in 0 .. MaxTasks /\ schedulerIndex \in Workers
    /\ ppc \in {"idle", "write", "publish", "notify", "toggled", "stopping", "joining",
                "draining", "gone"}
    /\ target \in Workers /\ toggles \in 0 .. MaxToggles
    /\ wpc \in [Workers -> {"start", "pop", "read", "run", "set", "epilogue", "empty",
                            "asleep", "waking", "exited"}]
    /\ victim \in [Workers -> Workers]
    /\ popped \in [Workers -> Position]
    /\ item \in [Workers -> 0 .. TaskCount - 1]
    /\ futures \in Seq(Task)
    /\ {started, cancelled} \subseteq SUBSET Task

(* pop gives a position up before it reads it, and push may then reuse it: *)
(* while a worker is about to read a position the producer does not write  *)
(* it, although the two share no lock.  One position of a ring stays free, *)
(* and only one worker at a time is between the two accesses.              *)
NoOverwriteWhileRead ==
    \A w \in Workers :
        wpc[w] = "read" /\ ppc = "write"
        => ~(victim[w] = target /\ popped[w] = tail[target])

(* m_numTasks counts the tasks the rings hold, the one being published and *)
(* the one a worker has popped and not counted: the predicate of the       *)
(* sleepers misses no published task, and it returns to zero.              *)
CountIsExact ==
    numTasks = MapThenSumSet(LAMBDA w : Cardinality(Occupied(w)), Workers)
               + (IF ppc \in {"write", "publish"} THEN 1 ELSE 0)
               + Cardinality({w \in Workers : wpc[w] = "read"})

(* The properties below are about the pool as long as no slot was captured *)
(* over a task still queued or executing.  Schedule does not see to that:  *)
(* GeometryClient shows what a client's throttle does for the futures.     *)

(* A worker that has popped a task finds its thunk ("Task thunk was not    *)
(* initialized!"), and no other worker is in the same slot of m_tasks.     *)
PoppedIsInitialized ==
    ~overrun => \A w \in Workers : wpc[w] = "run" =>
        /\ slots[item[w]].thunk
        /\ \A v \in Workers \ {w} :
               wpc[v] \in {"run", "set", "epilogue"} => item[v] # item[w]

(* When the destructor is done no task is left ("Tasks left in thread pool *)
(* queue after destruction!"), whatever was queued, stolen or asleep when  *)
(* it began, and every lambda has been destroyed.                          *)
NothingLeft ==
    ppc = "gone" => /\ numTasks = 0
                    /\ ~overrun => \A t \in 0 .. taskId - 1 : Finished(t)

(* No task starts twice, stolen or not, and none runs that the destructor  *)
(* cancelled: what it drains is destroyed without being executed.  That    *)
(* each starts once relies on its slot: had another task been captured     *)
(* there while it was queued, both ring entries would name the new one.    *)
StartsOnceUnlessCancelled ==
    [][overrun \/ /\ \A w \in Workers : wpc[w] = "run" /\ wpc'[w] = "set" =>
                         slots[item[w]].task \notin started
                  /\ started' \cap cancelled' = {}]_vars

(* No wake-up is lost: in every mode, with sleepers of either kind, stolen *)
(* or not, and idle waiting switched at any time, an accepted task is      *)
(* executed, or destroyed with the pool, unless it was captured over.  A   *)
(* behaviour accepts at most MaxTasks, so each is served if again and      *)
(* again all are.                                                          *)
AcceptedIsServed == []<>(overrun \/ \A t \in 0 .. taskId - 1 : Finished(t))

(* The destructor returns: no worker sleeps through the stop.              *)
ShutdownCompletes == stopWork ~> ppc = "gone" \/ overrun
=============================================================================
