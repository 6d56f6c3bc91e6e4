-------------------------- MODULE WorkerPoolProofs ---------------------------
(* Proofs about WorkerPool, for any number of workers and any ring         *)
(* capacity, and about its client GeometryClient.                          *)
EXTENDS GeometryClient, DataInduction

ProducerPc == {"idle", "write", "publish", "notify", "toggled", "stopping", "joining",
               "draining", "gone"}
WorkerPc   == {"start", "pop", "read", "run", "set", "epilogue", "empty", "asleep",
               "waking", "exited"}

RingType ==
    /\ head \in [Workers -> Position]
    /\ tail \in [Workers -> Position]
    /\ ppc \in ProducerPc
    /\ target \in Workers /\ schedulerIndex \in Workers
    /\ wpc \in [Workers -> WorkerPc]
    /\ victim \in [Workers -> Workers]
    /\ popped \in [Workers -> Position]

(* The worker between the two accesses of pop holds the spinlock and the   *)
(* head has not moved on since.                                            *)
ReaderHoldsLock ==
    \A w \in Workers : wpc[w] = "read" =>
        /\ lock = w
        /\ head[victim[w]] = Succ(popped[w])

(* Room that isFull saw is still there when push looks again.              *)
PushHasRoom == ppc \in {"write", "publish"} => ~isFull(target)

(* The destructor touches the rings alone.                                 *)
DrainsAlone == ppc \in {"draining", "gone"} => \A w \in Workers : wpc[w] = "exited"

RingInv == RingType /\ ReaderHoldsLock /\ PushHasRoom /\ DrainsAlone

-----------------------------------------------------------------------------
(* The successor of a position of the ring is one, and is that of no other *)
(* position: isFull and pop, which compare positions, rest on it.          *)
LEMMA SuccFacts ==
    /\ \A i \in Position : Succ(i) \in Position
    /\ \A i, j \in Position : Succ(i) = Succ(j) => i = j
  BY CapacityAssumption DEF Position, Succ

(* Waking sleepers moves no worker into or out of a pop.                   *)
LEMMA WakingFacts ==
    ASSUME RingType,
           \/ UNCHANGED wpc
           \/ \E ws \in SUBSET Asleep : wpc' = Woken(ws)
    PROVE  /\ wpc' \in [Workers -> WorkerPc]
           /\ \A w \in Workers : wpc'[w] = "read" <=> wpc[w] = "read"
  BY DEF RingType, Asleep, Woken, WorkerPc

LEMMA NotifyWakes ==
    /\ NotifyAll => \E ws \in SUBSET Asleep : wpc' = Woken(ws)
    /\ NotifyOne => \/ UNCHANGED wpc
                    \/ \E ws \in SUBSET Asleep : wpc' = Woken(ws)
  BY DEF NotifyAll, NotifyOne

LEMMA RingInit == Init => RingInv
  <1> SUFFICES ASSUME Init PROVE RingInv
    OBVIOUS
  <1>1. 0 \in Workers /\ 0 \in Position
    BY WorkersAssumption, CapacityAssumption DEF Workers, Position
  <1> QED
    BY <1>1 DEF Init, RingInv, RingType, ReaderHoldsLock, PushHasRoom, DrainsAlone, ProducerPc, WorkerPc

-----------------------------------------------------------------------------
LEMMA RingStep == RingInv /\ [Next]_vars => RingInv'
  <1> SUFFICES ASSUME RingInv, [Next]_vars PROVE RingInv'
    OBVIOUS
  <1> USE DEF RingInv
  <1>0. N \in Nat \ {0} /\ NumTasksPerThread \in Nat \ {0, 1}
    BY WorkersAssumption, CapacityAssumption
  <1>1. CASE Schedule
    <2>1. target' \in Workers /\ schedulerIndex' \in Workers
      BY <1>0, <1>1 DEF Schedule, RingType, Workers
    <2>2. UNCHANGED <<head, tail, wpc, victim, popped, lock>>
      BY <1>1 DEF Schedule, ring, worker
    <2>3. ppc' = "write" => ~isFull(target')
      BY <1>1 DEF Schedule
    <2>4. ppc' \in {"idle", "write"}
      BY <1>1 DEF Schedule
    <2> QED
      BY <2>1, <2>2, <2>3, <2>4 DEF RingType, ReaderHoldsLock, PushHasRoom, DrainsAlone, ProducerPc, isFull
  <1>2. CASE PushWrite
    BY <1>2 DEF PushWrite, worker, RingType, ReaderHoldsLock, PushHasRoom, DrainsAlone, ProducerPc, isFull
  <1>3. CASE PushPublish
    <2>1. tail' \in [Workers -> Position]
      BY <1>3, SuccFacts DEF PushPublish, RingType
    <2> QED
      BY <1>3, <2>1
         DEF PushPublish, worker, RingType, ReaderHoldsLock, PushHasRoom, DrainsAlone, ProducerPc
  <1>4. CASE ScheduleNotify \/ ToggleNotify \/ StopNotify
    <2>1. \/ UNCHANGED wpc
          \/ \E ws \in SUBSET Asleep : wpc' = Woken(ws)
      BY <1>4, NotifyWakes DEF ScheduleNotify, ToggleNotify, ToggleWakes, StopNotify, StopWakes
    <2>2. /\ wpc' \in [Workers -> WorkerPc]
          /\ \A w \in Workers : wpc'[w] = "read" <=> wpc[w] = "read"
      BY <2>1, WakingFacts
    <2>3. /\ UNCHANGED <<head, tail, target, schedulerIndex, victim, popped, lock>>
          /\ ppc' \in {"idle", "joining"}
      BY <1>4 DEF ScheduleNotify, ToggleNotify, StopNotify, ring
    <2> QED
      BY <2>2, <2>3 DEF RingType, ReaderHoldsLock, PushHasRoom, DrainsAlone, ProducerPc
  <1>5. CASE SetIdleWaiting \/ StopWork \/ Join \/ Drained
    BY <1>5 DEF SetIdleWaiting, StopWork, Join, AfterJoin, Drained, ring, worker,
                RingType, ReaderHoldsLock, PushHasRoom, DrainsAlone, ProducerPc
  <1>6. CASE Drain
    <2>1. \A w \in Workers : wpc[w] = "exited"
      BY <1>6 DEF Drain, DrainsAlone
    <2>2. head' = [head EXCEPT ![FirstFilled] = Succ(head[FirstFilled])]
      BY <1>6 DEF Drain
    <2>3. head' \in [Workers -> Position]
      BY <2>2, SuccFacts DEF RingType
    <2>4. ppc' = "draining" /\ UNCHANGED <<tail, target, schedulerIndex, wpc, victim, popped>>
      BY <1>6 DEF Drain, producer, worker
    <2> QED
      BY <2>1, <2>3, <2>4
         DEF RingType, ReaderHoldsLock, PushHasRoom, DrainsAlone, ProducerPc
  <1>7. ASSUME NEW w \in Workers, WorkerStep(w)
        PROVE  RingInv'
    <2>1. CASE LoopHead(w)
      BY <2>1 DEF LoopHead, Goto, ring, producer, RingType, ReaderHoldsLock, PushHasRoom, DrainsAlone,
                  isFull, WorkerPc
    <2>2. CASE PopEmpty(w)
      <3>0. NextVictim(w) \in Workers
        <4>1. victim[w] \in Nat
          BY <1>7 DEF RingType, Workers
        <4> QED
          BY <1>0, <4>1 DEF NextVictim, Workers
      <3>1. victim' \in [Workers -> Workers]
        BY <2>2, <3>0 DEF PopEmpty, RingType
      <3>2. /\ wpc' \in [Workers -> WorkerPc]
            /\ wpc[w] = "pop" /\ wpc'[w] # "read"
            /\ \A v \in Workers \ {w} : wpc'[v] = wpc[v] /\ victim'[v] = victim[v]
        BY <2>2 DEF PopEmpty, Goto, RingType, WorkerPc
      <3>3. UNCHANGED <<head, tail, lock, popped, ppc, target, schedulerIndex>>
        BY <2>2 DEF PopEmpty, ring, producer
      <3> QED
        BY <3>1, <3>2, <3>3
           DEF RingType, ReaderHoldsLock, PushHasRoom, DrainsAlone, isFull
    <2>3. CASE PopPublish(w)
      <3> DEFINE h == head[victim[w]]
      <3>1. victim[w] \in Workers /\ h \in Position /\ h # tail[victim[w]]
        BY <2>3 DEF PopPublish, isEmpty, RingType
      <3>2. \A v \in Workers : wpc[v] # "read"
        BY <2>3 DEF PopPublish, LockFree, Nobody, ReaderHoldsLock, Workers
      <3>3. /\ head' = [head EXCEPT ![victim[w]] = Succ(h)]
            /\ popped' = [popped EXCEPT ![w] = h]
            /\ wpc' = [wpc EXCEPT ![w] = "read"]
            /\ wpc[w] = "pop" /\ lock' = w
            /\ UNCHANGED <<tail, ppc, target, schedulerIndex, victim>>
        BY <2>3 DEF PopPublish, Goto, producer
      <3>4. RingType'
        BY <3>1, <3>3, SuccFacts DEF RingType, WorkerPc
      <3>5. ReaderHoldsLock'
        BY <3>1, <3>2, <3>3 DEF ReaderHoldsLock, RingType, Succ
      <3>6. PushHasRoom'
        BY <3>1, <3>3, SuccFacts DEF PushHasRoom, RingType, isFull
      <3>7. DrainsAlone'
        BY <3>3 DEF DrainsAlone
      <3> QED
        BY <3>4, <3>5, <3>6, <3>7
    <2>4. CASE PopRead(w)
      <3>1. \A v \in Workers \ {w} : wpc[v] # "read"
        BY <2>4 DEF PopRead, ReaderHoldsLock
      <3>2. /\ wpc' = [wpc EXCEPT ![w] = "run"]
            /\ popped' = [popped EXCEPT ![w] = 0]
            /\ victim' = [victim EXCEPT ![w] = w]
            /\ wpc[w] = "read"
            /\ UNCHANGED <<head, tail, ppc, target, schedulerIndex>>
        BY <2>4 DEF PopRead, Goto, ring, producer
      <3>3. 0 \in Position
        BY <1>0 DEF Position
      <3>4. RingType'
        BY <3>2, <3>3 DEF RingType, WorkerPc
      <3>5. ReaderHoldsLock'
        BY <3>1, <3>2 DEF ReaderHoldsLock, RingType
      <3> QED
        BY <3>2, <3>4, <3>5 DEF PushHasRoom, DrainsAlone, isFull
    <2>5. CASE Run(w) \/ SetResult(w) \/ Epilogue(w) \/ ScanAgain(w) \/ IdleWait(w)
      BY <2>5 DEF Run, SetResult, Epilogue, ScanAgain, IdleWait, Goto, ring, producer,
                  RingType, ReaderHoldsLock, PushHasRoom, DrainsAlone, isFull, WorkerPc
    <2> QED
      BY <1>7, <2>1, <2>2, <2>3, <2>4, <2>5 DEF WorkerStep
  <1>8. CASE Get
    BY <1>8 DEF Get, ring, producer, worker, RingType, ReaderHoldsLock, PushHasRoom, DrainsAlone, isFull
  <1>9. CASE UNCHANGED vars
    BY <1>9 DEF vars, ring, producer, worker, RingType, ReaderHoldsLock, PushHasRoom, DrainsAlone, isFull
  <1> QED
    BY <1>1, <1>2, <1>3, <1>4, <1>5, <1>6, <1>7, <1>8, <1>9 DEF Next, Producer

(* push never writes a position a worker has given up and not yet read,    *)
(* with any number of workers and any ring.                                *)
THEOREM NeverOverwritten == Spec => []NoOverwriteWhileRead
  <1>1. RingInv => NoOverwriteWhileRead
    BY SuccFacts
       DEF RingInv, RingType, ReaderHoldsLock, PushHasRoom, NoOverwriteWhileRead, isFull
  <1> QED
    BY <1>1, RingInit, RingStep, PTL DEF Spec

(* Schedule, which ignores the result of push, is never refused by it: an  *)
(* accepted task is not dropped.                                           *)
THEOREM PushIsAccepted == Spec => []PushHasRoom
  <1>1. RingInv => PushHasRoom
    BY DEF RingInv
  <1> QED
    BY <1>1, RingInit, RingStep, PTL DEF Spec

-----------------------------------------------------------------------------
(* Fewer than n numbers apart, two numbers have different slots.           *)
LEMMA SlotsApart ==
    ASSUME NEW n \in Nat \ {0}, NEW a \in Nat, NEW b \in Nat, a < b, b - a < n
    PROVE  a % n # b % n
  <1> SUFFICES ASSUME a % n = b % n PROVE FALSE
    OBVIOUS
  <1> DEFINE k == (b \div n) - (a \div n)
  <1>1. a = n * (a \div n) + (a % n)
    BY SMT
  <1>2. b = n * (b \div n) + (b % n)
    BY SMT
  <1>3. k \in Int /\ b - a = n * k
    BY <1>1, <1>2, SMT
  <1>4. CASE k >= 1
    <2>1. n * k >= n
      BY <1>3, <1>4, SMT
    <2> QED
      BY <1>3, <2>1, SMT
  <1>5. CASE k <= 0
    <2>1. n * k <= 0
      BY <1>3, <1>5, SMT
    <2> QED
      BY <1>3, <2>1, SMT
  <1> QED
    BY <1>3, <1>4, <1>5, SMT

TaskSlot == [task : Nat \cup {Nobody}, thunk : BOOLEAN, hasResult : BOOLEAN,
             disposed : BOOLEAN]

SlotInv ==
    /\ slots \in [0 .. TaskCount - 1 -> TaskSlot]
    /\ taskId \in Nat

(* There is a slot: the rings have room for a task.                        *)
LEMMA SomeSlot == TaskCount \in Nat \ {0} /\ TaskCount >= NumTasksPerThread
  <1>1. N \in Nat \ {0} /\ NumTasksPerThread \in Nat \ {0, 1}
    BY WorkersAssumption, CapacityAssumption
  <1> DEFINE c == TaskCount
  <1>2. c \in Nat /\ c >= N * NumTasksPerThread
    BY TaskCountAssumption
  <1> HIDE DEF c
  <1>3. N * NumTasksPerThread >= NumTasksPerThread
    BY <1>1
  <1>4. N * NumTasksPerThread \in Nat
    BY <1>1
  <1>5. c \in Nat \ {0} /\ c >= NumTasksPerThread
    BY ONLY <1>1, <1>2, <1>3, <1>4
  <1> QED BY <1>5 DEF c

LEMMA SlotInit == Init => SlotInv
  BY SomeSlot DEF Init, SlotInv, Empty, TaskSlot, Nobody

LEMMA DisposedFacts ==
    ASSUME NEW s \in TaskSlot
    PROVE  Disposed(s) \in TaskSlot /\ [Disposed(s) EXCEPT !.thunk = FALSE] \in TaskSlot
  BY DEF Disposed, TaskSlot

LEMMA SlotFacts == \A t \in Nat : Slot(t) \in 0 .. TaskCount - 1
  BY SomeSlot DEF Slot

LEMMA SlotStep == SlotInv /\ [Next]_vars => SlotInv'
  <1> SUFFICES ASSUME SlotInv, [Next]_vars PROVE SlotInv'
    OBVIOUS
  <1> USE DEF SlotInv
  <1>1. CASE Schedule
    <2>1. Captured(taskId) \in TaskSlot
      BY DEF Captured, TaskSlot
    <2>2. CASE isFull(target')
      BY <1>1, <2>2 DEF Schedule
    <2>3. CASE ~isFull(target')
      <3>1. taskId' = taskId + 1 /\ slots' = [slots EXCEPT ![Slot(taskId)] = Captured(taskId)]
        BY <1>1, <2>3 DEF Schedule
      <3> QED BY <2>1, <3>1, SlotFacts
    <2> QED BY <2>2, <2>3
  <1>2. CASE Get
    BY <1>2, DisposedFacts DEF Get, producer
  <1>3. CASE Drain
    <2>1. PICK s :
            slots' = [slots EXCEPT ![s] = [Disposed(slots[s]) EXCEPT !.thunk = FALSE]]
      BY <1>3 DEF Drain
    <2>2. slots' \in [0 .. TaskCount - 1 -> TaskSlot]
      <3>1. CASE s \in 0 .. TaskCount - 1
        BY <2>1, <3>1, DisposedFacts
      <3>2. CASE s \notin 0 .. TaskCount - 1
        BY <2>1, <3>2
      <3> QED BY <3>1, <3>2
    <2> QED BY <1>3, <2>2 DEF Drain, producer
  <1>4. ASSUME NEW w \in Workers, SetResult(w) \/ Epilogue(w)
        PROVE  SlotInv'
    <2>1. slots' \in [0 .. TaskCount - 1 -> TaskSlot]
      <3>1. CASE SetResult(w)
        BY <3>1 DEF SetResult, TaskSlot
      <3>2. CASE Epilogue(w)
        BY <3>2 DEF Epilogue, TaskSlot
      <3> QED BY <1>4, <3>1, <3>2
    <2> QED BY <1>4, <2>1 DEF SetResult, Epilogue, producer
  <1>5. CASE \/ PushWrite \/ PushPublish \/ ScheduleNotify \/ SetIdleWaiting \/ ToggleNotify
             \/ StopWork \/ StopNotify \/ Join \/ Drained
    BY <1>5 DEF PushWrite, PushPublish, ScheduleNotify, SetIdleWaiting, ToggleNotify,
                StopWork, StopNotify, Join, Drained
  <1>6. ASSUME NEW w \in Workers,
               \/ LoopHead(w) \/ PopEmpty(w) \/ PopPublish(w) \/ PopRead(w)
               \/ Run(w) \/ ScanAgain(w) \/ IdleWait(w)
        PROVE  SlotInv'
    BY <1>6 DEF LoopHead, PopEmpty, PopPublish, PopRead, Run, ScanAgain, IdleWait, producer
  <1>7. CASE UNCHANGED vars
    BY <1>7 DEF vars, producer
  <1> QED
    BY <1>1, <1>2, <1>3, <1>4, <1>5, <1>6, <1>7 DEF Next, Producer, WorkerStep

-----------------------------------------------------------------------------
(* Where the accepted tasks are.                                           *)

Running == {"run", "set", "epilogue"}

(* The positions of a ring whose item is still to be read: those between   *)
(* head and tail, the one being published, and one popped and not read.    *)
Stored(w) ==
    Occupied(w)
    \cup {popped[v] : v \in {x \in Workers : wpc[x] = "read" /\ victim[x] = w}}
    \cup (IF ppc = "publish" /\ w = target THEN {tail[w]} ELSE {})

(* A slot with a task that neither ran nor was cancelled.                  *)
Waiting(s) == slots[s].thunk /\ slots[s].task \notin started \cup cancelled

TaskType ==
    /\ data \in [Workers -> [Position -> 0 .. TaskCount - 1]]
    /\ item \in [Workers -> 0 .. TaskCount - 1]

LiveTasks ==
    \A s \in 0 .. TaskCount - 1 :
        slots[s].thunk => slots[s].task \in 0 .. taskId - 1 /\ Slot(slots[s].task) = s

StoredWait == \A w \in Workers : \A i \in Stored(w) : Waiting(data[w][i])

RunningLive ==
    \A w \in Workers :
        /\ wpc[w] = "run" => Waiting(item[w])
        /\ wpc[w] \in Running => slots[item[w]].thunk /\ slots[item[w]].task \notin cancelled

PushedWaits == ppc = "write" => taskId > 0 /\ Waiting(Slot(taskId - 1))

StoredApart ==
    \A w, v \in Workers : \A i \in Stored(w), j \in Stored(v) :
        data[w][i] = data[v][j] => w = v /\ i = j

RunningApart ==
    \A w, v \in Workers :
        wpc[w] \in Running
        => /\ wpc[v] \in Running /\ item[v] = item[w] => v = w
           /\ \A i \in Stored(v) : data[v][i] # item[w]

PushedApart ==
    ppc = "write" =>
        \A w \in Workers :
            /\ wpc[w] \in Running => item[w] # Slot(taskId - 1)
            /\ \A i \in Stored(w) : data[w][i] # Slot(taskId - 1)

History ==
    /\ started \cup cancelled \subseteq 0 .. taskId - 1
    /\ started \cap cancelled = {}

(* An accepted task has one place, the hand of the producer, a position of *)
(* a ring or a worker, and a slot no other place has.                      *)
TaskInv ==
    /\ TaskType /\ LiveTasks /\ StoredWait /\ RunningLive /\ PushedWaits
    /\ StoredApart /\ RunningApart /\ PushedApart /\ History

PoolInv == RingInv /\ SlotInv /\ TaskInv

-----------------------------------------------------------------------------
(* The positions of a ring between head h and tail t, and what moving      *)
(* either does.                                                            *)
Between(h, t) == {i \in Position : IF h <= t THEN h <= i /\ i < t ELSE i < t \/ h <= i}

LEMMA BetweenFacts ==
    ASSUME NEW h \in Position, NEW t \in Position
    PROVE  /\ t \notin Between(h, t)
           /\ Succ(t) # h => Between(h, Succ(t)) = Between(h, t) \cup {t}
           /\ h # t => h \in Between(h, t) /\ Between(Succ(h), t) = Between(h, t) \ {h}
           /\ \A p \in Position : Succ(p) = h => p \notin Between(h, t)
  <1> DEFINE n == NumTasksPerThread
  <1>0. n \in Nat /\ n > 1 /\ Position = 0 .. n - 1
    BY CapacityAssumption DEF Position
  <1>s. \A i : Succ(i) = IF i + 1 = n THEN 0 ELSE i + 1
    BY DEF Succ
  <1> HIDE DEF n
  <1> DEFINE In(a, b, i) == IF a <= b THEN a <= i /\ i < b ELSE i < b \/ a <= i
  <1>b. \A a, b : Between(a, b) = {i \in Position : In(a, b, i)}
    BY DEF Between
  <1>1. t \notin Between(h, t)
    BY <1>0, <1>b
  <1>2. ASSUME Succ(t) # h PROVE Between(h, Succ(t)) = Between(h, t) \cup {t}
    <2>1. \A i \in Position : In(h, Succ(t), i) <=> In(h, t, i) \/ i = t
      BY <1>0, <1>s, <1>2
    <2> HIDE DEF In
    <2> QED BY <1>b, <2>1
  <1>3. ASSUME h # t
        PROVE  h \in Between(h, t) /\ Between(Succ(h), t) = Between(h, t) \ {h}
    <2>1. \A i \in Position : In(Succ(h), t, i) <=> In(h, t, i) /\ i # h
      BY <1>0, <1>s, <1>3
    <2>2. In(h, t, h)
      BY <1>0, <1>3
    <2> HIDE DEF In
    <2> QED BY <1>b, <2>1, <2>2
  <1>4. ASSUME NEW p \in Position, Succ(p) = h PROVE p \notin Between(h, t)
    BY <1>0, <1>s, <1>b, <1>4
  <1> QED BY <1>1, <1>2, <1>3, <1>4

LEMMA RangeIsBetween ==
    ASSUME NEW h \in Position, NEW t \in Position
    PROVE  (IF h <= t THEN h .. t - 1 ELSE Position \ (t .. h - 1)) = Between(h, t)
  <1> DEFINE n == NumTasksPerThread
  <1>0. n \in Nat /\ n > 1 /\ Position = 0 .. n - 1
    BY CapacityAssumption DEF Position
  <1> HIDE DEF n
  <1> QED BY <1>0 DEF Between

LEMMA OccupiedIsBetween ==
    /\ RingType => \A w \in Workers : Occupied(w) = Between(head[w], tail[w])
    /\ RingType' => \A w \in Workers : Occupied(w)' = Between(head'[w], tail'[w])
  BY RangeIsBetween DEF RingType, Occupied

(* The destructor drains a worker whose ring holds something.              *)
LEMMA FirstFilledFacts ==
    ASSUME \E w \in Workers : ~isEmpty(w)
    PROVE  FirstFilled \in Workers /\ ~isEmpty(FirstFilled)
  <1> DEFINE T == {w \in Workers : ~isEmpty(w)}
  <1>1. T \subseteq Nat /\ T # {}
    BY WorkersAssumption DEF Workers
  <1>2. PICK m \in T : \A y \in T : ~ (<<y, m>> \in OpToRel(<, Nat))
    BY <1>1, NatLessThanWellFounded, WFMin
  <1>3. \A y \in T : m <= y
    <2> SUFFICES ASSUME NEW y \in T PROVE m <= y
      OBVIOUS
    <2>1. y \in Nat /\ m \in Nat
      BY <1>1
    <2>2. ~ (y < m)
      BY <1>2, <2>1 DEF OpToRel
    <2> QED BY <2>1, <2>2
  <1>4. FirstFilled = CHOOSE x \in T : \A y \in T : x <= y
    BY DEF FirstFilled, Min
  <1> HIDE DEF T
  <1>5. FirstFilled \in T
    BY <1>3, <1>4
  <1> QED BY <1>5 DEF T

-----------------------------------------------------------------------------
(* Every step keeps each task in its place or moves it to the next.        *)

(* The steps that leave the tasks of the slots alone.                      *)
SameTasks ==
    \A s \in 0 .. TaskCount - 1 : slots'[s].task = slots[s].task /\ slots'[s].thunk = slots[s].thunk

(* A position of a ring is a position.                                     *)
LEMMA StoredType ==
    ASSUME RingType, NEW w \in Workers
    PROVE  Stored(w) \subseteq Position
  <1>1. Occupied(w) \subseteq Position
    BY OccupiedIsBetween DEF Between
  <1> QED BY <1>1 DEF Stored, RingType

(* A step that moves no task, whatever it does to the flags of the slots.  *)
LEMMA TaskQuiet ==
    ASSUME TaskInv, RingType, SlotInv, SameTasks,
           UNCHANGED <<data, taskId, started, cancelled>>,
           item' \in [Workers -> 0 .. TaskCount - 1],
           \A w \in Workers : Stored(w)' = Stored(w),
           \A w \in Workers : /\ wpc'[w] \in Running <=> wpc[w] \in Running
                              /\ wpc'[w] = "run" => wpc[w] = "run"
                              /\ wpc[w] \in Running => item'[w] = item[w],
           ppc' = "write" => ppc = "write"
    PROVE  TaskInv'
  <1> USE DEF TaskInv
  <1>1. \A w \in Workers : \A i \in Stored(w) : data[w][i] \in 0 .. TaskCount - 1
    BY StoredType DEF TaskType
  <1>2. \A w \in Workers : item[w] \in 0 .. TaskCount - 1 /\ item'[w] \in 0 .. TaskCount - 1
    BY DEF TaskType
  <1>3. \A s \in 0 .. TaskCount - 1 : Waiting(s)' <=> Waiting(s)
    BY DEF SameTasks, Waiting
  <1>4. TaskType' /\ History'
    BY DEF TaskType, History
  <1>5. LiveTasks'
    BY DEF LiveTasks, SameTasks, Slot
  <1>6. StoredWait'
    BY <1>1, <1>3 DEF StoredWait
  <1>7. RunningLive'
    <2> SUFFICES ASSUME NEW w \in Workers
                 PROVE  /\ wpc'[w] = "run" => Waiting(item[w])'
                        /\ wpc'[w] \in Running
                           => slots'[item'[w]].thunk /\ slots'[item'[w]].task \notin cancelled'
      BY DEF RunningLive
    <2>1. wpc'[w] = "run" => Waiting(item[w])'
      BY <1>2, <1>3 DEF RunningLive, Running
    <2>2. wpc'[w] \in Running
          => slots'[item'[w]].thunk /\ slots'[item'[w]].task \notin cancelled'
      BY <1>2 DEF RunningLive, SameTasks
    <2> QED BY <2>1, <2>2
  <1>8. PushedWaits'
    <2> SUFFICES ASSUME ppc' = "write" PROVE taskId' > 0 /\ Waiting(Slot(taskId - 1))'
      BY DEF PushedWaits
    <2>1. taskId \in Nat /\ taskId > 0 /\ Waiting(Slot(taskId - 1))
      BY DEF PushedWaits, SlotInv
    <2>2. Slot(taskId - 1) \in 0 .. TaskCount - 1
      BY <2>1, SlotFacts
    <2>3. Waiting(Slot(taskId - 1))' <=> Waiting(Slot(taskId - 1))
      BY <1>3, <2>2 DEF Waiting, Slot
    <2> QED BY <2>1, <2>3
  <1>9. StoredApart'
    BY DEF StoredApart
  <1>10. RunningApart'
    BY DEF RunningApart
  <1>11. PushedApart'
    BY DEF PushedApart, Slot
  <1> QED BY <1>4, <1>5, <1>6, <1>7, <1>8, <1>9, <1>10, <1>11

(* The ends of a ring move without moving what is stored in it.            *)
LEMMA PublishKeepsStored ==
    ASSUME RingInv, PushPublish, NEW w \in Workers
    PROVE  Stored(w)' = Stored(w)
  <1> USE DEF RingInv
  <1>1. /\ ppc = "publish" /\ ppc' = "notify" /\ ~isFull(target) /\ target \in Workers
        /\ tail' = [tail EXCEPT ![target] = Succ(tail[target])]
        /\ UNCHANGED <<head, wpc, victim, popped, target>>
    BY DEF PushPublish, PushHasRoom, RingType, worker
  <1>2. RingType'
    BY RingStep DEF Next, Producer
  <1>3. Occupied(w)' = Between(head[w], tail'[w]) /\ Occupied(w) = Between(head[w], tail[w])
    <2>1. Occupied(w) = Between(head[w], tail[w])
      BY OccupiedIsBetween
    <2>2. Occupied(w)' = Between(head'[w], tail'[w])
      BY <1>2, OccupiedIsBetween
    <2> QED BY <1>1, <2>1, <2>2
  <1>4. CASE w = target
    <2>1. tail'[w] = Succ(tail[w]) /\ head[w] \in Position /\ tail[w] \in Position
      BY <1>1, <1>4 DEF RingType
    <2>2. Occupied(w)' = Occupied(w) \cup {tail[w]}
      BY <1>1, <1>3, <1>4, <2>1, BetweenFacts DEF isFull
    <2> QED BY <1>1, <1>4, <2>2 DEF Stored
  <1>5. CASE w # target
    <2>1. Occupied(w)' = Occupied(w)
      BY <1>1, <1>3, <1>5 DEF RingType
    <2> QED BY <1>1, <1>5, <2>1 DEF Stored
  <1> QED BY <1>4, <1>5

LEMMA PopKeepsStored ==
    ASSUME RingInv, NEW u \in Workers, PopPublish(u), NEW w \in Workers
    PROVE  Stored(w)' = Stored(w)
  <1> USE DEF RingInv
  <1> DEFINE r == victim[u]
  <1>1. /\ wpc[u] = "pop" /\ wpc' = [wpc EXCEPT ![u] = "read"] /\ ~isEmpty(r)
        /\ popped' = [popped EXCEPT ![u] = head[r]]
        /\ head' = [head EXCEPT ![r] = Succ(head[r])]
        /\ UNCHANGED <<tail, victim, ppc, target>>
        /\ r \in Workers
    BY DEF PopPublish, Goto, producer, RingType
  <1>2. \A v \in Workers : wpc[v] # "read"
    BY DEF PopPublish, LockFree, Nobody, ReaderHoldsLock, Workers
  <1>3. RingType'
    BY RingStep DEF Next, WorkerStep
  <1>4. Occupied(w)' = Between(head'[w], tail[w]) /\ Occupied(w) = Between(head[w], tail[w])
    <2>1. Occupied(w) = Between(head[w], tail[w])
      BY OccupiedIsBetween
    <2>2. Occupied(w)' = Between(head'[w], tail'[w])
      BY <1>3, OccupiedIsBetween
    <2> QED BY <1>1, <2>1, <2>2
  <1>5. {x \in Workers : wpc'[x] = "read" /\ victim'[x] = w} = IF w = r THEN {u} ELSE {}
    BY <1>1, <1>2 DEF RingType
  <1>6. {x \in Workers : wpc[x] = "read" /\ victim[x] = w} = {}
    BY <1>2
  <1>7. popped'[u] = head[r]
    BY <1>1 DEF RingType
  <1>8. CASE w = r
    <2>1. head'[w] = Succ(head[w]) /\ head[w] \in Position /\ tail[w] \in Position
          /\ head[w] # tail[w]
      BY <1>1, <1>8 DEF RingType, isEmpty
    <2>2. Occupied(w)' = Occupied(w) \ {head[w]} /\ head[w] \in Occupied(w)
      BY <1>4, <2>1, BetweenFacts
    <2>3. {popped'[v] : v \in {x \in Workers : wpc'[x] = "read" /\ victim'[x] = w}} = {head[w]}
      BY <1>5, <1>7, <1>8
    <2> HIDE DEF r
    <2> QED BY <1>1, <1>6, <2>2, <2>3 DEF Stored
  <1>9. CASE w # r
    <2>1. Occupied(w)' = Occupied(w)
      BY <1>1, <1>4, <1>9 DEF RingType
    <2> HIDE DEF r
    <2> QED BY <1>1, <1>5, <1>6, <1>9, <2>1 DEF Stored
  <1> QED BY <1>8, <1>9

(* push stores the item at a position nothing is stored at.                *)
LEMMA WriteStores ==
    ASSUME RingInv, PushWrite, NEW w \in Workers
    PROVE  /\ ~isFull(target)
           /\ tail[target] \in Position /\ tail[target] \notin Stored(target)
           /\ Stored(w)' = IF w = target THEN Stored(w) \cup {tail[w]} ELSE Stored(w)
  <1> USE DEF RingInv
  <1>1. /\ ppc = "write" /\ ~isFull(target) /\ target \in Workers
        /\ UNCHANGED <<head, tail, wpc, victim, popped, target>>
        /\ ppc' = "publish"
    BY DEF PushWrite, PushHasRoom, RingType, worker
  <1>2. Occupied(w)' = Occupied(w)
    BY <1>1 DEF Occupied
  <1>3. tail[target] \in Position /\ head[target] \in Position
    BY <1>1 DEF RingType
  <1>4. tail[target] \notin Occupied(target)
    BY <1>1, <1>3, OccupiedIsBetween, BetweenFacts
  <1>5. ASSUME NEW v \in Workers, wpc[v] = "read", victim[v] = target
        PROVE  popped[v] # tail[target]
    BY <1>1, <1>5 DEF ReaderHoldsLock, isFull
  <1>6. tail[target] \notin Stored(target)
    BY <1>1, <1>4, <1>5 DEF Stored
  <1>7. Stored(w)' = IF w = target THEN Stored(w) \cup {tail[w]} ELSE Stored(w)
    BY <1>1, <1>2 DEF Stored
  <1> QED BY <1>1, <1>3, <1>6, <1>7

(* pop takes what it reads out of the ring.                                *)
LEMMA ReadTakes ==
    ASSUME RingInv, NEW u \in Workers, PopRead(u), NEW w \in Workers
    PROVE  /\ popped[u] \in Stored(victim[u])
           /\ Stored(w)' = IF w = victim[u] THEN Stored(w) \ {popped[u]} ELSE Stored(w)
  <1> USE DEF RingInv
  <1> DEFINE r == victim[u]
             p == popped[u]
  <1>1. /\ wpc[u] = "read" /\ wpc' = [wpc EXCEPT ![u] = "run"]
        /\ popped' = [popped EXCEPT ![u] = 0] /\ victim' = [victim EXCEPT ![u] = u]
        /\ UNCHANGED <<head, tail, ppc, target>>
        /\ r \in Workers /\ p \in Position /\ head[r] = Succ(p)
    BY DEF PopRead, Goto, producer, ring, RingType, ReaderHoldsLock
  <1>2. \A v \in Workers : wpc[v] = "read" => v = u
    BY <1>1 DEF ReaderHoldsLock
  <1>3. Occupied(w)' = Occupied(w)
    BY <1>1 DEF Occupied
  <1>4. p \notin Occupied(r)
    BY <1>1, OccupiedIsBetween, BetweenFacts DEF RingType
  <1>5. {x \in Workers : wpc[x] = "read" /\ victim[x] = w} = IF w = r THEN {u} ELSE {}
    BY <1>1, <1>2
  <1>6. {x \in Workers : wpc'[x] = "read" /\ victim'[x] = w} = {}
    BY <1>1, <1>2 DEF RingType
  <1>7. ppc = "publish" /\ r = target => tail[r] # p
    BY <1>1 DEF PushHasRoom, isFull
  <1>8. p \in Stored(r)
    BY <1>1 DEF Stored
  <1> HIDE DEF r, p
  <1>9. CASE w = r
    <2>1. {popped[v] : v \in {x \in Workers : wpc[x] = "read" /\ victim[x] = w}} = {p}
      BY <1>5, <1>9 DEF p
    <2> QED BY <1>1, <1>3, <1>4, <1>6, <1>7, <1>8, <1>9, <2>1 DEF Stored, r, p
  <1>10. CASE w # r
    BY <1>1, <1>3, <1>5, <1>6, <1>8, <1>10 DEF Stored, r, p
  <1> QED BY <1>9, <1>10, <1>8 DEF r, p

(* The destructor takes what it drains out of the ring.                    *)
LEMMA DrainTakes ==
    ASSUME RingInv, Drain, NEW w \in Workers
    PROVE  /\ FirstFilled \in Workers /\ head[FirstFilled] \in Stored(FirstFilled)
           /\ Stored(w)' = IF w = FirstFilled THEN Stored(w) \ {head[w]} ELSE Stored(w)
  <1> USE DEF RingInv
  <1> DEFINE r == FirstFilled
  <1>1. r \in Workers /\ ~isEmpty(r)
    BY FirstFilledFacts DEF Drain
  <1> HIDE DEF r
  <1>2. /\ ppc = "draining" /\ ppc' = "draining"
        /\ head' = [head EXCEPT ![r] = Succ(head[r])]
        /\ UNCHANGED <<tail, wpc, victim, popped, target>>
    BY DEF Drain, producer, worker, r
  <1>3. \A v \in Workers : wpc[v] # "read"
    BY <1>2 DEF DrainsAlone
  <1>4. RingType'
    BY RingStep DEF Next, Producer
  <1>5. \A x \in Workers : Stored(x) = Between(head[x], tail[x])
    BY <1>2, <1>3, OccupiedIsBetween DEF Stored
  <1>6. Stored(w)' = Between(head'[w], tail[w])
    <2>1. Occupied(w)' = Between(head'[w], tail'[w])
      BY <1>4, OccupiedIsBetween
    <2> QED BY <1>2, <1>3, <2>1 DEF Stored
  <1>7. head[r] \in Position /\ tail[r] \in Position /\ head[r] # tail[r]
        /\ head'[r] = Succ(head[r])
    BY <1>1, <1>2 DEF RingType, isEmpty
  <1>8. head[r] \in Stored(r)
    BY <1>1, <1>5, <1>7, BetweenFacts
  <1>9. w = r => Stored(w)' = Stored(w) \ {head[w]}
    BY <1>1, <1>5, <1>6, <1>7, BetweenFacts
  <1>10. w # r => Stored(w)' = Stored(w)
    BY <1>1, <1>2, <1>5, <1>6 DEF RingType
  <1> QED BY <1>1, <1>8, <1>9, <1>10 DEF r

(* What the places and the slots of the tasks are.                         *)
LEMMA PlaceTypes ==
    ASSUME PoolInv
    PROVE  /\ slots \in [0 .. TaskCount - 1 -> TaskSlot] /\ taskId \in Nat
           /\ \A w \in Workers : \A i \in Stored(w) :
                 i \in Position /\ data[w][i] \in 0 .. TaskCount - 1
           /\ \A w \in Workers : item[w] \in 0 .. TaskCount - 1
           /\ ppc = "write" => Slot(taskId - 1) \in 0 .. TaskCount - 1
  <1>1. slots \in [0 .. TaskCount - 1 -> TaskSlot] /\ taskId \in Nat
    BY DEF PoolInv, SlotInv
  <1>2. \A w \in Workers : \A i \in Stored(w) : i \in Position /\ data[w][i] \in 0 .. TaskCount - 1
    BY StoredType DEF PoolInv, RingInv, TaskInv, TaskType
  <1>3. ppc = "write" => Slot(taskId - 1) \in 0 .. TaskCount - 1
    BY <1>1, SlotFacts DEF PoolInv, TaskInv, PushedWaits
  <1> QED BY <1>1, <1>2, <1>3 DEF PoolInv, TaskInv, TaskType

(* Two slots with a thunk have different tasks.                            *)
LEMMA TasksDiffer ==
    ASSUME TaskInv, NEW s \in 0 .. TaskCount - 1, NEW r \in 0 .. TaskCount - 1,
           slots[s].thunk, slots[r].thunk, slots[s].task = slots[r].task
    PROVE  s = r
  BY DEF TaskInv, LiveTasks

(* Schedule gives the producer a task in a slot of its own.                *)
LEMMA ScheduleTasks ==
    ASSUME PoolInv, Schedule, ~isFull(target'), ~overrun'
    PROVE  TaskInv'
  <1> USE DEF PoolInv
  <1> DEFINE s == Slot(taskId)
  <1>0. taskId \in Nat /\ s \in 0 .. TaskCount - 1 /\ ~slots[s].thunk
        /\ slots \in [0 .. TaskCount - 1 -> TaskSlot]
    BY SlotFacts DEF Schedule, SlotInv
  <1> HIDE DEF s
  <1>1. /\ taskId' = taskId + 1
        /\ slots' = [slots EXCEPT ![s] = Captured(taskId)]
        /\ ppc = "idle" /\ ppc' = "write"
        /\ UNCHANGED <<head, tail, data, wpc, victim, popped, item, started, cancelled>>
    BY DEF Schedule, ring, worker, history, s
  <1>2. slots'[s].task = taskId /\ slots'[s].thunk
    BY <1>0, <1>1 DEF Captured
  <1>3. \A r \in 0 .. TaskCount - 1 : r # s => slots'[r] = slots[r]
    BY <1>0, <1>1
  <1>4. \A w \in Workers : Stored(w)' = Stored(w)
    BY <1>1 DEF Stored, Occupied
  <1>5. \A w \in Workers : \A i \in Stored(w) :
           data[w][i] # s /\ data[w][i] \in 0 .. TaskCount - 1
    BY <1>0, PlaceTypes DEF TaskInv, StoredWait, Waiting
  <1>6. \A w \in Workers : wpc[w] \in Running =>
           item[w] # s /\ item[w] \in 0 .. TaskCount - 1
    BY <1>0, PlaceTypes DEF TaskInv, RunningLive
  <1>7. Slot(taskId' - 1) = s
    <2>1. taskId' - 1 = taskId
      BY <1>0, <1>1
    <2> QED BY <2>1 DEF s
  <1>8. taskId \notin started \cup cancelled
    BY <1>0 DEF TaskInv, History
  <1>9. \A r \in 0 .. TaskCount - 1 : r # s => (Waiting(r)' <=> Waiting(r))
    BY <1>1, <1>3 DEF Waiting
  <1>11. TaskType' /\ History'
    BY <1>0, <1>1 DEF TaskInv, TaskType, History
  <1>12. LiveTasks'
    <2> SUFFICES ASSUME NEW r \in 0 .. TaskCount - 1, slots'[r].thunk
                 PROVE  slots'[r].task \in 0 .. taskId' - 1 /\ Slot(slots'[r].task) = r
      BY DEF LiveTasks, Slot
    <2>1. CASE r = s
      BY <1>0, <1>1, <1>2, <2>1 DEF s
    <2>2. CASE r # s
      <3>1. slots[r].task \in 0 .. taskId - 1 /\ Slot(slots[r].task) = r
        BY <1>3, <2>2 DEF TaskInv, LiveTasks
      <3> QED BY <1>0, <1>1, <1>3, <2>2, <3>1
    <2> QED BY <2>1, <2>2
  <1>13. StoredWait'
    BY <1>1, <1>4, <1>5, <1>9 DEF TaskInv, StoredWait
  <1>14. RunningLive'
    <2> SUFFICES ASSUME NEW w \in Workers, wpc[w] \in Running
                 PROVE  /\ wpc[w] = "run" => Waiting(item[w])'
                        /\ slots'[item[w]].thunk /\ slots'[item[w]].task \notin cancelled
      BY <1>1 DEF RunningLive, Running
    <2>1. slots'[item[w]] = slots[item[w]]
      BY <1>3, <1>6
    <2>2. Waiting(item[w])' <=> Waiting(item[w])
      BY <1>1, <2>1 DEF Waiting
    <2> QED BY <2>1, <2>2 DEF TaskInv, RunningLive
  <1>15. PushedWaits'
    <2>1. Waiting(Slot(taskId - 1))'
      BY <1>1, <1>2, <1>7, <1>8 DEF Waiting, Slot
    <2> QED BY <1>0, <1>1, <2>1 DEF PushedWaits
  <1>16. StoredApart' /\ RunningApart'
    BY <1>1, <1>4 DEF TaskInv, StoredApart, RunningApart
  <1>17. PushedApart'
    <2> SUFFICES ASSUME NEW w \in Workers
                 PROVE  /\ wpc[w] \in Running => item[w] # s
                        /\ \A i \in Stored(w) : data[w][i] # s
      BY <1>1, <1>4, <1>7 DEF PushedApart, Slot
    <2> QED BY <1>5, <1>6
  <1> QED BY <1>11, <1>12, <1>13, <1>14, <1>15, <1>16, <1>17 DEF TaskInv

(* push moves the task of the producer into the ring.                      *)
LEMMA PushWriteTasks ==
    ASSUME PoolInv, PushWrite
    PROVE  TaskInv'
  <1> USE DEF PoolInv
  <1> DEFINE s == Slot(taskId - 1)
             r == target
             p == tail[target]
  <1>0. s \in 0 .. TaskCount - 1 /\ Waiting(s) /\ r \in Workers
    BY PlaceTypes DEF PushWrite, TaskInv, PushedWaits, RingInv, RingType
  <1>1. ~isFull(target) /\ p \in Position /\ p \notin Stored(r)
    BY <1>0, WriteStores
  <1>2. \A w \in Workers : Stored(w)' = IF w = r THEN Stored(w) \cup {p} ELSE Stored(w)
    BY WriteStores
  <1>3. /\ data' = [data EXCEPT ![r][p] = s]
        /\ ppc = "write" /\ ppc' = "publish"
        /\ UNCHANGED <<slots, taskId, wpc, item, started, cancelled>>
    BY <1>1 DEF PushWrite, worker, history
  <1>4. \A w \in Workers : \A i \in Stored(w) :
           data[w][i] # s /\ data'[w][i] = data[w][i]
    <2>1. \A w \in Workers : \A i \in Stored(w) : data[w][i] # s
      BY <1>3 DEF TaskInv, PushedApart
    <2>2. \A w \in Workers : \A i \in Stored(w) : i \in Position /\ ~(w = r /\ i = p)
      BY <1>1, PlaceTypes
    <2>3. data \in [Workers -> [Position -> 0 .. TaskCount - 1]]
      BY DEF TaskInv, TaskType
    <2> HIDE DEF s, r, p
    <2>4. \A w \in Workers : \A i \in Stored(w) : data'[w][i] = data[w][i]
      BY <1>3, <2>2, <2>3
    <2> QED BY <2>1, <2>4
  <1>5. data'[r][p] = s
    BY <1>0, <1>1, <1>3 DEF TaskInv, TaskType
  <1>6. \A w \in Workers : wpc[w] \in Running => item[w] # s
    BY <1>3 DEF TaskInv, PushedApart
  <1> HIDE DEF s, r, p
  <1>7. TaskType'
    BY <1>0, <1>1, <1>3 DEF TaskInv, TaskType
  <1>8. LiveTasks' /\ History' /\ RunningLive'
    BY <1>3 DEF TaskInv, LiveTasks, History, RunningLive, Waiting, Slot
  <1>9. StoredWait'
    BY <1>0, <1>2, <1>3, <1>4, <1>5 DEF TaskInv, StoredWait, Waiting
  <1>10. PushedWaits' /\ PushedApart'
    BY <1>3 DEF PushedWaits, PushedApart
  <1>11. StoredApart'
    <2> SUFFICES ASSUME NEW w \in Workers, NEW v \in Workers,
                        NEW i \in Stored(w)', NEW j \in Stored(v)',
                        data'[w][i] = data'[v][j]
                 PROVE  w = v /\ i = j
      BY DEF StoredApart
    <2>1. i \in Stored(w) \/ (w = r /\ i = p)
      BY <1>2
    <2>2. j \in Stored(v) \/ (v = r /\ j = p)
      BY <1>2
    <2> QED BY <1>4, <1>5, <2>1, <2>2 DEF TaskInv, StoredApart
  <1>12. RunningApart'
    <2> SUFFICES ASSUME NEW w \in Workers, wpc[w] \in Running, NEW v \in Workers
                 PROVE  /\ wpc[v] \in Running /\ item[v] = item[w] => v = w
                        /\ \A i \in Stored(v)' : data'[v][i] # item[w]
      BY <1>3 DEF RunningApart
    <2>1. wpc[v] \in Running /\ item[v] = item[w] => v = w
      BY DEF TaskInv, RunningApart
    <2>2. \A i \in Stored(v) : data[v][i] # item[w]
      BY DEF TaskInv, RunningApart
    <2>3. \A i \in Stored(v)' : i \in Stored(v) \/ (v = r /\ i = p)
      BY <1>2
    <2> QED BY <1>4, <1>5, <1>6, <2>1, <2>2, <2>3
  <1> QED BY <1>7, <1>8, <1>9, <1>10, <1>11, <1>12 DEF TaskInv

(* pop moves a task from the ring to the worker.                           *)
LEMMA PopReadTasks ==
    ASSUME PoolInv, NEW u \in Workers, PopRead(u)
    PROVE  TaskInv'
  <1> USE DEF PoolInv
  <1> DEFINE r == victim[u]
             p == popped[u]
             s == data[r][p]
  <1>0. r \in Workers /\ p \in Stored(r)
    BY ReadTakes DEF RingInv, RingType
  <1>1. \A w \in Workers : Stored(w)' = IF w = r THEN Stored(w) \ {p} ELSE Stored(w)
    BY ReadTakes
  <1>2. /\ item' = [item EXCEPT ![u] = s]
        /\ wpc[u] = "read" /\ wpc' = [wpc EXCEPT ![u] = "run"]
        /\ UNCHANGED <<slots, taskId, ppc, data, started, cancelled>>
    BY DEF PopRead, Goto, producer, ring, history
  <1>3. s \in 0 .. TaskCount - 1 /\ Waiting(s)
    BY <1>0, PlaceTypes DEF TaskInv, StoredWait
  <1>4. \A w \in Workers : \A i \in Stored(w) : data[w][i] = s => w = r /\ i = p
    BY <1>0 DEF TaskInv, StoredApart
  <1>5. \A w \in Workers : wpc[w] \in Running => item[w] # s
    BY <1>0 DEF TaskInv, RunningApart
  <1>6. ppc = "write" => Slot(taskId - 1) # s
    BY <1>0 DEF TaskInv, PushedApart
  <1> HIDE DEF s, r, p
  <1>7. item'[u] = s /\ wpc'[u] = "run" /\ wpc[u] \notin Running
        /\ \A w \in Workers \ {u} : item'[w] = item[w] /\ wpc'[w] = wpc[w]
    BY <1>2 DEF TaskInv, TaskType, RingInv, RingType, Running
  <1>8. TaskType'
    BY <1>2, <1>3 DEF TaskInv, TaskType
  <1>9. LiveTasks' /\ History' /\ PushedWaits'
    BY <1>2 DEF TaskInv, LiveTasks, History, PushedWaits, Waiting, Slot
  <1>10. StoredWait'
    BY <1>1, <1>2 DEF TaskInv, StoredWait, Waiting
  <1>11. RunningLive'
    <2> SUFFICES ASSUME NEW w \in Workers, wpc'[w] \in Running
                 PROVE  /\ wpc'[w] = "run" => Waiting(item'[w])
                        /\ slots[item'[w]].thunk /\ slots[item'[w]].task \notin cancelled
      BY <1>2 DEF RunningLive, Running, Waiting
    <2>1. CASE w = u
      BY <1>3, <1>7, <2>1 DEF Waiting
    <2>2. CASE w # u
      BY <1>7, <2>2 DEF TaskInv, RunningLive
    <2> QED BY <2>1, <2>2
  <1>12. StoredApart'
    BY <1>1, <1>2 DEF TaskInv, StoredApart
  <1>13. RunningApart'
    <2> SUFFICES ASSUME NEW w \in Workers, wpc'[w] \in Running, NEW v \in Workers
                 PROVE  /\ wpc'[v] \in Running /\ item'[v] = item'[w] => v = w
                        /\ \A i \in Stored(v)' : data[v][i] # item'[w]
      BY <1>2 DEF RunningApart
    <2>1. \A i \in Stored(v)' : i \in Stored(v) /\ ~(v = r /\ i = p)
      BY <1>1
    <2>2. CASE w = u
      BY <1>4, <1>5, <1>7, <2>1, <2>2
    <2>3. CASE w # u
      <3>1. wpc[w] \in Running /\ item'[w] = item[w]
        BY <1>7, <2>3
      <3>2. \A i \in Stored(v) : data[v][i] # item[w]
        BY <3>1 DEF TaskInv, RunningApart
      <3>3. wpc[v] \in Running /\ item[v] = item[w] => v = w
        BY <3>1 DEF TaskInv, RunningApart
      <3> QED BY <1>5, <1>7, <2>1, <2>3, <3>1, <3>2, <3>3
    <2> QED BY <2>2, <2>3
  <1>14. PushedApart'
    BY <1>1, <1>2, <1>6, <1>7 DEF TaskInv, PushedApart, Slot
  <1> QED BY <1>8, <1>9, <1>10, <1>11, <1>12, <1>13, <1>14 DEF TaskInv

(* A task starts: the first time, and it was not cancelled.                *)
LEMMA RunTasks ==
    ASSUME PoolInv, NEW u \in Workers, Run(u), ~slots[item[u]].disposed
    PROVE  slots[item[u]].task \notin started /\ TaskInv'
  <1> USE DEF PoolInv
  <1> DEFINE s == item[u]
             t == slots[s].task
  <1>1. /\ wpc[u] = "run" /\ wpc' = [wpc EXCEPT ![u] = "set"]
        /\ started' = started \cup {t}
        /\ UNCHANGED <<slots, taskId, ppc, data, head, tail, victim, popped, target, item,
                       cancelled>>
    BY DEF Run, Goto, producer, ring
  <1>2. s \in 0 .. TaskCount - 1 /\ Waiting(s) /\ t \in 0 .. taskId - 1
    BY <1>1, PlaceTypes DEF TaskInv, RunningLive, LiveTasks, Waiting
  <1>3. t \notin started /\ t \notin cancelled
    BY <1>2 DEF Waiting
  <1>4. \A r \in 0 .. TaskCount - 1 : r # s /\ Waiting(r) => Waiting(r)'
    BY <1>1, <1>2, TasksDiffer DEF Waiting
  <1>5. wpc'[u] = "set" /\ \A w \in Workers \ {u} : wpc'[w] = wpc[w]
    BY <1>1 DEF RingInv, RingType
  <1>6. \A w \in Workers : Stored(w)' = Stored(w)
    <2>1. \A w \in Workers : wpc'[w] = "read" <=> wpc[w] = "read"
      BY <1>1, <1>5
    <2> QED BY <1>1, <2>1 DEF Stored, Occupied
  <1>7. \A w \in Workers : wpc'[w] \in Running <=> wpc[w] \in Running
    BY <1>1, <1>5 DEF Running
  <1>8. u \in Workers /\ wpc[u] \in Running
    BY <1>1 DEF Running
  <1> HIDE DEF t
  <1>9. TaskType' /\ LiveTasks' /\ History'
    BY <1>1, <1>2, <1>3 DEF TaskInv, TaskType, LiveTasks, History, Slot
  <1>10. StoredWait'
    <2> SUFFICES ASSUME NEW w \in Workers, NEW i \in Stored(w) PROVE Waiting(data[w][i])'
      BY <1>6 DEF StoredWait
    <2>1. data[w][i] # s /\ data[w][i] \in 0 .. TaskCount - 1 /\ Waiting(data[w][i])
      BY <1>8, PlaceTypes DEF TaskInv, RunningApart, StoredWait
    <2> QED BY <1>1, <1>4, <2>1 DEF Waiting
  <1>11. RunningLive'
    <2> SUFFICES ASSUME NEW w \in Workers, wpc'[w] \in Running
                 PROVE  /\ wpc'[w] = "run" => Waiting(item[w])'
                        /\ slots[item[w]].thunk /\ slots[item[w]].task \notin cancelled
      BY <1>1 DEF RunningLive, Running
    <2>1. slots[item[w]].thunk /\ slots[item[w]].task \notin cancelled
      BY <1>7 DEF TaskInv, RunningLive
    <2>2. ASSUME wpc'[w] = "run" PROVE Waiting(item[w])'
      <3>1. w # u /\ wpc[w] = "run"
        BY <1>5, <2>2
      <3>2. item[w] # s /\ item[w] \in 0 .. TaskCount - 1 /\ Waiting(item[w])
        BY <1>8, <3>1, PlaceTypes DEF TaskInv, RunningApart, RunningLive, Running
      <3> QED BY <1>1, <1>4, <3>2 DEF Waiting
    <2> QED BY <2>1, <2>2
  <1>12. PushedWaits'
    <2> SUFFICES ASSUME ppc = "write" PROVE taskId > 0 /\ Waiting(Slot(taskId - 1))'
      BY <1>1 DEF PushedWaits
    <2>1. Slot(taskId - 1) # s /\ taskId > 0 /\ Waiting(Slot(taskId - 1))
          /\ Slot(taskId - 1) \in 0 .. TaskCount - 1
      BY <1>8, PlaceTypes DEF TaskInv, PushedApart, PushedWaits
    <2> QED BY <1>1, <1>4, <2>1 DEF Waiting, Slot
  <1>13. StoredApart'
    BY <1>1, <1>6 DEF TaskInv, StoredApart
  <1>14. RunningApart'
    BY <1>1, <1>6, <1>7 DEF TaskInv, RunningApart
  <1>15. PushedApart'
    BY <1>1, <1>6, <1>7 DEF TaskInv, PushedApart, Slot
  <1> QED BY <1>3, <1>9, <1>10, <1>11, <1>12, <1>13, <1>14, <1>15 DEF TaskInv, t

(* A worker leaves its task.                                               *)
LEMMA EpilogueTasks ==
    ASSUME PoolInv, NEW u \in Workers, Epilogue(u)
    PROVE  TaskInv'
  <1> USE DEF PoolInv
  <1> DEFINE s == item[u]
  <1>1. /\ wpc[u] = "epilogue" /\ wpc' = [wpc EXCEPT ![u] = "start"]
        /\ slots' = [slots EXCEPT ![s].thunk = FALSE]
        /\ item' = [item EXCEPT ![u] = 0]
        /\ UNCHANGED <<taskId, ppc, data, head, tail, victim, popped, target, started,
                       cancelled>>
    BY DEF Epilogue, Goto, producer, ring, history
  <1>2. s \in 0 .. TaskCount - 1 /\ slots \in [0 .. TaskCount - 1 -> TaskSlot]
    BY PlaceTypes
  <1>3. wpc'[u] = "start" /\ \A w \in Workers \ {u} : wpc'[w] = wpc[w] /\ item'[w] = item[w]
    BY <1>1 DEF RingInv, RingType, TaskInv, TaskType
  <1>4. u \in Workers /\ wpc[u] \in Running
    BY <1>1 DEF Running
  <1>5. /\ \A r \in 0 .. TaskCount - 1 : r # s => slots'[r] = slots[r]
        /\ ~slots'[s].thunk
    BY <1>1, <1>2 DEF TaskSlot
  <1>6. \A w \in Workers : Stored(w)' = Stored(w)
    <2>1. \A w \in Workers : wpc'[w] = "read" <=> wpc[w] = "read"
      BY <1>1, <1>3
    <2> QED BY <1>1, <2>1 DEF Stored, Occupied
  <1>7. \A w \in Workers : \A i \in Stored(w) :
           data[w][i] # s /\ data[w][i] \in 0 .. TaskCount - 1
    BY <1>4, PlaceTypes DEF TaskInv, RunningApart
  <1>8. \A w \in Workers : wpc'[w] \in Running =>
           /\ w # u /\ wpc[w] \in Running /\ item'[w] = item[w]
           /\ item[w] # s /\ item[w] \in 0 .. TaskCount - 1
    <2> SUFFICES ASSUME NEW w \in Workers, wpc'[w] \in Running
                 PROVE  /\ w # u /\ wpc[w] \in Running /\ item'[w] = item[w]
                        /\ item[w] # s /\ item[w] \in 0 .. TaskCount - 1
      OBVIOUS
    <2>1. w # u /\ wpc[w] \in Running /\ item'[w] = item[w]
      BY <1>3 DEF Running
    <2> QED BY <1>4, <2>1, PlaceTypes DEF TaskInv, RunningApart
  <1>9. TaskType'
    <2>1. 0 \in 0 .. TaskCount - 1
      BY SomeSlot
    <2> QED BY <1>1, <2>1 DEF TaskInv, TaskType
  <1>10. LiveTasks' /\ History'
    BY <1>1, <1>5 DEF TaskInv, LiveTasks, History, Slot
  <1>11. StoredWait'
    BY <1>1, <1>5, <1>6, <1>7 DEF TaskInv, StoredWait, Waiting
  <1>12. RunningLive'
    <2> SUFFICES ASSUME NEW w \in Workers, wpc'[w] \in Running
                 PROVE  /\ wpc'[w] = "run" => Waiting(item[w])
                        /\ slots[item[w]].thunk /\ slots[item[w]].task \notin cancelled
      BY <1>1, <1>5, <1>8 DEF RunningLive, Running, Waiting
    <2> QED BY <1>3, <1>8 DEF TaskInv, RunningLive
  <1>13. PushedWaits'
    <2> SUFFICES ASSUME ppc = "write" PROVE taskId > 0 /\ Waiting(Slot(taskId - 1))'
      BY <1>1 DEF PushedWaits
    <2>1. Slot(taskId - 1) # s /\ taskId > 0 /\ Waiting(Slot(taskId - 1))
          /\ Slot(taskId - 1) \in 0 .. TaskCount - 1
      BY <1>4, PlaceTypes DEF TaskInv, PushedApart, PushedWaits
    <2> QED BY <1>1, <1>5, <2>1 DEF Waiting, Slot
  <1>14. StoredApart'
    BY <1>1, <1>6 DEF TaskInv, StoredApart
  <1>15. RunningApart'
    BY <1>1, <1>6, <1>8 DEF TaskInv, RunningApart
  <1>16. PushedApart'
    BY <1>1, <1>6, <1>8 DEF TaskInv, PushedApart, Slot
  <1> QED BY <1>9, <1>10, <1>11, <1>12, <1>13, <1>14, <1>15, <1>16 DEF TaskInv

(* The destructor cancels a task: one that did not start.                  *)
LEMMA DrainTasks ==
    ASSUME PoolInv, Drain
    PROVE  TaskInv'
  <1> USE DEF PoolInv
  <1> DEFINE r == FirstFilled
             p == head[r]
             s == data[r][p]
             t == slots[s].task
  <1>0. Workers # {}
    BY WorkersAssumption DEF Workers
  <1>1. r \in Workers /\ p \in Stored(r)
    BY <1>0, DrainTakes
  <1>2. \A w \in Workers : Stored(w)' = IF w = r THEN Stored(w) \ {head[w]} ELSE Stored(w)
    BY DrainTakes
  <1>3. /\ slots' = [slots EXCEPT ![s] = [Disposed(slots[s]) EXCEPT !.thunk = FALSE]]
        /\ cancelled' = cancelled \cup {t} /\ started' = started
        /\ ppc = "draining"
        /\ UNCHANGED <<taskId, ppc, data, wpc, item>>
    BY DEF Drain, AfterDrain, producer, worker
  <1>4. \A w \in Workers : wpc[w] \notin Running
    BY <1>3 DEF RingInv, DrainsAlone, Running
  <1>5. s \in 0 .. TaskCount - 1 /\ Waiting(s) /\ slots \in [0 .. TaskCount - 1 -> TaskSlot]
    BY <1>1, PlaceTypes DEF TaskInv, StoredWait
  <1>6. t \in 0 .. taskId - 1 /\ t \notin started
    BY <1>5 DEF TaskInv, LiveTasks, Waiting
  <1> HIDE DEF r
  <1>7. \A w \in Workers : \A i \in Stored(w)' :
           i \in Stored(w) /\ data[w][i] # s /\ data[w][i] \in 0 .. TaskCount - 1
    <2> SUFFICES ASSUME NEW w \in Workers, NEW i \in Stored(w)'
                 PROVE  i \in Stored(w) /\ data[w][i] # s /\ data[w][i] \in 0 .. TaskCount - 1
      OBVIOUS
    <2>1. CASE w = r
      <3>1. Stored(w)' = Stored(w) \ {p}
        BY <1>2, <2>1
      <3> QED BY <1>1, <2>1, <3>1, PlaceTypes DEF TaskInv, StoredApart
    <2>2. CASE w # r
      <3>1. Stored(w)' = Stored(w)
        BY <1>2, <2>2
      <3> QED BY <1>1, <2>2, <3>1, PlaceTypes DEF TaskInv, StoredApart
    <2> QED BY <2>1, <2>2
  <1>8. \A q \in 0 .. TaskCount - 1 : q # s /\ slots[q].thunk => slots[q].task # t
    BY <1>5, TasksDiffer DEF Waiting
  <1> HIDE DEF s, p, t
  <1>9. /\ \A q \in 0 .. TaskCount - 1 : q # s => slots'[q] = slots[q]
        /\ ~slots'[s].thunk
    <2>1. [Disposed(slots[s]) EXCEPT !.thunk = FALSE].thunk = FALSE
      BY <1>5 DEF Disposed, TaskSlot
    <2> QED BY <1>3, <1>5, <2>1
  <1>10. TaskType' /\ History'
    BY <1>3, <1>6 DEF TaskInv, TaskType, History
  <1>11. LiveTasks'
    BY <1>3, <1>9 DEF TaskInv, LiveTasks, Slot
  <1>12. StoredWait'
    <2> SUFFICES ASSUME NEW w \in Workers, NEW i \in Stored(w)' PROVE Waiting(data[w][i])'
      BY <1>3 DEF StoredWait, Waiting
    <2>1. Waiting(data[w][i]) /\ slots'[data[w][i]] = slots[data[w][i]]
      BY <1>7, <1>9 DEF TaskInv, StoredWait
    <2>2. slots[data[w][i]].task # t
      BY <1>7, <1>8, <2>1 DEF Waiting
    <2>3. data' = data /\ cancelled' = cancelled \cup {t} /\ started' = started
      BY <1>3
    <2> QED BY <2>1, <2>2, <2>3 DEF Waiting
  <1>13. RunningLive' /\ RunningApart'
    BY <1>3, <1>4 DEF RunningLive, RunningApart, Running
  <1>14. PushedWaits' /\ PushedApart'
    BY <1>3 DEF PushedWaits, PushedApart
  <1>15. StoredApart'
    BY <1>3, <1>7 DEF TaskInv, StoredApart
  <1> QED BY <1>10, <1>11, <1>12, <1>13, <1>14, <1>15 DEF TaskInv

-----------------------------------------------------------------------------
LEMMA TaskInit == Init => TaskInv
  <1> SUFFICES ASSUME Init PROVE TaskInv
    OBVIOUS
  <1>1. 0 \in 0 .. TaskCount - 1
    BY SomeSlot
  <1>2. \A w \in Workers : Stored(w) = {}
    <2>1. \A w \in Workers : Occupied(w) = {}
      BY DEF Init, Occupied
    <2> QED BY <2>1 DEF Init, Stored
  <1>3. \A s \in 0 .. TaskCount - 1 : ~slots[s].thunk
    BY DEF Init, Empty
  <1>4. \A w \in Workers : wpc[w] \notin Running
    BY DEF Init, Running
  <1>5. TaskType /\ LiveTasks /\ History /\ PushedWaits /\ PushedApart
    BY <1>1, <1>3 DEF Init, TaskType, LiveTasks, History, PushedWaits, PushedApart
  <1>6. StoredWait /\ StoredApart
    BY <1>2 DEF StoredWait, StoredApart
  <1>7. RunningLive /\ RunningApart
    BY <1>4 DEF RunningLive, RunningApart, Running
  <1> QED BY <1>5, <1>6, <1>7 DEF TaskInv

(* A step that touches neither the rings nor the running workers.          *)
LEMMA QuietStep ==
    ASSUME PoolInv, SameTasks,
           UNCHANGED <<head, tail, data, popped, item, taskId, started, cancelled>>,
           \A w \in Workers : /\ wpc'[w] \in Running <=> wpc[w] \in Running
                              /\ wpc'[w] = "run" => wpc[w] = "run"
                              /\ wpc'[w] = "read" <=> wpc[w] = "read"
                              /\ wpc[w] = "read" => victim'[w] = victim[w],
           ppc' = "publish" <=> ppc = "publish",
           ppc = "publish" => UNCHANGED target,
           ppc' = "write" => ppc = "write"
    PROVE  TaskInv'
  <1>1. \A w \in Workers : Stored(w)' = Stored(w)
    <2> SUFFICES ASSUME NEW w \in Workers PROVE Stored(w)' = Stored(w)
      OBVIOUS
    <2>1. Occupied(w)' = Occupied(w)
      BY DEF Occupied
    <2>2. {x \in Workers : wpc'[x] = "read" /\ victim'[x] = w}
          = {x \in Workers : wpc[x] = "read" /\ victim[x] = w}
      OBVIOUS
    <2> QED BY <2>1, <2>2 DEF Stored
  <1>2. item' \in [Workers -> 0 .. TaskCount - 1]
    BY DEF PoolInv, TaskInv, TaskType
  <1> QED BY <1>1, <1>2, TaskQuiet DEF PoolInv, RingInv

(* A task goes from the client to the producer's hand, a ring, a worker    *)
(* and out, or from a ring to the destructor; no other step moves one.     *)
LEMMA TaskStep == PoolInv /\ [Next]_vars /\ ~overrun' => TaskInv'
  <1> SUFFICES ASSUME PoolInv, [Next]_vars, ~overrun' PROVE TaskInv'
    OBVIOUS
  <1>1. ASSUME UNCHANGED slots PROVE SameTasks
    BY <1>1 DEF SameTasks
  <1>2. CASE Schedule
    <2>1. CASE isFull(target')
      BY <1>1, <1>2, <2>1, QuietStep DEF Schedule, ring, worker, history
    <2> QED BY <1>2, <2>1, ScheduleTasks
  <1>3. CASE PushPublish
    <2>1. \A w \in Workers : Stored(w)' = Stored(w)
      BY <1>3, PublishKeepsStored DEF PoolInv
    <2>2. /\ UNCHANGED <<slots, data, taskId, started, cancelled, item, wpc>>
          /\ ppc' = "notify"
      BY <1>3 DEF PushPublish, worker, history
    <2>3. item' \in [Workers -> 0 .. TaskCount - 1]
      BY <2>2 DEF PoolInv, TaskInv, TaskType
    <2> QED BY <1>1, <2>1, <2>2, <2>3, TaskQuiet DEF PoolInv, RingInv
  <1>4. CASE ScheduleNotify \/ ToggleNotify \/ StopNotify
    <2>1. \/ UNCHANGED wpc
          \/ \E ws \in SUBSET Asleep : wpc' = Woken(ws)
      BY <1>4, NotifyWakes DEF ScheduleNotify, ToggleNotify, ToggleWakes, StopNotify, StopWakes
    <2>2. \A w \in Workers : /\ wpc'[w] \in Running <=> wpc[w] \in Running
                             /\ wpc'[w] = "run" => wpc[w] = "run"
                             /\ wpc'[w] = "read" <=> wpc[w] = "read"
      BY <2>1 DEF Asleep, Woken, Running
    <2>3. /\ UNCHANGED <<head, tail, data, popped, item, taskId, started, cancelled,
                         slots, victim, target>>
          /\ ppc \notin {"publish", "write"} /\ ppc' \notin {"publish", "write"}
      BY <1>4 DEF ScheduleNotify, ToggleNotify, StopNotify, ring, history
    <2> QED BY <1>1, <2>2, <2>3, QuietStep
  <1>5. CASE SetIdleWaiting \/ StopWork \/ Join \/ Drained
    <2>1. /\ UNCHANGED <<head, tail, data, popped, item, taskId, started, cancelled,
                         slots, victim, target, wpc>>
          /\ ppc \notin {"publish", "write"} /\ ppc' \notin {"publish", "write"}
      BY <1>5 DEF SetIdleWaiting, StopWork, Join, AfterJoin, Drained, ring, worker, history
    <2> QED BY <1>1, <2>1, QuietStep
  <1>6. ASSUME NEW u \in Workers, WorkerStep(u)
        PROVE  TaskInv'
    <2>1. wpc \in [Workers -> WorkerPc]
      BY DEF PoolInv, RingInv, RingType
    <2>2. CASE LoopHead(u) \/ ScanAgain(u) \/ IdleWait(u)
      <3>1. /\ UNCHANGED <<head, tail, data, popped, item, taskId, started, cancelled,
                           slots, victim, target, ppc>>
            /\ wpc[u] \in {"start", "empty", "waking"}
            /\ \E pc \in {"asleep", "exited", "pop", "start"} :
                  wpc' = [wpc EXCEPT ![u] = pc]
        BY <2>2 DEF LoopHead, ScanAgain, IdleWait, Goto, ring, producer, history
      <3>2. \A w \in Workers : /\ wpc'[w] \in Running <=> wpc[w] \in Running
                               /\ wpc'[w] = "run" => wpc[w] = "run"
                               /\ wpc'[w] = "read" <=> wpc[w] = "read"
        BY <2>1, <3>1 DEF Running
      <3> QED BY <1>1, <3>1, <3>2, QuietStep
    <2>3. CASE PopEmpty(u)
      <3>1. /\ UNCHANGED <<head, tail, data, popped, item, taskId, started, cancelled,
                           slots, target, ppc>>
            /\ wpc[u] = "pop"
            /\ \E pc \in {"pop", "empty", "start"} : wpc' = [wpc EXCEPT ![u] = pc]
            /\ \E v : victim' = [victim EXCEPT ![u] = v]
        <4>1. wpc = [wpc EXCEPT ![u] = wpc[u]]
          BY <2>1
        <4> QED BY <2>3, <4>1 DEF PopEmpty, Goto, ring, producer, history
      <3>2. \A w \in Workers : /\ wpc'[w] \in Running <=> wpc[w] \in Running
                               /\ wpc'[w] = "run" => wpc[w] = "run"
                               /\ wpc'[w] = "read" <=> wpc[w] = "read"
                               /\ wpc[w] = "read" => victim'[w] = victim[w]
        BY <2>1, <3>1 DEF Running, PoolInv, RingInv, RingType
      <3> QED BY <1>1, <3>1, <3>2, QuietStep
    <2>4. CASE PopPublish(u)
      <3>1. \A w \in Workers : Stored(w)' = Stored(w)
        BY <2>4, PopKeepsStored DEF PoolInv
      <3>2. /\ UNCHANGED <<slots, data, taskId, started, cancelled, item, ppc>>
            /\ wpc[u] = "pop" /\ wpc' = [wpc EXCEPT ![u] = "read"]
        BY <2>4 DEF PopPublish, Goto, producer, history
      <3>3. item' \in [Workers -> 0 .. TaskCount - 1]
        BY <3>2 DEF PoolInv, TaskInv, TaskType
      <3>4. \A w \in Workers : /\ wpc'[w] \in Running <=> wpc[w] \in Running
                               /\ wpc'[w] = "run" => wpc[w] = "run"
        BY <2>1, <3>2 DEF Running
      <3> QED BY <1>1, <3>1, <3>2, <3>3, <3>4, TaskQuiet DEF PoolInv, RingInv
    <2>5. CASE PopRead(u)
      BY <2>5, PopReadTasks
    <2>6. CASE Run(u)
      <3>1. CASE slots[item[u]].disposed
        <4>1. /\ UNCHANGED <<head, tail, data, popped, item, taskId, started, cancelled,
                             slots, victim, target, ppc>>
              /\ wpc[u] = "run" /\ wpc' = [wpc EXCEPT ![u] = "epilogue"]
          BY <2>6, <3>1 DEF Run, Goto, ring, producer
        <4>2. \A w \in Workers : /\ wpc'[w] \in Running <=> wpc[w] \in Running
                                 /\ wpc'[w] = "run" => wpc[w] = "run"
                                 /\ wpc'[w] = "read" <=> wpc[w] = "read"
          BY <2>1, <4>1 DEF Running
        <4> QED BY <1>1, <4>1, <4>2, QuietStep
      <3> QED BY <2>6, <3>1, RunTasks
    <2>7. CASE SetResult(u)
      <3>1. /\ UNCHANGED <<head, tail, data, popped, item, taskId, started, cancelled,
                           victim, target, ppc>>
            /\ wpc[u] = "set" /\ wpc' = [wpc EXCEPT ![u] = "epilogue"]
            /\ slots' = [slots EXCEPT ![item[u]].hasResult = TRUE]
        BY <2>7 DEF SetResult, Goto, ring, producer, history
      <3>2. \A w \in Workers : /\ wpc'[w] \in Running <=> wpc[w] \in Running
                               /\ wpc'[w] = "run" => wpc[w] = "run"
                               /\ wpc'[w] = "read" <=> wpc[w] = "read"
        BY <2>1, <3>1 DEF Running
      <3>3. SameTasks
        BY <3>1 DEF SameTasks, PoolInv, SlotInv, TaskSlot
      <3> QED BY <3>1, <3>2, <3>3, QuietStep
    <2>8. CASE Epilogue(u)
      BY <2>8, EpilogueTasks
    <2> QED BY <1>6, <2>2, <2>3, <2>4, <2>5, <2>6, <2>7, <2>8 DEF WorkerStep
  <1>7. CASE Get
    <2>1. /\ UNCHANGED <<head, tail, data, popped, item, taskId, started, cancelled,
                         victim, target, ppc, wpc>>
          /\ \E r : slots' = [slots EXCEPT ![r] = Disposed(slots[r])]
      BY <1>7 DEF Get, ring, producer, worker, history
    <2>2. SameTasks
      <3>1. \A s \in TaskSlot : Disposed(s).task = s.task /\ Disposed(s).thunk = s.thunk
        BY DEF Disposed, TaskSlot
      <3> QED BY <2>1, <3>1 DEF SameTasks, PoolInv, SlotInv
    <2> QED BY <2>1, <2>2, QuietStep
  <1>8. CASE UNCHANGED vars
    BY <1>1, <1>8, QuietStep DEF vars, ring, producer, worker, history
  <1> QED
    BY <1>2, <1>3, <1>4, <1>5, <1>6, <1>7, <1>8, PushWriteTasks, DrainTasks
       DEF Next, Producer

-----------------------------------------------------------------------------
(* m_numTasks.                                                             *)

Lengths == [w \in Workers |-> Cardinality(Occupied(w))]
InHand  == IF ppc \in {"write", "publish"} THEN 1 ELSE 0
Readers == {w \in Workers : wpc[w] = "read"}

(* The count is that of the tasks in the rings, in the hand of the         *)
(* producer and in that of a worker that has not counted its task.         *)
CountInv ==
    \E t : IsSum(t, Lengths, Workers) /\ numTasks = t + InHand + Cardinality(Readers)

LEMMA WorkersFinite ==
    /\ IsFiniteSet(Workers)
    /\ \A S \in SUBSET Workers : IsFiniteSet(S) /\ Cardinality(S) \in Nat
  <1>1. N - 1 \in Int /\ 0 \in Int
    BY WorkersAssumption
  <1>2. IsFiniteSet(Workers)
    BY <1>1, FS_Interval DEF Workers
  <1> QED BY <1>2, FS_Subset, FS_CardinalityType

LEMMA BetweenFinite ==
    \A h, t : IsFiniteSet(Between(h, t)) /\ Cardinality(Between(h, t)) \in Nat
  <1>1. NumTasksPerThread - 1 \in Int /\ 0 \in Int
    BY CapacityAssumption
  <1>2. IsFiniteSet(Position)
    BY <1>1, FS_Interval DEF Position
  <1>3. \A h, t : Between(h, t) \subseteq Position
    BY DEF Between
  <1> QED BY <1>2, <1>3, FS_Subset, FS_CardinalityType

(* Moving an end of a ring takes or adds one position.                     *)
LEMMA LengthMoves ==
    ASSUME NEW h \in Position, NEW t \in Position
    PROVE  /\ h # t => Cardinality(Between(Succ(h), t)) = Cardinality(Between(h, t)) - 1
           /\ Succ(t) # h => Cardinality(Between(h, Succ(t))) = Cardinality(Between(h, t)) + 1
  <1> DEFINE B == Between(h, t)
  <1>1. /\ t \notin B
        /\ Succ(t) # h => Between(h, Succ(t)) = B \cup {t}
        /\ h # t => h \in B /\ Between(Succ(h), t) = B \ {h}
    BY BetweenFacts
  <1>2. IsFiniteSet(B) /\ Cardinality(B) \in Nat
    BY BetweenFinite
  <1> HIDE DEF B
  <1>3. h \in B => Cardinality(B \ {h}) = Cardinality(B) - 1
    BY <1>2, FS_RemoveElement
  <1>4. t \notin B => Cardinality(B \cup {t}) = Cardinality(B) + 1
    BY <1>2, FS_AddElement
  <1> QED BY <1>1, <1>3, <1>4 DEF B

LEMMA LengthsFacts ==
    ASSUME RingType
    PROVE  /\ \A w \in Workers : Lengths[w] = Cardinality(Between(head[w], tail[w]))
           /\ NatValued(Lengths, Workers)
  <1>1. \A w \in Workers : Lengths[w] = Cardinality(Between(head[w], tail[w]))
    BY OccupiedIsBetween DEF Lengths
  <1> QED BY <1>1, BetweenFinite DEF NatValued

LEMMA LengthsNext ==
    ASSUME RingType'
    PROVE  /\ \A w \in Workers : Lengths'[w] = Cardinality(Between(head'[w], tail'[w]))
           /\ NatValued(Lengths', Workers)
  <1>1. \A w \in Workers : Occupied(w)' = Between(head'[w], tail'[w])
    BY OccupiedIsBetween
  <1>2. \A w \in Workers : Lengths'[w] = Cardinality(Between(head'[w], tail'[w]))
    BY <1>1 DEF Lengths
  <1> QED BY <1>2, BetweenFinite DEF NatValued

(* A ring is empty when nothing is between its ends.                       *)
LEMMA EmptyIsZero ==
    ASSUME RingType, NEW w \in Workers
    PROVE  isEmpty(w) <=> Lengths[w] = 0
  <1>1. head[w] \in Position /\ tail[w] \in Position
    BY DEF RingType
  <1>2. NumTasksPerThread \in Nat
    BY CapacityAssumption
  <1>3. head[w] = tail[w] => Between(head[w], tail[w]) = {}
    BY <1>1, <1>2 DEF Between, Position
  <1>4. head[w] # tail[w] => head[w] \in Between(head[w], tail[w])
    BY <1>1, BetweenFacts
  <1>5. Lengths[w] = 0 <=> Between(head[w], tail[w]) = {}
    BY LengthsFacts, BetweenFinite, FS_EmptySet
  <1> QED BY <1>3, <1>4, <1>5 DEF isEmpty

LEMMA CountInit == Init => CountInv
  <1> SUFFICES ASSUME Init PROVE CountInv
    OBVIOUS
  <1>1. RingType
    BY RingInit DEF RingInv
  <1>2. PICK t : IsSum(t, Lengths, Workers)
    BY <1>1, LengthsFacts, WorkersFinite, SumUnique
  <1>3. \A w \in Workers : Lengths[w] = 0
    BY <1>1, EmptyIsZero DEF Init, isEmpty
  <1>4. t = 0
    BY <1>1, <1>2, <1>3, LengthsFacts, WorkersFinite, SumZero
  <1>5. Readers = {} /\ InHand = 0 /\ numTasks = 0
    BY DEF Init, Readers, InHand
  <1> QED BY <1>2, <1>4, <1>5, FS_EmptySet DEF CountInv

LEMMA CountStep ==
    ASSUME RingInv, CountInv, [Next]_vars
    PROVE  CountInv'
  <1> USE DEF RingInv
  <1>1. PICK t \in Nat : /\ IsSum(t, Lengths, Workers)
                         /\ numTasks = t + InHand + Cardinality(Readers)
    BY LengthsFacts, WorkersFinite, SumUnique DEF CountInv
  <1>2. RingType' /\ NatValued(Lengths', Workers) /\ NatValued(Lengths, Workers)
        /\ IsFiniteSet(Workers)
    BY RingStep, LengthsFacts, LengthsNext, WorkersFinite
  <1>3. IsFiniteSet(Readers) /\ Cardinality(Readers) \in Nat /\ InHand \in Nat
    <2>1. Readers \in SUBSET Workers
      BY DEF Readers
    <2> QED BY <2>1, WorkersFinite DEF InHand
  <1>4. ASSUME UNCHANGED <<head, tail>>,
               numTasks' = t + InHand' + Cardinality(Readers')
        PROVE  CountInv'
    <2>1. Lengths' = Lengths
      BY <1>4 DEF Lengths, Occupied
    <2> QED BY <1>1, <1>4, <2>1 DEF CountInv
  <1>5. ASSUME NEW x \in Workers,
               \A w \in Workers \ {x} : head'[w] = head[w] /\ tail'[w] = tail[w],
               NEW n \in Int, Lengths'[x] = Lengths[x] + n,
               numTasks' = t + n + InHand' + Cardinality(Readers')
        PROVE  CountInv'
    <2>1. \A w \in Workers \ {x} : Lengths'[w] = Lengths[w]
      BY <1>2, <1>5, LengthsFacts, LengthsNext
    <2>2. /\ IsSum(t - Lengths[x] + Lengths'[x], Lengths', Workers)
          /\ Lengths[x] \in Nat
      <3> DEFINE v == Lengths
                 w == Lengths'
      <3> HIDE DEF v, w
      <3>1. /\ IsFiniteSet(Workers) /\ NatValued(v, Workers) /\ NatValued(w, Workers)
            /\ \A y \in Workers \ {x} : w[y] = v[y]
            /\ IsSum(t, v, Workers)
        BY <1>1, <1>2, <2>1 DEF v, w
      <3>2. IsSum(t - v[x] + w[x], w, Workers) /\ v[x] \in Nat
        BY ONLY <1>5, <3>1, SumChanged
      <3> QED BY <3>2 DEF v, w
    <2>3. t - Lengths[x] + Lengths'[x] = t + n
      BY <1>5, <2>2
    <2> QED BY <1>5, <2>2, <2>3 DEF CountInv
  <1>6. ASSUME UNCHANGED <<head, tail, numTasks>>, InHand' = InHand,
               \A w \in Workers : wpc'[w] = "read" <=> wpc[w] = "read"
        PROVE  CountInv'
    <2>1. Readers' = Readers
      BY <1>6 DEF Readers
    <2> QED BY <1>1, <1>4, <1>6, <2>1
  <1>7. CASE Schedule
    <2>1. UNCHANGED <<head, tail, wpc>> /\ ppc = "idle" /\ Readers' = Readers
      BY <1>7 DEF Schedule, ring, worker, Readers
    <2>2. \/ ppc' = "idle" /\ numTasks' = numTasks
          \/ ppc' = "write" /\ numTasks' = numTasks + 1
      BY <1>7 DEF Schedule, Counted
    <2>3. numTasks' = t + InHand' + Cardinality(Readers')
      BY <1>1, <1>3, <2>1, <2>2 DEF InHand
    <2> QED BY <1>4, <2>1, <2>3
  <1>8. CASE PushWrite
    <2>1. /\ UNCHANGED <<head, tail, numTasks, wpc>>
          /\ ppc = "write" /\ ppc' = "publish"
      BY <1>8 DEF PushWrite, PushHasRoom, worker
    <2> QED BY <1>6, <2>1 DEF InHand
  <1>9. CASE PushPublish
    <2>1. /\ ppc = "publish" /\ ppc' = "notify" /\ ~isFull(target) /\ target \in Workers
          /\ tail' = [tail EXCEPT ![target] = Succ(tail[target])]
          /\ UNCHANGED <<head, wpc, numTasks>>
      BY <1>9 DEF PushPublish, PushHasRoom, RingType, worker
    <2>2. /\ head[target] \in Position /\ tail[target] \in Position
          /\ head'[target] = head[target] /\ tail'[target] = Succ(tail[target])
          /\ \A w \in Workers \ {target} : head'[w] = head[w] /\ tail'[w] = tail[w]
      BY <2>1 DEF RingType
    <2>3. Cardinality(Between(head[target], Succ(tail[target])))
          = Cardinality(Between(head[target], tail[target])) + 1
      BY <2>1, <2>2, LengthMoves DEF isFull
    <2>4. Lengths'[target] = Lengths[target] + 1
      BY <1>2, <2>1, <2>2, <2>3, LengthsFacts, LengthsNext
    <2>5. numTasks' = t + 1 + InHand' + Cardinality(Readers')
      <3>1. Readers' = Readers
        BY <2>1 DEF Readers
      <3> QED BY <1>1, <1>3, <2>1, <3>1 DEF InHand
    <2> QED BY <1>5, <2>1, <2>2, <2>4, <2>5
  <1>10. CASE ScheduleNotify \/ ToggleNotify \/ StopNotify
    <2>1. \/ UNCHANGED wpc
          \/ \E ws \in SUBSET Asleep : wpc' = Woken(ws)
      BY <1>10, NotifyWakes DEF ScheduleNotify, ToggleNotify, ToggleWakes, StopNotify, StopWakes
    <2>2. \A w \in Workers : wpc'[w] = "read" <=> wpc[w] = "read"
      BY <2>1, WakingFacts
    <2>3. numTasks \in Int
      BY <1>1, <1>3
    <2>4. /\ UNCHANGED <<head, tail, numTasks>>
          /\ ppc \notin {"publish", "write"} /\ ppc' \notin {"publish", "write"}
      BY <1>10, <2>3 DEF ScheduleNotify, ToggleNotify, StopNotify, ring, Counted
    <2> QED BY <1>6, <2>2, <2>4 DEF InHand
  <1>11. CASE SetIdleWaiting \/ StopWork \/ Join \/ Drained
    <2>1. /\ UNCHANGED <<head, tail, numTasks, wpc>>
          /\ ppc \notin {"publish", "write"} /\ ppc' \notin {"publish", "write"}
      BY <1>11 DEF SetIdleWaiting, StopWork, Join, AfterJoin, Drained, ring, worker
    <2> QED BY <1>6, <2>1 DEF InHand
  <1>12. CASE Drain
    <2> DEFINE r == FirstFilled
    <2>1. r \in Workers /\ ~isEmpty(r)
      BY <1>12, FirstFilledFacts DEF Drain
    <2> HIDE DEF r
    <2>2. /\ ppc = "draining" /\ ppc' = "draining" /\ numTasks' = numTasks - 1
          /\ head' = [head EXCEPT ![r] = Succ(head[r])]
          /\ UNCHANGED <<tail, wpc>>
      BY <1>12 DEF Drain, producer, worker, r
    <2>3. /\ head[r] \in Position /\ tail[r] \in Position /\ head[r] # tail[r]
          /\ head'[r] = Succ(head[r]) /\ tail'[r] = tail[r]
          /\ \A w \in Workers \ {r} : head'[w] = head[w] /\ tail'[w] = tail[w]
      BY <2>1, <2>2 DEF RingType, isEmpty
    <2>4. Cardinality(Between(Succ(head[r]), tail[r]))
          = Cardinality(Between(head[r], tail[r])) - 1
      BY <2>3, LengthMoves
    <2>5. Lengths'[r] = Lengths[r] + (-1)
      BY <1>2, <2>1, <2>3, <2>4, LengthsFacts, LengthsNext, BetweenFinite
    <2>6. numTasks' = t + (-1) + InHand' + Cardinality(Readers')
      <3>1. Readers' = Readers
        BY <2>2 DEF Readers
      <3> QED BY <1>1, <1>3, <2>2, <3>1 DEF InHand
    <2> QED BY <1>5, <2>1, <2>3, <2>5, <2>6
  <1>13. ASSUME NEW u \in Workers, WorkerStep(u)
         PROVE  CountInv'
    <2>1. CASE \/ LoopHead(u) \/ PopEmpty(u) \/ Run(u) \/ SetResult(u) \/ Epilogue(u)
               \/ ScanAgain(u) \/ IdleWait(u)
      <3>1. /\ UNCHANGED <<head, tail, numTasks, ppc>>
            /\ wpc[u] # "read"
            /\ \/ UNCHANGED wpc
               \/ \E pc \in WorkerPc \ {"read"} : wpc' = [wpc EXCEPT ![u] = pc]
        BY <2>1 DEF LoopHead, PopEmpty, Run, SetResult, Epilogue, ScanAgain, IdleWait, Goto,
                    ring, producer, WorkerPc
      <3>2. \A w \in Workers : wpc'[w] = "read" <=> wpc[w] = "read"
        BY <3>1 DEF RingType
      <3>3. InHand' = InHand
        BY <3>1 DEF InHand
      <3> QED BY <1>6, <3>1, <3>2, <3>3
    <2>2. CASE PopPublish(u)
      <3> DEFINE r == victim[u]
      <3>1. /\ wpc[u] = "pop" /\ wpc' = [wpc EXCEPT ![u] = "read"] /\ ~isEmpty(r)
            /\ head' = [head EXCEPT ![r] = Succ(head[r])]
            /\ UNCHANGED <<tail, ppc, numTasks>>
            /\ r \in Workers
        BY <2>2 DEF PopPublish, Goto, producer, RingType
      <3> HIDE DEF r
      <3>2. /\ head[r] \in Position /\ tail[r] \in Position /\ head[r] # tail[r]
            /\ head'[r] = Succ(head[r]) /\ tail'[r] = tail[r]
            /\ \A w \in Workers \ {r} : head'[w] = head[w] /\ tail'[w] = tail[w]
        BY <3>1 DEF RingType, isEmpty
      <3>3. Cardinality(Between(Succ(head[r]), tail[r]))
            = Cardinality(Between(head[r], tail[r])) - 1
        BY <3>2, LengthMoves
      <3>4. Lengths'[r] = Lengths[r] + (-1)
        BY <1>2, <3>1, <3>2, <3>3, LengthsFacts, LengthsNext, BetweenFinite
      <3>5. Readers' = Readers \cup {u} /\ u \notin Readers
        BY <3>1 DEF Readers, RingType
      <3>6. Cardinality(Readers') = Cardinality(Readers) + 1
        BY <1>3, <3>5, FS_AddElement
      <3>7. numTasks' = t + (-1) + InHand' + Cardinality(Readers')
        BY <1>1, <1>3, <3>1, <3>6 DEF InHand
      <3> QED BY <1>5, <3>1, <3>2, <3>4, <3>7
    <2>3. CASE PopRead(u)
      <3>1. /\ wpc[u] = "read" /\ wpc' = [wpc EXCEPT ![u] = "run"]
            /\ UNCHANGED <<head, tail, ppc>> /\ numTasks' = numTasks - 1
        BY <2>3 DEF PopRead, Goto, producer, ring
      <3>2. Readers' = Readers \ {u} /\ u \in Readers
        BY <3>1 DEF Readers, RingType
      <3>3. Cardinality(Readers') = Cardinality(Readers) - 1
        BY <1>3, <3>2, FS_RemoveElement
      <3>4. numTasks' = t + InHand' + Cardinality(Readers')
        BY <1>1, <1>3, <3>1, <3>3 DEF InHand
      <3> QED BY <1>4, <3>1, <3>4
    <2> QED BY <1>13, <2>1, <2>2, <2>3 DEF WorkerStep
  <1>14. CASE Get \/ UNCHANGED vars
    <2>1. UNCHANGED <<head, tail, numTasks, ppc, wpc>>
      BY <1>14 DEF Get, vars, ring, producer, worker
    <2> QED BY <1>6, <2>1 DEF InHand
  <1> QED
    BY <1>7, <1>8, <1>9, <1>10, <1>11, <1>12, <1>13, <1>14 DEF Next, Producer

-----------------------------------------------------------------------------
(* What the destructor leaves.                                             *)

Placed(s) ==
    \/ \E w \in Workers : \E i \in Stored(w) : data[w][i] = s
    \/ \E w \in Workers : wpc[w] \in Running /\ item[w] = s
    \/ ppc = "write" /\ s = Slot(taskId - 1)

(* No captured task is lost: each is in one of the places of TaskInv.      *)
LivePlaced == \A s \in 0 .. TaskCount - 1 : slots[s].thunk => Placed(s)

(* The destructor ends with the rings empty, also when it did not drain.   *)
GoneEmpty == ppc = "gone" => \A w \in Workers : isEmpty(w)

LeavingInv == PoolInv /\ CountInv /\ LivePlaced /\ GoneEmpty

(* What holds whatever slots were captured anew.                           *)
CountedInv == RingInv /\ SlotInv /\ CountInv /\ GoneEmpty

LEMMA LeavingInit == Init => LeavingInv
  <1> SUFFICES ASSUME Init PROVE LeavingInv
    OBVIOUS
  <1>1. PoolInv /\ CountInv
    BY RingInit, SlotInit, TaskInit, CountInit DEF PoolInv
  <1>2. LivePlaced /\ GoneEmpty
    BY DEF Init, LivePlaced, GoneEmpty, Empty
  <1> QED BY <1>1, <1>2 DEF LeavingInv

(* A step that captures no task and takes none from its place.             *)
LEMMA PlacesStay ==
    ASSUME LivePlaced,
           \A s \in 0 .. TaskCount - 1 : slots'[s].thunk => slots[s].thunk,
           UNCHANGED <<data, taskId>>,
           \A w \in Workers : Stored(w)' = Stored(w),
           \A w \in Workers : wpc[w] \in Running => wpc'[w] \in Running /\ item'[w] = item[w],
           ppc = "write" => ppc' = "write"
    PROVE  LivePlaced'
  <1> SUFFICES ASSUME NEW s \in 0 .. TaskCount - 1, slots'[s].thunk PROVE Placed(s)'
    BY DEF LivePlaced
  <1>1. Placed(s)
    BY DEF LivePlaced
  <1> QED BY <1>1 DEF Placed, Slot

(* The same of a step that leaves the rings alone.                         *)
LEMMA PlacesKept ==
    ASSUME LivePlaced,
           \A s \in 0 .. TaskCount - 1 : slots'[s].thunk => slots[s].thunk,
           UNCHANGED <<head, tail, data, popped, item, taskId>>,
           \A w \in Workers : /\ wpc[w] \in Running => wpc'[w] \in Running
                              /\ wpc'[w] = "read" <=> wpc[w] = "read"
                              /\ wpc[w] = "read" => victim'[w] = victim[w],
           ppc' = "publish" <=> ppc = "publish",
           ppc = "publish" => UNCHANGED target,
           ppc = "write" => ppc' = "write"
    PROVE  LivePlaced'
  <1>1. \A w \in Workers : Stored(w)' = Stored(w)
    <2> SUFFICES ASSUME NEW w \in Workers PROVE Stored(w)' = Stored(w)
      OBVIOUS
    <2>1. Occupied(w)' = Occupied(w)
      BY DEF Occupied
    <2>2. {x \in Workers : wpc'[x] = "read" /\ victim'[x] = w}
          = {x \in Workers : wpc[x] = "read" /\ victim[x] = w}
      OBVIOUS
    <2> QED BY <2>1, <2>2 DEF Stored
  <1> QED BY <1>1, PlacesStay

LEMMA SchedulePlaced ==
    ASSUME LeavingInv, Schedule
    PROVE  LivePlaced'
  <1> USE DEF LeavingInv, PoolInv
  <1>1. /\ UNCHANGED <<head, tail, data, popped, item, victim, wpc>> /\ ppc = "idle"
        /\ ppc' \in {"idle", "write"}
    BY DEF Schedule, ring, worker
  <1>2. CASE UNCHANGED <<slots, taskId>>
    BY <1>1, <1>2, PlacesKept
  <1>3. CASE /\ taskId' = taskId + 1 /\ ppc' = "write"
             /\ slots' = [slots EXCEPT ![Slot(taskId)] = Captured(taskId)]
    <2> SUFFICES ASSUME NEW s \in 0 .. TaskCount - 1, slots'[s].thunk PROVE Placed(s)'
      BY DEF LivePlaced
    <2>1. taskId \in Nat /\ taskId' - 1 = taskId
      BY <1>3 DEF SlotInv
    <2>2. CASE s = Slot(taskId)
      BY <1>3, <2>1, <2>2 DEF Placed, Slot
    <2>3. CASE s # Slot(taskId)
      <3>1. slots[s].thunk
        BY <1>3, <2>3 DEF SlotInv
      <3>2. Placed(s)
        BY <3>1 DEF LivePlaced
      <3>3. \A w \in Workers : Stored(w)' = Stored(w)
        BY <1>1, <1>3 DEF Stored, Occupied
      <3> QED BY <1>1, <3>2, <3>3 DEF Placed
    <2> QED BY <2>2, <2>3
  <1> QED BY <1>2, <1>3 DEF Schedule

LEMMA PushWritePlaced ==
    ASSUME LeavingInv, PushWrite
    PROVE  LivePlaced'
  <1> USE DEF LeavingInv, PoolInv
  <1> DEFINE p == tail[target]
  <1>0. target \in Workers
    BY DEF RingInv, RingType
  <1>1. ~isFull(target) /\ p \in Position /\ p \notin Stored(target)
        /\ \A w \in Workers : Stored(w)' = IF w = target THEN Stored(w) \cup {p} ELSE Stored(w)
    BY <1>0, WriteStores
  <1> HIDE DEF p
  <1>2. /\ data' = [data EXCEPT ![target][p] = Slot(taskId - 1)]
        /\ ppc = "write" /\ UNCHANGED <<slots, taskId, wpc, item>>
    BY <1>1 DEF PushWrite, worker, p
  <1>3. data'[target][p] = Slot(taskId - 1)
    BY <1>0, <1>1, <1>2 DEF TaskInv, TaskType
  <1>4. \A w \in Workers : \A i \in Stored(w) : data'[w][i] = data[w][i] /\ i \in Stored(w)'
    <2> SUFFICES ASSUME NEW w \in Workers, NEW i \in Stored(w)
                 PROVE  data'[w][i] = data[w][i] /\ i \in Stored(w)'
      OBVIOUS
    <2>1. i \in Position /\ ~(w = target /\ i = p)
      BY <1>1, PlaceTypes
    <2> QED BY <1>1, <1>2, <2>1 DEF TaskInv, TaskType
  <1> SUFFICES ASSUME NEW s \in 0 .. TaskCount - 1, slots'[s].thunk PROVE Placed(s)'
    BY DEF LivePlaced
  <1>5. Placed(s)
    BY <1>2 DEF LivePlaced
  <1>6. CASE s = Slot(taskId - 1)
    <2>1. PICK w \in Workers : w = target
      BY <1>0
    <2>2. p \in Stored(w)'
      BY <1>1, <2>1
    <2>3. data'[w][p] = s
      BY <1>3, <1>6, <2>1
    <2> QED BY <2>2, <2>3 DEF Placed
  <1>7. CASE \E w \in Workers : \E i \in Stored(w) : data[w][i] = s
    BY <1>4, <1>7 DEF Placed
  <1>8. CASE \E w \in Workers : wpc[w] \in Running /\ item[w] = s
    BY <1>2, <1>8 DEF Placed
  <1> QED BY <1>5, <1>6, <1>7, <1>8 DEF Placed

LEMMA PopReadPlaced ==
    ASSUME LeavingInv, NEW u \in Workers, PopRead(u)
    PROVE  LivePlaced'
  <1> USE DEF LeavingInv, PoolInv
  <1> DEFINE r == victim[u]
             p == popped[u]
  <1>1. \A w \in Workers : Stored(w)' = IF w = r THEN Stored(w) \ {p} ELSE Stored(w)
    BY ReadTakes
  <1>2. /\ item' = [item EXCEPT ![u] = data[r][p]]
        /\ wpc[u] = "read" /\ wpc' = [wpc EXCEPT ![u] = "run"]
        /\ UNCHANGED <<slots, taskId, ppc, data>>
    BY DEF PopRead, Goto, producer, ring
  <1> HIDE DEF r, p
  <1>3. /\ item'[u] = data[r][p] /\ wpc'[u] \in Running
        /\ \A w \in Workers : wpc[w] \in Running => wpc'[w] \in Running /\ item'[w] = item[w]
    BY <1>2 DEF RingInv, RingType, TaskInv, TaskType, Running
  <1> SUFFICES ASSUME NEW s \in 0 .. TaskCount - 1, slots'[s].thunk PROVE Placed(s)'
    BY DEF LivePlaced
  <1>4. Placed(s)
    BY <1>2 DEF LivePlaced
  <1>5. ASSUME NEW w \in Workers, NEW i \in Stored(w), data[w][i] = s
        PROVE  Placed(s)'
    <2>1. CASE w = r /\ i = p
      BY <1>3, <1>5, <2>1 DEF Placed
    <2>2. CASE ~(w = r /\ i = p)
      <3>1. i \in Stored(w)'
        BY <1>1, <1>5, <2>2
      <3> QED BY <1>2, <1>5, <3>1 DEF Placed
    <2> QED BY <2>1, <2>2
  <1>6. CASE \E w \in Workers : wpc[w] \in Running /\ item[w] = s
    BY <1>3, <1>6 DEF Placed
  <1>7. CASE ppc = "write" /\ s = Slot(taskId - 1)
    BY <1>2, <1>7 DEF Placed, Slot
  <1> QED BY <1>4, <1>5, <1>6, <1>7 DEF Placed

LEMMA EpiloguePlaced ==
    ASSUME LeavingInv, NEW u \in Workers, Epilogue(u)
    PROVE  LivePlaced'
  <1> USE DEF LeavingInv, PoolInv
  <1>1. /\ wpc[u] = "epilogue" /\ wpc' = [wpc EXCEPT ![u] = "start"]
        /\ slots' = [slots EXCEPT ![item[u]].thunk = FALSE]
        /\ item' = [item EXCEPT ![u] = 0]
        /\ UNCHANGED <<taskId, ppc, data, head, tail, victim, popped, target>>
    BY DEF Epilogue, Goto, producer, ring
  <1>2. \A w \in Workers \ {u} : wpc'[w] = wpc[w] /\ item'[w] = item[w]
    BY <1>1 DEF RingInv, RingType, TaskInv, TaskType
  <1>3. \A w \in Workers : Stored(w)' = Stored(w)
    <2>1. \A w \in Workers : wpc'[w] = "read" <=> wpc[w] = "read"
      BY <1>1, <1>2 DEF RingInv, RingType
    <2> QED BY <1>1, <2>1 DEF Stored, Occupied
  <1> SUFFICES ASSUME NEW s \in 0 .. TaskCount - 1, slots'[s].thunk PROVE Placed(s)'
    BY DEF LivePlaced
  <1>4. s # item[u] /\ slots[s].thunk
    BY <1>1 DEF SlotInv, TaskSlot
  <1>5. Placed(s)
    BY <1>4 DEF LivePlaced
  <1>6. CASE \E w \in Workers : \E i \in Stored(w) : data[w][i] = s
    BY <1>1, <1>3, <1>6 DEF Placed
  <1>7. CASE \E w \in Workers : wpc[w] \in Running /\ item[w] = s
    BY <1>2, <1>4, <1>7 DEF Placed
  <1>8. CASE ppc = "write" /\ s = Slot(taskId - 1)
    BY <1>1, <1>8 DEF Placed, Slot
  <1> QED BY <1>5, <1>6, <1>7, <1>8 DEF Placed

LEMMA DrainPlaced ==
    ASSUME LeavingInv, Drain
    PROVE  LivePlaced'
  <1> USE DEF LeavingInv, PoolInv
  <1> DEFINE r == FirstFilled
  <1>0. Workers # {}
    BY WorkersAssumption DEF Workers
  <1>1. r \in Workers /\ head[r] \in Stored(r)
    BY <1>0, DrainTakes
  <1>2. \A w \in Workers : Stored(w)' = IF w = r THEN Stored(w) \ {head[w]} ELSE Stored(w)
    BY DrainTakes
  <1> DEFINE c == data[r][head[r]]
  <1>3. /\ slots' = [slots EXCEPT ![c] = [Disposed(slots[c]) EXCEPT !.thunk = FALSE]]
        /\ ppc = "draining" /\ UNCHANGED <<taskId, data, wpc>>
    BY DEF Drain, producer, worker
  <1>4. \A w \in Workers : wpc[w] \notin Running
    BY <1>3 DEF RingInv, DrainsAlone, Running
  <1>5. c \in 0 .. TaskCount - 1
    BY <1>1, PlaceTypes
  <1> SUFFICES ASSUME NEW s \in 0 .. TaskCount - 1, slots'[s].thunk PROVE Placed(s)'
    BY DEF LivePlaced
  <1> HIDE DEF r
  <1>6. s # c /\ slots[s].thunk
    <2> HIDE DEF c
    <2>1. [Disposed(slots[c]) EXCEPT !.thunk = FALSE].thunk = FALSE
      BY <1>5 DEF Disposed, SlotInv, TaskSlot
    <2>2. s # c
      BY <1>3, <1>5, <2>1 DEF SlotInv
    <2>3. slots'[s] = slots[s]
      BY <1>3, <1>5, <2>2 DEF SlotInv
    <2> QED BY <2>2, <2>3
  <1>7. PICK w \in Workers : \E i \in Stored(w) : data[w][i] = s
    BY <1>3, <1>4, <1>6 DEF LivePlaced, Placed
  <1>8. PICK i \in Stored(w) : data[w][i] = s
    BY <1>7
  <1>9. i \in Stored(w)'
    <2>1. CASE w = r
      <3>1. i # head[w]
        BY <1>6, <1>8, <2>1
      <3>2. Stored(w)' = Stored(w) \ {head[w]}
        BY <1>2, <2>1
      <3> QED BY <3>1, <3>2
    <2>2. CASE w # r
      <3>1. Stored(w)' = Stored(w)
        BY <1>2, <2>2
      <3> QED BY <3>1
    <2> QED BY <2>1, <2>2
  <1>10. data' = data
    BY <1>3
  <1> HIDE DEF c
  <1> QED BY <1>8, <1>9, <1>10 DEF Placed

LEMMA PlacedStep ==
    ASSUME LeavingInv, [Next]_vars
    PROVE  LivePlaced'
  <1> USE DEF LeavingInv, PoolInv
  <1>0. wpc \in [Workers -> WorkerPc]
    BY DEF RingInv, RingType
  <1>1. CASE Schedule
    BY <1>1, SchedulePlaced
  <1>2. CASE PushWrite
    BY <1>2, PushWritePlaced
  <1>3. CASE PushPublish
    <2>1. \A w \in Workers : Stored(w)' = Stored(w)
      BY <1>3, PublishKeepsStored
    <2>2. UNCHANGED <<slots, data, taskId, item, wpc>> /\ ppc = "publish"
      BY <1>3 DEF PushPublish, worker
    <2> QED BY <2>1, <2>2, PlacesStay
  <1>4. CASE ScheduleNotify \/ ToggleNotify \/ StopNotify
    <2>1. \/ UNCHANGED wpc
          \/ \E ws \in SUBSET Asleep : wpc' = Woken(ws)
      BY <1>4, NotifyWakes DEF ScheduleNotify, ToggleNotify, ToggleWakes, StopNotify, StopWakes
    <2>2. \A w \in Workers : /\ wpc[w] \in Running => wpc'[w] \in Running
                             /\ wpc'[w] = "read" <=> wpc[w] = "read"
      BY <2>1 DEF Asleep, Woken, Running
    <2>3. /\ UNCHANGED <<head, tail, data, popped, item, taskId, slots, victim, target>>
          /\ ppc \notin {"publish", "write"} /\ ppc' \notin {"publish", "write"}
      BY <1>4 DEF ScheduleNotify, ToggleNotify, StopNotify, ring
    <2> QED BY <2>2, <2>3, PlacesKept
  <1>5. CASE SetIdleWaiting \/ StopWork \/ Join \/ Drained
    <2>1. /\ UNCHANGED <<head, tail, data, popped, item, taskId, slots, victim, target, wpc>>
          /\ ppc \notin {"publish", "write"} /\ ppc' \notin {"publish", "write"}
      BY <1>5 DEF SetIdleWaiting, StopWork, Join, AfterJoin, Drained, ring, worker
    <2> QED BY <2>1, PlacesKept
  <1>6. CASE Drain
    BY <1>6, DrainPlaced
  <1>7. ASSUME NEW u \in Workers, WorkerStep(u)
        PROVE  LivePlaced'
    <2>1. CASE PopPublish(u)
      <3>1. \A w \in Workers : Stored(w)' = Stored(w)
        BY <2>1, PopKeepsStored
      <3>2. /\ UNCHANGED <<slots, data, taskId, item, ppc>>
            /\ wpc[u] = "pop" /\ wpc' = [wpc EXCEPT ![u] = "read"]
        BY <2>1 DEF PopPublish, Goto, producer
      <3>3. \A w \in Workers : wpc[w] \in Running => wpc'[w] \in Running
        BY <1>0, <3>2 DEF Running
      <3> QED BY <3>1, <3>2, <3>3, PlacesStay
    <2>2. CASE PopRead(u)
      BY <2>2, PopReadPlaced
    <2>3. CASE Epilogue(u)
      BY <2>3, EpiloguePlaced
    <2>4. CASE \/ LoopHead(u) \/ PopEmpty(u) \/ Run(u) \/ SetResult(u)
               \/ ScanAgain(u) \/ IdleWait(u)
      <3>1. /\ UNCHANGED <<head, tail, data, popped, item, taskId, ppc, target>>
            /\ wpc[u] # "read"
            /\ \/ UNCHANGED wpc
               \/ \E pc \in WorkerPc \ {"read"} :
                     /\ wpc' = [wpc EXCEPT ![u] = pc]
                     /\ wpc[u] \in Running => pc \in Running
        BY <2>4 DEF LoopHead, PopEmpty, Run, SetResult, ScanAgain, IdleWait, Goto,
                    ring, producer, WorkerPc, Running
      <3>2. \A w \in Workers : /\ wpc[w] \in Running => wpc'[w] \in Running
                               /\ wpc'[w] = "read" <=> wpc[w] = "read"
        BY <1>0, <3>1
      <3>3. \A w \in Workers : wpc[w] = "read" => victim'[w] = victim[w]
        BY <2>4, <3>1
           DEF LoopHead, PopEmpty, Run, SetResult, ScanAgain, IdleWait, RingInv, RingType
      <3>4. \A s \in 0 .. TaskCount - 1 : slots'[s].thunk = slots[s].thunk
        <4>1. CASE SetResult(u)
          BY <4>1 DEF SetResult, SlotInv, TaskSlot
        <4>2. CASE UNCHANGED slots
          BY <4>2
        <4> QED BY <2>4, <4>1, <4>2 DEF LoopHead, PopEmpty, Run, ScanAgain, IdleWait
      <3> QED BY <3>1, <3>2, <3>3, <3>4, PlacesKept
    <2> QED BY <1>7, <2>1, <2>2, <2>3, <2>4 DEF WorkerStep
  <1>8. CASE Get
    <2>1. /\ UNCHANGED <<head, tail, data, popped, item, taskId, victim, target, ppc, wpc>>
          /\ \E r : slots' = [slots EXCEPT ![r] = Disposed(slots[r])]
      BY <1>8 DEF Get, ring, producer, worker
    <2>2. \A s \in 0 .. TaskCount - 1 : slots'[s].thunk = slots[s].thunk
      <3>1. \A s \in TaskSlot : Disposed(s).thunk = s.thunk
        BY DEF Disposed, TaskSlot
      <3> QED BY <2>1, <3>1 DEF SlotInv
    <2> QED BY <2>1, <2>2, PlacesKept
  <1>9. CASE UNCHANGED vars
    BY <1>9, PlacesKept DEF vars, ring, producer, worker
  <1> QED
    BY <1>1, <1>2, <1>3, <1>4, <1>5, <1>6, <1>7, <1>8, <1>9 DEF Next, Producer

(* What the count says once the workers have been joined.                  *)
LEMMA CountWhenJoined ==
    ASSUME RingInv, CountInv, ppc \notin {"write", "publish"},
           \A w \in Workers : wpc[w] = "exited"
    PROVE  numTasks = 0 <=> \A w \in Workers : isEmpty(w)
  <1>1. PICK t : IsSum(t, Lengths, Workers) /\ numTasks = t + InHand + Cardinality(Readers)
    BY DEF CountInv
  <1>2. t \in Nat /\ (t = 0 <=> \A w \in Workers : Lengths[w] = 0)
    BY <1>1, LengthsFacts, WorkersFinite, SumUnique, SumZero DEF RingInv
  <1>3. InHand = 0 /\ Cardinality(Readers) = 0
    <2>1. Readers = {}
      BY DEF Readers
    <2> QED BY <2>1, FS_EmptySet DEF InHand
  <1>4. numTasks = t
    BY <1>1, <1>2, <1>3
  <1>5. \A w \in Workers : isEmpty(w) <=> Lengths[w] = 0
    BY EmptyIsZero DEF RingInv
  <1> QED BY <1>2, <1>4, <1>5

(* The destructor that finds the count at zero does not look at the rings. *)
LEMMA GoneStep ==
    ASSUME CountedInv, [Next]_vars
    PROVE  GoneEmpty'
  <1> USE DEF CountedInv
  <1> SUFFICES ASSUME ppc' = "gone" PROVE \A w \in Workers : isEmpty(w)'
    BY DEF GoneEmpty
  <1>1. CASE Join
    <2>1. /\ \A w \in Workers : wpc[w] = "exited"
          /\ ppc = "joining" /\ numTasks = 0 /\ UNCHANGED <<head, tail>>
      BY <1>1 DEF Join, AfterJoin, HasTasks, ring
    <2>2. \A w \in Workers : isEmpty(w)
      BY <2>1, CountWhenJoined
    <2> QED BY <2>1, <2>2 DEF isEmpty
  <1>2. CASE Drained
    BY <1>2 DEF Drained, ring, isEmpty
  <1>3. CASE ppc = "gone" /\ UNCHANGED <<head, tail>>
    BY <1>3 DEF GoneEmpty, isEmpty
  <1>4. ASSUME NEW u \in Workers, WorkerStep(u)
        PROVE  ppc = "gone" /\ UNCHANGED <<head, tail>>
    <2>1. ppc = "gone"
      BY <1>4 DEF WorkerStep, LoopHead, PopEmpty, PopPublish, PopRead, Run, SetResult,
                  Epilogue, ScanAgain, IdleWait, producer
    <2>2. wpc[u] = "exited"
      BY <1>4, <2>1 DEF RingInv, DrainsAlone
    <2> QED BY <1>4, <2>1, <2>2
            DEF WorkerStep, LoopHead, PopEmpty, PopPublish, PopRead, Run, SetResult,
                Epilogue, ScanAgain, IdleWait
  <1>5. CASE Get \/ UNCHANGED vars
    BY <1>3, <1>5 DEF Get, vars, ring, producer
  <1>6. ~(Schedule \/ PushWrite \/ PushPublish \/ ScheduleNotify \/ SetIdleWaiting
          \/ ToggleNotify \/ StopWork \/ StopNotify \/ Drain)
    BY DEF Schedule, PushWrite, PushPublish, ScheduleNotify, SetIdleWaiting, ToggleNotify,
           StopWork, StopNotify, Drain, producer
  <1> QED BY <1>1, <1>2, <1>3, <1>4, <1>5, <1>6 DEF Next, Producer

-----------------------------------------------------------------------------
(* All of it, as long as no slot was captured over an unfinished task.     *)

WholeInv == CountedInv /\ (overrun \/ LeavingInv)

(* Only Schedule captures a slot.                                          *)
LEMMA OverrunStep ==
    ASSUME [Next]_vars
    PROVE  /\ overrun => overrun'
           /\ overrun' => \/ overrun
                          \/ Schedule /\ slots[Slot(taskId)].thunk
  <1>1. CASE Schedule
    BY <1>1 DEF Schedule
  <1>2. CASE \/ PushWrite \/ PushPublish \/ ScheduleNotify \/ SetIdleWaiting \/ ToggleNotify
             \/ StopWork \/ StopNotify \/ Join \/ Drain \/ Drained
    <2>1. UNCHANGED overrun
      BY <1>2 DEF PushWrite, PushPublish, ScheduleNotify, SetIdleWaiting, ToggleNotify,
                  StopWork, StopNotify, Join, Drain, Drained, history
    <2> QED BY <2>1
  <1>3. ASSUME NEW w \in Workers, WorkerStep(w) PROVE UNCHANGED overrun
    BY <1>3 DEF WorkerStep, LoopHead, PopEmpty, PopPublish, PopRead, Run, SetResult, Epilogue,
                ScanAgain, IdleWait, history
  <1>4. CASE Get \/ UNCHANGED vars
    BY <1>4 DEF Get, vars, history
  <1> QED BY <1>1, <1>2, <1>3, <1>4 DEF Next, Producer

LEMMA WholeStep == WholeInv /\ [Next]_vars => WholeInv'
  <1> SUFFICES ASSUME WholeInv, [Next]_vars PROVE WholeInv'
    OBVIOUS
  <1>1. RingInv' /\ SlotInv' /\ CountInv' /\ GoneEmpty'
    BY RingStep, SlotStep, CountStep, GoneStep DEF WholeInv, CountedInv
  <1>2. ASSUME ~overrun' PROVE TaskInv' /\ LivePlaced'
    <2>1. LeavingInv
      BY <1>2, OverrunStep DEF WholeInv
    <2> QED BY <1>2, <2>1, TaskStep, PlacedStep DEF LeavingInv
  <1> QED BY <1>1, <1>2 DEF WholeInv, CountedInv, LeavingInv, PoolInv

LEMMA WholeInvariant == Spec => []WholeInv
  <1>1. Init => WholeInv
    BY LeavingInit DEF WholeInv, CountedInv, LeavingInv, PoolInv
  <1> QED
    BY <1>1, WholeStep, PTL DEF Spec

(* Until a slot is captured over an unfinished task, a worker that has     *)
(* popped a task finds it captured and has its slot of m_tasks for itself, *)
(* with any number of workers that steal: nothing else takes a slot away.  *)
THEOREM PoppedTasksAreCaptured == Spec => []PoppedIsInitialized
  <1>1. WholeInv => PoppedIsInitialized
    BY DEF WholeInv, LeavingInv, PoolInv, TaskInv, RunningLive, RunningApart,
           PoppedIsInitialized, Waiting, Running
  <1> QED
    BY <1>1, WholeInvariant, PTL

(* No task starts twice and none runs that the destructor cancelled, with  *)
(* any number of workers, rings of any size and any number of tasks, until *)
(* a slot is captured over an unfinished task.                             *)
THEOREM TasksStartOnce == Spec => StartsOnceUnlessCancelled
  <1> DEFINE Once == /\ \A w \in Workers : wpc[w] = "run" /\ wpc'[w] = "set" =>
                           slots[item[w]].task \notin started
                     /\ started' \cap cancelled' = {}
  <1>1. WholeInv /\ WholeInv' /\ [Next]_vars => [overrun \/ Once]_vars
    <2> SUFFICES ASSUME WholeInv, WholeInv', [Next]_vars, ~overrun PROVE Once
      OBVIOUS
    <2>1. \A w \in Workers : wpc[w] = "run" => slots[item[w]].task \notin started
      BY DEF WholeInv, LeavingInv, PoolInv, TaskInv, RunningLive, Waiting
    <2>2. CASE ~overrun'
      BY <2>1, <2>2 DEF WholeInv, LeavingInv, PoolInv, TaskInv, History
    <2>3. CASE Schedule
      <3>1. started' = started /\ cancelled' = cancelled
        BY <2>3 DEF Schedule
      <3> QED BY <2>1, <3>1 DEF WholeInv, LeavingInv, PoolInv, TaskInv, History
    <2> QED BY <2>2, <2>3, OverrunStep
  <1> QED
    BY <1>1, WholeInvariant, PTL DEF Spec, StartsOnceUnlessCancelled

(* When the destructor is done the count is zero, and no task is left that *)
(* was queued, being published, stolen or asleep when it began, for any    *)
(* number of workers, unless a slot was captured over an unfinished task.  *)
THEOREM NothingIsLeft == Spec => []NothingLeft
  <1>1. WholeInv => NothingLeft
    <2> SUFFICES ASSUME WholeInv, ppc = "gone"
                 PROVE  /\ numTasks = 0
                        /\ ~overrun => \A t \in 0 .. taskId - 1 : Finished(t)
      BY DEF NothingLeft
    <2> USE DEF WholeInv, CountedInv
    <2>1. /\ \A w \in Workers : wpc[w] = "exited"
          /\ \A w \in Workers : isEmpty(w)
      BY DEF RingInv, DrainsAlone, GoneEmpty
    <2>2. numTasks = 0
      BY <2>1, CountWhenJoined
    <2>3. \A w \in Workers : Occupied(w) = {}
      <3>1. \A w \in Workers : head[w] = tail[w] /\ head[w] \in Nat
        BY <2>1 DEF isEmpty, RingInv, RingType, Position
      <3> QED BY <3>1 DEF Occupied
    <2>4. \A w \in Workers : Stored(w) = {}
      BY <2>1, <2>3 DEF Stored
    <2>5. ASSUME ~overrun, NEW t \in 0 .. taskId - 1 PROVE Finished(t)
      <3>1. \A s \in 0 .. TaskCount - 1 : ~slots[s].thunk
        BY <2>1, <2>4, <2>5 DEF LeavingInv, LivePlaced, Placed, Running
      <3>2. taskId \in Nat /\ t \in Nat /\ t < taskId
        BY DEF SlotInv
      <3> QED BY <3>1, <3>2, SlotFacts DEF Finished
    <2> QED BY <2>2, <2>5
  <1> QED
    BY <1>1, WholeInvariant, PTL

(* m_numTasks, which Schedule raises before it publishes and a worker      *)
(* lowers after it has popped, is exact: it does not wrap and returns to 0. *)
THEOREM CountExact == Spec => []CountIsExact
  <1>1. WholeInv => CountIsExact
    <2> SUFFICES ASSUME WholeInv PROVE CountIsExact
      OBVIOUS
    <2>1. RingType /\ CountInv
      BY DEF WholeInv, CountedInv, RingInv
    <2> DEFINE S == Workers
               g == CHOOSE g : g = [s \in SUBSET S |->
                       IF s = {} THEN 0
                       ELSE Cardinality(Occupied(CHOOSE x \in s : TRUE))
                              + g[s \ {CHOOSE x \in s : TRUE}]]
    <2>2. MapThenSumSet(LAMBDA w : Cardinality(Occupied(w)), Workers) = g[S]
      BY DEF MapThenSumSet, MapThenFoldSet
    <2>3. PICK f : SumsOf(Lengths, S, f)
      BY <2>1, LengthsFacts, WorkersFinite, SumsExist
    <2>4. \A s \in SUBSET S : s # {} =>
             Lengths[PickOf(s)] = Cardinality(Occupied(CHOOSE x \in s : TRUE))
      BY DEF Lengths, PickOf
    <2>5. f = [s \in SUBSET S |->
                 IF s = {} THEN 0 ELSE Lengths[PickOf(s)] + f[s \ {PickOf(s)}]]
      BY <2>3 DEF SumsOf
    <2>6. f = [s \in SUBSET S |->
                 IF s = {} THEN 0
                 ELSE Cardinality(Occupied(CHOOSE x \in s : TRUE))
                        + f[s \ {CHOOSE x \in s : TRUE}]]
      BY <2>4, <2>5 DEF PickOf
    <2>7. g = [s \in SUBSET S |->
                 IF s = {} THEN 0
                 ELSE Cardinality(Occupied(CHOOSE x \in s : TRUE))
                        + g[s \ {CHOOSE x \in s : TRUE}]]
      BY <2>6
    <2> HIDE DEF g
    <2>8. g = [s \in SUBSET S |->
                 IF s = {} THEN 0 ELSE Lengths[PickOf(s)] + g[s \ {PickOf(s)}]]
      BY <2>4, <2>7 DEF PickOf
    <2>9. IsSum(g[S], Lengths, Workers)
      BY <2>8 DEF IsSum, SumsOf
    <2>10. numTasks = g[S] + InHand + Cardinality(Readers)
      BY <2>1, <2>9, LengthsFacts, WorkersFinite, SumUnique DEF CountInv
    <2> QED BY <2>2, <2>10 DEF CountIsExact, InHand, Readers
  <1> QED
    BY <1>1, WholeInvariant, PTL
-----------------------------------------------------------------------------
(* A pool with one worker.  Its ring is a queue of consecutive tasks, so   *)
(* that the unfinished ones are fewer than the positions, hence the slots. *)

(* The tasks pushed to the ring so far.                                    *)
Pushed == taskId - InHand

(* How many pushes ago position i was written, when t is the tail.         *)
Back(t, i) == IF i < t THEN t - i ELSE t - i + NumTasksPerThread

(* s is the slot of the task pushed to i, after n pushes.                  *)
At(n, t, s, i) == n - Back(t, i) \in Nat /\ s = Slot(n - Back(t, i))

QueueOrder == \A i \in Between(head[0], tail[0]) : At(Pushed, tail[0], data[0][i], i)
ReadOrder  == wpc[0] = "read" => At(Pushed, tail[0], data[0][popped[0]], popped[0])
RunOrder   == wpc[0] \in Running =>
                 \E p \in Position : Succ(p) = head[0] /\ At(Pushed, tail[0], item[0], p)
HandOrder  == /\ ppc \in {"write", "publish"} => taskId > 0
              /\ ppc = "publish" => data[0][tail[0]] = Slot(taskId - 1)

OrderInv == QueueOrder /\ ReadOrder /\ RunOrder /\ HandOrder

OneInv == LeavingInv /\ ~overrun /\ OrderInv

LEMMA BackFacts ==
    ASSUME NEW t \in Position, NEW i \in Position
    PROVE  /\ Back(t, i) \in 1 .. NumTasksPerThread
           /\ i # t => Back(t, i) < NumTasksPerThread /\ Back(Succ(t), i) = Back(t, i) + 1
           /\ Back(Succ(t), t) = 1
  BY CapacityAssumption DEF Position, Back, Succ

(* The tail moves on: what was stored elsewhere is one push further back,  *)
(* and what was stored at the tail is the last push.                       *)
LEMMA AtMoves ==
    ASSUME NEW n \in Nat, NEW t \in Position, NEW i \in Position, NEW s
    PROVE  /\ i # t /\ At(n, t, s, i) => At(n + 1, Succ(t), s, i)
           /\ s = Slot(n) => At(n + 1, Succ(t), s, t)
  <1> DEFINE b == Back(t, i)
  <1>1. b \in Nat /\ (i # t => Back(Succ(t), i) = b + 1) /\ Back(Succ(t), t) = 1
    BY BackFacts, CapacityAssumption
  <1> HIDE DEF b
  <1>2. (n + 1) - (b + 1) = n - b /\ (n + 1) - 1 = n
    BY <1>1
  <1> QED BY <1>1, <1>2 DEF At, b

(* What is in the ring while it has room has not the slot of the next task. *)
LEMMA AtIsOlder ==
    ASSUME NEW n \in Nat, NEW t \in Position, NEW i \in Position \ {t}, NEW s, At(n, t, s, i)
    PROVE  s # Slot(n)
  <1> DEFINE b == Back(t, i)
             c == TaskCount
  <1>1. b \in Nat \ {0} /\ b < NumTasksPerThread
    BY BackFacts, CapacityAssumption
  <1>2. n - b \in Nat /\ s = Slot(n - b)
    BY DEF At
  <1>3. c \in Nat \ {0} /\ c >= NumTasksPerThread
    BY SomeSlot
  <1> HIDE DEF b, c
  <1>4. n - b < n /\ n - (n - b) < c
    BY <1>1, <1>2, <1>3, CapacityAssumption
  <1>5. (n - b) % c # n % c
    BY <1>2, <1>3, <1>4, SlotsApart
  <1> QED BY <1>2, <1>5 DEF Slot, c

LEMMA OnlyWorker == N = 1 => Workers = {0}
  BY DEF Workers

(* The steps that move nothing.                                            *)
LEMMA OrderQuiet ==
    ASSUME OrderInv,
           UNCHANGED <<taskId, head, tail, data>>,
           ppc' \in {"write", "publish"} <=> ppc \in {"write", "publish"},
           ppc' = "publish" => ppc = "publish",
           wpc'[0] = "read" => wpc[0] = "read" /\ popped'[0] = popped[0],
           wpc'[0] \in Running => wpc[0] \in Running /\ item'[0] = item[0]
    PROVE  OrderInv'
  <1>1. Pushed' = Pushed
    BY DEF Pushed, InHand
  <1>2. QueueOrder'
    BY <1>1 DEF OrderInv, QueueOrder
  <1>3. ReadOrder'
    BY <1>1 DEF OrderInv, ReadOrder
  <1>4. RunOrder'
    BY <1>1 DEF OrderInv, RunOrder
  <1>5. HandOrder'
    BY DEF OrderInv, HandOrder, Slot
  <1> QED BY <1>2, <1>3, <1>4, <1>5 DEF OrderInv

LEMMA OrderStep ==
    ASSUME N = 1, PoolInv, OrderInv, [Next]_vars
    PROVE  OrderInv'
  <1> USE DEF PoolInv, RingInv, OrderInv
  <1>0. /\ Workers = {0} /\ target = 0 /\ victim[0] = 0
        /\ head \in [Workers -> Position] /\ tail \in [Workers -> Position]
        /\ data \in [Workers -> [Position -> 0 .. TaskCount - 1]]
        /\ head[0] \in Position /\ tail[0] \in Position /\ popped[0] \in Position
        /\ wpc \in [Workers -> WorkerPc] /\ taskId \in Nat
    BY OnlyWorker DEF RingType, TaskInv, TaskType, SlotInv
  <1>00. wpc[0] = "read" => Succ(popped[0]) = head[0]
    BY <1>0 DEF ReaderHoldsLock
  <1>1. CASE Schedule
    <2>1. /\ UNCHANGED <<head, tail, data, wpc, popped, item>>
          /\ ppc = "idle"
      BY <1>1 DEF Schedule, ring, worker
    <2>2. CASE isFull(target')
      BY <1>1, <2>1, <2>2, OrderQuiet DEF Schedule
    <2>3. CASE ~isFull(target')
      <3>1. taskId' = taskId + 1 /\ ppc' = "write"
        BY <1>1, <2>3 DEF Schedule
      <3>2. Pushed' = Pushed
        BY <1>0, <2>1, <3>1 DEF Pushed, InHand
      <3>3. HandOrder'
        BY <1>0, <3>1 DEF HandOrder
      <3>4. QueueOrder'
        BY <2>1, <3>2 DEF QueueOrder
      <3>5. ReadOrder' /\ RunOrder'
        BY <2>1, <3>2 DEF ReadOrder, RunOrder
      <3> QED BY <3>3, <3>4, <3>5
    <2> QED BY <2>2, <2>3
  <1>2. CASE PushWrite
    <2>1. /\ ppc = "write" /\ ~isFull(0)
          /\ UNCHANGED <<head, tail, wpc, popped, item, taskId>>
          /\ ppc' = "publish"
          /\ data' = [data EXCEPT ![0][tail[0]] = Slot(taskId - 1)]
      BY <1>0, <1>2 DEF PushWrite, PushHasRoom, worker
    <2>2. Pushed' = Pushed
      BY <2>1 DEF Pushed, InHand
    <2>3. \A i \in Position \ {tail[0]} : data'[0][i] = data[0][i]
      BY <1>0, <2>1
    <2>4. data'[0][tail[0]] = Slot(taskId - 1)
      BY <1>0, <2>1
    <2>5. QueueOrder'
      <3>1. Between(head[0], tail[0]) \subseteq Position \ {tail[0]}
        BY <1>0, BetweenFacts DEF Between
      <3> QED BY <2>1, <2>2, <2>3, <3>1 DEF QueueOrder
    <2>6. ReadOrder'
      <3> SUFFICES ASSUME wpc[0] = "read"
                   PROVE  At(Pushed, tail[0], data'[0][popped[0]], popped[0])
        BY <2>1, <2>2 DEF ReadOrder
      <3>1. popped[0] # tail[0]
        BY <1>00, <2>1 DEF isFull
      <3> QED BY <1>0, <2>3, <3>1 DEF ReadOrder
    <2>7. RunOrder'
      BY <2>1, <2>2 DEF RunOrder
    <2>8. HandOrder'
      BY <2>1, <2>4 DEF HandOrder, Slot
    <2> QED BY <2>5, <2>6, <2>7, <2>8
  <1>3. CASE PushPublish
    <2> DEFINE t == tail[0]
               n == Pushed
    <2>1. /\ ppc = "publish" /\ ~isFull(0)
          /\ UNCHANGED <<head, data, wpc, popped, item, taskId>>
          /\ ppc' = "notify"
          /\ tail'[0] = Succ(t)
      BY <1>0, <1>3 DEF PushPublish, PushHasRoom, worker
    <2>2. n \in Nat /\ n = taskId - 1 /\ Pushed' = n + 1
      BY <1>0, <2>1 DEF Pushed, InHand, HandOrder
    <2>3. Succ(t) # head[0] /\ t \in Position
      BY <1>0, <2>1 DEF isFull
    <2> HIDE DEF n
    <2>4. QueueOrder'
      <3>1. Between(head[0], Succ(t)) = Between(head[0], t) \cup {t} /\ t \notin Between(head[0], t)
        BY <1>0, <2>3, BetweenFacts
      <3>2. ASSUME NEW i \in Between(head[0], t) PROVE At(n + 1, Succ(t), data[0][i], i)
        <4>1. i \in Position /\ i # t
          BY <3>1, <3>2 DEF Between
        <4>2. At(n, t, data[0][i], i)
          BY <3>2 DEF QueueOrder, n
        <4> QED BY <2>2, <2>3, <4>1, <4>2, AtMoves
      <3>3. At(n + 1, Succ(t), data[0][t], t)
        <4>1. data[0][t] = Slot(n)
          BY <2>1, <2>2 DEF HandOrder
        <4> QED BY <2>2, <2>3, <4>1, AtMoves
      <3> QED BY <2>1, <2>2, <3>1, <3>2, <3>3 DEF QueueOrder
    <2>5. ReadOrder'
      <3> SUFFICES ASSUME wpc[0] = "read"
                   PROVE  At(n + 1, Succ(t), data[0][popped[0]], popped[0])
        BY <2>1, <2>2 DEF ReadOrder
      <3>1. popped[0] # t
        BY <1>00, <2>3
      <3>2. At(n, t, data[0][popped[0]], popped[0])
        BY DEF ReadOrder, n
      <3> QED BY <1>0, <2>2, <2>3, <3>1, <3>2, AtMoves
    <2>6. RunOrder'
      <3> SUFFICES ASSUME wpc[0] \in Running
                   PROVE  \E p \in Position : Succ(p) = head[0] /\ At(n + 1, Succ(t), item[0], p)
        BY <2>1, <2>2 DEF RunOrder
      <3>1. PICK p \in Position : Succ(p) = head[0] /\ At(n, t, item[0], p)
        BY DEF RunOrder, n
      <3>2. p # t
        BY <2>3, <3>1
      <3>3. At(n + 1, Succ(t), item[0], p)
        BY <2>2, <2>3, <3>1, <3>2, AtMoves
      <3> QED BY <3>1, <3>3
    <2>7. HandOrder'
      BY <2>1 DEF HandOrder
    <2> QED BY <2>4, <2>5, <2>6, <2>7
  <1>4. CASE ScheduleNotify \/ ToggleNotify \/ StopNotify
    <2>1. \/ UNCHANGED wpc
          \/ \E ws \in SUBSET Asleep : wpc' = Woken(ws)
      BY <1>4, NotifyWakes DEF ScheduleNotify, ToggleNotify, ToggleWakes, StopNotify, StopWakes
    <2>2. /\ wpc'[0] = "read" => wpc[0] = "read"
          /\ wpc'[0] \in Running => wpc[0] \in Running
      BY <1>0, <2>1 DEF Asleep, Woken, Running
    <2>3. /\ UNCHANGED <<taskId, head, tail, data, popped, item>>
          /\ ppc \notin {"write", "publish"} /\ ppc' \notin {"write", "publish"}
      BY <1>4 DEF ScheduleNotify, ToggleNotify, StopNotify, ring
    <2> QED BY <2>2, <2>3, OrderQuiet
  <1>5. CASE SetIdleWaiting \/ StopWork \/ Join \/ Drained
    <2>1. /\ UNCHANGED <<taskId, head, tail, data, popped, item, wpc>>
          /\ ppc \notin {"write", "publish"} /\ ppc' \notin {"write", "publish"}
      BY <1>5 DEF SetIdleWaiting, StopWork, Join, AfterJoin, Drained, ring, worker
    <2> QED BY <2>1, OrderQuiet
  <1>6. CASE Drain
    <2>1. \A w \in Workers : wpc[w] = "exited"
      BY <1>6 DEF Drain, DrainsAlone
    <2>2. /\ \E w \in Workers : ~isEmpty(w)
          /\ head' = [head EXCEPT ![FirstFilled] = Succ(head[FirstFilled])]
          /\ UNCHANGED <<tail, data, taskId, ppc, wpc>> /\ ppc = "draining"
      BY <1>6 DEF Drain, producer, worker
    <2>3. FirstFilled = 0 /\ head[0] # tail[0]
      BY <1>0, <2>2, FirstFilledFacts DEF isEmpty
    <2>4. Between(head'[0], tail[0]) = Between(head[0], tail[0]) \ {head[0]}
      BY <1>0, <2>2, <2>3, BetweenFacts
    <2>5. Pushed' = Pushed
      BY <2>2 DEF Pushed, InHand
    <2>6. QueueOrder'
      BY <2>2, <2>4, <2>5 DEF QueueOrder
    <2>7. ReadOrder' /\ RunOrder'
      BY <1>0, <2>1, <2>2 DEF ReadOrder, RunOrder, Running
    <2>8. HandOrder'
      BY <2>2 DEF HandOrder
    <2> QED BY <2>6, <2>7, <2>8
  <1>7. ASSUME NEW w \in Workers, WorkerStep(w)
        PROVE  OrderInv'
    <2>0. w = 0
      BY <1>0
    <2>1. CASE PopPublish(0)
      <3>1. /\ head[0] # tail[0] /\ head'[0] = Succ(head[0]) /\ popped'[0] = head[0]
            /\ wpc'[0] = "read"
            /\ UNCHANGED <<tail, data, taskId, ppc>>
        BY <1>0, <2>1 DEF PopPublish, isEmpty, Goto, producer, RingType
      <3>2. /\ head[0] \in Between(head[0], tail[0])
            /\ Between(head'[0], tail[0]) = Between(head[0], tail[0]) \ {head[0]}
        BY <1>0, <3>1, BetweenFacts
      <3>3. Pushed' = Pushed
        BY <3>1 DEF Pushed, InHand
      <3>4. QueueOrder'
        BY <3>1, <3>2, <3>3 DEF QueueOrder
      <3>5. ReadOrder'
        BY <3>1, <3>2, <3>3 DEF QueueOrder, ReadOrder
      <3>6. RunOrder'
        BY <3>1 DEF RunOrder, Running
      <3>7. HandOrder'
        BY <3>1 DEF HandOrder, Slot
      <3> QED BY <3>4, <3>5, <3>6, <3>7
    <2>2. CASE PopRead(0)
      <3>1. /\ wpc[0] = "read" /\ wpc'[0] = "run"
            /\ item'[0] = data[0][popped[0]]
            /\ UNCHANGED <<head, tail, data, taskId, ppc>>
        BY <1>0, <2>2 DEF PopRead, Goto, producer, ring, TaskInv, TaskType
      <3>2. Pushed' = Pushed
        BY <3>1 DEF Pushed, InHand
      <3>3. QueueOrder'
        BY <3>1, <3>2 DEF QueueOrder
      <3>4. ReadOrder'
        BY <3>1 DEF ReadOrder
      <3>5. RunOrder'
        <4>1. At(Pushed, tail[0], data[0][popped[0]], popped[0])
          BY <3>1 DEF ReadOrder
        <4>2. popped[0] \in Position /\ Succ(popped[0]) = head[0]
          BY <1>0, <1>00, <3>1
        <4> QED BY <3>1, <3>2, <4>1, <4>2 DEF RunOrder
      <3>6. HandOrder'
        BY <3>1 DEF HandOrder, Slot
      <3> QED BY <3>3, <3>4, <3>5, <3>6
    <2>3. CASE \/ LoopHead(0) \/ PopEmpty(0) \/ Run(0) \/ SetResult(0) \/ Epilogue(0)
               \/ ScanAgain(0) \/ IdleWait(0)
      <3>1. UNCHANGED <<head, tail, data, taskId, ppc, popped>>
        BY <2>3 DEF LoopHead, PopEmpty, Run, SetResult, Epilogue, ScanAgain, IdleWait,
                    ring, producer
      <3>2. /\ wpc'[0] # "read"
            /\ wpc'[0] \in Running => wpc[0] \in Running /\ item' = item
        BY <1>0, <2>3 DEF LoopHead, PopEmpty, Run, SetResult, Epilogue, ScanAgain, IdleWait,
                          Goto, Running, WorkerPc
      <3> QED BY <3>1, <3>2, OrderQuiet
    <2> QED BY <1>7, <2>0, <2>1, <2>2, <2>3 DEF WorkerStep
  <1>8. CASE Get
    BY <1>8, OrderQuiet DEF Get, ring, producer, worker
  <1>9. CASE UNCHANGED vars
    BY <1>9, OrderQuiet DEF vars, ring, producer, worker
  <1> QED
    BY <1>1, <1>2, <1>3, <1>4, <1>5, <1>6, <1>7, <1>8, <1>9 DEF Next, Producer

(* Whatever the ring, with room, or the worker holds is not where the next *)
(* task goes.                                                              *)
LEMMA NextSlotIsFinished ==
    ASSUME N = 1, LeavingInv, OrderInv, Schedule, ~isFull(target')
    PROVE  ~slots[Slot(taskId)].thunk
  <1> USE DEF LeavingInv, PoolInv, RingInv, OrderInv
  <1> DEFINE t == tail[0]
  <1>1. /\ Workers = {0} /\ victim[0] = 0 /\ target' = 0
        /\ head[0] \in Position /\ t \in Position /\ popped[0] \in Position
        /\ taskId \in Nat
    BY OnlyWorker DEF RingType, SlotInv, Schedule
  <1>2. Succ(t) # head[0] /\ ppc = "idle" /\ Pushed = taskId
    BY <1>1 DEF isFull, Schedule, Pushed, InHand
  <1> SUFFICES ASSUME slots[Slot(taskId)].thunk PROVE FALSE
    OBVIOUS
  <1>3. Placed(Slot(taskId))
    BY <1>1, SlotFacts DEF LivePlaced
  <1>4. ASSUME NEW i \in Stored(0), data[0][i] = Slot(taskId) PROVE FALSE
    <2>1. CASE i \in Between(head[0], t)
      <3>1. i \in Position \ {t}
        BY <1>1, <2>1, BetweenFacts DEF Between
      <3>2. At(taskId, t, data[0][i], i)
        BY <1>2, <2>1 DEF QueueOrder
      <3> QED BY <1>1, <1>4, <3>1, <3>2, AtIsOlder
    <2>2. CASE wpc[0] = "read" /\ i = popped[0]
      <3>1. i \in Position \ {t}
        BY <1>1, <1>2, <2>2 DEF ReaderHoldsLock
      <3>2. At(taskId, t, data[0][i], i)
        BY <1>2, <2>2 DEF ReadOrder
      <3> QED BY <1>1, <1>4, <3>1, <3>2, AtIsOlder
    <2>3. Occupied(0) = Between(head[0], t)
      BY <1>1, OccupiedIsBetween
    <2> QED BY <1>1, <1>2, <1>4, <2>1, <2>2, <2>3 DEF Stored
  <1>5. ASSUME wpc[0] \in Running, item[0] = Slot(taskId) PROVE FALSE
    <2>1. PICK p \in Position : Succ(p) = head[0] /\ At(taskId, t, item[0], p)
      BY <1>2, <1>5 DEF RunOrder
    <2>2. p \in Position \ {t}
      BY <1>2, <2>1
    <2> QED BY <1>1, <1>5, <2>1, <2>2, AtIsOlder
  <1> QED BY <1>1, <1>2, <1>3, <1>4, <1>5 DEF Placed

LEMMA OneStep ==
    ASSUME N = 1, OneInv, [Next]_vars
    PROVE  OneInv'
  <1> USE DEF OneInv
  <1>1. OrderInv'
    BY OrderStep DEF LeavingInv
  <1>2. ~overrun'
    <2>1. CASE Schedule
      <3>1. CASE isFull(target')
        BY <2>1, <3>1 DEF Schedule
      <3>2. CASE ~isFull(target')
        <4>1. overrun' = (overrun \/ slots[Slot(taskId)].thunk)
          BY <2>1, <3>2 DEF Schedule
        <4> QED BY <2>1, <3>2, <4>1, NextSlotIsFinished
      <3> QED BY <3>1, <3>2
    <2> QED BY <2>1, OverrunStep
  <1>3. WholeInv'
    BY WholeStep DEF WholeInv, CountedInv, LeavingInv, PoolInv
  <1> QED BY <1>1, <1>2, <1>3 DEF WholeInv

LEMMA OneInit == N = 1 /\ Init => OneInv
  <1> SUFFICES ASSUME N = 1, Init PROVE OneInv
    OBVIOUS
  <1>1. LeavingInv
    BY LeavingInit
  <1>2. /\ head[0] = 0 /\ tail[0] = 0 /\ wpc[0] = "start" /\ ppc = "idle" /\ ~overrun
    BY OnlyWorker DEF Init
  <1>3. Between(0, 0) = {}
    BY CapacityAssumption DEF Between, Position
  <1> QED BY <1>1, <1>2, <1>3
          DEF OneInv, OrderInv, QueueOrder, ReadOrder, RunOrder, HandOrder, Running

(* A pool of one worker, the exporter's or that of a deferred context,     *)
(* never captures a task over one that is queued or executing, however     *)
(* much its client schedules: the full ring that refuses a task comes      *)
(* first.  So the properties conditional on that hold outright.            *)
THEOREM OneWorkerNeverOverruns == N = 1 => (Spec => []~overrun)
  <1> SUFFICES ASSUME N = 1 PROVE Spec => []~overrun
    OBVIOUS
  <1>1. Init => OneInv
    BY OneInit
  <1>2. OneInv /\ [Next]_vars => OneInv'
    BY OneStep
  <1>3. OneInv => ~overrun
    BY DEF OneInv
  <1> QED
    BY <1>1, <1>2, <1>3, PTL DEF Spec

(* The invariant does not look at the futures.                             *)
LEMMA FuturesApart ==
    ASSUME OneInv, UNCHANGED <<numTasks, ring, lock, slots, producer, worker, history>>
    PROVE  OneInv'
  <1> USE DEF OneInv, LeavingInv, PoolInv, RingInv, TaskInv, OrderInv
  <1>0. UNCHANGED <<numTasks, head, tail, data, lock, slots, ppc, target, taskId, schedulerIndex,
                    wpc, victim, popped, item, started, cancelled, overrun>>
    BY DEF ring, producer, worker, history
  <1>1. \A w \in Workers : Stored(w)' = Stored(w)
    BY <1>0 DEF Stored, Occupied
  <1>2. RingType' /\ ReaderHoldsLock' /\ PushHasRoom' /\ DrainsAlone'
    BY <1>0 DEF RingType, ReaderHoldsLock, PushHasRoom, DrainsAlone, isFull
  <1>3. SlotInv' /\ TaskType' /\ LiveTasks' /\ History'
    BY <1>0 DEF SlotInv, TaskType, LiveTasks, History, Slot
  <1>4. \A s : Waiting(s)' <=> Waiting(s)
    BY <1>0 DEF Waiting
  <1>5. StoredWait'
    BY <1>0, <1>1, <1>4 DEF StoredWait
  <1>6. RunningLive'
    BY <1>0 DEF RunningLive, Waiting
  <1>7. PushedWaits'
    BY <1>0 DEF PushedWaits, Waiting, Slot
  <1>8. StoredApart' /\ RunningApart' /\ PushedApart'
    BY <1>0, <1>1 DEF StoredApart, RunningApart, PushedApart, Slot
  <1>9. CountInv'
    <2>1. Lengths' = Lengths /\ InHand' = InHand /\ Readers' = Readers
      BY <1>0 DEF Lengths, Occupied, InHand, Readers
    <2> QED BY <1>0, <2>1 DEF CountInv
  <1>10. LivePlaced' /\ GoneEmpty'
    BY <1>0, <1>1 DEF LivePlaced, Placed, GoneEmpty, isEmpty, Slot
  <1>11. OrderInv'
    BY <1>0, OrderQuiet
  <1> QED
    BY <1>0, <1>2, <1>3, <1>5, <1>6, <1>7, <1>8, <1>9, <1>10, <1>11

(* The same of a deferred context: whatever draws are refused and however  *)
(* many command lists wait, only the slots of futures are captured anew.   *)
THEOREM ClientNeverOverruns == N = 1 => (ClientSpec => []~overrun)
  <1> SUFFICES ASSUME N = 1 PROVE ClientSpec => []~overrun
    OBVIOUS
  <1>1. ClientInit => OneInv
    BY OneInit DEF ClientInit
  <1>2. OneInv /\ [ClientNext]_clientVars => OneInv'
    <2> SUFFICES ASSUME OneInv, [ClientNext]_clientVars PROVE OneInv'
      OBVIOUS
    <2>1. CASE [Next]_vars
      BY <2>1, OneStep
    <2>2. CASE ScheduleHashes \/ ScheduleDeferredHashes \/ ScheduleSkinning
      BY <2>1, <2>2
         DEF ScheduleHashes, ScheduleDeferredHashes, ScheduleSkinning, Next, Producer
    <2>3. CASE RecordDraw \/ ResetCommandListState \/ UNCHANGED clientVars
      BY <2>1, <2>3 DEF RecordDraw, ResetCommandListState, clientVars
    <2>4. CASE Finalize
      BY <2>1, <2>4 DEF Finalize, Next
    <2>5. CASE PoolStep
      BY <2>1, <2>5 DEF PoolStep, Next, Producer
    <2>6. CASE RefuseDraw
      <3>1. UNCHANGED <<numTasks, ring, slots, producer, worker, lock, history>>
        BY <2>6 DEF RefuseDraw
      <3> QED BY <3>1, FuturesApart
    <2> QED BY <2>2, <2>3, <2>4, <2>5, <2>6 DEF ClientNext
  <1>3. OneInv => ~overrun
    BY DEF OneInv
  <1> QED
    BY <1>1, <1>2, <1>3, PTL DEF ClientSpec
=============================================================================
