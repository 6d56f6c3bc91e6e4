------------------------ MODULE SubmissionQueueProofs ------------------------
(***************************************************************************)
(* Proofs about SubmissionQueue for every set of lists and threads, every  *)
(* queue bound and every set of driver errors.                             *)
(***************************************************************************)
EXTENDS SubmissionQueue, FiniteSetTheorems, TLAPS

-----------------------------------------------------------------------------
(* Queues as sets of entries.                                              *)

\* What pushing to a queue does to the set of its entries.
LEMMA AppendEntries ==
  ASSUME NEW S, NEW q \in Seq(S), NEW e \in S
  PROVE  /\ Append(q, e) \in Seq(S)
         /\ Append(q, e) # <<>>
         /\ InQueue(Append(q, e)) = InQueue(q) \cup {e}
         /\ q # <<>> => Head(Append(q, e)) = Head(q)
  <1>1. /\ Append(q, e) \in Seq(S)
        /\ Append(q, e) # <<>>
        /\ DOMAIN Append(q, e) = DOMAIN q \cup {Len(q) + 1}
        /\ \A i \in DOMAIN q : Append(q, e)[i] = q[i]
        /\ Append(q, e)[Len(q) + 1] = e
    OBVIOUS
  <1>2. InQueue(Append(q, e)) = InQueue(q) \cup {e}
    BY <1>1 DEF InQueue
  <1>3. q # <<>> => Head(Append(q, e)) = Head(q)
    OBVIOUS
  <1> QED BY <1>1, <1>2, <1>3

\* What popping from a queue does to the set of its entries.
LEMMA PopEntries ==
  ASSUME NEW S, NEW q \in Seq(S), q # <<>>
  PROVE  /\ Tail(q) \in Seq(S)
         /\ Head(q) \in S
         /\ Head(q) \in InQueue(q)
         /\ InQueue(q) = InQueue(Tail(q)) \cup {Head(q)}
  <1>1. Tail(q) \in Seq(S) /\ Head(q) \in S /\ Head(q) \in InQueue(q)
    BY DEF InQueue
  <1>2. InQueue(q) \subseteq InQueue(Tail(q)) \cup {Head(q)}
    <2> SUFFICES ASSUME NEW i \in DOMAIN q, i # 1
                 PROVE  q[i] \in InQueue(Tail(q))
      BY DEF InQueue
    <2>1. i - 1 \in DOMAIN Tail(q) /\ Tail(q)[i - 1] = q[i]
      OBVIOUS
    <2> QED BY <2>1 DEF InQueue
  <1>3. InQueue(Tail(q)) \subseteq InQueue(q)
    <2> SUFFICES ASSUME NEW i \in DOMAIN Tail(q)
                 PROVE  Tail(q)[i] \in InQueue(q)
      BY DEF InQueue
    <2>1. i + 1 \in DOMAIN q /\ Tail(q)[i] = q[i + 1]
      OBVIOUS
    <2> QED BY <2>1 DEF InQueue
  <1> QED BY <1>1, <1>2, <1>3

\* A queue without repeats stays so when a new entry is pushed.
LEMMA AppendNoRepeats ==
  ASSUME NEW S, NEW T, NEW q \in Seq(S), NEW e \in S,
         NoRepeats(q, T), e \in T => e \notin InQueue(q)
  PROVE  NoRepeats(Append(q, e), T)
  BY DEF NoRepeats, InQueue

\* A queue without repeats stays so when its front is popped, and the front
\* is gone.
LEMMA PopNoRepeats ==
  ASSUME NEW S, NEW T, NEW q \in Seq(S), q # <<>>, NoRepeats(q, T)
  PROVE  /\ NoRepeats(Tail(q), T)
         /\ Head(q) \in T => Head(q) \notin InQueue(Tail(q))
  <1>1. \A i \in DOMAIN Tail(q) : i + 1 \in DOMAIN q /\ Tail(q)[i] = q[i + 1]
    OBVIOUS
  <1>2. NoRepeats(Tail(q), T)
    BY <1>1 DEF NoRepeats
  <1>3. ASSUME Head(q) \in T, NEW i \in DOMAIN Tail(q), Tail(q)[i] = Head(q)
        PROVE  FALSE
    <2>1. Head(q) = q[1] /\ 1 \in DOMAIN q
      OBVIOUS
    <2>2. i + 1 = 1
      BY <1>1, <1>3, <2>1 DEF NoRepeats
    <2> QED BY <2>2, <1>3
  <1> QED BY <1>2, <1>3 DEF InQueue


-----------------------------------------------------------------------------
(* Type correctness.                                                       *)

\* The three kinds of threads are different.
LEMMA ThreadsDiffer ==
  /\ SubmitThread # FinishThread
  /\ SubmitThread \in Workers /\ FinishThread \in Workers
  /\ SubmitThread \in Threads /\ FinishThread \in Threads
  /\ Clients \subseteq Threads
  /\ SubmitThread \notin Clients /\ FinishThread \notin Clients
  /\ Submitters \subseteq Clients /\ Presenting \subseteq Clients
  /\ Waiters \subseteq Clients
  BY ConstantsAssumption DEF Threads, Workers, Clients, SubmitThread, FinishThread

\* Lists are told from the other entries and from "no list".
LEMMA EntriesDiffer ==
  /\ NoList \notin CmdLists
  /\ NoList \notin Entry
  /\ Interp \notin CmdLists
  /\ Present \cap CmdLists = {}
  /\ CmdLists \subseteq Entry
  /\ Interp \in Entry
  /\ Present \subseteq Entry
  BY ConstantsAssumption DEF NoList, Interp, Present, Entry

\* Waking threads keeps the type of "parked".
LEMMA WokenType ==
  ASSUME TypeOK, NEW conds
  PROVE  Woken(conds) \in [Threads -> Conds \cup {Awake}]
  BY DEF Woken, TypeOK

\* Every step keeps the types; the queues need to know that what is submitted
\* is a list and what is popped is there.
LEMMA TypeStep ==
  ASSUME TypeOK, EntriesInv, Recording \subseteq CmdLists, [Next]_vars
  PROVE  TypeOK'
  <1> USE DEF TypeOK, vars, queueVars, errorVars, frameVars, listVars, deviceVars,
              Goto, At, Starts, ClientLabels, SubmitLabels, FinishLabels, Conds,
              Results
  <1> USE ThreadsDiffer, EntriesDiffer, WokenType
  <1>1. ASSUME NEW c \in Clients, Record(c) PROVE TypeOK'
    BY <1>1 DEF Record
  <1>2. ASSUME NEW c \in Clients, SubmitPush(c) PROVE TypeOK'
    BY <1>2, AppendEntries DEF SubmitPush, Push, Recording
  <1>3. ASSUME NEW c \in Clients, SubmitBlock(c) PROVE TypeOK'
    BY <1>3 DEF SubmitBlock, Sleep
  <1>4. ASSUME NEW c \in Clients, SetupFrameInterpolation(c) PROVE TypeOK'
    BY <1>4, AppendEntries DEF SetupFrameInterpolation, Push
  <1>5. ASSUME NEW c \in Clients, PresentImage(c) PROVE TypeOK'
    <2>1. Append(submitQueue, IF wantInterp THEN "presentFG" ELSE "present") \in Seq(Entry)
      BY AppendEntries DEF Present
    <2> QED BY <1>5, <2>1 DEF PresentImage, Push
  <1>6. ASSUME NEW c \in Clients, WaitForSubmission(c) PROVE TypeOK'
    BY <1>6 DEF WaitForSubmission
  <1>7. ASSUME NEW c \in Clients, SynchronizeSubmission(c) PROVE TypeOK'
    BY <1>7 DEF SynchronizeSubmission
  <1>8. ASSUME NEW c \in Clients, SynchronizeSubmissionBlock(c) PROVE TypeOK'
    BY <1>8 DEF SynchronizeSubmissionBlock, Sleep
  <1>9. ASSUME NEW c \in Clients, WaitForResource(c) PROVE TypeOK'
    BY <1>9 DEF WaitForResource
  <1>10. ASSUME NEW c \in Clients, SynchronizeUntil(c) PROVE TypeOK'
    BY <1>10 DEF SynchronizeUntil
  <1>11. ASSUME NEW c \in Clients, SynchronizeUntilBlock(c) PROVE TypeOK'
    BY <1>11 DEF SynchronizeUntilBlock, Sleep
  <1>12. ASSUME NEW c \in Clients, WaitForIdle(c) PROVE TypeOK'
    BY <1>12 DEF WaitForIdle
  <1>13. ASSUME NEW c \in Clients, Close(c) PROVE TypeOK'
    BY <1>13 DEF Close
  <1>14. ASSUME NEW c \in Clients, Stop(c) PROVE TypeOK'
    BY <1>14 DEF Stop, WokenByStop
  <1>15. ASSUME NEW c \in Clients, Join(c) PROVE TypeOK'
    BY <1>15 DEF Join
  <1>16. ASSUME NEW t \in Threads, Synchronize(t) PROVE TypeOK'
    BY <1>16 DEF Synchronize
  <1>17. ASSUME NEW t \in Threads, SynchronizeBlock(t) PROVE TypeOK'
    BY <1>17 DEF SynchronizeBlock, Sleep
  <1>18. ASSUME NEW t \in Threads, LockDeviceQueue(t) PROVE TypeOK'
    BY <1>18 DEF LockDeviceQueue
  <1>19. ASSUME NEW t \in Threads, DeviceWaitIdle(t) PROVE TypeOK'
    <2>1. AfterIdle(t) \in {"drop", "notify", "stop", "ready"}
      BY DEF AfterIdle, Threads, Workers
    <2> QED BY <1>19, <2>1 DEF DeviceWaitIdle
  <1>20. CASE TakeEntry
    BY <1>20 DEF TakeEntry
  <1>21. CASE TakeEntryBlock
    BY <1>21 DEF TakeEntryBlock, Sleep
  <1>22. CASE CheckLost
    BY <1>22 DEF CheckLost
  <1>23. CASE SkipLost
    BY <1>23 DEF SkipLost
  <1>24. CASE IssueList
    <2>1. Head(submitQueue) \in CmdLists /\ SubmitResults \subseteq Results
      BY <1>24, ConstantsAssumption DEF IssueList, SubmitResults
    <2> QED BY <1>24, <2>1 DEF IssueList
  <1>25. CASE IssueInterp
    BY <1>25 DEF IssueInterp
  <1>26. CASE IssuePresent
    <2>1. PresentResults \subseteq Results /\ InterpAfterPresent \in BOOLEAN
      BY DEF PresentResults, InterpAfterPresent
    <2> QED BY <1>26, <2>1 DEF IssuePresent, PublishedStatus
  <1>27. CASE RetireEntry
    <2>1. submitQueue # <<>>
      BY <1>27 DEF RetireEntry, EntriesInv, SubmitHolds
    <2>2. HandOver \in Seq(CmdLists)
      BY AppendEntries DEF HandOver
    <2>3. Tail(submitQueue) \in Seq(Entry)
      BY <2>1, PopEntries
    <2>4. FailedList \in CmdLists \cup {NoList}
      BY DEF FailedList
    <2>5. result[SubmitThread] \in Results
      OBVIOUS
    <2> QED BY <1>27, <2>2, <2>3, <2>4, <2>5 DEF RetireEntry, ErrorAfterRetire, PendingAfterRetire
  <1>28. CASE DropEntry
    BY <1>28 DEF DropEntry
  <1>29. CASE TakeFinished
    BY <1>29, PopEntries DEF TakeFinished
  <1>30. CASE TakeFinishedBlock
    BY <1>30 DEF TakeFinishedBlock, Sleep
  <1>31. CASE ReadLastError
    BY <1>31 DEF ReadLastError
  <1>32. CASE WaitFence
    <2>1. FenceResults(target[FinishThread]) \subseteq Results
      BY ConstantsAssumption DEF FenceResults
    <2> QED BY <1>32, <2>1 DEF WaitFence
  <1>33. CASE FenceFailed
    <2>1. result[FinishThread] \in Results
      OBVIOUS
    <2> QED BY <1>33, <2>1 DEF FenceFailed
  <1>34. CASE NotifyObjects
    <2>1. target[FinishThread] \in CmdLists
      BY <1>34, PopEntries DEF NotifyObjects, EntriesInv, FinishHolds
    <2> QED BY <1>34, <2>1 DEF NotifyObjects, NotifiedLists
  <1>35. CASE RetireFinished
    <2>1. Tail(finishQueue) \in Seq(CmdLists)
      BY <1>35, PopEntries DEF RetireFinished, EntriesInv, FinishHolds
    <2> QED BY <1>35, <2>1 DEF RetireFinished, WokenByFinish, PendingAfterFinish
  <1>36. CASE Recycle
    BY <1>36 DEF Recycle, EntriesInv
  <1>37. CASE LoseDevice
    BY <1>37 DEF LoseDevice
  <1>38. CASE Terminated
    BY <1>38 DEF Terminated
  <1>39. ASSUME NEW l \in CmdLists, GpuComplete(l) PROVE TypeOK'
    BY <1>39 DEF GpuComplete
  <1>40. CASE UNCHANGED vars
    BY <1>40
  <1> QED
    BY <1>1, <1>2, <1>3, <1>4, <1>5, <1>6, <1>7, <1>8, <1>9, <1>10, <1>11, <1>12, <1>13,
       <1>14, <1>15, <1>16, <1>17, <1>18, <1>19, <1>20, <1>21, <1>22, <1>23, <1>24, <1>25,
       <1>26, <1>27, <1>28, <1>29, <1>30, <1>31, <1>32, <1>33, <1>34, <1>35, <1>36, <1>37,
       <1>38, <1>39, <1>40
    DEF Next, ClientStep, SubmitStep, FinishStep, IdleStep

-----------------------------------------------------------------------------
(* Ownership of command lists.                                             *)

\* A step that moves no list keeps the invariant.
LEMMA QuietStep ==
  ASSUME OwnershipInv, TypeOK', EntriesInv',
         UNCHANGED <<submitQueue, finishQueue, recycled, inUse, gpu, lost>>,
         target'[SubmitThread] = target[SubmitThread],
         \A c \in Clients : /\ pc'[c] = "submit" <=> pc[c] = "submit"
                            /\ pc[c] = "submit" => target'[c] = target[c],
         IssuedList' = IssuedList,
         RecyclingList' = RecyclingList,
         ReleasedList' = ReleasedList,
         ~lost /\ pc'[FinishThread] \in {"notify", "retire"}
           => target'[FinishThread] \notin gpu
  PROVE  OwnershipInv'
  <1>1. Recording' = Recording
    BY DEF Recording
  <1>2. DistinctInv'
    BY DEF OwnershipInv, DistinctInv
  <1>3. OwnerInv'
    BY <1>1 DEF OwnershipInv, OwnerInv
  <1>4. GpuInv'
    BY DEF OwnershipInv, GpuInv
  <1>5. UseInv'
    BY <1>1 DEF OwnershipInv, UseInv, Lists
  <1> QED BY <1>2, <1>3, <1>4, <1>5 DEF OwnershipInv

\* The steps of a client that does not begin or submit a list.
LEMMA ClientQuiet ==
  ASSUME OwnershipInv, TypeOK', NEW c \in Clients,
         UNCHANGED <<submitQueue, finishQueue, recycled, inUse, gpu, lost, result>>,
         \A t \in Threads \ {c} : pc'[t] = pc[t] /\ target'[t] = target[t],
         pc[c] = "submit" <=> pc'[c] = "submit",
         pc[c] = "submit" => target'[c] = target[c]
  PROVE  OwnershipInv'
  <1>1. /\ pc'[SubmitThread] = pc[SubmitThread]
        /\ pc'[FinishThread] = pc[FinishThread]
        /\ target'[SubmitThread] = target[SubmitThread]
        /\ target'[FinishThread] = target[FinishThread]
    BY ThreadsDiffer
  <1>2. EntriesInv'
    BY <1>1 DEF OwnershipInv, EntriesInv, SubmitHolds, FinishHolds
  <1>3. IssuedList' = IssuedList
    BY <1>1 DEF IssuedList, Issuing
  <1>4. RecyclingList' = RecyclingList /\ ReleasedList' = ReleasedList
    BY <1>1 DEF RecyclingList, ReleasedList
  <1>5. \A d \in Clients : /\ pc'[d] = "submit" <=> pc[d] = "submit"
                           /\ pc[d] = "submit" => target'[d] = target[d]
    BY ThreadsDiffer
  <1>6. ~lost /\ pc'[FinishThread] \in {"notify", "retire"}
          => target'[FinishThread] \notin gpu
    BY <1>1 DEF OwnershipInv, GpuInv
  <1> QED BY <1>1, <1>2, <1>3, <1>4, <1>5, <1>6, QuietStep

\* The steps of the submit worker that move no list.
LEMMA SubmitQuiet ==
  ASSUME OwnershipInv, TypeOK',
         UNCHANGED <<submitQueue, finishQueue, recycled, inUse, gpu, lost, target>>,
         \A t \in Threads \ {SubmitThread} : pc'[t] = pc[t],
         SubmitHolds' => submitQueue # <<>>,
         pc'[SubmitThread] \notin {"synchronize", "lockQueue", "deviceIdle", "drop"}
           => target[SubmitThread] = NoList,
         IssuedList = {}, IssuedList' = {}
  PROVE  OwnershipInv'
  <1>1. pc'[FinishThread] = pc[FinishThread]
    BY ThreadsDiffer
  <1>2. EntriesInv'
    BY <1>1 DEF OwnershipInv, EntriesInv, SubmitHolds, FinishHolds
  <1>3. RecyclingList' = RecyclingList /\ ReleasedList' = ReleasedList
    BY <1>1 DEF RecyclingList, ReleasedList
  <1>4. \A d \in Clients : pc'[d] = pc[d]
    BY ThreadsDiffer
  <1>5. ~lost /\ pc'[FinishThread] \in {"notify", "retire"}
          => target'[FinishThread] \notin gpu
    BY <1>1 DEF OwnershipInv, GpuInv
  <1> QED BY <1>2, <1>3, <1>4, <1>5, QuietStep

\* The steps of the finish worker that move no list.
LEMMA FinishQuiet ==
  ASSUME OwnershipInv, TypeOK',
         UNCHANGED <<submitQueue, finishQueue, recycled, inUse, gpu, lost>>,
         result'[SubmitThread] = result[SubmitThread],
         \A t \in Threads \ {FinishThread} : pc'[t] = pc[t] /\ target'[t] = target[t],
         FinishHolds' => finishQueue # <<>> /\ target'[FinishThread] = Head(finishQueue),
         pc[FinishThread] \notin {"retire", "recycle"},
         pc'[FinishThread] \notin {"retire", "recycle"},
         ~lost /\ pc'[FinishThread] = "notify" => target'[FinishThread] \notin gpu
  PROVE  OwnershipInv'
  <1>1. pc'[SubmitThread] = pc[SubmitThread] /\ target'[SubmitThread] = target[SubmitThread]
    BY ThreadsDiffer
  <1>2. EntriesInv'
    BY <1>1 DEF OwnershipInv, EntriesInv, SubmitHolds
  <1>3. IssuedList' = IssuedList
    BY <1>1 DEF IssuedList, Issuing
  <1>4. RecyclingList' = RecyclingList /\ ReleasedList' = ReleasedList
    BY DEF RecyclingList, ReleasedList
  <1>5. \A d \in Clients : pc'[d] = pc[d] /\ target'[d] = target[d]
    BY ThreadsDiffer
  <1> QED BY <1>1, <1>2, <1>3, <1>4, <1>5, QuietStep


\* The list whose objects were notified is still in the queue or on its way to
\* the recycler.
LEMMA ReleasedPlace ==
  ASSUME OwnershipInv
  PROVE  ReleasedList \subseteq InQueue(finishQueue) \cup RecyclingList
  <1>1. CASE pc[FinishThread] = "retire"
    <2>1. finishQueue # <<>> /\ target[FinishThread] = Head(finishQueue)
      BY <1>1 DEF OwnershipInv, EntriesInv, FinishHolds, FinishLabels
    <2> QED BY <1>1, <2>1, PopEntries DEF ReleasedList, OwnershipInv, TypeOK
  <1>2. CASE pc[FinishThread] # "retire"
    BY <1>2 DEF ReleasedList, RecyclingList
  <1> QED BY <1>1, <1>2

\* A list is recorded: from the recycler to a client.
LEMMA RecordOwnership ==
  ASSUME OwnershipInv, TypeOK', NEW c \in Clients, Record(c)
  PROVE  OwnershipInv'
  <1> USE ThreadsDiffer, EntriesDiffer DEF OwnershipInv, Record, Starts, At, Goto,
          queueVars, errorVars, frameVars, deviceVars
  <1>1. PICK l \in recycled :
          /\ recycled' = recycled \ {l}
          /\ inUse' = inUse \cup {l}
          /\ target' = [target EXCEPT ![c] = l]
    OBVIOUS
  <1>2. Recording' = Recording \cup {l} /\ l \in CmdLists /\ l \notin Recording
    BY <1>1 DEF TypeOK, Recording, OwnerInv
  <1>3. /\ pc'[SubmitThread] = pc[SubmitThread]
        /\ pc'[FinishThread] = pc[FinishThread]
        /\ target'[SubmitThread] = target[SubmitThread]
        /\ target'[FinishThread] = target[FinishThread]
    BY <1>1 DEF TypeOK
  <1>4. /\ IssuedList' = IssuedList
        /\ RecyclingList' = RecyclingList
        /\ ReleasedList' = ReleasedList
    BY <1>3 DEF IssuedList, Issuing, RecyclingList, ReleasedList
  <1>5. EntriesInv'
    BY <1>3 DEF EntriesInv, SubmitHolds, FinishHolds
  <1>6. DistinctInv'
    <2>1. ASSUME NEW d \in Clients, pc[d] = "submit"
          PROVE  target[d] # l
      BY <2>1, <1>2 DEF Recording
    <2>2. \A d \in Clients : pc'[d] = "submit" => d = c \/ pc[d] = "submit"
      BY DEF TypeOK
    <2>3. \A d \in Clients : target'[d] = IF d = c THEN l ELSE target[d]
      BY <1>1 DEF TypeOK
    <2> QED BY <2>1, <2>2, <2>3 DEF DistinctInv
  <1>7. OwnerInv'
    BY <1>1, <1>2, <1>3, <1>4 DEF OwnerInv
  <1>8. GpuInv'
    BY <1>3, <1>4 DEF GpuInv
  <1>9. UseInv'
    <2>1. ReleasedList \cap {l} = {}
      BY ReleasedPlace DEF OwnerInv
    <2> QED BY <1>1, <1>2, <1>4, <2>1 DEF UseInv, Lists
  <1> QED BY <1>5, <1>6, <1>7, <1>8, <1>9


\* A list is submitted: from a client to the submit queue.
LEMMA SubmitPushOwnership ==
  ASSUME OwnershipInv, TypeOK', NEW c \in Clients, SubmitPush(c)
  PROVE  OwnershipInv'
  <1> USE ThreadsDiffer, EntriesDiffer DEF OwnershipInv, SubmitPush, At, Goto, Push,
          errorVars, frameVars, deviceVars
  <1> DEFINE l == target[c]
  <1>1. l \in Recording /\ l \in CmdLists
    BY DEF Recording, OwnerInv
  <1>2. /\ submitQueue' \in Seq(Entry)
        /\ submitQueue' # <<>>
        /\ InQueue(submitQueue') = InQueue(submitQueue) \cup {l}
        /\ submitQueue # <<>> => Head(submitQueue') = Head(submitQueue)
    BY <1>1, AppendEntries DEF TypeOK
  <1>3. /\ pc'[SubmitThread] = pc[SubmitThread]
        /\ pc'[FinishThread] = pc[FinishThread]
        /\ target'[SubmitThread] = target[SubmitThread]
        /\ target'[FinishThread] = target[FinishThread]
    BY DEF TypeOK
  <1>4. \A d \in Clients : pc'[d] = "submit" <=> d # c /\ pc[d] = "submit"
    BY DEF TypeOK
  <1>5. \A d \in Clients \ {c} : target'[d] = target[d]
    BY DEF TypeOK
  <1>6. Recording' = Recording \ {l}
    BY <1>4, <1>5 DEF Recording, DistinctInv
  <1>7. RecyclingList' = RecyclingList /\ ReleasedList' = ReleasedList
    BY <1>3 DEF RecyclingList, ReleasedList
  <1>8. IssuedList' = IssuedList
    BY <1>2, <1>3 DEF IssuedList, Issuing, EntriesInv, SubmitHolds
  <1>9. EntriesInv'
    BY <1>2, <1>3 DEF EntriesInv, SubmitHolds, FinishHolds
  <1>10. DistinctInv'
    <2>1. NoRepeats(submitQueue', CmdLists)
      BY <1>1, AppendNoRepeats DEF DistinctInv, OwnerInv, TypeOK
    <2> QED BY <2>1, <1>4, <1>5 DEF DistinctInv
  <1>11. OwnerInv'
    BY <1>1, <1>2, <1>3, <1>6, <1>7 DEF OwnerInv
  <1>12. GpuInv'
    BY <1>3, <1>8 DEF GpuInv
  <1>13. UseInv'
    BY <1>1, <1>2, <1>6, <1>7 DEF UseInv, Lists
  <1> QED BY <1>9, <1>10, <1>11, <1>12, <1>13

\* An entry that is not a list is pushed.
LEMMA PushOtherOwnership ==
  ASSUME OwnershipInv, TypeOK', NEW e \in Entry \ CmdLists,
         submitQueue' = Append(submitQueue, e),
         UNCHANGED <<finishQueue, pc, target, result, recycled, inUse, gpu, lost>>
  PROVE  OwnershipInv'
  <1> USE DEF OwnershipInv
  <1>1. /\ submitQueue' # <<>>
        /\ InQueue(submitQueue') = InQueue(submitQueue) \cup {e}
        /\ submitQueue # <<>> => Head(submitQueue') = Head(submitQueue)
    BY AppendEntries DEF TypeOK
  <1>2. /\ e \notin InQueue(finishQueue) \cup recycled
        /\ e \notin Recording \cup RecyclingList
        /\ e # target[SubmitThread]
    BY ThreadsDiffer, EntriesDiffer
       DEF TypeOK, InQueue, OwnerInv, RecyclingList, EntriesInv, NoList
  <1>3. Recording' = Recording /\ RecyclingList' = RecyclingList /\ ReleasedList' = ReleasedList
    BY DEF Recording, RecyclingList, ReleasedList
  <1>4. IssuedList' = IssuedList
    BY <1>1 DEF IssuedList, Issuing, EntriesInv, SubmitHolds
  <1>5. EntriesInv'
    BY <1>1 DEF EntriesInv, SubmitHolds, FinishHolds
  <1>6. DistinctInv'
    <2>1. NoRepeats(submitQueue', CmdLists)
      BY AppendNoRepeats DEF DistinctInv, TypeOK
    <2> QED BY <2>1 DEF DistinctInv
  <1>7. OwnerInv'
    BY <1>1, <1>2, <1>3 DEF OwnerInv
  <1>8. GpuInv'
    BY <1>4 DEF GpuInv
  <1>9. UseInv'
    BY <1>1, <1>3 DEF UseInv, Lists
  <1> QED BY <1>5, <1>6, <1>7, <1>8, <1>9

\* A list is given to the GPU, or refused.
LEMMA IssueListOwnership ==
  ASSUME OwnershipInv, TypeOK', IssueList
  PROVE  OwnershipInv'
  <1> USE ThreadsDiffer DEF OwnershipInv, IssueList, At, Goto, queueVars, errorVars,
          frameVars, listVars
  <1> DEFINE l == Head(submitQueue)
  <1>1. /\ pc'[FinishThread] = pc[FinishThread]
        /\ pc'[SubmitThread] = "issued"
        /\ \A d \in Clients : pc'[d] = pc[d]
    BY DEF TypeOK
  <1>2. Recording' = Recording /\ RecyclingList' = RecyclingList /\ ReleasedList' = ReleasedList
    BY <1>1 DEF Recording, RecyclingList, ReleasedList
  <1>3. EntriesInv'
    BY <1>1 DEF EntriesInv, SubmitHolds, FinishHolds
  <1>4. DistinctInv'
    BY <1>1 DEF DistinctInv
  <1>5. OwnerInv'
    BY <1>2 DEF OwnerInv
  <1>6. IssuedList = {}
    BY DEF IssuedList, Issuing
  <1>7. l \in InQueue(submitQueue)
    BY PopEntries DEF EntriesInv, SubmitHolds, TypeOK
  <1>8. gpu' \subseteq gpu \cup IssuedList'
    BY <1>1 DEF IssuedList, Issuing, TypeOK
  <1>9. pc[FinishThread] \in {"notify", "retire"} => target[FinishThread] # l
    BY <1>7, PopEntries DEF EntriesInv, FinishHolds, FinishLabels, OwnerInv, TypeOK
  <1>10. gpu' \subseteq gpu \cup {l}
    OBVIOUS
  <1>11. GpuInv'
    BY <1>1, <1>6, <1>8, <1>9, <1>10 DEF GpuInv
  <1>12. UseInv'
    BY <1>2 DEF UseInv, Lists
  <1> QED BY <1>3, <1>4, <1>5, <1>11, <1>12

\* An entry leaves the submit queue: an issued list goes to the finish queue, a
\* refused one stays with the worker.
LEMMA RetireEntryOwnership ==
  ASSUME OwnershipInv, TypeOK', RetireEntry
  PROVE  OwnershipInv'
  <1> USE ThreadsDiffer, EntriesDiffer DEF OwnershipInv, RetireEntry, At, Goto,
          frameVars, deviceVars
  <1> DEFINE h == Head(submitQueue)
  <1>1. submitQueue # <<>> /\ target[SubmitThread] = NoList
    BY DEF EntriesInv, SubmitHolds
  <1>2. /\ h \in Entry
        /\ h \in InQueue(submitQueue)
        /\ InQueue(submitQueue) = InQueue(submitQueue') \cup {h}
    BY <1>1, PopEntries DEF TypeOK
  <1>3. /\ NoRepeats(submitQueue', CmdLists)
        /\ h \in CmdLists => h \notin InQueue(submitQueue')
    BY <1>1, PopNoRepeats DEF TypeOK, DistinctInv
  <1>4. /\ pc'[FinishThread] = pc[FinishThread]
        /\ target'[FinishThread] = target[FinishThread]
        /\ pc'[SubmitThread] \in {"synchronize", "wait"}
        /\ target'[SubmitThread] = FailedList
        /\ \A d \in Clients : pc'[d] = pc[d] /\ target'[d] = target[d]
    BY DEF TypeOK
  <1>5. Recording' = Recording /\ RecyclingList' = RecyclingList /\ ReleasedList' = ReleasedList
    <2>1. Recording' = Recording
      BY <1>4 DEF Recording
    <2> QED BY <2>1, <1>4 DEF RecyclingList, ReleasedList
  <1>6. /\ IssuedList' = {}
        /\ IssuedList = IF h \in CmdLists /\ result[SubmitThread] = "SUCCESS" THEN {h} ELSE {}
    BY <1>4 DEF IssuedList, Issuing
  <1>7. /\ InQueue(finishQueue') = InQueue(finishQueue) \cup IssuedList
        /\ NoRepeats(finishQueue', CmdLists)
        /\ finishQueue # <<>> => finishQueue' # <<>> /\ Head(finishQueue') = Head(finishQueue)
    <2>1. CASE h \in CmdLists /\ result[SubmitThread] = "SUCCESS"
      <3>1. finishQueue' = Append(finishQueue, h)
        BY <2>1 DEF HandOver
      <3>2. h \notin InQueue(finishQueue)
        BY <1>2 DEF OwnerInv
      <3> QED BY <2>1, <3>1, <3>2, <1>6, AppendEntries, AppendNoRepeats DEF TypeOK, DistinctInv
    <2>2. CASE ~(h \in CmdLists /\ result[SubmitThread] = "SUCCESS")
      BY <2>2, <1>6 DEF HandOver, DistinctInv
    <2> QED BY <2>1, <2>2
  <1>8. FailedList = NoList \/ (FailedList = h /\ h \in CmdLists /\ IssuedList = {})
    BY <1>6 DEF FailedList, SubmissionFailed
  <1>9. EntriesInv'
    <2>1. pc' = [pc EXCEPT ![SubmitThread] = IF SubmissionFailed THEN "synchronize" ELSE "wait"]
      OBVIOUS
    <2>2. pc'[SubmitThread] = "wait" => FailedList = NoList
      BY <2>1 DEF FailedList, TypeOK
    <2> QED BY <2>2, <1>4, <1>7 DEF EntriesInv, SubmitHolds, FinishHolds
  <1>10. DistinctInv'
    BY <1>3, <1>4, <1>7 DEF DistinctInv
  <1>11. NoList \notin recycled \cup InQueue(submitQueue') \cup InQueue(finishQueue')
                       \cup Recording \cup RecyclingList
    BY <1>1, <1>2, <1>6, <1>7 DEF OwnerInv
  <1>12. OwnerInv'
    <2>1. /\ InQueue(submitQueue') \cup InQueue(finishQueue')
              \subseteq InQueue(submitQueue) \cup InQueue(finishQueue)
          /\ FailedList \in InQueue(submitQueue) \cup {NoList}
      BY <1>2, <1>6, <1>7, <1>8
    <2>2. InQueue(submitQueue') \cap InQueue(finishQueue') = {}
      BY <1>2, <1>3, <1>6, <1>7 DEF OwnerInv
    <2>3. FailedList \notin InQueue(submitQueue') \cup InQueue(finishQueue')
      BY <1>2, <1>3, <1>7, <1>8, <1>11 DEF OwnerInv
    <2>4. /\ Recording \cap (InQueue(submitQueue') \cup InQueue(finishQueue')) = {}
          /\ recycled \cap (InQueue(submitQueue') \cup InQueue(finishQueue') \cup Recording) = {}
          /\ RecyclingList \cap (InQueue(submitQueue') \cup InQueue(finishQueue')) = {}
      BY <2>1 DEF OwnerInv
    <2>5. FailedList \notin recycled \cup Recording \cup RecyclingList
      BY <2>1, <1>11 DEF OwnerInv
    <2> HIDE DEF RetireEntry, OwnershipInv
    <2>6. OwnerInv
      BY DEF OwnershipInv
    <2>7. recycled' = recycled
      BY DEF RetireEntry
    <2> QED BY <1>4, <1>5, <2>2, <2>3, <2>4, <2>5, <2>6, <2>7 DEF OwnerInv
  <1>13. GpuInv'
    BY <1>4, <1>6, <1>7 DEF GpuInv
  <1>14. UseInv'
    BY <1>2, <1>5, <1>6, <1>7 DEF UseInv, Lists
  <1> QED BY <1>9, <1>10, <1>12, <1>13, <1>14

\* A refused list is destroyed.
LEMMA DropEntryOwnership ==
  ASSUME OwnershipInv, TypeOK', DropEntry
  PROVE  OwnershipInv'
  <1> USE ThreadsDiffer, EntriesDiffer DEF OwnershipInv, DropEntry, At, Goto,
          queueVars, errorVars, frameVars, deviceVars
  <1>1. /\ pc'[FinishThread] = pc[FinishThread]
        /\ target'[FinishThread] = target[FinishThread]
        /\ pc'[SubmitThread] = "wait"
        /\ target'[SubmitThread] = NoList
        /\ \A d \in Clients : pc'[d] = pc[d] /\ target'[d] = target[d]
    BY DEF TypeOK
  <1>2. Recording' = Recording /\ RecyclingList' = RecyclingList /\ ReleasedList' = ReleasedList
    BY <1>1 DEF Recording, RecyclingList, ReleasedList
  <1>3. IssuedList = {} /\ IssuedList' = {}
    BY <1>1 DEF IssuedList, Issuing
  <1>4. EntriesInv'
    BY <1>1 DEF EntriesInv, SubmitHolds, FinishHolds
  <1>5. DistinctInv'
    BY <1>1 DEF DistinctInv
  <1>6. NoList \notin recycled \cup InQueue(submitQueue) \cup InQueue(finishQueue)
                      \cup Recording \cup RecyclingList
    BY DEF OwnerInv, TypeOK, InQueue, RecyclingList, EntriesInv
  <1>7. OwnerInv'
    BY <1>1, <1>2, <1>6 DEF OwnerInv
  <1>8. GpuInv'
    BY <1>1, <1>3 DEF GpuInv
  <1>9. UseInv'
    BY <1>2 DEF UseInv, Lists, OwnerInv
  <1> QED BY <1>4, <1>5, <1>7, <1>8, <1>9

\* The resources of the oldest issued list are released.
LEMMA NotifyOwnership ==
  ASSUME OwnershipInv, TypeOK', NotifyObjects
  PROVE  OwnershipInv'
  <1> USE ThreadsDiffer, EntriesDiffer DEF OwnershipInv, NotifyObjects, NotifiedLists, At, Goto,
          queueVars, errorVars, frameVars, deviceVars
  <1> DEFINE l == target[FinishThread]
  <1>1. /\ pc'[FinishThread] = "retire"
        /\ pc'[SubmitThread] = pc[SubmitThread]
        /\ \A d \in Clients : pc'[d] = pc[d]
    BY DEF TypeOK
  <1>2. finishQueue # <<>> /\ l = Head(finishQueue) /\ l \in InQueue(finishQueue)
    BY PopEntries DEF EntriesInv, FinishHolds, FinishLabels, TypeOK
  <1>3. /\ Recording' = Recording
        /\ RecyclingList = {} /\ RecyclingList' = {}
        /\ ReleasedList = {} /\ ReleasedList' = {l}
        /\ IssuedList' = IssuedList
    BY <1>1 DEF Recording, RecyclingList, ReleasedList, IssuedList, Issuing
  <1>4. EntriesInv'
    BY <1>1, <1>2 DEF EntriesInv, SubmitHolds, FinishHolds
  <1>5. DistinctInv'
    BY <1>1 DEF DistinctInv
  <1>6. OwnerInv'
    BY <1>1, <1>3 DEF OwnerInv
  <1>7. GpuInv'
    BY <1>1, <1>3 DEF GpuInv
  <1>8. UseInv'
    BY <1>2, <1>3 DEF UseInv, OwnerInv, Lists
  <1> QED BY <1>4, <1>5, <1>6, <1>7, <1>8

\* A released list leaves the finish queue.
LEMMA RetireFinishedOwnership ==
  ASSUME OwnershipInv, TypeOK', RetireFinished
  PROVE  OwnershipInv'
  <1> USE ThreadsDiffer, EntriesDiffer DEF OwnershipInv, RetireFinished, At, Goto,
          errorVars, frameVars, listVars, deviceVars
  <1> DEFINE l == target[FinishThread]
  <1>1. /\ pc'[FinishThread] = "recycle"
        /\ pc'[SubmitThread] = pc[SubmitThread]
        /\ \A d \in Clients : pc'[d] = pc[d]
    BY DEF TypeOK
  <1>2. finishQueue # <<>> /\ l = Head(finishQueue)
    BY DEF EntriesInv, FinishHolds, FinishLabels
  <1>3. /\ l \in CmdLists
        /\ InQueue(finishQueue) = InQueue(finishQueue') \cup {l}
        /\ l \notin InQueue(finishQueue')
        /\ NoRepeats(finishQueue', CmdLists)
    <2>1. /\ NoRepeats(finishQueue', CmdLists)
          /\ l \in CmdLists => l \notin InQueue(finishQueue')
      BY <1>2, PopNoRepeats DEF TypeOK, DistinctInv
    <2>2. l \in CmdLists /\ InQueue(finishQueue) = InQueue(finishQueue') \cup {l}
      BY <1>2, PopEntries DEF TypeOK
    <2> QED BY <2>1, <2>2
  <1>4. /\ Recording' = Recording
        /\ RecyclingList = {} /\ RecyclingList' = {l}
        /\ ReleasedList = {l} /\ ReleasedList' = {l}
        /\ IssuedList' = IssuedList
    BY <1>1 DEF Recording, RecyclingList, ReleasedList, IssuedList, Issuing
  <1>5. EntriesInv'
    BY <1>1, <1>3 DEF EntriesInv, SubmitHolds, FinishHolds
  <1>6. DistinctInv'
    BY <1>1, <1>3 DEF DistinctInv
  <1>7. OwnerInv'
    BY <1>1, <1>3, <1>4 DEF OwnerInv
  <1>8. GpuInv'
    BY <1>1, <1>3, <1>4 DEF GpuInv
  <1>9. UseInv'
    BY <1>3, <1>4 DEF UseInv, Lists
  <1> QED BY <1>5, <1>6, <1>7, <1>8, <1>9

\* A released list returns to the recycler.
LEMMA RecycleOwnership ==
  ASSUME OwnershipInv, TypeOK', Recycle
  PROVE  OwnershipInv'
  <1> USE ThreadsDiffer, EntriesDiffer DEF OwnershipInv, Recycle, At, Goto,
          queueVars, errorVars, frameVars, deviceVars
  <1> DEFINE l == target[FinishThread]
  <1>1. /\ pc'[FinishThread] = "wait"
        /\ pc'[SubmitThread] = pc[SubmitThread]
        /\ target'[SubmitThread] = target[SubmitThread]
        /\ \A d \in Clients : pc'[d] = pc[d] /\ target'[d] = target[d]
    BY DEF TypeOK
  <1>2. /\ Recording' = Recording
        /\ RecyclingList = {l} /\ RecyclingList' = {}
        /\ ReleasedList = {l} /\ ReleasedList' = {}
        /\ IssuedList' = IssuedList
    BY <1>1 DEF Recording, RecyclingList, ReleasedList, IssuedList, Issuing
  <1>3. EntriesInv'
    BY <1>1 DEF EntriesInv, SubmitHolds, FinishHolds
  <1>4. DistinctInv'
    BY <1>1 DEF DistinctInv
  <1>5. OwnerInv'
    BY <1>1, <1>2 DEF OwnerInv
  <1>6. GpuInv'
    BY <1>1, <1>2 DEF GpuInv
  <1>7. UseInv'
    BY <1>2 DEF UseInv, OwnerInv, Lists
  <1> QED BY <1>3, <1>4, <1>5, <1>6, <1>7

\* The GPU finishes a list, or the device is lost.
LEMMA GpuOwnership ==
  ASSUME OwnershipInv, TypeOK', (\E l \in CmdLists : GpuComplete(l)) \/ LoseDevice
  PROVE  OwnershipInv'
  <1> USE DEF OwnershipInv, GpuComplete, LoseDevice, queueVars, errorVars, frameVars, listVars
  <1>1. /\ Recording' = Recording
        /\ RecyclingList' = RecyclingList
        /\ ReleasedList' = ReleasedList
        /\ IssuedList' = IssuedList
    BY DEF Recording, RecyclingList, ReleasedList, IssuedList, Issuing
  <1>2. EntriesInv'
    BY DEF EntriesInv, SubmitHolds, FinishHolds
  <1>3. DistinctInv'
    BY DEF DistinctInv
  <1>4. OwnerInv'
    BY <1>1 DEF OwnerInv
  <1>5. GpuInv'
    BY <1>1 DEF GpuInv
  <1>6. UseInv'
    BY <1>1 DEF UseInv, Lists
  <1> QED BY <1>2, <1>3, <1>4, <1>5, <1>6

\* Every step keeps the invariant.
LEMMA OwnershipStep ==
  ASSUME OwnershipInv, [Next]_vars
  PROVE  OwnershipInv'
  <1> USE ThreadsDiffer, EntriesDiffer
  <1>1. TypeOK'
    BY TypeStep DEF OwnershipInv, OwnerInv
  <1>2. pc \in [Threads -> ClientLabels \cup SubmitLabels \cup FinishLabels]
    BY DEF OwnershipInv, TypeOK
  <1>3. target \in [Threads -> CmdLists \cup {NoList}]
    BY DEF OwnershipInv, TypeOK
  <1>4. ASSUME NEW c \in Clients,
               \/ WaitForSubmission(c) \/ SynchronizeSubmission(c) \/ WaitForResource(c)
               \/ SynchronizeUntil(c) \/ WaitForIdle(c) \/ Close(c) \/ Stop(c) \/ Join(c)
               \/ SubmitBlock(c) \/ SynchronizeSubmissionBlock(c) \/ SynchronizeUntilBlock(c)
               \/ IdleStep(c)
        PROVE  OwnershipInv'
    <2> USE <1>2, <1>3 DEF At, Goto, Starts, Sleep,
           queueVars, errorVars, frameVars, listVars, deviceVars
    <2>1. UNCHANGED <<submitQueue, finishQueue, recycled, inUse, gpu, lost, result>>
      BY <1>4 DEF WaitForSubmission, SynchronizeSubmission, WaitForResource,
           SynchronizeUntil, WaitForIdle, Close, Stop, Join, SubmitBlock,
           SynchronizeSubmissionBlock, SynchronizeUntilBlock, IdleStep, Synchronize,
           SynchronizeBlock, LockDeviceQueue, DeviceWaitIdle
    <2>2. \A t \in Threads \ {c} : pc'[t] = pc[t] /\ target'[t] = target[t]
      BY <1>4 DEF WaitForSubmission, SynchronizeSubmission, WaitForResource,
           SynchronizeUntil, WaitForIdle, Close, Stop, Join, SubmitBlock,
           SynchronizeSubmissionBlock, SynchronizeUntilBlock, IdleStep, Synchronize,
           SynchronizeBlock, LockDeviceQueue, DeviceWaitIdle
    <2>3. /\ pc[c] = "submit" <=> pc'[c] = "submit"
          /\ pc[c] = "submit" => target'[c] = target[c]
      <3>1. CASE SubmitBlock(c)
        BY <3>1 DEF SubmitBlock
      <3>2. CASE \/ WaitForSubmission(c) \/ SynchronizeSubmission(c) \/ WaitForResource(c)
                 \/ SynchronizeUntil(c) \/ WaitForIdle(c) \/ Close(c) \/ Stop(c) \/ Join(c)
        BY <3>2 DEF WaitForSubmission, SynchronizeSubmission, WaitForResource,
             SynchronizeUntil, WaitForIdle, Close, Stop, Join
      <3>3. CASE SynchronizeSubmissionBlock(c) \/ SynchronizeUntilBlock(c)
        BY <3>3 DEF SynchronizeSubmissionBlock, SynchronizeUntilBlock
      <3>4. CASE IdleStep(c)
        <4>1. AfterIdle(c) # "submit"
          BY DEF AfterIdle
        <4> QED BY <3>4, <4>1 DEF IdleStep, Synchronize, SynchronizeBlock, LockDeviceQueue,
                  DeviceWaitIdle
      <3> QED BY <1>4, <3>1, <3>2, <3>3, <3>4
    <2> QED BY <1>1, <2>1, <2>2, <2>3, ClientQuiet
  <1>5. ASSUME NEW c \in Clients, SetupFrameInterpolation(c) \/ PresentImage(c)
        PROVE  OwnershipInv'
    <2>1. PICK e \in Entry \ CmdLists : submitQueue' = Append(submitQueue, e)
      BY <1>5 DEF SetupFrameInterpolation, PresentImage, Push, Present
    <2>2. UNCHANGED <<finishQueue, pc, target, result, recycled, inUse, gpu, lost>>
      BY <1>5 DEF SetupFrameInterpolation, PresentImage, errorVars, listVars, deviceVars
    <2> QED BY <1>1, <2>1, <2>2, PushOtherOwnership
  <1>6. CASE \/ TakeEntry \/ TakeEntryBlock \/ CheckLost \/ SkipLost \/ IssueInterp
             \/ IssuePresent \/ IdleStep(SubmitThread)
    <2> USE <1>2, <1>3 DEF At, Goto, Sleep, queueVars, errorVars, frameVars, listVars, deviceVars
    <2> DEFINE Quiet ==
          /\ UNCHANGED <<submitQueue, finishQueue, recycled, inUse, gpu, lost, target>>
          /\ \A t \in Threads \ {SubmitThread} : pc'[t] = pc[t]
          /\ SubmitHolds' => submitQueue # <<>>
          /\ pc'[SubmitThread] \notin {"synchronize", "lockQueue", "deviceIdle", "drop"}
               => target[SubmitThread] = NoList
          /\ IssuedList = {} /\ IssuedList' = {}
    <2>1. SubmitHolds => submitQueue # <<>>
      BY DEF OwnershipInv, EntriesInv
    <2>2. pc[SubmitThread] \notin {"synchronize", "lockQueue", "deviceIdle", "drop"}
            => target[SubmitThread] = NoList
      BY DEF OwnershipInv, EntriesInv
    <2>3. CASE TakeEntry \/ TakeEntryBlock \/ CheckLost
      <3> Quiet
        BY <2>1, <2>2, <2>3 DEF TakeEntry, TakeEntryBlock, CheckLost, SubmitHolds, IssuedList,
             Issuing
      <3> QED BY <1>1, SubmitQuiet
    <2>4. CASE SkipLost
      <3>1. result'[SubmitThread] = "DEVICE_LOST"
        BY <2>4 DEF SkipLost, OwnershipInv, TypeOK
      <3> Quiet
        BY <2>1, <2>2, <2>4, <3>1 DEF SkipLost, SubmitHolds, IssuedList, Issuing
      <3> QED BY <1>1, SubmitQuiet
    <2>5. CASE IssueInterp \/ IssuePresent
      <3> Quiet
        BY <2>1, <2>2, <2>5 DEF IssueInterp, IssuePresent, SubmitHolds, IssuedList, Issuing
      <3> QED BY <1>1, SubmitQuiet
    <2>6. CASE IdleStep(SubmitThread)
      <3>1. AfterIdle(SubmitThread) = "drop"
        BY DEF AfterIdle
      <3> Quiet
        BY <2>6, <3>1 DEF IdleStep, Synchronize, SynchronizeBlock, LockDeviceQueue,
             DeviceWaitIdle, SubmitHolds, IssuedList, Issuing
      <3> QED BY <1>1, SubmitQuiet
    <2> QED BY <1>6, <2>3, <2>4, <2>5, <2>6
  <1>7. CASE \/ TakeFinished \/ TakeFinishedBlock \/ ReadLastError \/ WaitFence
             \/ FenceFailed \/ IdleStep(FinishThread)
    <2> USE <1>2, <1>3 DEF At, Goto, Sleep, queueVars, errorVars, frameVars, listVars, deviceVars
    <2> DEFINE Quiet ==
          /\ UNCHANGED <<submitQueue, finishQueue, recycled, inUse, gpu, lost>>
          /\ result'[SubmitThread] = result[SubmitThread]
          /\ \A t \in Threads \ {FinishThread} : pc'[t] = pc[t] /\ target'[t] = target[t]
          /\ FinishHolds' => finishQueue # <<>> /\ target'[FinishThread] = Head(finishQueue)
          /\ pc[FinishThread] \notin {"retire", "recycle"}
          /\ pc'[FinishThread] \notin {"retire", "recycle"}
          /\ ~lost /\ pc'[FinishThread] = "notify" => target'[FinishThread] \notin gpu
    <2>1. FinishHolds => finishQueue # <<>> /\ target[FinishThread] = Head(finishQueue)
      BY DEF OwnershipInv, EntriesInv
    <2>2. CASE TakeFinished \/ TakeFinishedBlock
      <3> Quiet
        BY <2>1, <2>2 DEF TakeFinished, TakeFinishedBlock, FinishHolds, FinishLabels
      <3> QED BY <1>1, FinishQuiet
    <2>3. CASE ReadLastError \/ FenceFailed
      <3> Quiet
        BY <2>1, <2>3 DEF ReadLastError, FenceFailed, FinishHolds, FinishLabels, OwnershipInv,
             TypeOK
      <3> QED BY <1>1, FinishQuiet
    <2>4. CASE WaitFence
      <3>1. PICK r \in FenceResults(target[FinishThread]) :
              /\ result' = [result EXCEPT ![FinishThread] = r]
              /\ pc' = [pc EXCEPT ![FinishThread] = IF r = "SUCCESS" THEN "notify" ELSE "failed"]
        BY <2>4 DEF WaitFence
      <3>2. r = "SUCCESS" => target[FinishThread] \notin gpu
        BY ConstantsAssumption, <3>1 DEF FenceResults
      <3> Quiet
        BY <2>1, <2>4, <3>1, <3>2 DEF WaitFence, FinishHolds, FinishLabels, OwnershipInv, TypeOK
      <3> QED BY <1>1, FinishQuiet
    <2>5. CASE IdleStep(FinishThread)
      <3>1. AfterIdle(FinishThread) = "notify"
        BY DEF AfterIdle
      <3> Quiet
        BY <2>1, <2>5, <3>1 DEF IdleStep, Synchronize, SynchronizeBlock, LockDeviceQueue,
             DeviceWaitIdle, FinishHolds, FinishLabels
      <3> QED BY <1>1, FinishQuiet
    <2> QED BY <1>7, <2>2, <2>3, <2>4, <2>5
  <1>8. CASE UNCHANGED vars
    BY <1>8, <1>1, QuietStep DEF vars, OwnershipInv, EntriesInv, SubmitHolds, FinishHolds,
       IssuedList, Issuing, RecyclingList, ReleasedList, GpuInv
  <1>9. CASE Terminated
    BY <1>8, <1>9 DEF Terminated
  <1> QED
    BY <1>1, <1>4, <1>5, <1>6, <1>7, <1>8, <1>9, RecordOwnership, SubmitPushOwnership,
       IssueListOwnership, RetireEntryOwnership, DropEntryOwnership, NotifyOwnership,
       RetireFinishedOwnership, RecycleOwnership, GpuOwnership
    DEF Next, ClientStep, SubmitStep, FinishStep

\* The invariant holds when the device is created.
LEMMA OwnershipInit == Init => OwnershipInv
  <1> SUFFICES ASSUME Init PROVE OwnershipInv
    OBVIOUS
  <1> USE ThreadsDiffer, EntriesDiffer DEF Init
  <1>1. TypeOK
    <2>1. submitQueue \in Seq(Entry) /\ finishQueue \in Seq(CmdLists)
      OBVIOUS
    <2>2. /\ pc \in [Threads -> ClientLabels \cup SubmitLabels \cup FinishLabels]
          /\ parked \in [Threads -> Conds \cup {Awake}]
          /\ result \in [Workers -> Results]
      BY DEF Results, ClientLabels, SubmitLabels
    <2>3. /\ target \in [Threads -> CmdLists \cup {NoList}]
          /\ submitter \in [CmdLists -> Clients \cup {NoList}]
      OBVIOUS
    <2>4. /\ lastError \in Results /\ status \in Results /\ pending \in Int
          /\ mutexQueue \in Threads \cup {Free}
          /\ recycled \subseteq CmdLists /\ inUse \subseteq CmdLists
          /\ notified \subseteq CmdLists /\ gpu \subseteq CmdLists
      BY DEF Results
    <2>5. /\ stopped \in BOOLEAN /\ interp \in BOOLEAN /\ wantInterp \in BOOLEAN
          /\ lost \in BOOLEAN /\ closing \in BOOLEAN
      OBVIOUS
    <2> QED BY <2>1, <2>2, <2>3, <2>4, <2>5, Zenon DEF TypeOK
  <1>2. pc[SubmitThread] = "wait" /\ pc[FinishThread] = "wait"
    OBVIOUS
  <1>3. EntriesInv
    BY <1>2 DEF EntriesInv, SubmitHolds, FinishHolds, FinishLabels
  <1>4. Recording = {} /\ RecyclingList = {} /\ ReleasedList = {} /\ IssuedList = {}
    BY <1>2 DEF Recording, RecyclingList, ReleasedList, IssuedList, Issuing, Workers
  <1>5. DistinctInv
    BY DEF DistinctInv, NoRepeats, Workers
  <1>6. OwnerInv
    BY <1>4 DEF OwnerInv, InQueue
  <1>7. GpuInv
    BY DEF GpuInv
  <1>8. UseInv
    BY <1>4 DEF UseInv, Lists, InQueue
  <1> QED BY <1>1, <1>3, <1>5, <1>6, <1>7, <1>8 DEF OwnershipInv

\* Every command list has one owner at any time, in every reachable state of
\* the queue.
THEOREM Ownership == Spec => []OwnershipInv
  BY OwnershipInit, OwnershipStep, PTL DEF Spec

\* The variables of the queue and of its threads keep their types.
THEOREM TypeCorrectness == Spec => []TypeOK
  <1>1. OwnershipInv => TypeOK
    BY DEF OwnershipInv
  <1> QED BY <1>1, Ownership, PTL

\* waitForResource and the renaming of mapped buffers may rely on use counts:
\* no resource is released while the GPU works on it.
THEOREM NoEarlyRelease == Spec => []InUseWhileExecuting
  <1>1. ASSUME OwnershipInv PROVE InUseWhileExecuting
    <2> USE <1>1 DEF OwnershipInv
    <2>1. SUFFICES ASSUME ~lost, NEW l \in gpu PROVE l \in inUse
      BY DEF InUseWhileExecuting
    <2>2. CASE l \in InQueue(finishQueue)
      <3>1. l \notin ReleasedList
        BY <2>1, <2>2 DEF GpuInv, ReleasedList, OwnerInv, RecyclingList
      <3> QED BY <2>2, <3>1 DEF UseInv
    <2>3. CASE l \in IssuedList
      <3>1. l = Head(submitQueue) /\ l \in CmdLists /\ submitQueue # <<>>
        BY <2>3 DEF IssuedList, Issuing, EntriesInv, SubmitHolds
      <3>2. l \in InQueue(submitQueue)
        BY <3>1, PopEntries DEF TypeOK
      <3> QED BY <3>1, <3>2 DEF UseInv, Lists
    <2> QED BY <2>1, <2>2, <2>3 DEF GpuInv
  <1> QED BY <1>1, Ownership, PTL

\* The recycler never hands out a list that is queued, executing or whose
\* resources are in use.
THEOREM NoEarlyReuse == Spec => []RecycledIsIdle
  <1>1. ASSUME OwnershipInv PROVE RecycledIsIdle
    <2> USE <1>1 DEF OwnershipInv
    <2>1. recycled \cap (Lists(submitQueue) \cup InQueue(finishQueue)) = {}
      BY DEF OwnerInv, Lists
    <2>2. IssuedList \subseteq InQueue(submitQueue)
      BY PopEntries DEF IssuedList, Issuing, EntriesInv, SubmitHolds, TypeOK
    <2> QED BY <2>1, <2>2 DEF RecycledIsIdle, OwnerInv, UseInv, GpuInv
  <1> QED BY <1>1, Ownership, PTL

-----------------------------------------------------------------------------
(* Counting the lists in the queues.                                       *)

\* A sequence has as many positions as its length says.
LEMMA LengthCount ==
  ASSUME NEW S, NEW q \in Seq(S)
  PROVE  IsFiniteSet(1 .. Len(q)) /\ Cardinality(1 .. Len(q)) = Len(q)
  <1>1. Len(q) \in Nat
    OBVIOUS
  <1> DEFINE n == Len(q)
  <1> HIDE DEF n
  <1>2. n \in Nat
    BY <1>1 DEF n
  <1>3. /\ IsFiniteSet(1 .. n)
        /\ Cardinality(1 .. n) = IF 1 > n THEN 0 ELSE n - 1 + 1
    BY <1>2, FS_Interval
  <1>4. (IF 1 > n THEN 0 ELSE n - 1 + 1) = n
    BY <1>2
  <1> QED BY <1>3, <1>4 DEF n

\* The lists of a queue are at most its entries.
LEMMA ListsCount ==
  ASSUME NEW S, NEW q \in Seq(S)
  PROVE  /\ IsFiniteSet(InQueue(q)) /\ IsFiniteSet(Lists(q))
         /\ Cardinality(Lists(q)) \in Nat
         /\ Cardinality(Lists(q)) <= Len(q)
  <1> DEFINE f == [i \in 1 .. Len(q) |-> q[i]]
  <1>1. f \in Surjection(1 .. Len(q), InQueue(q))
    BY DEF Surjection, InQueue
  <1>2. IsFiniteSet(1 .. Len(q)) /\ Cardinality(1 .. Len(q)) = Len(q)
    BY LengthCount
  <1>3. IsFiniteSet(InQueue(q)) /\ Cardinality(InQueue(q)) <= Len(q)
    BY <1>1, <1>2, FS_Surjection
  <1>4. Lists(q) \in SUBSET InQueue(q)
    BY DEF Lists
  <1>5. IsFiniteSet(Lists(q)) /\ Cardinality(Lists(q)) <= Cardinality(InQueue(q))
    BY <1>3, <1>4, FS_Subset
  <1>6. Cardinality(Lists(q)) \in Nat /\ Cardinality(InQueue(q)) \in Nat
    BY <1>3, <1>5, FS_CardinalityType
  <1> HIDE DEF f
  <1> QED BY <1>3, <1>5, <1>6

\* A queue without repeats has as many lists as entries.
LEMMA DistinctCount ==
  ASSUME NEW q \in Seq(CmdLists), NoRepeats(q, CmdLists)
  PROVE  Cardinality(InQueue(q)) = Len(q)
  <1> DEFINE f == [i \in 1 .. Len(q) |-> q[i]]
  <1>1. f \in Surjection(1 .. Len(q), InQueue(q))
    BY DEF Surjection, InQueue
  <1>2. f \in Injection(1 .. Len(q), InQueue(q))
    <2>1. f \in [1 .. Len(q) -> InQueue(q)]
      BY DEF InQueue
    <2>2. \A i, j \in 1 .. Len(q) : q[i] = q[j] => i = j
      BY DEF NoRepeats
    <2>3. \A i, j \in 1 .. Len(q) : f[i] = f[j] => i = j
      BY <2>2
    <2> HIDE DEF f
    <2> QED BY <2>1, <2>3 DEF Injection, IsInjective
  <1>3. IsFiniteSet(1 .. Len(q)) /\ Cardinality(1 .. Len(q)) = Len(q)
    BY LengthCount
  <1> QED BY <1>1, <1>2, <1>3, FS_Surjection

\* The lists between submit() and their release.
InTransit == Cardinality(Lists(submitQueue)) + Len(finishQueue)

\* The steps that leave both queues and their counter alone.
QueuesUntouched == UNCHANGED <<submitQueue, finishQueue, pending>>

\* The only steps that move an entry.
LEMMA QueueSteps ==
  ASSUME TypeOK, [Next]_vars
  PROVE  \/ \E c \in Clients : SubmitPush(c)
         \/ /\ UNCHANGED <<finishQueue, pending>>
            /\ \E e \in Entry \ CmdLists : submitQueue' = Append(submitQueue, e)
         \/ RetireEntry
         \/ RetireFinished
         \/ QueuesUntouched
  <1> USE DEF QueuesUntouched, queueVars, Sleep
  <1>1. ASSUME NEW c \in Clients, SetupFrameInterpolation(c) \/ PresentImage(c)
        PROVE  /\ UNCHANGED <<finishQueue, pending>>
               /\ \E e \in Entry \ CmdLists : submitQueue' = Append(submitQueue, e)
    BY <1>1, EntriesDiffer DEF SetupFrameInterpolation, PresentImage, Push, Present
  <1>2. ASSUME NEW c \in Clients,
               \/ Record(c) \/ WaitForSubmission(c) \/ SynchronizeSubmission(c)
               \/ WaitForResource(c) \/ SynchronizeUntil(c) \/ WaitForIdle(c) \/ Close(c)
               \/ Stop(c) \/ Join(c) \/ SubmitBlock(c) \/ SynchronizeSubmissionBlock(c)
               \/ SynchronizeUntilBlock(c)
        PROVE  QueuesUntouched
    BY <1>2 DEF Record, WaitForSubmission, SynchronizeSubmission, WaitForResource,
       SynchronizeUntil, WaitForIdle, Close, Stop, Join, SubmitBlock,
       SynchronizeSubmissionBlock, SynchronizeUntilBlock
  <1>3. ASSUME NEW t \in Threads, IdleStep(t) PROVE QueuesUntouched
    BY <1>3 DEF IdleStep, Synchronize, SynchronizeBlock, LockDeviceQueue, DeviceWaitIdle
  <1>4. CASE \/ TakeEntry \/ TakeEntryBlock \/ CheckLost \/ SkipLost \/ IssueList
             \/ IssueInterp \/ IssuePresent \/ DropEntry
    BY <1>4 DEF TakeEntry, TakeEntryBlock, CheckLost, SkipLost, IssueList, IssueInterp,
       IssuePresent, DropEntry
  <1>5. CASE \/ TakeFinished \/ TakeFinishedBlock \/ ReadLastError \/ WaitFence
             \/ FenceFailed \/ NotifyObjects \/ Recycle
    BY <1>5 DEF TakeFinished, TakeFinishedBlock, ReadLastError, WaitFence, FenceFailed,
       NotifyObjects, Recycle
  <1>6. CASE (\E l \in CmdLists : GpuComplete(l)) \/ LoseDevice \/ Terminated \/ UNCHANGED vars
    BY <1>6 DEF GpuComplete, LoseDevice, Terminated, vars
  <1> QED
    BY <1>1, <1>2, <1>3, <1>4, <1>5, <1>6, ThreadsDiffer
    DEF Next, ClientStep, SubmitStep, FinishStep

\* submit() adds one list, the finish worker takes one away, and the submit
\* worker loses one only when its submission failed.
LEMMA TransitStep ==
  ASSUME OwnershipInv, [Next]_vars
  PROVE  /\ InTransit \in Nat
         /\ \/ /\ \E c \in Clients : SubmitPush(c)
               /\ InTransit' = InTransit + 1
               /\ pending' = pending + 1
            \/ /\ RetireFinished
               /\ InTransit' = InTransit - 1
               /\ pending' = pending - 1
            \/ /\ RetireEntry
               /\ SubmissionFailed
               /\ InTransit' <= InTransit
               /\ pending' = pending
            \/ InTransit' = InTransit /\ pending' = pending
  <1> USE ThreadsDiffer, EntriesDiffer
  <1>1. submitQueue \in Seq(Entry) /\ finishQueue \in Seq(CmdLists) /\ pending \in Int
    BY DEF OwnershipInv, TypeOK
  <1>2. NoRepeats(submitQueue, CmdLists) /\ NoRepeats(finishQueue, CmdLists)
    BY DEF OwnershipInv, DistinctInv
  <1>3. /\ IsFiniteSet(Lists(submitQueue))
        /\ Cardinality(Lists(submitQueue)) \in Nat
        /\ Len(finishQueue) \in Nat
    BY <1>1, ListsCount
  <1>4. InTransit \in Nat
    BY <1>3 DEF InTransit
  <1>5. ASSUME NEW c \in Clients, SubmitPush(c)
        PROVE  InTransit' = InTransit + 1 /\ pending' = pending + 1
    <2>1. target[c] \in Recording
      BY <1>5 DEF SubmitPush, At, Recording
    <2>2. target[c] \in CmdLists /\ target[c] \notin Lists(submitQueue)
      BY <2>1 DEF OwnershipInv, OwnerInv, Lists
    <2>3. submitQueue' = Append(submitQueue, target[c]) /\ finishQueue' = finishQueue
      BY <1>5 DEF SubmitPush, Push
    <2>4. Lists(submitQueue)' = Lists(submitQueue) \cup {target[c]}
      BY <1>1, <2>2, <2>3, AppendEntries DEF Lists
    <2>5. Cardinality(Lists(submitQueue) \cup {target[c]}) = Cardinality(Lists(submitQueue)) + 1
      BY <1>3, <2>2, FS_AddElement
    <2> QED BY <1>3, <1>5, <2>3, <2>4, <2>5 DEF InTransit, SubmitPush
  <1>6. ASSUME NEW e \in Entry \ CmdLists, submitQueue' = Append(submitQueue, e),
               UNCHANGED <<finishQueue, pending>>
        PROVE  InTransit' = InTransit /\ pending' = pending
    <2>1. Lists(submitQueue)' = Lists(submitQueue)
      BY <1>1, <1>6, AppendEntries DEF Lists
    <2> QED BY <1>6, <2>1 DEF InTransit
  <1>7. ASSUME RetireEntry
        PROVE  /\ pending' = pending
               /\ InTransit' = InTransit \/ (SubmissionFailed /\ InTransit' <= InTransit)
    <2> DEFINE e == Head(submitQueue)
    <2>1. submitQueue # <<>>
      BY <1>7 DEF RetireEntry, At, OwnershipInv, EntriesInv, SubmitHolds
    <2>2. submitQueue' = Tail(submitQueue) /\ finishQueue' = HandOver /\ pending' = pending
      BY <1>7 DEF RetireEntry, PendingAfterRetire
    <2>3. InQueue(submitQueue) = InQueue(submitQueue') \cup {e}
      BY <1>1, <2>1, <2>2, PopEntries
    <2>4. e \in CmdLists => e \notin InQueue(submitQueue')
      BY <1>1, <1>2, <2>1, <2>2, PopNoRepeats
    <2>5. CASE e \in CmdLists
      <3>1. Lists(submitQueue)' = Lists(submitQueue) \ {e} /\ e \in Lists(submitQueue)
        BY <2>3, <2>4, <2>5 DEF Lists
      <3>2. Cardinality(Lists(submitQueue) \ {e}) = Cardinality(Lists(submitQueue)) - 1
        BY <1>3, <3>1, FS_RemoveElement
      <3>3. Cardinality(Lists(submitQueue))' = Cardinality(Lists(submitQueue)) - 1
        BY <3>1, <3>2
      <3>4. CASE result[SubmitThread] = "SUCCESS"
        <4>1. finishQueue' = Append(finishQueue, e)
          BY <2>2, <2>5, <3>4 DEF HandOver
        <4>2. Len(finishQueue') = Len(finishQueue) + 1
          BY <1>1, <2>5, <4>1
        <4>3. InTransit' = InTransit
          BY ONLY <1>3, <3>3, <4>2 DEF InTransit
        <4> QED BY <2>2, <4>3
      <3>5. CASE result[SubmitThread] # "SUCCESS"
        <4>1. finishQueue' = finishQueue /\ SubmissionFailed
          BY <2>2, <2>5, <3>5 DEF HandOver, SubmissionFailed
        <4>2. InTransit' <= InTransit
          BY ONLY <1>3, <3>3, <4>1 DEF InTransit
        <4> QED BY <2>2, <4>1, <4>2
      <3> QED BY <3>4, <3>5
    <2>6. CASE e \notin CmdLists
      <3>1. Lists(submitQueue)' = Lists(submitQueue) /\ finishQueue' = finishQueue
        BY <2>2, <2>3, <2>6 DEF Lists, HandOver
      <3> QED BY <2>2, <3>1 DEF InTransit
    <2> QED BY <1>4, <2>5, <2>6
  <1>8. CASE RetireFinished
    <2>1. finishQueue # <<>>
      BY <1>8 DEF RetireFinished, At, OwnershipInv, EntriesInv, FinishHolds, FinishLabels
    <2>2. Len(Tail(finishQueue)) = Len(finishQueue) - 1
      BY <1>1, <2>1
    <2>3. /\ finishQueue' = Tail(finishQueue) /\ submitQueue' = submitQueue
          /\ pending' = pending - 1
      BY <1>8 DEF RetireFinished, PendingAfterFinish
    <2>4. InTransit' = InTransit - 1
      BY <1>3, <2>2, <2>3 DEF InTransit
    <2> QED BY <1>4, <1>8, <2>3, <2>4
  <1>9. QueuesUntouched => InTransit' = InTransit /\ pending' = pending
    BY DEF QueuesUntouched, InTransit
  <1>10. TypeOK
    BY DEF OwnershipInv
  <1> QED BY <1>4, <1>5, <1>6, <1>7, <1>8, <1>9, <1>10, QueueSteps

\* At the start nothing is queued.
LEMMA TransitInit == Init => InTransit = 0 /\ pending = 0
  <1> SUFFICES ASSUME Init PROVE InTransit = 0 /\ pending = 0
    OBVIOUS
  <1>1. Lists(submitQueue) = {} /\ Len(finishQueue) = 0 /\ pending = 0
    BY DEF Init, Lists, InQueue
  <1> QED BY <1>1, FS_EmptySet DEF InTransit

\* Back pressure: submit() lets a list in only while the queues have room, so
\* there are never more than MaxQueued + 1 lists between it and their release.
THEOREM BackPressure == Spec => []QueueBound
  <1> USE DEF QueueBound
  <1>1. Init => QueueBound
    BY TransitInit, ConstantsAssumption DEF InTransit
  <1>2. ASSUME OwnershipInv, QueueBound, [Next]_vars
        PROVE  QueueBound'
    <2>1. InTransit <= MaxQueued + 1 /\ MaxQueued \in Nat
      BY <1>2, ConstantsAssumption DEF InTransit
    <2>2. ASSUME NEW c \in Clients, SubmitPush(c)
          PROVE  InTransit <= MaxQueued
      <3>1. /\ Cardinality(Lists(submitQueue)) \in Nat
            /\ Cardinality(Lists(submitQueue)) <= Len(submitQueue)
            /\ Len(submitQueue) \in Nat /\ Len(finishQueue) \in Nat
        BY <1>2, ListsCount DEF OwnershipInv, TypeOK
      <3>2. Len(submitQueue) + Len(finishQueue) <= MaxQueued
        BY <2>2 DEF SubmitPush, QueueHasRoom
      <3> QED BY <2>1, <3>1, <3>2 DEF InTransit
    <2>3. InTransit \in Nat /\ InTransit' \in Nat
      <3>1. TypeOK'
        BY <1>2, OwnershipStep DEF OwnershipInv
      <3>2. Cardinality(Lists(submitQueue')) \in Nat /\ Len(finishQueue') \in Nat
        BY <3>1, ListsCount DEF TypeOK
      <3> QED BY <1>2, <3>2, TransitStep DEF InTransit
    <2>4. InTransit' <= MaxQueued + 1
      BY <1>2, <2>1, <2>2, <2>3, TransitStep
    <2> QED BY <2>4 DEF InTransit
  <1> QED BY <1>1, <1>2, Ownership, PTL DEF Spec

\* m_pending counts every list between submit() and its release, whatever the
\* driver answers: it may count lists that failed, but it never misses one.
PendingCovers == pending >= InTransit

THEOREM PendingNeverShort == Spec => []PendingCovers
  <1>1. Init => PendingCovers
    BY TransitInit DEF PendingCovers
  <1>2. ASSUME OwnershipInv, PendingCovers, [Next]_vars
        PROVE  PendingCovers'
    <2>1. pending \in Int /\ pending >= InTransit
      BY <1>2 DEF OwnershipInv, TypeOK, PendingCovers
    <2>2. InTransit \in Nat /\ pending' \in Int /\ InTransit' \in Nat
      <3>1. TypeOK'
        BY <1>2, OwnershipStep DEF OwnershipInv
      <3>2. /\ Cardinality(Lists(submitQueue')) \in Nat /\ Len(finishQueue') \in Nat
            /\ pending' \in Int
        BY <3>1, ListsCount DEF TypeOK
      <3> QED BY <1>2, <3>2, TransitStep DEF InTransit
    <2> QED BY <1>2, <2>1, <2>2, TransitStep DEF PendingCovers
  <1> QED BY <1>1, <1>2, Ownership, PTL DEF Spec

\* What a driver that never fails leaves undone: no worker has seen an error.
NoErrorInv ==
  /\ ~lost
  /\ lastError = "SUCCESS"
  /\ result[SubmitThread] # "DEVICE_LOST"
  /\ pc[SubmitThread] = "issued" => ~SubmissionFailed
  /\ pc[FinishThread] # "failed"

\* Without errors of the driver no worker ever sees one.
LEMMA NoErrorStep ==
  ASSUME Failures = {}, OwnershipInv, NoErrorInv, [Next]_vars
  PROVE  NoErrorInv'
  <1> USE ThreadsDiffer, EntriesDiffer
  <1> USE DEF queueVars, errorVars, frameVars, listVars, deviceVars, At, Goto, Starts, Sleep
  <1>1. /\ pc \in [Threads -> ClientLabels \cup SubmitLabels \cup FinishLabels]
        /\ result \in [Workers -> Results]
        /\ submitQueue \in Seq(Entry)
        /\ pc[SubmitThread] = "issued" => submitQueue # <<>>
    BY DEF OwnershipInv, TypeOK, EntriesInv, SubmitHolds
  <1>2. ASSUME ~lost', lastError' = lastError, result' = result,
               pc'[SubmitThread] = pc[SubmitThread] \/ pc'[SubmitThread] # "issued",
               pc[SubmitThread] = "issued" => Head(submitQueue') = Head(submitQueue),
               pc'[FinishThread] # "failed"
        PROVE  NoErrorInv'
    BY <1>2 DEF NoErrorInv, SubmissionFailed
  <1>3. ASSUME NEW c \in Clients, SetupFrameInterpolation(c) \/ PresentImage(c) \/ SubmitPush(c)
        PROVE  NoErrorInv'
    <2>1. PICK e \in Entry : submitQueue' = Append(submitQueue, e)
      <3>1. CASE SubmitPush(c)
        <4>1. target[c] \in Entry
          BY <3>1 DEF SubmitPush, OwnershipInv, OwnerInv, Recording
        <4> QED BY <3>1, <4>1 DEF SubmitPush, Push
      <3>2. CASE SetupFrameInterpolation(c) \/ PresentImage(c)
        BY <3>2 DEF SetupFrameInterpolation, PresentImage, Push, Present
      <3> QED BY <1>3, <3>1, <3>2
    <2>2. pc[SubmitThread] = "issued" => Head(submitQueue') = Head(submitQueue)
      BY <1>1, <2>1, AppendEntries
    <2>3. /\ UNCHANGED <<lost, lastError, result>>
          /\ pc'[SubmitThread] = pc[SubmitThread] /\ pc'[FinishThread] = pc[FinishThread]
      BY <1>1, <1>3 DEF SetupFrameInterpolation, PresentImage, SubmitPush
    <2> QED BY <1>2, <2>2, <2>3 DEF NoErrorInv
  <1>4. ASSUME NEW c \in Clients,
               \/ Record(c) \/ WaitForSubmission(c) \/ SynchronizeSubmission(c)
               \/ WaitForResource(c) \/ SynchronizeUntil(c) \/ WaitForIdle(c) \/ Close(c)
               \/ Stop(c) \/ Join(c) \/ SubmitBlock(c) \/ SynchronizeSubmissionBlock(c)
               \/ SynchronizeUntilBlock(c) \/ IdleStep(c)
        PROVE  NoErrorInv'
    <2>1. /\ UNCHANGED <<lost, lastError, result, submitQueue>>
          /\ pc'[SubmitThread] = pc[SubmitThread] /\ pc'[FinishThread] = pc[FinishThread]
      BY <1>1, <1>4 DEF Record, WaitForSubmission, SynchronizeSubmission, WaitForResource,
         SynchronizeUntil, WaitForIdle, Close, Stop, Join, SubmitBlock,
         SynchronizeSubmissionBlock, SynchronizeUntilBlock, IdleStep, Synchronize,
         SynchronizeBlock, LockDeviceQueue, DeviceWaitIdle
    <2> QED BY <1>2, <2>1 DEF NoErrorInv
  <1>5. CASE \/ TakeEntry \/ TakeEntryBlock \/ CheckLost \/ DropEntry \/ IdleStep(SubmitThread)
    <2>1. /\ UNCHANGED <<lost, lastError, result, submitQueue>>
          /\ pc'[SubmitThread] = pc[SubmitThread] \/ pc'[SubmitThread] # "issued"
          /\ pc'[FinishThread] = pc[FinishThread]
      BY <1>1, <1>5 DEF TakeEntry, TakeEntryBlock, CheckLost, DropEntry, IdleStep, Synchronize,
         SynchronizeBlock, LockDeviceQueue, DeviceWaitIdle, AfterIdle
    <2> QED BY <1>2, <2>1 DEF NoErrorInv
  <1>6. CASE SkipLost
    BY <1>6 DEF SkipLost, NoErrorInv
  <1>7. CASE IssueList \/ IssueInterp \/ IssuePresent
    <2>1. /\ UNCHANGED <<lost, lastError, submitQueue>>
          /\ pc'[FinishThread] = pc[FinishThread]
      BY <1>1, <1>7 DEF IssueList, IssueInterp, IssuePresent
    <2>2. /\ result'[SubmitThread] # "DEVICE_LOST"
          /\ Head(submitQueue) \in CmdLists => result'[SubmitThread] = "SUCCESS"
      <3>1. CASE IssueList
        BY <1>1, <3>1 DEF IssueList, SubmitResults, NoErrorInv
      <3>2. CASE IssueInterp
        BY <1>1, <3>2 DEF IssueInterp
      <3>3. CASE IssuePresent
        BY <1>1, <3>3 DEF IssuePresent, PresentResults, NoErrorInv
      <3> QED BY <1>7, <3>1, <3>2, <3>3
    <2> QED BY <2>1, <2>2 DEF NoErrorInv, SubmissionFailed
  <1>8. CASE RetireEntry
    <2>1. /\ UNCHANGED <<lost, lastError, result>>
          /\ pc'[SubmitThread] = "wait" /\ pc'[FinishThread] = pc[FinishThread]
          /\ pc[SubmitThread] = "issued"
      BY <1>1, <1>8 DEF RetireEntry, ErrorAfterRetire, NoErrorInv
    <2> QED BY <2>1 DEF NoErrorInv
  <1>9. CASE \/ TakeFinished \/ TakeFinishedBlock \/ NotifyObjects \/ RetireFinished \/ Recycle
             \/ IdleStep(FinishThread)
    <2>1. /\ UNCHANGED <<lost, lastError, result, submitQueue>>
          /\ pc'[SubmitThread] = pc[SubmitThread]
          /\ pc'[FinishThread] = pc[FinishThread] \/ pc'[FinishThread] # "failed"
      BY <1>1, <1>9 DEF TakeFinished, TakeFinishedBlock, NotifyObjects, RetireFinished, Recycle,
         IdleStep, Synchronize, SynchronizeBlock, LockDeviceQueue, DeviceWaitIdle, AfterIdle
    <2> QED BY <1>2, <2>1 DEF NoErrorInv
  <1>10. CASE ReadLastError \/ WaitFence \/ FenceFailed
    <2>1. /\ UNCHANGED <<lost, lastError, submitQueue>>
          /\ pc'[SubmitThread] = pc[SubmitThread]
          /\ result'[SubmitThread] = result[SubmitThread]
          /\ pc'[FinishThread] # "failed"
      <3>1. CASE ReadLastError
        BY <1>1, <3>1 DEF ReadLastError, NoErrorInv
      <3>2. CASE WaitFence
        BY <1>1, <3>2 DEF WaitFence, FenceResults, NoErrorInv
      <3>3. ~FenceFailed
        BY DEF FenceFailed, NoErrorInv
      <3> QED BY <1>10, <3>1, <3>2, <3>3
    <2> QED BY <2>1 DEF NoErrorInv, SubmissionFailed
  <1>11. CASE (\E l \in CmdLists : GpuComplete(l)) \/ LoseDevice \/ Terminated \/ UNCHANGED vars
    <2>1. UNCHANGED <<lost, lastError, result, submitQueue, pc>>
      BY <1>11 DEF GpuComplete, LoseDevice, Terminated, vars
    <2> QED BY <1>2, <2>1 DEF NoErrorInv
  <1> QED
    BY <1>3, <1>4, <1>5, <1>6, <1>7, <1>8, <1>9, <1>10, <1>11
    DEF Next, ClientStep, SubmitStep, FinishStep

\* As long as the driver reports no error, m_pending is the number of lists in
\* the two queues at every moment.
PendingExact == NoErrorInv /\ pending = InTransit

\* m_pending is the "number of pending submissions" on a device that reports no
\* error; with errors only PendingNeverShort is left.
THEOREM PendingIsExact ==
  ASSUME Failures = {}
  PROVE  Spec => []PendingIsQueued
  <1>1. Init => PendingExact
    BY TransitInit, ThreadsDiffer DEF Init, PendingExact, NoErrorInv
  <1>2. ASSUME OwnershipInv, PendingExact, [Next]_vars
        PROVE  PendingExact'
    <2>1. NoErrorInv'
      BY <1>2, NoErrorStep DEF PendingExact
    <2>2. ~(RetireEntry /\ SubmissionFailed)
      BY <1>2 DEF PendingExact, NoErrorInv, RetireEntry, At
    <2>3. pending \in Int /\ pending = InTransit
      BY <1>2 DEF OwnershipInv, TypeOK, PendingExact
    <2>4. pending' = InTransit'
      BY <1>2, <2>2, <2>3, TransitStep
    <2> QED BY <2>1, <2>4 DEF PendingExact
  <1>3. ASSUME OwnershipInv, PendingExact
        PROVE  PendingIsQueued
    <2>1. submitQueue \in Seq(Entry) /\ finishQueue \in Seq(CmdLists)
      BY <1>3 DEF OwnershipInv, TypeOK
    <2>2. NoRepeats(finishQueue, CmdLists) /\ Lists(submitQueue) \cap InQueue(finishQueue) = {}
      BY <1>3 DEF OwnershipInv, DistinctInv, OwnerInv, Lists
    <2>3. /\ IsFiniteSet(Lists(submitQueue)) /\ IsFiniteSet(InQueue(finishQueue))
          /\ Cardinality(Lists(submitQueue)) \in Nat
      BY <2>1, ListsCount
    <2>4. Cardinality(InQueue(finishQueue)) = Len(finishQueue) /\ Len(finishQueue) \in Nat
      BY <2>1, <2>2, DistinctCount
    <2>5. Cardinality(Lists(submitQueue) \cup InQueue(finishQueue)) = InTransit
      BY <2>2, <2>3, <2>4, FS_Union, FS_EmptySet DEF InTransit
    <2> QED BY <1>3, <2>5 DEF PendingExact, PendingIsQueued
  <1> QED BY <1>1, <1>2, <1>3, Ownership, PTL DEF Spec

-----------------------------------------------------------------------------
(* waitForIdle.                                                            *)

\* An error that says the device is lost is only ever recorded when it is.
LossKnown == "DEVICE_LOST" \in {lastError, result[SubmitThread], result[FinishThread]} => lost

\* A client past synchronize() has nothing left in the submit queue.
IdlersDrained ==
  ~lost /\ ~stopped =>
    \A c \in Clients : pc[c] \in {"lockQueue", "deviceIdle"} =>
      \A l \in Lists(submitQueue) : submitter[l] # c

IdleInv == LossKnown /\ IdlersDrained

\* Who learns of device loss.
LEMMA LossKnownStep ==
  ASSUME TypeOK, LossKnown, [Next]_vars
  PROVE  LossKnown'
  <1> USE ThreadsDiffer
  <1> USE DEF queueVars, errorVars, frameVars, listVars, deviceVars, Goto, Sleep
  <1>1. result \in [Workers -> Results] /\ Failures \subseteq {"OUT_OF_MEMORY", "DEVICE_LOST"}
    BY ConstantsAssumption DEF TypeOK
  <1>2. ASSUME UNCHANGED <<lastError, result>>, lost => lost'
        PROVE  LossKnown'
    BY <1>2 DEF LossKnown
  <1>3. ASSUME NEW c \in Clients,
               \/ SetupFrameInterpolation(c) \/ PresentImage(c) \/ SubmitPush(c)
               \/ Record(c) \/ WaitForSubmission(c) \/ SynchronizeSubmission(c)
               \/ WaitForResource(c) \/ SynchronizeUntil(c) \/ WaitForIdle(c) \/ Close(c)
               \/ Stop(c) \/ Join(c) \/ SubmitBlock(c) \/ SynchronizeSubmissionBlock(c)
               \/ SynchronizeUntilBlock(c)
        PROVE  UNCHANGED <<lastError, result, lost>>
    BY <1>3 DEF SetupFrameInterpolation, PresentImage, SubmitPush, Record, WaitForSubmission,
       SynchronizeSubmission, WaitForResource, SynchronizeUntil, WaitForIdle, Close, Stop, Join,
       SubmitBlock, SynchronizeSubmissionBlock, SynchronizeUntilBlock
  <1>4. ASSUME NEW t \in Threads, IdleStep(t)
        PROVE  UNCHANGED <<lastError, result, lost>>
    BY <1>4 DEF IdleStep, Synchronize, SynchronizeBlock, LockDeviceQueue, DeviceWaitIdle
  <1>5. CASE \/ TakeEntry \/ TakeEntryBlock \/ CheckLost \/ DropEntry
             \/ TakeFinished \/ TakeFinishedBlock \/ NotifyObjects \/ RetireFinished \/ Recycle
             \/ (\E l \in CmdLists : GpuComplete(l)) \/ LoseDevice \/ Terminated
             \/ UNCHANGED vars
    <2>1. UNCHANGED <<lastError, result>> /\ (lost => lost')
      BY <1>5 DEF TakeEntry, TakeEntryBlock, CheckLost, DropEntry, TakeFinished,
         TakeFinishedBlock, NotifyObjects, RetireFinished, Recycle, GpuComplete, LoseDevice,
         Terminated, vars
    <2> QED BY <1>2, <2>1
  <1>6. CASE SkipLost \/ IssueInterp
    BY <1>1, <1>6 DEF SkipLost, IssueInterp, LossKnown
  <1>7. CASE IssueList
    <2>1. PICK r \in SubmitResults : result' = [result EXCEPT ![SubmitThread] = r]
      BY <1>7 DEF IssueList
    <2>2. r = "DEVICE_LOST" => lost
      BY <2>1 DEF SubmitResults
    <2> QED BY <1>1, <1>7, <2>1, <2>2 DEF IssueList, LossKnown
  <1>8. CASE IssuePresent
    BY <1>1, <1>8 DEF IssuePresent, PresentResults, LossKnown
  <1>9. CASE RetireEntry
    BY <1>1, <1>9 DEF RetireEntry, ErrorAfterRetire, LossKnown
  <1>10. CASE ReadLastError \/ FenceFailed
    BY <1>1, <1>10 DEF ReadLastError, FenceFailed, LossKnown
  <1>11. CASE WaitFence
    <2>1. PICK r \in FenceResults(target[FinishThread]) :
            result' = [result EXCEPT ![FinishThread] = r]
      BY <1>11 DEF WaitFence
    <2>2. r = "DEVICE_LOST" => lost
      BY <2>1 DEF FenceResults
    <2> QED BY <1>1, <1>11, <2>1, <2>2 DEF WaitFence, LossKnown
  <1> QED
    BY <1>2, <1>3, <1>4, <1>5, <1>6, <1>7, <1>8, <1>9, <1>10, <1>11
    DEF Next, ClientStep, SubmitStep, FinishStep

\* Once lost or stopped, for ever so.
LEMMA EndsAreFinal ==
  ASSUME [Next]_vars
  PROVE  (lost => lost') /\ (stopped => stopped')
  <1> USE DEF queueVars, errorVars, frameVars, listVars, deviceVars, Goto, Sleep
  <1>1. ASSUME NEW c \in Clients,
               \/ SetupFrameInterpolation(c) \/ PresentImage(c) \/ SubmitPush(c)
               \/ Record(c) \/ WaitForSubmission(c) \/ SynchronizeSubmission(c)
               \/ WaitForResource(c) \/ SynchronizeUntil(c) \/ WaitForIdle(c) \/ Close(c)
               \/ Stop(c) \/ Join(c) \/ SubmitBlock(c) \/ SynchronizeSubmissionBlock(c)
               \/ SynchronizeUntilBlock(c)
        PROVE  (lost => lost') /\ (stopped => stopped')
    BY <1>1 DEF SetupFrameInterpolation, PresentImage, SubmitPush, Record, WaitForSubmission,
       SynchronizeSubmission, WaitForResource, SynchronizeUntil, WaitForIdle, Close, Stop, Join,
       SubmitBlock, SynchronizeSubmissionBlock, SynchronizeUntilBlock
  <1>2. ASSUME NEW t \in Threads, IdleStep(t)
        PROVE  UNCHANGED <<lost, stopped>>
    BY <1>2 DEF IdleStep, Synchronize, SynchronizeBlock, LockDeviceQueue, DeviceWaitIdle
  <1>3. CASE \/ TakeEntry \/ TakeEntryBlock \/ CheckLost \/ SkipLost \/ IssueList
             \/ IssueInterp \/ IssuePresent \/ RetireEntry \/ DropEntry
    BY <1>3 DEF TakeEntry, TakeEntryBlock, CheckLost, SkipLost, IssueList, IssueInterp,
       IssuePresent, RetireEntry, DropEntry
  <1>4. CASE \/ TakeFinished \/ TakeFinishedBlock \/ ReadLastError \/ WaitFence
             \/ FenceFailed \/ NotifyObjects \/ RetireFinished \/ Recycle
    BY <1>4 DEF TakeFinished, TakeFinishedBlock, ReadLastError, WaitFence, FenceFailed,
       NotifyObjects, RetireFinished, Recycle
  <1>5. CASE (\E l \in CmdLists : GpuComplete(l)) \/ LoseDevice \/ Terminated \/ UNCHANGED vars
    BY <1>5 DEF GpuComplete, LoseDevice, Terminated, vars
  <1> QED
    BY <1>1, <1>2, <1>3, <1>4, <1>5, ThreadsDiffer
    DEF Next, ClientStep, SubmitStep, FinishStep

Idling == {"lockQueue", "deviceIdle"}

\* How a client gets in and out of waitForIdle, and who sets the submitter.
LEMMA IdleSteps ==
  ASSUME TypeOK, [Next]_vars, NEW c \in Clients
  PROVE  /\ pc'[c] \in Idling => pc[c] \in Idling \/ Synchronize(c)
         /\ pc[c] = "deviceIdle" /\ pc'[c] # "deviceIdle" => DeviceWaitIdle(c)
         /\ (\E d \in Clients : SubmitPush(d)) \/ submitter' = submitter
  <1> USE ThreadsDiffer
  <1> USE DEF queueVars, errorVars, frameVars, listVars, deviceVars, At, Goto, Starts, Sleep,
              Idling
  <1>1. pc \in [Threads -> ClientLabels \cup SubmitLabels \cup FinishLabels]
    BY DEF TypeOK
  <1> DEFINE Goal == /\ pc'[c] \in Idling => pc[c] \in Idling \/ Synchronize(c)
                     /\ pc[c] = "deviceIdle" /\ pc'[c] # "deviceIdle" => DeviceWaitIdle(c)
                     /\ (\E d \in Clients : SubmitPush(d)) \/ submitter' = submitter
  <1> SUFFICES Goal
    OBVIOUS
  <1>2. ASSUME NEW d \in Clients,
               \/ SetupFrameInterpolation(d) \/ PresentImage(d)
               \/ Record(d) \/ WaitForSubmission(d) \/ SynchronizeSubmission(d)
               \/ WaitForResource(d) \/ SynchronizeUntil(d) \/ WaitForIdle(d) \/ Close(d)
               \/ Stop(d) \/ Join(d) \/ SubmitBlock(d) \/ SynchronizeSubmissionBlock(d)
               \/ SynchronizeUntilBlock(d)
        PROVE  Goal
    BY <1>1, <1>2 DEF SetupFrameInterpolation, PresentImage, Record, WaitForSubmission,
       SynchronizeSubmission, WaitForResource, SynchronizeUntil, WaitForIdle, Close, Stop, Join,
       SubmitBlock, SynchronizeSubmissionBlock, SynchronizeUntilBlock
  <1>3. ASSUME NEW d \in Clients, SubmitPush(d) PROVE Goal
    BY <1>1, <1>3 DEF SubmitPush
  <1>4. ASSUME NEW t \in Threads, Synchronize(t) \/ SynchronizeBlock(t) \/ LockDeviceQueue(t)
        PROVE  Goal
    <2>1. submitter' = submitter
      BY <1>4 DEF Synchronize, SynchronizeBlock, LockDeviceQueue
    <2>2. CASE t = c
      BY <1>1, <1>4, <2>1, <2>2 DEF Synchronize, SynchronizeBlock, LockDeviceQueue
    <2>3. CASE t # c
      <3>1. pc'[c] = pc[c]
        BY <1>1, <1>4, <2>3 DEF Synchronize, SynchronizeBlock, LockDeviceQueue
      <3> QED BY <2>1, <3>1
    <2> QED BY <2>2, <2>3
  <1>5. ASSUME NEW t \in Threads, DeviceWaitIdle(t) PROVE Goal
    <2>1. submitter' = submitter /\ AfterIdle(t) \notin Idling
      BY <1>5 DEF DeviceWaitIdle, AfterIdle, Threads, Workers
    <2>2. CASE t = c
      BY <1>1, <1>5, <2>1, <2>2 DEF DeviceWaitIdle
    <2>3. CASE t # c
      <3>1. pc'[c] = pc[c]
        BY <1>1, <1>5, <2>3 DEF DeviceWaitIdle
      <3> QED BY <2>1, <3>1
    <2> QED BY <2>2, <2>3
  <1>6. CASE \/ TakeEntry \/ TakeEntryBlock \/ CheckLost \/ SkipLost \/ IssueList
             \/ IssueInterp \/ IssuePresent \/ RetireEntry \/ DropEntry
    <2>1. pc'[c] = pc[c] /\ submitter' = submitter
      BY <1>1, <1>6 DEF TakeEntry, TakeEntryBlock, CheckLost, SkipLost, IssueList, IssueInterp,
         IssuePresent, RetireEntry, DropEntry
    <2> QED BY <2>1
  <1>7. CASE \/ TakeFinished \/ TakeFinishedBlock \/ ReadLastError \/ WaitFence
             \/ FenceFailed \/ NotifyObjects \/ RetireFinished \/ Recycle
    <2>1. pc'[c] = pc[c] /\ submitter' = submitter
      BY <1>1, <1>7 DEF TakeFinished, TakeFinishedBlock, ReadLastError, WaitFence, FenceFailed,
         NotifyObjects, RetireFinished, Recycle
    <2> QED BY <2>1
  <1>8. CASE (\E l \in CmdLists : GpuComplete(l)) \/ LoseDevice \/ Terminated \/ UNCHANGED vars
    <2>1. pc' = pc /\ submitter' = submitter
      BY <1>8 DEF GpuComplete, LoseDevice, Terminated, vars
    <2> QED BY <2>1
  <1> HIDE DEF Goal
  <1> QED
    BY <1>2, <1>3, <1>4, <1>5, <1>6, <1>7, <1>8
    DEF Next, ClientStep, SubmitStep, FinishStep, IdleStep

\* A client in waitForIdle submits nothing, and what the others push is theirs.
LEMMA IdlersStep ==
  ASSUME OwnershipInv, IdleInv, [Next]_vars
  PROVE  IdlersDrained'
  <1>1. TypeOK /\ submitQueue \in Seq(Entry) /\ submitter \in [CmdLists -> Clients \cup {NoList}]
    BY DEF OwnershipInv, TypeOK
  <1> SUFFICES ASSUME ~lost', ~stopped', NEW c \in Clients, pc'[c] \in Idling,
                      NEW l \in CmdLists, l \in InQueue(submitQueue')
               PROVE  submitter'[l] # c
    BY DEF IdlersDrained, Idling, Lists
  <1>2. ~lost /\ ~stopped
    BY EndsAreFinal
  <1>3. CASE pc[c] \in Idling
    <2>1. l \in InQueue(submitQueue) => submitter[l] # c
      BY <1>2, <1>3 DEF IdleInv, IdlersDrained, Lists, Idling
    <2>2. ASSUME NEW d \in Clients, SubmitPush(d)
          PROVE  submitter'[l] # c
      <3>1. /\ target[d] \in CmdLists
            /\ submitQueue' = Append(submitQueue, target[d])
            /\ submitter' = [submitter EXCEPT ![target[d]] = d]
            /\ d # c
        BY <1>3, <2>2 DEF SubmitPush, Push, At, Idling, OwnershipInv, OwnerInv, Recording
      <3>2. l \in InQueue(submitQueue) \/ l = target[d]
        BY <1>1, <3>1, AppendEntries, EntriesDiffer
      <3> QED BY <1>1, <2>1, <3>1, <3>2
    <2>3. ASSUME ~ \E d \in Clients : SubmitPush(d)
          PROVE  submitter'[l] # c
      <3>1. submitter' = submitter
        BY <1>1, <2>3, IdleSteps
      <3>2. InQueue(submitQueue') \cap CmdLists \subseteq InQueue(submitQueue)
        <4>1. CASE \E e \in Entry \ CmdLists : submitQueue' = Append(submitQueue, e)
          BY <1>1, <4>1, AppendEntries
        <4>2. CASE RetireEntry
          <5>1. submitQueue # <<>> /\ submitQueue' = Tail(submitQueue)
            BY <4>2 DEF RetireEntry, At, OwnershipInv, EntriesInv, SubmitHolds
          <5> QED BY <1>1, <5>1, PopEntries
        <4>3. CASE RetireFinished
          BY <4>3 DEF RetireFinished
        <4>4. CASE QueuesUntouched
          BY <4>4 DEF QueuesUntouched
        <4> QED BY <1>1, <2>3, <4>1, <4>2, <4>3, <4>4, QueueSteps
      <3> QED BY <2>1, <3>1, <3>2
    <2> QED BY <2>2, <2>3
  <1>4. CASE pc[c] \notin Idling
    <2>1. Synchronize(c)
      BY <1>1, <1>4, IdleSteps
    <2>2. submitQueue = <<>> /\ submitQueue' = submitQueue
      BY <1>2, <2>1 DEF Synchronize, queueVars, Drained, QueueDead, IdleInv, LossKnown
    <2> QED BY <2>2 DEF InQueue
  <1> QED BY <1>3, <1>4

\* waitForIdle keeps its promise on a live device: when it returns to a client,
\* no list that client submitted is queued or executing.
THEOREM IdleIsDone == Spec => IdleMeansDone
  <1>1. Init => IdleInv
    BY ThreadsDiffer DEF Init, IdleInv, LossKnown, IdlersDrained, Workers
  <1>2. ASSUME OwnershipInv, IdleInv, [Next]_vars
        PROVE  IdleInv'
    BY <1>2, LossKnownStep, IdlersStep DEF IdleInv, OwnershipInv
  <1>3. ASSUME OwnershipInv, IdleInv, [Next]_vars,
               NEW c \in Clients, pc[c] = "deviceIdle", pc'[c] # "deviceIdle",
               ~QueueDead, ~lost, NEW l \in CmdLists, submitter[l] = c
        PROVE  l \notin Lists(submitQueue') \cup gpu'
    <2>1. DeviceWaitIdle(c)
      BY <1>3, IdleSteps DEF OwnershipInv
    <2>2. gpu' = {} /\ submitQueue' = submitQueue
      BY <1>3, <2>1 DEF DeviceWaitIdle, queueVars, deviceVars
    <2>3. l \notin Lists(submitQueue)
      BY <1>3 DEF IdleInv, IdlersDrained, QueueDead
    <2> QED BY <2>2, <2>3 DEF Lists
  <1>4. ASSUME OwnershipInv, IdleInv, [Next]_vars
        PROVE  [\A c \in Clients :
                  pc[c] = "deviceIdle" /\ pc'[c] # "deviceIdle" /\ ~QueueDead /\ ~lost
                  => \A l \in CmdLists :
                       submitter[l] = c => l \notin Lists(submitQueue') \cup gpu']_vars
    BY <1>3, <1>4
  <1> QED BY <1>1, <1>2, <1>4, Ownership, PTL DEF Spec, IdleMeansDone
=============================================================================
