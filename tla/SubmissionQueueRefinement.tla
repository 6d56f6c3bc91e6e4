---------------------- MODULE SubmissionQueueRefinement ----------------------
(***************************************************************************)
(* SubmissionQueue implements CommandStream: each step of the threads is a *)
(* step of the stream or leaves the stream as it is.                       *)
(***************************************************************************)
EXTENDS SubmissionQueueProofs

\* Popping from a queue to which an entry was pushed.
LEMMA PopAfterPush ==
  ASSUME NEW S, NEW q \in Seq(S), q # <<>>, NEW e \in S
  PROVE  /\ Tail(Append(q, e)) = Append(Tail(q), e)
         /\ Head(Append(q, e)) = Head(q)
  OBVIOUS

\* What the invariant says about the mapped state.
LEMMA MappedFacts ==
  ASSUME OwnershipInv
  PROVE  /\ AcceptedEntries \in Seq(Entry)
         /\ Unreleased \in Seq(CmdLists)
         /\ StartedLists \in Seq(CmdLists)
         /\ IssuedList \subseteq CmdLists
         /\ IssuedList # {} => IssuedList = {Head(submitQueue)}
         /\ IssuedList \subseteq InQueue(submitQueue)
  <1> USE DEF OwnershipInv
  <1>1. IssuedList \subseteq CmdLists /\ (IssuedList # {} => IssuedList = {Head(submitQueue)})
    BY DEF IssuedList, Issuing
  <1>2. AcceptedEntries \in Seq(Entry) /\ IssuedList \subseteq InQueue(submitQueue)
    BY PopEntries DEF AcceptedEntries, IssuedList, Issuing, EntriesInv, SubmitHolds, TypeOK
  <1>3. Unreleased \in Seq(CmdLists)
    BY PopEntries DEF Unreleased, EntriesInv, FinishHolds, FinishLabels, TypeOK
  <1>4. StartedLists \in Seq(CmdLists)
    BY <1>1, <1>3, AppendEntries DEF StartedLists
  <1> QED BY <1>1, <1>2, <1>3, <1>4

\* A step that leaves the mapped state alone.
LEMMA Stutter ==
  ASSUME UNCHANGED <<recycled, Recording, AcceptedEntries, StartedLists, ReleasedList,
                     RefusedList, gpu, inUse, lost>>
  PROVE  UNCHANGED Stream!vars
  BY DEF Stream!vars

\* Recording begins.
LEMMA RecordRefines ==
  ASSUME OwnershipInv, NEW c \in Clients, Record(c)
  PROVE  Stream!Next
  <1> USE ThreadsDiffer DEF OwnershipInv, Record, Starts, At, Goto,
          queueVars, errorVars, frameVars, deviceVars
  <1>1. PICK l \in recycled :
          /\ recycled' = recycled \ {l}
          /\ inUse' = inUse \cup {l}
          /\ target' = [target EXCEPT ![c] = l]
    OBVIOUS
  <1>2. Recording' = Recording \cup {l} /\ l \in CmdLists
    BY <1>1 DEF TypeOK, Recording, OwnerInv
  <1>3. /\ pc'[SubmitThread] = pc[SubmitThread]
        /\ pc'[FinishThread] = pc[FinishThread]
        /\ target'[SubmitThread] = target[SubmitThread]
        /\ target'[FinishThread] = target[FinishThread]
    BY <1>1 DEF TypeOK
  <1>4. UNCHANGED <<AcceptedEntries, StartedLists, ReleasedList, RefusedList>>
    BY <1>3 DEF AcceptedEntries, StartedLists, Unreleased, IssuedList, Issuing, ReleasedList,
       RefusedList
  <1>5. Stream!Begin(l)
    BY <1>1, <1>2, <1>4 DEF Stream!Begin, UseInv
  <1> QED BY <1>2, <1>5 DEF Stream!Next

\* A list is accepted.
LEMMA SubmitPushRefines ==
  ASSUME OwnershipInv, NEW c \in Clients, SubmitPush(c)
  PROVE  Stream!Next
  <1> USE ThreadsDiffer, EntriesDiffer DEF OwnershipInv, SubmitPush, At, Goto, Push,
          errorVars, frameVars, deviceVars
  <1> DEFINE l == target[c]
  <1>1. l \in Recording /\ l \in CmdLists
    BY DEF Recording, OwnerInv
  <1>2. /\ pc'[SubmitThread] = pc[SubmitThread]
        /\ pc'[FinishThread] = pc[FinishThread]
        /\ target'[SubmitThread] = target[SubmitThread]
        /\ target'[FinishThread] = target[FinishThread]
    BY DEF TypeOK
  <1>3. Recording' = Recording \ {l}
    <2>1. \A d \in Clients : pc'[d] = "submit" <=> d # c /\ pc[d] = "submit"
      BY DEF TypeOK
    <2>2. \A d \in Clients \ {c} : target'[d] = target[d]
      BY DEF TypeOK
    <2> QED BY <2>1, <2>2 DEF Recording, DistinctInv
  <1>4. /\ AcceptedEntries' = Append(AcceptedEntries, l)
        /\ pc[SubmitThread] = "issued" => Head(submitQueue') = Head(submitQueue)
    BY <1>1, <1>2, PopAfterPush DEF AcceptedEntries, EntriesInv, SubmitHolds, TypeOK
  <1>5. UNCHANGED <<StartedLists, ReleasedList, RefusedList>>
    BY <1>2, <1>4 DEF StartedLists, Unreleased, IssuedList, Issuing, ReleasedList, RefusedList
  <1>6. Stream!Accept(l)
    BY <1>1, <1>3, <1>4, <1>5 DEF Stream!Accept
  <1> QED BY <1>1, <1>6 DEF Stream!Next

\* Another entry is accepted.
LEMMA PushOtherRefines ==
  ASSUME OwnershipInv, NEW e \in Entry \ CmdLists,
         submitQueue' = Append(submitQueue, e),
         UNCHANGED <<finishQueue, pc, target, result, recycled, inUse, gpu, lost>>
  PROVE  Stream!Next
  <1> USE DEF OwnershipInv
  <1>1. /\ AcceptedEntries' = Append(AcceptedEntries, e)
        /\ pc[SubmitThread] = "issued" => Head(submitQueue') = Head(submitQueue)
    BY PopAfterPush DEF AcceptedEntries, EntriesInv, SubmitHolds, TypeOK
  <1>2. UNCHANGED <<StartedLists, ReleasedList, RefusedList, Recording>>
    BY <1>1 DEF StartedLists, Unreleased, IssuedList, Issuing, ReleasedList, RefusedList, Recording
  <1>3. Stream!AcceptOther(e)
    BY <1>1, <1>2 DEF Stream!AcceptOther
  <1> QED BY <1>3 DEF Stream!Next

\* The worker takes the front entry out of the stream and decides its fate.
LEMMA IssueRefines ==
  ASSUME OwnershipInv, SkipLost \/ IssueList \/ IssueInterp \/ IssuePresent
  PROVE  Stream!Next
  <1> USE ThreadsDiffer, EntriesDiffer
      DEF OwnershipInv, At, Goto, queueVars, errorVars, frameVars, listVars, deviceVars
  <1> DEFINE h == Head(submitQueue)
  <1>1. /\ UNCHANGED <<submitQueue, finishQueue, target, recycled, inUse, lost>>
        /\ pc[SubmitThread] \in {"check", "issue"} /\ pc'[SubmitThread] = "issued"
        /\ pc'[FinishThread] = pc[FinishThread]
        /\ \A d \in Clients : pc'[d] = pc[d]
    BY DEF SkipLost, IssueList, IssueInterp, IssuePresent, TypeOK
  <1>2. submitQueue # <<>> /\ h \in Entry /\ target[SubmitThread] = NoList
    BY <1>1, PopEntries DEF EntriesInv, SubmitHolds, TypeOK
  <1>3. UNCHANGED <<ReleasedList, Unreleased>>
    BY <1>1 DEF ReleasedList, Unreleased
  <1>4. Recording' = Recording
    BY <1>1 DEF Recording
  <1>5. AcceptedEntries = submitQueue /\ AcceptedEntries' = Tail(submitQueue)
    BY <1>1 DEF AcceptedEntries
  <1>6. IssuedList = {} /\ RefusedList = {} /\ StartedLists = Unreleased
    BY <1>1, <1>2 DEF IssuedList, RefusedList, Issuing, StartedLists
  <1>7. CASE h \in CmdLists /\ result'[SubmitThread] = "SUCCESS"
    <2>1. IssueList /\ ~lost /\ gpu' = gpu \cup {h}
      BY <1>7 DEF SkipLost, IssueList, IssueInterp, IssuePresent, SubmitResults, TypeOK
    <2>2. IssuedList' = {h} /\ RefusedList' = {}
      BY <1>1, <1>2, <1>7 DEF IssuedList, RefusedList, Issuing
    <2>3. StartedLists' = Append(Unreleased, h)
      BY <1>1, <1>3, <2>2 DEF StartedLists
    <2>4. Stream!Start
      BY <1>1, <1>2, <1>3, <1>4, <1>5, <1>6, <1>7, <2>1, <2>2, <2>3 DEF Stream!Start
    <2> QED BY <2>4 DEF Stream!Next
  <1>8. CASE h \in CmdLists /\ result'[SubmitThread] # "SUCCESS"
    <2>1. gpu' = gpu
      BY <1>8 DEF SkipLost, IssueList, IssueInterp, IssuePresent, TypeOK
    <2>2. IssuedList' = {} /\ RefusedList' = {h}
      BY <1>1, <1>8 DEF IssuedList, RefusedList, Issuing
    <2>3. StartedLists' = Unreleased
      BY <1>3, <2>2 DEF StartedLists
    <2>4. Stream!Refuse
      BY <1>1, <1>2, <1>3, <1>4, <1>5, <1>6, <1>8, <2>1, <2>2, <2>3 DEF Stream!Refuse
    <2> QED BY <2>4 DEF Stream!Next
  <1>9. CASE h \notin CmdLists
    <2>1. gpu' = gpu
      BY <1>9 DEF SkipLost, IssueList, IssueInterp, IssuePresent
    <2>2. IssuedList' = {} /\ RefusedList' = {}
      BY <1>1, <1>2, <1>9 DEF IssuedList, RefusedList, Issuing
    <2>3. StartedLists' = Unreleased
      BY <1>3, <2>2 DEF StartedLists
    <2>4. Stream!PassOther
      BY <1>1, <1>2, <1>3, <1>4, <1>5, <1>6, <1>9, <2>1, <2>2, <2>3 DEF Stream!PassOther
    <2> QED BY <2>4 DEF Stream!Next
  <1> QED BY <1>7, <1>8, <1>9

\* The entry leaves the submit queue: the stream has seen it go already.
LEMMA RetireEntryStutters ==
  ASSUME OwnershipInv, RetireEntry
  PROVE  UNCHANGED Stream!vars
  <1> USE ThreadsDiffer, EntriesDiffer DEF OwnershipInv, RetireEntry, At, Goto,
          frameVars, deviceVars
  <1> DEFINE h == Head(submitQueue)
  <1>1. /\ pc'[FinishThread] = pc[FinishThread]
        /\ target'[FinishThread] = target[FinishThread]
        /\ pc'[SubmitThread] \in {"synchronize", "wait"}
        /\ target'[SubmitThread] = FailedList
        /\ \A d \in Clients : pc'[d] = pc[d] /\ target'[d] = target[d]
    BY DEF TypeOK
  <1>2. Recording' = Recording
    BY <1>1 DEF Recording
  <1>3. ReleasedList' = ReleasedList
    BY <1>1 DEF ReleasedList
  <1>4. AcceptedEntries' = AcceptedEntries
    BY <1>1 DEF AcceptedEntries
  <1>5. RefusedList' = RefusedList
    BY <1>1 DEF RefusedList, Issuing, FailedList, SubmissionFailed, EntriesInv
  <1>6. IssuedList' = {}
    BY <1>1 DEF IssuedList, Issuing
  <1>7. StartedLists' = Unreleased'
    BY <1>6 DEF StartedLists
  <1>8. pc[FinishThread] = "retire" => finishQueue # <<>>
    BY DEF EntriesInv, FinishHolds, FinishLabels
  <1>9. Unreleased' = StartedLists
    <2>1. CASE h \in CmdLists /\ result[SubmitThread] = "SUCCESS"
      <3>1. IssuedList # {} /\ finishQueue' = Append(finishQueue, h)
        BY <2>1 DEF IssuedList, Issuing, HandOver
      <3>2. StartedLists = Append(Unreleased, h)
        BY <3>1 DEF StartedLists
      <3>3. CASE pc[FinishThread] = "retire"
        <4>1. finishQueue \in Seq(CmdLists) /\ finishQueue # <<>> /\ h \in CmdLists
          BY <1>8, <2>1, <3>3 DEF TypeOK
        <4>2. Tail(Append(finishQueue, h)) = Append(Tail(finishQueue), h)
          BY <4>1, PopAfterPush
        <4> HIDE DEF OwnershipInv, RetireEntry
        <4> QED BY <1>1, <3>1, <3>2, <3>3, <4>2 DEF Unreleased
      <3>4. CASE pc[FinishThread] # "retire"
        <4> HIDE DEF OwnershipInv, RetireEntry
        <4> QED BY <1>1, <3>1, <3>2, <3>4 DEF Unreleased
      <3> QED BY <3>3, <3>4
    <2>2. CASE ~(h \in CmdLists /\ result[SubmitThread] = "SUCCESS")
      <3>1. IssuedList = {} /\ finishQueue' = finishQueue
        BY <2>2 DEF IssuedList, Issuing, HandOver
      <3> QED BY <1>1, <3>1 DEF Unreleased, StartedLists
    <2> QED BY <2>1, <2>2
  <1> QED BY <1>2, <1>3, <1>4, <1>5, <1>7, <1>9, Stutter

\* A refused list is destroyed, if the worker holds one.
LEMMA DropEntryRefines ==
  ASSUME OwnershipInv, DropEntry
  PROVE  Stream!Next \/ UNCHANGED Stream!vars
  <1> USE ThreadsDiffer, EntriesDiffer DEF OwnershipInv, DropEntry, At, Goto,
          queueVars, errorVars, frameVars, deviceVars
  <1> DEFINE l == target[SubmitThread]
  <1>1. /\ pc'[FinishThread] = pc[FinishThread]
        /\ target'[FinishThread] = target[FinishThread]
        /\ pc'[SubmitThread] = "wait"
        /\ target'[SubmitThread] = NoList
        /\ \A d \in Clients : pc'[d] = pc[d] /\ target'[d] = target[d]
    BY DEF TypeOK
  <1>2. Recording' = Recording
    BY <1>1 DEF Recording
  <1>3. UNCHANGED <<AcceptedEntries, StartedLists, ReleasedList>>
    BY <1>1 DEF AcceptedEntries, StartedLists, Unreleased, IssuedList, Issuing, ReleasedList
  <1>4. RefusedList = {l} \ {NoList} /\ RefusedList' = {} /\ IssuedList = {}
    BY <1>1 DEF RefusedList, Issuing, IssuedList
  <1>5. CASE l = NoList
    <2>1. inUse' = inUse
      BY <1>5 DEF TypeOK
    <2> QED BY <1>2, <1>3, <1>4, <1>5, <2>1, Stutter
  <1>6. CASE l # NoList
    <2>1. l \in CmdLists /\ inUse' \in {inUse, inUse \ {l}}
      BY <1>6 DEF TypeOK
    <2>2. ~lost => l \notin gpu
      BY <1>4 DEF GpuInv, OwnerInv
    <2>3. Stream!Discard(l)
      BY <1>2, <1>3, <1>4, <1>6, <2>1, <2>2 DEF Stream!Discard
    <2> QED BY <2>1, <2>3 DEF Stream!Next
  <1> QED BY <1>5, <1>6

\* The finish worker releases the oldest started list.
LEMMA NotifyRefines ==
  ASSUME OwnershipInv, NotifyObjects
  PROVE  Stream!Next
  <1> USE ThreadsDiffer DEF OwnershipInv, NotifyObjects, NotifiedLists, At, Goto,
          queueVars, errorVars, frameVars, deviceVars
  <1> DEFINE l == target[FinishThread]
  <1>1. /\ pc'[FinishThread] = "retire"
        /\ pc'[SubmitThread] = pc[SubmitThread]
        /\ \A d \in Clients : pc'[d] = pc[d]
    BY DEF TypeOK
  <1>2. finishQueue # <<>> /\ l = Head(finishQueue)
    BY DEF EntriesInv, FinishHolds, FinishLabels
  <1>3. Recording' = Recording
    BY <1>1 DEF Recording
  <1>4. UNCHANGED <<AcceptedEntries, RefusedList, IssuedList>>
    BY <1>1 DEF AcceptedEntries, RefusedList, IssuedList, Issuing
  <1>5. ReleasedList = {} /\ ReleasedList' = {l}
    BY <1>1 DEF ReleasedList
  <1>6. Unreleased = finishQueue /\ Unreleased' = Tail(finishQueue)
    BY <1>1 DEF Unreleased
  <1>7. StartedLists # <<>> /\ Head(StartedLists) = l /\ StartedLists' = Tail(StartedLists)
    <2>1. CASE IssuedList = {}
      BY <2>1, <1>2, <1>4, <1>6 DEF StartedLists
    <2>2. CASE IssuedList # {}
      <3>1. Head(submitQueue) \in CmdLists
        BY <2>2, MappedFacts
      <3>2. finishQueue \in Seq(CmdLists)
        BY DEF TypeOK
      <3> DEFINE h == Head(submitQueue)
      <3>3. /\ StartedLists = Append(finishQueue, h)
            /\ StartedLists' = Append(Tail(finishQueue), h)
        BY <2>2, <1>4, <1>6 DEF StartedLists
      <3>4. /\ Append(finishQueue, h) # <<>>
            /\ Head(Append(finishQueue, h)) = Head(finishQueue)
            /\ Tail(Append(finishQueue, h)) = Append(Tail(finishQueue), h)
        BY <1>2, <3>1, <3>2, PopAfterPush, AppendEntries
      <3> QED BY <1>2, <3>3, <3>4
    <2> QED BY <2>1, <2>2
  <1>8. ~lost => l \notin gpu
    BY DEF GpuInv
  <1>9. Stream!Release
    BY <1>3, <1>4, <1>5, <1>7, <1>8 DEF Stream!Release
  <1> QED BY <1>9 DEF Stream!Next

\* The list leaves the finish queue: the stream has released it already.
LEMMA RetireFinishedStutters ==
  ASSUME OwnershipInv, RetireFinished
  PROVE  UNCHANGED Stream!vars
  <1> USE ThreadsDiffer DEF OwnershipInv, RetireFinished, At, Goto,
          errorVars, frameVars, listVars, deviceVars
  <1>1. /\ pc'[FinishThread] = "recycle"
        /\ pc'[SubmitThread] = pc[SubmitThread]
        /\ \A d \in Clients : pc'[d] = pc[d]
    BY DEF TypeOK
  <1>2. Recording' = Recording
    BY <1>1 DEF Recording
  <1>3. UNCHANGED <<AcceptedEntries, RefusedList, IssuedList, ReleasedList>>
    BY <1>1 DEF AcceptedEntries, RefusedList, IssuedList, Issuing, ReleasedList
  <1>4. Unreleased' = Unreleased
    BY <1>1 DEF Unreleased
  <1>5. StartedLists' = StartedLists
    BY <1>3, <1>4 DEF StartedLists
  <1> QED BY <1>2, <1>3, <1>5, Stutter

\* A released list becomes idle.
LEMMA RecycleRefines ==
  ASSUME OwnershipInv, Recycle
  PROVE  Stream!Next
  <1> USE ThreadsDiffer, EntriesDiffer DEF OwnershipInv, Recycle, At, Goto,
          queueVars, errorVars, frameVars, deviceVars
  <1> DEFINE l == target[FinishThread]
  <1>1. /\ pc'[FinishThread] = "wait"
        /\ pc'[SubmitThread] = pc[SubmitThread]
        /\ target'[SubmitThread] = target[SubmitThread]
        /\ \A d \in Clients : pc'[d] = pc[d] /\ target'[d] = target[d]
    BY DEF TypeOK
  <1>2. Recording' = Recording
    BY <1>1 DEF Recording
  <1>3. UNCHANGED <<AcceptedEntries, RefusedList, StartedLists>>
    BY <1>1 DEF AcceptedEntries, RefusedList, IssuedList, Issuing, StartedLists, Unreleased
  <1>4. ReleasedList = {l} /\ ReleasedList' = {} /\ RecyclingList = {l} /\ l \in CmdLists
    BY <1>1 DEF ReleasedList, RecyclingList, EntriesInv
  <1>5. l \notin inUse
    BY <1>4 DEF UseInv
  <1>6. ~lost => l \notin gpu
    BY <1>4, MappedFacts DEF GpuInv, OwnerInv
  <1>7. Stream!Reuse(l)
    BY <1>2, <1>3, <1>4, <1>5, <1>6 DEF Stream!Reuse
  <1> QED BY <1>4, <1>7 DEF Stream!Next

\* The GPU finishes a list, or the device is lost.
LEMMA GpuRefines ==
  ASSUME OwnershipInv, (\E l \in CmdLists : GpuComplete(l)) \/ LoseDevice
  PROVE  Stream!Next
  <1> USE DEF GpuComplete, LoseDevice, queueVars, errorVars, frameVars, listVars
  <1>1. UNCHANGED <<recycled, inUse, Recording, AcceptedEntries, StartedLists, ReleasedList,
                    RefusedList>>
    BY DEF Recording, AcceptedEntries, StartedLists, Unreleased, IssuedList, Issuing,
       ReleasedList, RefusedList
  <1>2. ASSUME NEW l \in CmdLists, GpuComplete(l) PROVE Stream!Next
    <2>1. Stream!Complete(l)
      BY <1>1, <1>2 DEF Stream!Complete
    <2> QED BY <2>1 DEF Stream!Next
  <1>3. CASE LoseDevice
    <2>1. Stream!Lose
      BY <1>1, <1>3 DEF Stream!Lose
    <2> QED BY <2>1 DEF Stream!Next
  <1> QED BY <1>2, <1>3

\* The steps of a client that does not begin or submit an entry.
LEMMA ClientStutters ==
  ASSUME OwnershipInv, NEW c \in Clients,
         UNCHANGED <<submitQueue, finishQueue, recycled, inUse, gpu, lost, result>>,
         \A t \in Threads \ {c} : pc'[t] = pc[t] /\ target'[t] = target[t],
         pc[c] = "submit" <=> pc'[c] = "submit",
         pc[c] = "submit" => target'[c] = target[c]
  PROVE  UNCHANGED Stream!vars
  <1>1. /\ pc'[SubmitThread] = pc[SubmitThread]
        /\ pc'[FinishThread] = pc[FinishThread]
        /\ target'[SubmitThread] = target[SubmitThread]
        /\ target'[FinishThread] = target[FinishThread]
    BY ThreadsDiffer
  <1>2. \A d \in Clients : /\ pc'[d] = "submit" <=> pc[d] = "submit"
                           /\ pc[d] = "submit" => target'[d] = target[d]
    BY ThreadsDiffer
  <1>3. Recording' = Recording
    BY <1>2 DEF Recording
  <1>4. UNCHANGED <<AcceptedEntries, StartedLists, ReleasedList, RefusedList>>
    BY <1>1 DEF AcceptedEntries, StartedLists, Unreleased, IssuedList, Issuing, ReleasedList,
       RefusedList
  <1> QED BY <1>3, <1>4, Stutter

\* The steps of the submit worker between two entries.
LEMMA SubmitStutters ==
  ASSUME OwnershipInv,
         UNCHANGED <<submitQueue, finishQueue, recycled, inUse, gpu, lost, target>>,
         \A t \in Threads \ {SubmitThread} : pc'[t] = pc[t],
         pc[SubmitThread] # "issued", pc'[SubmitThread] # "issued"
  PROVE  UNCHANGED Stream!vars
  <1>1. pc'[FinishThread] = pc[FinishThread] /\ \A d \in Clients : pc'[d] = pc[d]
    BY ThreadsDiffer
  <1>2. Recording' = Recording
    BY <1>1 DEF Recording
  <1>3. UNCHANGED <<AcceptedEntries, StartedLists, ReleasedList, RefusedList>>
    BY <1>1 DEF AcceptedEntries, StartedLists, Unreleased, IssuedList, Issuing, ReleasedList,
       RefusedList
  <1> QED BY <1>2, <1>3, Stutter

\* The steps of the finish worker that neither release nor recycle.
LEMMA FinishStutters ==
  ASSUME OwnershipInv,
         UNCHANGED <<submitQueue, finishQueue, recycled, inUse, gpu, lost>>,
         result'[SubmitThread] = result[SubmitThread],
         \A t \in Threads \ {FinishThread} : pc'[t] = pc[t] /\ target'[t] = target[t],
         pc[FinishThread] \notin {"retire", "recycle"},
         pc'[FinishThread] \notin {"retire", "recycle"}
  PROVE  UNCHANGED Stream!vars
  <1>1. /\ pc'[SubmitThread] = pc[SubmitThread] /\ target'[SubmitThread] = target[SubmitThread]
        /\ \A d \in Clients : pc'[d] = pc[d] /\ target'[d] = target[d]
    BY ThreadsDiffer
  <1>2. Recording' = Recording
    BY <1>1 DEF Recording
  <1>3. UNCHANGED <<AcceptedEntries, StartedLists, ReleasedList, RefusedList>>
    BY <1>1 DEF AcceptedEntries, StartedLists, Unreleased, IssuedList, Issuing, ReleasedList,
       RefusedList
  <1> QED BY <1>2, <1>3, Stutter

\* Every step of the queue is a step of the stream or leaves it alone.
LEMMA StepRefines ==
  ASSUME OwnershipInv, [Next]_vars
  PROVE  [Stream!Next]_(Stream!vars)
  <1> USE ThreadsDiffer
  <1>1. pc \in [Threads -> ClientLabels \cup SubmitLabels \cup FinishLabels]
    BY DEF OwnershipInv, TypeOK
  <1>2. target \in [Threads -> CmdLists \cup {NoList}]
    BY DEF OwnershipInv, TypeOK
  <1>3. ASSUME NEW c \in Clients,
               \/ WaitForSubmission(c) \/ SynchronizeSubmission(c) \/ WaitForResource(c)
               \/ SynchronizeUntil(c) \/ WaitForIdle(c) \/ Close(c) \/ Stop(c) \/ Join(c)
               \/ SubmitBlock(c) \/ SynchronizeSubmissionBlock(c) \/ SynchronizeUntilBlock(c)
               \/ IdleStep(c)
        PROVE  UNCHANGED Stream!vars
    <2> USE <1>1, <1>2 DEF At, Goto, Starts, Sleep, queueVars, errorVars, frameVars, listVars,
            deviceVars
    <2>1. UNCHANGED <<submitQueue, finishQueue, recycled, inUse, gpu, lost, result>>
      BY <1>3 DEF WaitForSubmission, SynchronizeSubmission, WaitForResource,
           SynchronizeUntil, WaitForIdle, Close, Stop, Join, SubmitBlock,
           SynchronizeSubmissionBlock, SynchronizeUntilBlock, IdleStep, Synchronize,
           SynchronizeBlock, LockDeviceQueue, DeviceWaitIdle
    <2>2. \A t \in Threads \ {c} : pc'[t] = pc[t] /\ target'[t] = target[t]
      BY <1>3 DEF WaitForSubmission, SynchronizeSubmission, WaitForResource,
           SynchronizeUntil, WaitForIdle, Close, Stop, Join, SubmitBlock,
           SynchronizeSubmissionBlock, SynchronizeUntilBlock, IdleStep, Synchronize,
           SynchronizeBlock, LockDeviceQueue, DeviceWaitIdle
    <2>3. /\ pc[c] = "submit" <=> pc'[c] = "submit"
          /\ pc[c] = "submit" => target'[c] = target[c]
      <3>1. AfterIdle(c) # "submit"
        BY EntriesDiffer DEF AfterIdle
      <3>2. CASE SubmitBlock(c) \/ SynchronizeSubmissionBlock(c) \/ SynchronizeUntilBlock(c)
        BY <3>2 DEF SubmitBlock, SynchronizeSubmissionBlock, SynchronizeUntilBlock
      <3>3. CASE IdleStep(c)
        BY <3>1, <3>3 DEF IdleStep, Synchronize, SynchronizeBlock, LockDeviceQueue,
             DeviceWaitIdle
      <3>4. CASE \/ WaitForSubmission(c) \/ SynchronizeSubmission(c) \/ WaitForResource(c)
                 \/ SynchronizeUntil(c) \/ WaitForIdle(c) \/ Close(c) \/ Stop(c) \/ Join(c)
        BY <3>4 DEF WaitForSubmission, SynchronizeSubmission, WaitForResource,
             SynchronizeUntil, WaitForIdle, Close, Stop, Join
      <3> QED BY <1>3, <3>2, <3>3, <3>4
    <2> QED BY <2>1, <2>2, <2>3, ClientStutters
  <1>4. ASSUME NEW c \in Clients, SetupFrameInterpolation(c) \/ PresentImage(c)
        PROVE  Stream!Next
    <2>1. PICK e \in Entry \ CmdLists : submitQueue' = Append(submitQueue, e)
      BY <1>4, EntriesDiffer DEF SetupFrameInterpolation, PresentImage, Push, Present
    <2>2. UNCHANGED <<finishQueue, pc, target, result, recycled, inUse, gpu, lost>>
      BY <1>4 DEF SetupFrameInterpolation, PresentImage, errorVars, listVars, deviceVars
    <2> QED BY <2>1, <2>2, PushOtherRefines
  <1>5. CASE TakeEntry \/ TakeEntryBlock \/ CheckLost \/ IdleStep(SubmitThread)
    <2> USE <1>1 DEF At, Goto, Sleep, queueVars, errorVars, frameVars, listVars, deviceVars
    <2>1. AfterIdle(SubmitThread) = "drop"
      BY DEF AfterIdle
    <2>2. /\ UNCHANGED <<submitQueue, finishQueue, recycled, inUse, gpu, lost, target>>
          /\ \A t \in Threads \ {SubmitThread} : pc'[t] = pc[t]
          /\ pc[SubmitThread] # "issued" /\ pc'[SubmitThread] # "issued"
      BY <1>5, <2>1 DEF TakeEntry, TakeEntryBlock, CheckLost, IdleStep, Synchronize,
           SynchronizeBlock, LockDeviceQueue, DeviceWaitIdle
    <2> QED BY <2>2, SubmitStutters
  <1>6. CASE \/ TakeFinished \/ TakeFinishedBlock \/ ReadLastError \/ WaitFence
             \/ FenceFailed \/ IdleStep(FinishThread)
    <2> USE <1>1, <1>2 DEF At, Goto, Sleep, queueVars, errorVars, frameVars, listVars, deviceVars
    <2>1. AfterIdle(FinishThread) = "notify"
      BY DEF AfterIdle
    <2>2. /\ UNCHANGED <<submitQueue, finishQueue, recycled, inUse, gpu, lost>>
          /\ \A t \in Threads \ {FinishThread} : pc'[t] = pc[t] /\ target'[t] = target[t]
      BY <1>6 DEF TakeFinished, TakeFinishedBlock, ReadLastError, WaitFence, FenceFailed,
           IdleStep, Synchronize, SynchronizeBlock, LockDeviceQueue, DeviceWaitIdle
    <2>3. /\ pc[FinishThread] \notin {"retire", "recycle"}
          /\ pc'[FinishThread] \notin {"retire", "recycle"}
      BY <1>6, <2>1 DEF TakeFinished, TakeFinishedBlock, ReadLastError, WaitFence, FenceFailed,
           IdleStep, Synchronize, SynchronizeBlock, LockDeviceQueue, DeviceWaitIdle
    <2>4. result'[SubmitThread] = result[SubmitThread]
      BY <1>6 DEF TakeFinished, TakeFinishedBlock, ReadLastError, WaitFence, FenceFailed,
           IdleStep, Synchronize, SynchronizeBlock, LockDeviceQueue, DeviceWaitIdle,
           OwnershipInv, TypeOK
    <2> QED BY <2>2, <2>3, <2>4, FinishStutters
  <1>7. ASSUME UNCHANGED vars PROVE UNCHANGED Stream!vars
    BY <1>7, Stutter DEF vars, Recording, AcceptedEntries, StartedLists, Unreleased, IssuedList,
       Issuing, ReleasedList, RefusedList
  <1>8. CASE Terminated
    BY <1>7, <1>8 DEF Terminated
  <1> QED
    BY <1>3, <1>4, <1>5, <1>6, <1>7, <1>8, RecordRefines, SubmitPushRefines, IssueRefines,
       RetireEntryStutters, DropEntryRefines, NotifyRefines, RetireFinishedStutters,
       RecycleRefines, GpuRefines
    DEF Next, ClientStep, SubmitStep, FinishStep

\* Initially the stream is empty.
LEMMA InitRefines == Init => Stream!Init
  <1> SUFFICES ASSUME Init PROVE Stream!Init
    OBVIOUS
  <1>1. /\ pc[SubmitThread] = "wait" /\ pc[FinishThread] = "wait"
        /\ target[SubmitThread] = NoList
        /\ \A c \in Clients : pc[c] = "ready"
    BY ThreadsDiffer DEF Init, Workers
  <1>2. /\ Recording = {} /\ ReleasedList = {} /\ RefusedList = {} /\ IssuedList = {}
    BY <1>1 DEF Recording, ReleasedList, RefusedList, IssuedList, Issuing
  <1>3. AcceptedEntries = <<>> /\ StartedLists = <<>>
    BY <1>1, <1>2 DEF Init, AcceptedEntries, StartedLists, Unreleased
  <1> QED BY <1>2, <1>3 DEF Init, Stream!Init

\* The submission queue implements the command stream: entries are issued in
\* the order of their submission, a list in flight keeps its resources, and a
\* list is recorded again only after its release.
THEOREM Refinement == Spec => ImplementsStream
  BY InitRefines, StepRefines, Ownership, PTL DEF Spec, ImplementsStream, Stream!Spec
=============================================================================
