--------------------------- MODULE SubmissionQueue ---------------------------
(***************************************************************************)
(* DxvkSubmissionQueue (src/dxvk/dxvk_queue.cpp) with the DxvkDevice calls *)
(* that wait on it (src/dxvk/dxvk_device.cpp).                             *)
(*                                                                         *)
(* Client threads push command lists and presents.  The submit worker      *)
(* "dxvk-submit" moves them to the Vulkan queue, the finish worker         *)
(* "dxvk-queue" waits for their fences and releases what they used.  A     *)
(* step is the code between two points at which a thread may block or      *)
(* drop m_mutex; a thread whose predicate is false sleeps on its condition *)
(* variable until somebody notifies it, so lost wakeups are visible.       *)
(*                                                                         *)
(* Abstracted: the presenter is the base vk::Presenter, whose synchronize  *)
(* does nothing, so m_lastPresenter and m_presenterInFlight are plain      *)
(* references and are left out; a command list is one vkQueueSubmit; the   *)
(* resources a command list tracks are released together and are named by  *)
(* the list.  Logging, Reflex markers, statistics, Aftermath and the       *)
(* present throttle change none of the state below.                        *)
(***************************************************************************)
EXTENDS Integers, Sequences, FiniteSets

CONSTANTS
  CmdLists,     \* DxvkCommandList objects
  Submitters,   \* threads that record and submit command lists
  Presenting,   \* the CS thread: the one that presents
  Waiters,      \* threads that wait for a submission, a resource or idle
  MaxQueued,    \* MaxNumQueuedCommandBuffers, 18 in dxvk_limits.h
  MaxPresents,  \* bound of the model: presents in the queue at a time
  Failures      \* the errors the Vulkan driver may return

Clients      == Submitters \cup Presenting \cup Waiters
SubmitThread == "dxvk-submit"
FinishThread == "dxvk-queue"
Workers      == {SubmitThread, FinishThread}
Threads      == Clients \cup Workers

NoList  == "none"
Free    == "free"
Awake   == "awake"
Interp  == "interp"                     \* setupFrameInterpolation entry
Present == {"present", "presentFG"}     \* FG: the frame asked for interpolation
Entry   == CmdLists \cup Present \cup {Interp}

Conds   == {"append", "submit", "finish"}
Results == {"SUCCESS", "NOT_READY", "OUT_OF_DATE", "OUT_OF_MEMORY", "DEVICE_LOST"}

ASSUME ConstantsAssumption ==
  /\ Clients \cap Workers = {}
  /\ CmdLists \cap ({NoList, Interp} \cup Present) = {}
  /\ MaxQueued \in Nat
  /\ MaxPresents \in Nat \ {0}
  /\ Failures \subseteq {"OUT_OF_MEMORY", "DEVICE_LOST"}

VARIABLES
  submitQueue,  \* m_submitQueue; its front stays while the worker handles it
  finishQueue,  \* m_finishQueue
  pending,      \* m_pending
  lastError,    \* m_lastError
  stopped,      \* m_stopped
  mutexQueue,   \* owner of m_mutexQueue, or Free
  parked,       \* the condition variable each thread sleeps on, or Awake
  pc,           \* where each thread is
  result,       \* the local "status" of each worker
  status,       \* the DxvkSubmitStatus of the swap chain
  interp,       \* m_currentFrameInterpolationData.valid()
  wantInterp,   \* the frame being built has called setupFrameInterpolation
  target,       \* the list a thread records, submits, waits for or retires
  recycled,     \* lists nobody uses: not created yet, or in the recycler
  inUse,        \* lists whose tracked resources have a non-zero use count
  notified,     \* lists whose DxvkLifetimeTracker::m_notified is set
  submitter,    \* history: the client that last submitted each list
  gpu,          \* lists the GPU is executing
  lost,         \* the device is lost
  closing       \* ~DxvkDevice runs

vars == <<submitQueue, finishQueue, pending, lastError, stopped, mutexQueue,
          parked, pc, result, status, interp, wantInterp, target, recycled,
          inUse, notified, submitter, gpu, lost, closing>>

queueVars  == <<submitQueue, finishQueue, pending>>
errorVars  == <<lastError, stopped>>
frameVars  == <<status, interp, wantInterp>>
listVars   == <<target, recycled, inUse, notified, submitter>>
deviceVars == <<gpu, lost, closing>>

Init ==
  /\ submitQueue = <<>>
  /\ finishQueue = <<>>
  /\ pending = 0
  /\ lastError = "SUCCESS"
  /\ stopped = FALSE
  /\ mutexQueue = Free
  /\ parked = [t \in Threads |-> Awake]
  /\ pc = [t \in Threads |-> IF t \in Workers THEN "wait" ELSE "ready"]
  /\ result = [w \in Workers |-> "NOT_READY"]
  /\ status = "SUCCESS"
  /\ interp = FALSE
  /\ wantInterp = FALSE
  /\ target = [t \in Threads |-> NoList]
  /\ recycled = CmdLists
  /\ inUse = {}
  /\ notified = {}
  /\ submitter = [l \in CmdLists |-> NoList]
  /\ gpu = {}
  /\ lost = FALSE
  /\ closing = FALSE

-----------------------------------------------------------------------------
(* Threads, condition variables and the predicates they wait for.          *)

At(t, label) == pc[t] = label /\ parked[t] = Awake

Goto(t, label) == pc' = [pc EXCEPT ![t] = label]

Sleep(t, cond) ==
  /\ parked' = [parked EXCEPT ![t] = cond]
  /\ UNCHANGED <<queueVars, errorVars, mutexQueue, pc, result, frameVars,
                 listVars, deviceVars>>

Woken(conds) == [t \in Threads |-> IF parked[t] \in conds THEN Awake ELSE parked[t]]

InQueue(q) == {q[i] : i \in DOMAIN q}

-----------------------------------------------------------------------------
(* Faulty variants of definitions below, one for each property: what the    *)
(* code would do with a plausible bug.  The specification uses none.        *)

\* submit() forgets the lists that wait for their fence.
RoomInSubmitQueue == Len(submitQueue) <= MaxQueued

\* The worker takes the front out of the queue before it handles it.
DrainedButFront == Len(submitQueue) <= 1 \/ stopped \/ lastError = "DEVICE_LOST"

\* synchronize() does not know that the device is lost.
DrainedOrStopped == submitQueue = <<>> \/ stopped

\* A failed present leaves its status as it was.
StatusOnSuccess(r) == IF r = "SUCCESS" THEN r ELSE status

\* A refused list goes to the finish worker all the same.
HandOverRefused ==
  IF Head(submitQueue) \in CmdLists THEN Append(finishQueue, Head(submitQueue))
  ELSE finishQueue

\* A finished list is not counted out.
NeverCountedOut == pending

\* Only the worker of the submit queue learns that the queue is stopped.
WokenAppendOnly == Woken({"append"})

\* The finish worker notifies the wrong condition variable.
WokenSubmitOnly == Woken({"submit"})

\* A time-out of vkWaitForFences counts as success.
TimeoutIsSuccess(l) == {"SUCCESS"}

\* notifyObjects is not called.
NothingNotified == {}

\* After a failed fence the objects are notified at once.
NotifyWithoutIdle ==
  /\ At(FinishThread, "failed")
  /\ lastError' = result[FinishThread]
  /\ Goto(FinishThread, "notify")
  /\ UNCHANGED <<queueVars, stopped, mutexQueue, parked, result, frameVars,
                 listVars, deviceVars>>

-----------------------------------------------------------------------------
(* The predicates of the condition variables.                              *)

QueueHasRoom == Len(submitQueue) + Len(finishQueue) <= MaxQueued

QueueDead == stopped \/ lastError = "DEVICE_LOST"

Drained == submitQueue = <<>> \/ QueueDead

Presented == status # "NOT_READY" \/ QueueDead

Push(e) ==
  /\ submitQueue' = Append(submitQueue, e)
  /\ parked' = Woken({"append"})

-----------------------------------------------------------------------------
(* Client threads.                                                         *)

\* A client begins an operation: between two of them, device not closing.
Starts(c) == At(c, "ready") /\ ~closing

\* createCommandList and the first trackResource of the recording.  A list
\* whose resource a blocked thread waits for is not recorded again: that
\* thread is the one that would record it.
Record(c) ==
  /\ Starts(c)
  /\ \E l \in recycled :
       /\ \A w \in Clients : pc[w] = "waitResource" => target[w] # l
       /\ recycled' = recycled \ {l}
       /\ inUse' = inUse \cup {l}
       /\ target' = [target EXCEPT ![c] = l]
  /\ Goto(c, "submit")
  /\ UNCHANGED <<queueVars, errorVars, mutexQueue, parked, result, frameVars,
                 notified, submitter, deviceVars>>

SubmitPush(c) ==
  /\ At(c, "submit")
  /\ QueueHasRoom
  /\ Push(target[c])
  /\ pending' = pending + 1
  /\ submitter' = [submitter EXCEPT ![target[c]] = c]
  /\ target' = [target EXCEPT ![c] = NoList]
  /\ Goto(c, "ready")
  /\ UNCHANGED <<finishQueue, errorVars, mutexQueue, result, frameVars,
                 recycled, inUse, notified, deviceVars>>

SubmitBlock(c) == At(c, "submit") /\ ~QueueHasRoom /\ Sleep(c, "finish")

SetupFrameInterpolation(c) ==
  /\ Starts(c)
  /\ ~wantInterp
  /\ Push(Interp)
  /\ wantInterp' = TRUE
  /\ UNCHANGED <<finishQueue, pending, errorVars, mutexQueue, pc, result,
                 status, interp, listVars, deviceVars>>

\* The swap chain synchronizes with its last present before it presents
\* again, and the thread that waits is the one that asked for the present.
PresentImage(c) ==
  /\ Starts(c)
  /\ status # "NOT_READY"
  /\ \A w \in Clients : pc[w] # "waitSubmission"
  /\ Cardinality({i \in DOMAIN submitQueue : submitQueue[i] \in Present}) < MaxPresents
  /\ Push(IF wantInterp THEN "presentFG" ELSE "present")
  /\ status' = "NOT_READY"
  /\ wantInterp' = FALSE
  /\ UNCHANGED <<finishQueue, pending, errorVars, mutexQueue, pc, result,
                 interp, listVars, deviceVars>>

WaitForSubmission(c) ==
  /\ Starts(c)
  /\ status = "NOT_READY"
  /\ Goto(c, "waitSubmission")
  /\ UNCHANGED <<queueVars, errorVars, mutexQueue, parked, result, frameVars,
                 listVars, deviceVars>>

SynchronizeSubmission(c) ==
  /\ At(c, "waitSubmission")
  /\ Presented
  /\ status' = IF status # "NOT_READY" THEN status
               ELSE IF lastError # "SUCCESS" THEN lastError
               ELSE "DEVICE_LOST"
  /\ Goto(c, "ready")
  /\ UNCHANGED <<queueVars, errorVars, mutexQueue, parked, result, interp,
                 wantInterp, listVars, deviceVars>>

SynchronizeSubmissionBlock(c) ==
  At(c, "waitSubmission") /\ ~Presented /\ Sleep(c, "submit")

\* The callers flush and synchronize the CS thread first, so the lists that
\* use the resource have been submitted.
WaitForResource(c) ==
  /\ Starts(c)
  /\ \E l \in inUse \ {target[d] : d \in {x \in Clients : pc[x] = "submit"}} :
       target' = [target EXCEPT ![c] = l]
  /\ Goto(c, "waitResource")
  /\ UNCHANGED <<queueVars, errorVars, mutexQueue, parked, result, frameVars,
                 recycled, inUse, notified, submitter, deviceVars>>

SynchronizeUntil(c) ==
  /\ At(c, "waitResource")
  /\ target[c] \notin inUse
  /\ target' = [target EXCEPT ![c] = NoList]
  /\ Goto(c, "ready")
  /\ UNCHANGED <<queueVars, errorVars, mutexQueue, parked, result, frameVars,
                 recycled, inUse, notified, submitter, deviceVars>>

SynchronizeUntilBlock(c) ==
  At(c, "waitResource") /\ target[c] \in inUse /\ Sleep(c, "finish")

-----------------------------------------------------------------------------
(* DxvkDevice::waitForIdle, called by clients and by both workers.         *)

WaitForIdle(c) ==
  /\ Starts(c)
  /\ Goto(c, "synchronize")
  /\ UNCHANGED <<queueVars, errorVars, mutexQueue, parked, result, frameVars,
                 listVars, deviceVars>>

Synchronize(t) ==
  /\ At(t, "synchronize")
  /\ Drained
  /\ Goto(t, "lockQueue")
  /\ UNCHANGED <<queueVars, errorVars, mutexQueue, parked, result, frameVars,
                 listVars, deviceVars>>

SynchronizeBlock(t) == At(t, "synchronize") /\ ~Drained /\ Sleep(t, "submit")

LockDeviceQueue(t) ==
  /\ At(t, "lockQueue")
  /\ mutexQueue = Free
  /\ mutexQueue' = t
  /\ Goto(t, "deviceIdle")
  /\ UNCHANGED <<queueVars, errorVars, parked, result, frameVars, listVars,
                 deviceVars>>

AfterIdle(t) ==
  CASE t = SubmitThread -> "drop"
    [] t = FinishThread -> "notify"
    [] t \in Clients    -> IF closing THEN "stop" ELSE "ready"

\* vkDeviceWaitIdle returns when the GPU is idle or the device is lost (the
\* error is only logged); then unlockSubmission.
DeviceWaitIdle(t) ==
  /\ At(t, "deviceIdle")
  /\ gpu = {} \/ lost
  /\ mutexQueue' = Free
  /\ Goto(t, AfterIdle(t))
  /\ UNCHANGED <<queueVars, errorVars, parked, result, frameVars, listVars,
                 deviceVars>>

IdleStep(t) ==
  Synchronize(t) \/ SynchronizeBlock(t) \/ LockDeviceQueue(t) \/ DeviceWaitIdle(t)

-----------------------------------------------------------------------------
(* ~DxvkDevice waits for idle, then destroys the queue.                    *)

Close(c) ==
  /\ Starts(c)
  /\ \A d \in Clients : pc[d] = "ready"
  /\ closing' = TRUE
  /\ Goto(c, "synchronize")
  /\ UNCHANGED <<queueVars, errorVars, mutexQueue, parked, result, frameVars,
                 listVars, gpu, lost>>

WokenByStop == Woken({"append", "submit"})

Stop(c) ==
  /\ At(c, "stop")
  /\ stopped' = TRUE
  /\ parked' = WokenByStop
  /\ Goto(c, "join")
  /\ UNCHANGED <<queueVars, lastError, mutexQueue, result, frameVars, listVars,
                 deviceVars>>

Join(c) ==
  /\ At(c, "join")
  /\ \A w \in Workers : pc[w] = "exited"
  /\ Goto(c, "done")
  /\ UNCHANGED <<queueVars, errorVars, mutexQueue, parked, result, frameVars,
                 listVars, deviceVars>>

-----------------------------------------------------------------------------
(* submitCmdLists.  The entry being handled is the front of submitQueue.   *)

TakeEntry ==
  /\ At(SubmitThread, "wait")
  /\ stopped \/ submitQueue # <<>>
  /\ Goto(SubmitThread, IF stopped THEN "exited" ELSE "check")
  /\ UNCHANGED <<queueVars, errorVars, mutexQueue, parked, result, frameVars,
                 listVars, deviceVars>>

TakeEntryBlock ==
  /\ At(SubmitThread, "wait")
  /\ ~stopped
  /\ submitQueue = <<>>
  /\ Sleep(SubmitThread, "append")

\* The test of m_lastError before m_mutexQueue is taken.
CheckLost ==
  /\ At(SubmitThread, "check")
  /\ lastError # "DEVICE_LOST"
  /\ Goto(SubmitThread, "issue")
  /\ UNCHANGED <<queueVars, errorVars, mutexQueue, parked, result, frameVars,
                 listVars, deviceVars>>

\* Nothing is submitted after device loss; a present learns of it.
SkipLost ==
  /\ At(SubmitThread, "check")
  /\ lastError = "DEVICE_LOST"
  /\ result' = [result EXCEPT ![SubmitThread] = "DEVICE_LOST"]
  /\ status' = IF Head(submitQueue) \in Present THEN "DEVICE_LOST" ELSE status
  /\ Goto(SubmitThread, "issued")
  /\ UNCHANGED <<queueVars, errorVars, mutexQueue, parked, interp, wantInterp,
                 listVars, deviceVars>>

\* What the driver may answer to a submission and to a present.
SubmitResults ==
  IF lost THEN {"DEVICE_LOST"} ELSE {"SUCCESS"} \cup (Failures \ {"DEVICE_LOST"})

PresentResults == IF lost THEN {"DEVICE_LOST"} ELSE {"SUCCESS", "OUT_OF_DATE"}

IssueList ==
  /\ At(SubmitThread, "issue")
  /\ mutexQueue = Free
  /\ Head(submitQueue) \in CmdLists
  /\ \E r \in SubmitResults :
       /\ result' = [result EXCEPT ![SubmitThread] = r]
       /\ gpu' = IF r = "SUCCESS" THEN gpu \cup {Head(submitQueue)} ELSE gpu
  /\ Goto(SubmitThread, "issued")
  /\ UNCHANGED <<queueVars, errorVars, mutexQueue, parked, frameVars, listVars,
                 lost, closing>>

\* Stashes the data for the next present; the status stays NOT_READY.
IssueInterp ==
  /\ At(SubmitThread, "issue")
  /\ mutexQueue = Free
  /\ Head(submitQueue) = Interp
  /\ interp' = TRUE
  /\ result' = [result EXCEPT ![SubmitThread] = "NOT_READY"]
  /\ Goto(SubmitThread, "issued")
  /\ UNCHANGED <<queueVars, errorVars, mutexQueue, parked, status, wantInterp,
                 listVars, deviceVars>>

\* The interpolation data is used up by the present, whatever its outcome.
InterpAfterPresent == FALSE

\* The result goes to the status the swap chain waits for.
PublishedStatus(r) == r

IssuePresent ==
  /\ At(SubmitThread, "issue")
  /\ mutexQueue = Free
  /\ Head(submitQueue) \in Present
  /\ \E r \in PresentResults :
       /\ result' = [result EXCEPT ![SubmitThread] = r]
       /\ status' = PublishedStatus(r)
  /\ interp' = InterpAfterPresent
  /\ Goto(SubmitThread, "issued")
  /\ UNCHANGED <<queueVars, errorVars, mutexQueue, parked, wantInterp, listVars,
                 deviceVars>>

SubmissionFailed ==
  \/ result[SubmitThread] = "DEVICE_LOST"
  \/ /\ Head(submitQueue) \in CmdLists
     /\ result[SubmitThread] # "SUCCESS"

\* Hands a submitted list to the finish worker.
HandOver ==
  IF result[SubmitThread] = "SUCCESS" /\ Head(submitQueue) \in CmdLists
  THEN Append(finishQueue, Head(submitQueue))
  ELSE finishQueue

\* What the worker still holds after the entry has left the queue.
FailedList ==
  IF SubmissionFailed /\ Head(submitQueue) \in CmdLists
  THEN Head(submitQueue) ELSE NoList

ErrorAfterRetire == IF SubmissionFailed THEN result[SubmitThread] ELSE lastError

\* A failed list is never counted out.
PendingAfterRetire == pending

RetireEntry ==
  /\ At(SubmitThread, "issued")
  /\ finishQueue' = HandOver
  /\ submitQueue' = Tail(submitQueue)
  /\ lastError' = ErrorAfterRetire
  /\ pending' = PendingAfterRetire
  /\ target' = [target EXCEPT ![SubmitThread] = FailedList]
  /\ parked' = Woken({"submit"})
  /\ Goto(SubmitThread, IF SubmissionFailed THEN "synchronize" ELSE "wait")
  /\ UNCHANGED <<stopped, mutexQueue, result, frameVars, recycled,
                 inUse, notified, submitter, deviceVars>>

\* The entry goes out of scope: a failed list is destroyed, which resets its
\* lifetime tracker.  That releases the resources only if the tracker was never
\* notified, and wakes nobody.
DropEntry ==
  /\ At(SubmitThread, "drop")
  /\ inUse' = inUse \ ({target[SubmitThread]} \ notified)
  /\ target' = [target EXCEPT ![SubmitThread] = NoList]
  /\ Goto(SubmitThread, "wait")
  /\ UNCHANGED <<queueVars, errorVars, mutexQueue, parked, result, frameVars,
                 recycled, notified, submitter, deviceVars>>

-----------------------------------------------------------------------------
(* finishCmdLists.  target[FinishThread] is the local "entry".             *)

TakeFinished ==
  /\ At(FinishThread, "wait")
  /\ stopped \/ finishQueue # <<>>
  /\ Goto(FinishThread, IF stopped THEN "exited" ELSE "readError")
  /\ target' = IF stopped THEN target
               ELSE [target EXCEPT ![FinishThread] = Head(finishQueue)]
  /\ UNCHANGED <<queueVars, errorVars, mutexQueue, parked, result, frameVars,
                 recycled, inUse, notified, submitter, deviceVars>>

TakeFinishedBlock ==
  /\ At(FinishThread, "wait")
  /\ ~stopped
  /\ finishQueue = <<>>
  /\ Sleep(FinishThread, "submit")

ReadLastError ==
  /\ At(FinishThread, "readError")
  /\ result' = [result EXCEPT ![FinishThread] = lastError]
  /\ Goto(FinishThread, IF lastError = "DEVICE_LOST" THEN "failed" ELSE "fence")
  /\ UNCHANGED <<queueVars, errorVars, mutexQueue, parked, frameVars, listVars,
                 deviceVars>>

\* vkWaitForFences, called again for as long as it times out.
FenceResults(l) ==
  IF l \notin gpu THEN {"SUCCESS"}
  ELSE (IF lost THEN {"DEVICE_LOST"} ELSE {}) \cup (Failures \ {"DEVICE_LOST"})

WaitFence ==
  /\ At(FinishThread, "fence")
  /\ \E r \in FenceResults(target[FinishThread]) :
       /\ result' = [result EXCEPT ![FinishThread] = r]
       /\ Goto(FinishThread, IF r = "SUCCESS" THEN "notify" ELSE "failed")
  /\ UNCHANGED <<queueVars, errorVars, mutexQueue, parked, frameVars, listVars,
                 deviceVars>>

FenceFailed ==
  /\ At(FinishThread, "failed")
  /\ lastError' = result[FinishThread]
  /\ Goto(FinishThread, "synchronize")
  /\ UNCHANGED <<queueVars, stopped, mutexQueue, parked, result, frameVars,
                 listVars, deviceVars>>

NotifiedLists == {target[FinishThread]}

NotifyObjects ==
  /\ At(FinishThread, "notify")
  /\ inUse' = inUse \ NotifiedLists
  /\ notified' = notified \cup {target[FinishThread]}
  /\ Goto(FinishThread, "retire")
  /\ UNCHANGED <<queueVars, errorVars, mutexQueue, parked, result, frameVars,
                 target, recycled, submitter, deviceVars>>

\* Who is woken when a finished list leaves the queue.
WokenByFinish == Woken({"finish"})

PendingAfterFinish == pending - 1

RetireFinished ==
  /\ At(FinishThread, "retire")
  /\ pending' = PendingAfterFinish
  /\ finishQueue' = Tail(finishQueue)
  /\ parked' = WokenByFinish
  /\ Goto(FinishThread, "recycle")
  /\ UNCHANGED <<submitQueue, errorVars, mutexQueue, result, frameVars,
                 listVars, deviceVars>>

Recycle ==
  /\ At(FinishThread, "recycle")
  /\ recycled' = recycled \cup {target[FinishThread]}
  /\ target' = [target EXCEPT ![FinishThread] = NoList]
  /\ Goto(FinishThread, "wait")
  /\ UNCHANGED <<queueVars, errorVars, mutexQueue, parked, result, frameVars,
                 inUse, notified, submitter, deviceVars>>

-----------------------------------------------------------------------------
(* The GPU and the driver.                                                 *)

GpuComplete(l) ==
  /\ l \in gpu
  /\ ~lost
  /\ gpu' = gpu \ {l}
  /\ UNCHANGED <<queueVars, errorVars, mutexQueue, parked, pc, result,
                 frameVars, listVars, lost, closing>>

LoseDevice ==
  /\ "DEVICE_LOST" \in Failures
  /\ ~lost
  /\ lost' = TRUE
  /\ UNCHANGED <<queueVars, errorVars, mutexQueue, parked, pc, result,
                 frameVars, listVars, gpu, closing>>

\* The process is done: every thread has returned.
Terminated == (\E c \in Clients : pc[c] = "done") /\ UNCHANGED vars

-----------------------------------------------------------------------------

ClientStep(c) ==
  \/ SubmitPush(c) \/ SubmitBlock(c)
  \/ SynchronizeSubmission(c) \/ SynchronizeSubmissionBlock(c)
  \/ SynchronizeUntil(c) \/ SynchronizeUntilBlock(c)
  \/ IdleStep(c) \/ Stop(c) \/ Join(c)

SubmitStep ==
  \/ TakeEntry \/ TakeEntryBlock \/ CheckLost \/ SkipLost
  \/ IssueList \/ IssueInterp \/ IssuePresent \/ RetireEntry
  \/ DropEntry
  \/ IdleStep(SubmitThread)

FinishStep ==
  \/ TakeFinished \/ TakeFinishedBlock \/ ReadLastError \/ WaitFence
  \/ FenceFailed \/ NotifyObjects \/ RetireFinished \/ Recycle
  \/ IdleStep(FinishThread)

Next ==
  \/ \E c \in Submitters : Record(c)
  \/ \E c \in Presenting : SetupFrameInterpolation(c) \/ PresentImage(c)
  \/ \E c \in Waiters : \/ WaitForSubmission(c) \/ WaitForResource(c)
                        \/ WaitForIdle(c) \/ Close(c)
  \/ \E c \in Clients : ClientStep(c)
  \/ SubmitStep
  \/ FinishStep
  \/ \E l \in CmdLists : GpuComplete(l)
  \/ LoseDevice
  \/ Terminated

Spec == Init /\ [][Next]_vars

\* Every thread that can run does, and the GPU finishes what it was given.
\* Nobody is obliged to begin an operation or to lose the device.
Fairness ==
  /\ \A c \in Clients : WF_vars(ClientStep(c))
  /\ WF_vars(SubmitStep)
  /\ WF_vars(FinishStep)
  /\ \A l \in CmdLists : WF_vars(GpuComplete(l))

FairSpec == Spec /\ Fairness

-----------------------------------------------------------------------------
(* Safety.                                                                 *)

ClientLabels == {"ready", "submit", "waitSubmission", "waitResource", "synchronize",
                 "lockQueue", "deviceIdle", "stop", "join", "done"}
SubmitLabels == {"wait", "check", "issue", "issued", "synchronize", "lockQueue",
                 "deviceIdle", "drop", "exited"}
FinishLabels == {"wait", "readError", "fence", "failed", "synchronize", "lockQueue",
                 "deviceIdle", "notify", "retire", "recycle", "exited"}

\* Every variable has the type its declaration in dxvk_queue.h gives it.
TypeOK ==
  /\ submitQueue \in Seq(Entry)
  /\ finishQueue \in Seq(CmdLists)
  /\ pending \in Int
  /\ lastError \in Results
  /\ stopped \in BOOLEAN
  /\ mutexQueue \in Threads \cup {Free}
  /\ parked \in [Threads -> Conds \cup {Awake}]
  /\ pc \in [Threads -> ClientLabels \cup SubmitLabels \cup FinishLabels]
  /\ result \in [Workers -> Results]
  /\ status \in Results
  /\ interp \in BOOLEAN
  /\ wantInterp \in BOOLEAN
  /\ target \in [Threads -> CmdLists \cup {NoList}]
  /\ recycled \subseteq CmdLists
  /\ inUse \subseteq CmdLists
  /\ notified \subseteq CmdLists
  /\ submitter \in [CmdLists -> Clients \cup {NoList}]
  /\ gpu \subseteq CmdLists
  /\ lost \in BOOLEAN
  /\ closing \in BOOLEAN

Lists(q) == InQueue(q) \cap CmdLists

\* A resource the GPU still works on is never reported idle: its use count is
\* released only after the fence of its list, or after waitForIdle when the
\* fence could not be waited for.  WaitForResource and the renaming of mapped
\* buffers rely on it.
InUseWhileExecuting == ~lost => gpu \subseteq inUse

\* A command list is recorded again only when neither queue holds it and the
\* GPU is done with it: the recycler never hands out a list in flight.
RecycledIsIdle ==
  /\ recycled \cap (Lists(submitQueue) \cup InQueue(finishQueue)) = {}
  /\ recycled \cap inUse = {}
  /\ ~lost => recycled \cap gpu = {}

\* Back pressure: a list handed from one queue to the other is never counted
\* out, so at most MaxQueued + 1 lists are between submit() and their release.
QueueBound == Cardinality(Lists(submitQueue)) + Len(finishQueue) <= MaxQueued + 1

\* waitForIdle: when it returns to a client of a live queue, nothing that
\* client submitted before is queued or executing.
IdleMeansDone ==
  [][\A c \in Clients :
       pc[c] = "deviceIdle" /\ pc'[c] # "deviceIdle" /\ ~QueueDead /\ ~lost
       => \A l \in CmdLists :
            submitter[l] = c => l \notin Lists(submitQueue') \cup gpu']_vars

\* Once the device is known to be lost it stays so: "Don't submit anything
\* after device loss" (dxvk_queue.cpp:359) reads the flag that says it.
LossIsSticky == [][lastError = "DEVICE_LOST" => lastError' = "DEVICE_LOST"]_vars

-----------------------------------------------------------------------------
(* Liveness.                                                               *)

\* A producer blocked by back pressure gets through.
SubmitReturns == \A c \in Clients : pc[c] = "submit" ~> pc[c] # "submit"

\* waitForSubmission returns, device loss included: "Let a dead queue break
\* the wait too" (dxvk_queue.cpp:202-205).
WaitForSubmissionReturns ==
  \A c \in Clients : pc[c] = "waitSubmission" ~> pc[c] # "waitSubmission"

\* waitForResource returns once the GPU has finished with the resource.
WaitForResourceReturns ==
  \A c \in Clients : pc[c] = "waitResource" ~> pc[c] # "waitResource"

\* The other threads stop pushing at some point.
ProducersPause == <>[][Len(submitQueue') <= Len(submitQueue)]_vars

\* waitForIdle returns to the client that called it, provided the others pause:
\* synchronize() waits for an empty queue, which a busy producer can keep from
\* it for ever.
WaitForIdleReturns ==
  ProducersPause =>
    \A c \in Clients : pc[c] = "synchronize" ~> pc[c] \in {"ready", "stop"}

\* The same for the submit worker, which calls it after a failed submission
\* and is itself the only one to drain the queue (dxvk_queue.cpp:413-417).
WorkerIdleReturns ==
  pc[SubmitThread] = "synchronize" ~> pc[SubmitThread] # "synchronize"

\* ~DxvkSubmissionQueue: both workers see the stop request and are joined.
ShutdownCompletes ==
  \A c \in Clients : pc[c] = "stop" ~> pc[c] = "done"

\* m_pending is the "number of pending submissions" (dxvk_queue.h:123).
PendingIsQueued ==
  pc[SubmitThread] = "wait" /\ pc[FinishThread] = "wait"
  => pending = Cardinality(Lists(submitQueue) \cup InQueue(finishQueue))

-----------------------------------------------------------------------------
(* The command stream the two queues implement.  An entry leaves the stream *)
(* when it has been issued or refused, and a list is released when the      *)
(* finish worker notifies its objects: each a little before the code takes  *)
(* it from its queue.                                                       *)

Issuing == pc[SubmitThread] = "issued" /\ Head(submitQueue) \in CmdLists

IssuedList ==
  IF Issuing /\ result[SubmitThread] = "SUCCESS" THEN {Head(submitQueue)} ELSE {}

RefusedList ==
  IF Issuing /\ result[SubmitThread] # "SUCCESS" THEN {Head(submitQueue)}
  ELSE {target[SubmitThread]} \ {NoList}

ReleasedList ==
  IF pc[FinishThread] \in {"retire", "recycle"} THEN {target[FinishThread]} ELSE {}

Recording == {target[c] : c \in {d \in Clients : pc[d] = "submit"}}

AcceptedEntries ==
  IF pc[SubmitThread] = "issued" THEN Tail(submitQueue) ELSE submitQueue

Unreleased == IF pc[FinishThread] = "retire" THEN Tail(finishQueue) ELSE finishQueue

StartedLists ==
  IF IssuedList = {} THEN Unreleased ELSE Append(Unreleased, Head(submitQueue))

Stream == INSTANCE CommandStream WITH
  Others    <- Entry \ CmdLists,
  idle      <- recycled,
  recording <- Recording,
  accepted  <- AcceptedEntries,
  started   <- StartedLists,
  released  <- ReleasedList,
  refused   <- RefusedList,
  executing <- IF lost THEN {} ELSE gpu,
  busy      <- inUse

\* The queue implements the command stream: order, exclusive ownership of a
\* list, and release of resources only after the GPU.
ImplementsStream == Stream!Spec

-----------------------------------------------------------------------------
(* The inductive invariant: who owns each command list.                    *)

SubmitHolds == pc[SubmitThread] \in {"check", "issue", "issued"}

FinishHolds == pc[FinishThread] \in FinishLabels \ {"wait", "recycle", "exited"}

RecyclingList ==
  IF pc[FinishThread] = "recycle" THEN {target[FinishThread]} ELSE {}

\* What a worker keeps in its local "entry".
EntriesInv ==
  /\ SubmitHolds => submitQueue # <<>>
  /\ FinishHolds => finishQueue # <<>> /\ target[FinishThread] = Head(finishQueue)
  /\ pc[FinishThread] = "recycle" => target[FinishThread] \in CmdLists
  /\ pc[SubmitThread] \notin {"synchronize", "lockQueue", "deviceIdle", "drop"}
       => target[SubmitThread] = NoList

NoRepeats(q, S) == \A i, j \in DOMAIN q : q[i] \in S /\ q[i] = q[j] => i = j

\* No list is twice in a queue or recorded by two threads.
DistinctInv ==
  /\ NoRepeats(submitQueue, CmdLists)
  /\ NoRepeats(finishQueue, CmdLists)
  /\ \A c, d \in Clients :
       pc[c] = "submit" /\ pc[d] = "submit" /\ target[c] = target[d] => c = d

\* A list has one owner: the recycler, the thread that records it, one of the
\* queues, the submit worker that drops it or the finish worker that recycles it.
OwnerInv ==
  /\ InQueue(submitQueue) \cap InQueue(finishQueue) = {}
  /\ Recording \subseteq CmdLists
  /\ Recording \cap (InQueue(submitQueue) \cup InQueue(finishQueue)) = {}
  /\ recycled \cap (InQueue(submitQueue) \cup InQueue(finishQueue) \cup Recording) = {}
  /\ target[SubmitThread] \notin
       recycled \cup InQueue(submitQueue) \cup InQueue(finishQueue) \cup Recording
  /\ RecyclingList \cap ( recycled \cup InQueue(submitQueue) \cup InQueue(finishQueue)
                          \cup Recording \cup {target[SubmitThread]}) = {}

\* The GPU executes only lists that wait for their fence, and none whose fence
\* the finish worker has seen.
GpuInv ==
  ~lost => /\ gpu \subseteq InQueue(finishQueue) \cup IssuedList
           /\ pc[FinishThread] \in {"notify", "retire"} => target[FinishThread] \notin gpu

\* Resources are in use from the recording to the release, and not after.
UseInv ==
  /\ Recording \subseteq inUse
  /\ Lists(submitQueue) \subseteq inUse
  /\ InQueue(finishQueue) \subseteq inUse \cup ReleasedList
  /\ ReleasedList \cap inUse = {}
  /\ recycled \cap inUse = {}

OwnershipInv == TypeOK /\ EntriesInv /\ DistinctInv /\ OwnerInv /\ GpuInv /\ UseInv
=============================================================================
