--------------------------- MODULE FrameGeneration ---------------------------
(***************************************************************************)
(* One swap chain presenting through the frame generation presenter:       *)
(* the application's Present (D3D11SwapChain), the CS thread and the       *)
(* submission worker a present passes through, the present thread and the  *)
(* pacer thread of DxvkDLFGPresenter, and, as environment, the GPU, the    *)
(* driver's results and the presentation engine that owns the swap chain   *)
(* images.                                                                 *)
(*                                                                         *)
(* The present thread holds m_presentThread.mutex except while it waits    *)
(* for work, so every other user of that mutex is an action enabled only   *)
(* when MutexFree.  The status of a present is one variable shared by all  *)
(* frames, as in the code.  All driver failures are one value, Error;      *)
(* device loss is the subject of SubmissionQueue.                          *)
(***************************************************************************)
EXTENDS Integers, Sequences, FiniteSets, SequencesExt, FiniteSetsExt

CONSTANTS Backbuffers,     \* m_appRequestedImageCount
          MaxInterpolated, \* bound on the interpolated frames per frame
          Latency,         \* GetActualFrameLatency()
          MaxFrame,        \* bound: frames the application presents
          MaxRecreate,     \* bound: swap chains created after the first
          MaxRetries,      \* the 3 of the acquire loop in PresentImage
          Worlds           \* environments, one of which a behaviour has

(***************************************************************************)
(* faults:   the driver calls of the present thread that may fail          *)
(* changes:  the user changes the multiplier and the application dirties   *)
(*           the swap chain (vsync, mode)                                  *)
(* overtake: the present thread may post a frame's status while a later    *)
(*           present has not reached the presenter                         *)
(***************************************************************************)
Calls == {"interpolatedAcquire", "firstPresent", "pacedPresent",
          "renderedAcquire", "renderedPresent"}

ASSUME FGAssumption ==
    /\ Backbuffers \in Nat \ {0, 1}
    /\ {MaxInterpolated, Latency, MaxFrame} \subseteq Nat \ {0}
    /\ {MaxRecreate, MaxRetries} \subseteq Nat
    /\ Worlds \subseteq [faults : SUBSET Calls, changes : BOOLEAN, overtake : BOOLEAN]

Success  == "VK_SUCCESS"
NotReady == "VK_NOT_READY"
EventSet == "VK_EVENT_SET"
Error    == "VK_ERROR_OUT_OF_DATE_KHR"

kPacerDoNotWait == -1

VARIABLES
    world,       \* the environment of this behaviour
    multiplier,  \* dlfgInterpolatedFrameCount()
    (* the application *)
    apc, frameId, index, retries, site, resume,
    status,      \* m_presentStatus.result
    (* CS thread and submission worker *)
    csQueue, submitQueue, spc,
    (* GPU: lists submitted and not complete, m_frameLatencySignal, and     *)
    (* whether a signal of a backbuffer's acquire semaphore is pending      *)
    gpuLists, latencySignal, acquireSem,
    (* the presenter, guarded by m_presentThread.mutex *)
    lastStatus, inFlight, presentQueue, generation,
    (* the present thread's locals *)
    ppc, pi, acquired, pacerValueLocal, useMetering,
    (* the real swap chain: its size, images free, queued and on screen *)
    imageCount, free, engine, shown,
    (* the pacer thread *)
    pcpc, pacerQueue, pacerSem, pacerValue

appVars     == <<apc, frameId, index, retries, site, resume>>
pipeVars    == <<csQueue, submitQueue, spc>>
gpuVars     == <<gpuLists, latencySignal>>
localVars   == <<pi, acquired, pacerValueLocal, useMetering>>
chainVars   == <<imageCount, free, engine, shown>>
pacerVars   == <<pcpc, pacerQueue, pacerSem, pacerValue>>
sharedVars  == <<status, acquireSem, lastStatus, inFlight, presentQueue, generation>>
vars == <<world, multiplier, appVars, sharedVars, pipeVars, gpuVars, ppc, localVars,
          chainVars, pacerVars>>

Images == 0 .. Backbuffers - 1
Frames == 1 .. MaxFrame
Frame  == [frame : Frames, image : Images, interpolated : 0 .. MaxInterpolated,
           generation : 0 .. MaxRecreate]

(* The swap chain images a frame with k interpolated frames needs.         *)
NoRenderedImage(k) == k
ImagesNeeded(k)    == k + 1

(* The acquire semaphores of new backbuffers are signalled at creation.    *)
KeepSemaphores(sems)  == sems
FreshSemaphores(sems) == [i \in Images |-> TRUE]

(* CallbackFence is created with the first frame number, so that the       *)
(* subtraction in SyncFrameLatency does not wrap.                          *)
FirstFrame == 0

Init ==
    /\ world \in Worlds
    /\ multiplier \in 1 .. MaxInterpolated
    /\ apc = "idle" /\ frameId = FirstFrame /\ index = 0 /\ retries = 0
    /\ site = "none" /\ resume = "acquire"
    /\ status = Success
    /\ csQueue = <<>> /\ submitQueue = <<>> /\ spc = "idle"
    /\ gpuLists = <<>> /\ latencySignal = FirstFrame
    /\ acquireSem = [i \in Images |-> TRUE]
    /\ lastStatus = Success /\ inFlight = {} /\ presentQueue = <<>> /\ generation = 0
    /\ ppc = "wait" /\ pi = 0 /\ acquired = {} /\ pacerValueLocal = kPacerDoNotWait
    /\ useMetering = FALSE
    /\ imageCount = ImagesNeeded(multiplier) /\ free = imageCount /\ engine = <<>> /\ shown = 0
    /\ pcpc = "wait" /\ pacerQueue = <<>> /\ pacerSem = 0 /\ pacerValue = 0

(* The mutex of the present thread: held by that thread unless it waits    *)
(* for work, and by the application between its test of the pacer's queue  *)
(* and its sleep.                                                          *)
MutexFree == ppc \in {"wait", "exited"} /\ apc # "testPassed"

(* m_mutex of the submission queue is held while the queue's synchronize   *)
(* waits for its last presenter.                                           *)
QueueFree == ~(site = "queue" /\ apc \in {"sync", "testPassed", "asleep", "retest"})
-----------------------------------------------------------------------------
(* D3D11SwapChain: Present on the application's thread.                    *)

(* PresentImage: a new frame.  A dirty swap chain is recreated first.      *)
AppPresent ==
    /\ apc = "idle"
    /\ frameId < MaxFrame
    /\ frameId' = frameId + 1
    /\ retries' = 0
    /\ \/ apc' = "synchronizePresent"
       \/ world.changes /\ generation < MaxRecreate /\ apc' = "recreate"
    /\ resume' = "synchronizePresent"
    /\ UNCHANGED <<world, multiplier, index, site, sharedVars, pipeVars, gpuVars, ppc,
                   localVars, chainVars, pacerVars>>

(* SynchronizePresent: waitForSubmission, then recreate unless the status  *)
(* is success or "queued for interpolation".                               *)
AppSynchronizePresent ==
    /\ apc = "synchronizePresent"
    /\ status # NotReady
    /\ apc' = IF status \in {Success, EventSet} THEN "acquire" ELSE "recreate"
    /\ resume' = "acquire"
    /\ UNCHANGED <<world, multiplier, frameId, index, retries, site, sharedVars, pipeVars,
                   gpuVars, ppc, localVars, chainVars, pacerVars>>

(* The next backbuffer, in turn.                                           *)
NextIndex      == (index + 1) % Backbuffers

(* acquireNextImage, first half: an error is returned at once, and the     *)
(* application recreates the swap chain and tries again, a few times.      *)
AppAcquire ==
    /\ apc = "acquire"
    /\ IF lastStatus = Success
         THEN /\ index' = NextIndex
              /\ apc' = "waitImage"
              /\ UNCHANGED retries
         ELSE /\ apc' = IF retries > MaxRetries THEN "idle" ELSE "recreate"
              /\ retries' = retries + 1
              /\ UNCHANGED index
    /\ UNCHANGED <<world, multiplier, frameId, site, resume, sharedVars, pipeVars, gpuVars,
                   ppc, localVars, chainVars, pacerVars>>

NotAskedFor == TRUE
ImageIdle   == index \notin inFlight

(* acquireNextImage, second half: stall until the image is not in flight.  *)
(* The fourth retry gives up although it acquired an image.                *)
AppWaitImage ==
    /\ apc = "waitImage"
    /\ MutexFree
    /\ ImageIdle
    /\ apc' = IF retries > MaxRetries THEN "idle" ELSE "record"
    /\ UNCHANGED <<world, multiplier, frameId, index, retries, site, resume, sharedVars, pipeVars,
                   gpuVars, ppc, localVars, chainVars, pacerVars>>

(* SubmitPresent: the status becomes not ready, the blit list and the      *)
(* present go to the CS thread.  A frame has interpolation info or not.    *)
AppSubmitPresent ==
    /\ apc = "record"
    /\ \E k \in {0, multiplier} :
         csQueue' = Append(csQueue, [frame |-> frameId, image |-> index,
                                     interpolated |-> k, generation |-> generation])
    /\ status' = NotReady
    /\ apc' = "frameLatency"
    /\ UNCHANGED <<world, multiplier, frameId, index, retries, site, resume, acquireSem, lastStatus,
                   inFlight, presentQueue, generation, submitQueue, spc, gpuVars, ppc,
                   localVars, chainVars, pacerVars>>

(* SyncFrameLatency: wait for the frame Latency frames ago.                *)
OneFrameMore   == latencySignal >= frameId - Latency - 1
LatencyReached == latencySignal >= frameId - Latency

AppSyncFrameLatency ==
    /\ apc = "frameLatency"
    /\ LatencyReached
    /\ apc' = "idle"
    /\ UNCHANGED <<world, multiplier, frameId, index, retries, site, resume, sharedVars, pipeVars,
                   gpuVars, ppc, localVars, chainVars, pacerVars>>

(* The user moves the multiplier (bound: once per swap chain).             *)
ChangeMultiplier ==
    /\ world.changes
    /\ apc = "idle"
    /\ generation < MaxRecreate
    /\ imageCount = ImagesNeeded(multiplier)
    /\ multiplier' \in (1 .. MaxInterpolated) \ {multiplier}
    /\ UNCHANGED <<world, appVars, sharedVars, pipeVars, gpuVars, ppc, localVars, chainVars,
                   pacerVars>>
-----------------------------------------------------------------------------
(* D3D11SwapChain::RecreateSwapChain.                                      *)

(* waitForSubmission(&m_presentStatus).  MaxRecreate bounds the model.      *)
RecreateWaitSubmission ==
    /\ apc = "recreate"
    /\ generation < MaxRecreate
    /\ status # NotReady
    /\ apc' = "drain"
    /\ UNCHANGED <<world, multiplier, frameId, index, retries, site, resume, sharedVars,
                   pipeVars, gpuVars, ppc, localVars, chainVars, pacerVars>>

Drained   == submitQueue = <<>>

(* waitForIdle: the submission queue waits until it is empty and, holding  *)
(* its mutex, for its last presenter.                                      *)
RecreateWaitQueue ==
    /\ apc = "drain"
    /\ Drained
    /\ site' = "queue"
    /\ apc' = "sync"
    /\ UNCHANGED <<world, multiplier, frameId, index, retries, resume, sharedVars, pipeVars,
                   gpuVars, ppc, localVars, chainVars, pacerVars>>

(* DxvkDLFGPresenter::synchronize: wait until the present queue is empty,  *)
(* then test the pacer's queue, under the present thread's mutex.          *)
SyncTest ==
    /\ \/ apc = "sync" /\ presentQueue = <<>>
       \/ apc = "retest"
    /\ MutexFree
    /\ apc' = IF pacerQueue = <<>>
                THEN IF site = "queue" THEN "deviceIdle" ELSE "build"
                ELSE "testPassed"
    /\ UNCHANGED <<world, multiplier, frameId, index, retries, site, resume, sharedVars, pipeVars,
                   gpuVars, ppc, localVars, chainVars, pacerVars>>

(* The test found work: sleep on the pacer's condition variable, giving up *)
(* the present thread's mutex, not the pacer's.                            *)
SyncSleep ==
    /\ apc = "testPassed"
    /\ apc' = "asleep"
    /\ UNCHANGED <<world, multiplier, frameId, index, retries, site, resume, sharedVars, pipeVars,
                   gpuVars, ppc, localVars, chainVars, pacerVars>>

(* vkDeviceWaitIdle: every submitted list complete, every paced present    *)
(* past its semaphore.  The status is reset and the presenter asked to     *)
(* recreate its swap chain, for which it synchronizes again.               *)
PacingDone == \A i \in DOMAIN engine : engine[i].wait <= pacerSem

RecreateDeviceIdle ==
    /\ apc = "deviceIdle"
    /\ gpuLists = <<>>
    /\ PacingDone
    /\ status' = Success
    /\ site' = "presenter"
    /\ apc' = "sync"
    /\ UNCHANGED <<world, multiplier, frameId, index, retries, resume, acquireSem, lastStatus,
                   inFlight, presentQueue, generation, pipeVars, gpuVars, ppc, localVars,
                   chainVars, pacerVars>>

(* DxvkDLFGPresenter::recreateSwapChain and createBackbuffers: a swap      *)
(* chain of the size the multiplier needs, the error cleared, new images   *)
(* whose acquire semaphores are signalled.                                 *)
RecreateBuild ==
    /\ apc = "build"
    /\ generation' = generation + 1
    /\ imageCount' = ImagesNeeded(multiplier)
    /\ free' = imageCount'
    /\ engine' = <<>>
    /\ shown' = 0
    /\ lastStatus' = Success
    /\ inFlight' = {}
    /\ acquireSem' = FreshSemaphores(acquireSem)
    /\ index' = 0
    /\ site' = "none"
    /\ apc' = resume
    /\ UNCHANGED <<world, multiplier, frameId, retries, resume, status, presentQueue, pipeVars,
                   gpuVars, ppc, localVars, pacerVars>>
-----------------------------------------------------------------------------
(* The way to the presenter.                                               *)

(* The command of SubmitPresent on the CS thread: submitCommandList and    *)
(* DxvkDevice::presentImage queue the list and the present.                *)
CsPresent ==
    /\ csQueue # <<>>
    /\ QueueFree
    /\ status' = NotReady
    /\ submitQueue' = Append(submitQueue, Head(csQueue))
    /\ csQueue' = Tail(csQueue)
    /\ UNCHANGED <<world, multiplier, appVars, acquireSem, lastStatus, inFlight, presentQueue,
                   generation, spc, gpuVars, ppc, localVars, chainVars, pacerVars>>

(* The submission worker submits the list, which waits for the acquire     *)
(* semaphore of its image.  A semaphore of a swap chain that is gone is    *)
(* waited for or not.                                                      *)
SubmitList ==
    /\ spc = "idle"
    /\ submitQueue # <<>>
    /\ QueueFree
    /\ LET f == Head(submitQueue)
       IN  \E ready \in IF f.generation = generation THEN {acquireSem[f.image]} ELSE BOOLEAN :
             /\ gpuLists' = Append(gpuLists, [frame |-> f.frame, ready |-> ready])
             /\ acquireSem' = [acquireSem EXCEPT ![f.image] = FALSE]
    /\ spc' = "present"
    /\ UNCHANGED <<world, multiplier, appVars, status, lastStatus, inFlight, presentQueue,
                   generation, csQueue, submitQueue, latencySignal, ppc, localVars, chainVars,
                   pacerVars>>

(* presentImage: a pending error becomes the status of this present ...    *)
SubmitPresentFails ==
    /\ spc = "present"
    /\ lastStatus # Success
    /\ status' = lastStatus
    /\ submitQueue' = Tail(submitQueue)
    /\ spc' = "idle"
    /\ UNCHANGED <<world, multiplier, appVars, acquireSem, lastStatus, inFlight, presentQueue,
                   generation, csQueue, gpuVars, ppc, localVars, chainVars, pacerVars>>

(* ... otherwise the status says the present thread will post it, ...      *)
SubmitPresentQueued ==
    /\ spc = "present"
    /\ lastStatus = Success
    /\ status' = EventSet
    /\ spc' = "push"
    /\ UNCHANGED <<world, multiplier, appVars, acquireSem, lastStatus, inFlight, presentQueue,
                   generation, csQueue, submitQueue, gpuVars, ppc, localVars, chainVars,
                   pacerVars>>

(* ... and the frame is queued for the present thread under its mutex.     *)
SubmitPush ==
    /\ spc = "push"
    /\ MutexFree
    /\ LET f == Head(submitQueue)
       IN  /\ inFlight' = inFlight \union {f.image}
           /\ presentQueue' = Append(presentQueue, f)
    /\ submitQueue' = Tail(submitQueue)
    /\ spc' = "idle"
    /\ UNCHANGED <<world, multiplier, appVars, status, acquireSem, lastStatus, generation,
                   csQueue, gpuVars, ppc, localVars, chainVars, pacerVars>>
-----------------------------------------------------------------------------
(* The GPU and the presentation engine.                                    *)

(* The oldest list completes: the acquire semaphore it waited for was      *)
(* signalled, or will be by the blit of the frame that used the image      *)
(* before.  The finish worker then signals the latency fence.              *)
GpuComplete ==
    /\ gpuLists # <<>>
    /\ Head(gpuLists).ready
    /\ latencySignal' = Head(gpuLists).frame
    /\ gpuLists' = Tail(gpuLists)
    /\ UNCHANGED <<world, multiplier, appVars, sharedVars, pipeVars, ppc, localVars, chainVars,
                   pacerVars>>

(* The next queued image replaces the one on screen once its list is       *)
(* complete and the pacer has let it go.                                   *)
EngineShows ==
    /\ engine # <<>>
    /\ Head(engine).wait <= pacerSem
    /\ Head(engine).frame <= latencySignal
    /\ free' = free + shown
    /\ shown' = 1
    /\ engine' = Tail(engine)
    /\ UNCHANGED <<world, multiplier, appVars, sharedVars, pipeVars, gpuVars, ppc, localVars,
                   imageCount, pacerVars>>
-----------------------------------------------------------------------------
(* DxvkDLFGPresenter::runPresentThread.                                    *)

Job == Head(presentQueue)

(* What the driver may answer: success, or an error if the call may fail.  *)
(* MaxRecreate bounds the errors too: each can be followed by a recreation *)
Answers(call) ==
    IF call \in world.faults /\ generation < MaxRecreate THEN {Success, Error} ELSE {Success}

(* A frame is dropped while an error is pending.                           *)
DropsFrame == lastStatus # Success

(* The job at the front.  With an error pending the frame is dropped;      *)
(* without interpolation info it is only blitted; with more images needed  *)
(* than the swap chain has the error is raised here.                       *)
PresentTake ==
    /\ \/ ppc = "take"
       \/ ppc = "wait" /\ MutexFree
    /\ presentQueue # <<>>
    /\ LET tooFew == ImagesNeeded(Job.interpolated) > imageCount
       IN  \/ /\ DropsFrame
              /\ ppc' = "finish"
              /\ UNCHANGED lastStatus
           \/ /\ ~DropsFrame /\ Job.interpolated = 0
              /\ ppc' = "renderedAcquire"
              /\ UNCHANGED lastStatus
           \/ /\ ~DropsFrame /\ Job.interpolated > 0
              /\ ppc' = IF tooFew THEN "finish" ELSE "interpolate"
              /\ lastStatus' = IF tooFew THEN Error ELSE lastStatus
    /\ pi' = 0
    /\ acquired' = {}
    /\ pacerValueLocal' = kPacerDoNotWait
    /\ useMetering' = FALSE
    /\ UNCHANGED <<world, multiplier, appVars, status, acquireSem, inFlight, presentQueue,
                   generation, pipeVars, gpuVars, chainVars, pacerVars>>

(* Whether frame i of the acquire loop, or of the paced presents, exists.  *)
MoreToAcquire(i)   == i < Job.interpolated
PresentsOneLess(i) == i + 1 < Job.interpolated
MoreToPresent(i)   == i < Job.interpolated

(* The presents a pacer job releases: the paced interpolated frames and    *)
(* the rendered one.                                                       *)
WithoutRendered == Job.interpolated - 1
JobCount        == Job.interpolated

(* swapchainAcquire for interpolated frame pi.  The driver blocks until an *)
(* image is free.  On an error the loop goes on with the next frame.       *)
InterpolatedAcquire ==
    /\ ppc = "interpolate"
    /\ \E res \in Answers("interpolatedAcquire") :
         /\ res = Success => free > 0
         /\ lastStatus' = res
         /\ free' = IF res = Success THEN free - 1 ELSE free
         /\ acquired' = IF res = Success THEN acquired \union {pi} ELSE acquired
    /\ pi' = IF MoreToAcquire(pi + 1) THEN pi + 1 ELSE 0
    /\ ppc' = IF MoreToAcquire(pi + 1) THEN "interpolate" ELSE "firstPresent"
    /\ UNCHANGED <<world, multiplier, appVars, status, acquireSem, inFlight, presentQueue,
                   generation, pipeVars, gpuVars, pacerValueLocal, useMetering, imageCount,
                   engine, shown, pacerVars>>

(* submitPresent of the first interpolated frame, at once or with the      *)
(* metering info.  Without metering the pacer's job is queued here, before *)
(* the presents that wait for it.                                          *)
FirstPresent ==
    /\ ppc = "firstPresent"
    /\ \E res \in Answers("firstPresent"), metering \in BOOLEAN :
         /\ lastStatus' = res
         /\ IF res = Success
              THEN /\ engine' = Append(engine, [wait |-> kPacerDoNotWait, frame |-> Job.frame])
                   /\ useMetering' = metering
                   /\ pacerValueLocal' = IF metering THEN kPacerDoNotWait ELSE pacerValue
                   /\ pacerQueue' = IF metering THEN pacerQueue
                        ELSE Append(pacerQueue, [value |-> pacerValue,
                                                 count |-> JobCount])
                   /\ pi' = 1
                   /\ ppc' = IF MoreToPresent(1) THEN "pacedPresent" ELSE "renderedAcquire"
              ELSE /\ ppc' = "finish"
                   /\ UNCHANGED <<engine, useMetering, pacerValueLocal, pacerQueue, pi>>
    /\ UNCHANGED <<world, multiplier, appVars, status, acquireSem, inFlight, presentQueue,
                   generation, pipeVars, gpuVars, acquired, imageCount, free, shown, pcpc,
                   pacerSem, pacerValue>>

(* submitPresent of a further interpolated frame, paced by the value the   *)
(* pacer will signal.  On an error the loop goes on with the next frame    *)
(* and the same value.                                                     *)
PacedPresent ==
    /\ ppc = "pacedPresent"
    /\ \E res \in Answers("pacedPresent") :
         /\ lastStatus' = res
         /\ engine' = IF res = Success
              THEN Append(engine, [wait |-> pacerValueLocal, frame |-> Job.frame]) ELSE engine
         /\ pacerValueLocal' = IF res = Success /\ ~useMetering
              THEN pacerValueLocal + 1 ELSE pacerValueLocal
    /\ pi' = pi + 1
    /\ ppc' = IF MoreToPresent(pi + 1) THEN "pacedPresent" ELSE "renderedAcquire"
    /\ UNCHANGED <<world, multiplier, appVars, status, acquireSem, inFlight, presentQueue,
                   generation, pipeVars, gpuVars, acquired, useMetering, imageCount, free,
                   shown, pacerVars>>

(* swapchainAcquire and the blit of the rendered frame, whose completion   *)
(* signals the acquire semaphore of the backbuffer.                        *)
RenderedAcquire ==
    /\ ppc = "renderedAcquire"
    /\ \E res \in Answers("renderedAcquire") :
         /\ res = Success => free > 0
         /\ lastStatus' = res
         /\ free' = IF res = Success THEN free - 1 ELSE free
         /\ acquireSem' = IF res = Success THEN [acquireSem EXCEPT ![Job.image] = TRUE]
                                           ELSE acquireSem
         /\ ppc' = IF res = Success THEN "renderedPresent" ELSE "finish"
    /\ UNCHANGED <<world, multiplier, appVars, status, inFlight, presentQueue, generation,
                   pipeVars, gpuVars, localVars, imageCount, engine, shown, pacerVars>>

(* submitPresent of the rendered frame; the values used for this frame are *)
(* consumed only when it succeeds.                                         *)
RenderedPresent ==
    /\ ppc = "renderedPresent"
    /\ \E res \in Answers("renderedPresent") :
         /\ lastStatus' = res
         /\ engine' = IF res = Success
              THEN Append(engine, [wait |-> pacerValueLocal, frame |-> Job.frame]) ELSE engine
         /\ LET paced == res = Success /\ Job.interpolated > 0 /\ ~useMetering
            IN  /\ pacerValueLocal' = IF paced THEN pacerValueLocal + 1 ELSE pacerValueLocal
                /\ pacerValue' = IF paced THEN pacerValue + Job.interpolated ELSE pacerValue
    /\ ppc' = "finish"
    /\ UNCHANGED <<world, multiplier, appVars, status, acquireSem, inFlight, presentQueue,
                   generation, pipeVars, gpuVars, pi, acquired, useMetering, imageCount, free,
                   shown, pcpc, pacerQueue, pacerSem>>

(* The scope guard: post the status, give the backbuffer back, pop the job *)
(* and wake the waiters.  The mutex is given up only if no job is left.    *)
PresentFinish ==
    /\ ppc = "finish"
    /\ world.overtake \/ status # NotReady
    /\ status' = lastStatus
    /\ inFlight' = inFlight \ {Job.image}
    /\ presentQueue' = Tail(presentQueue)
    /\ ppc' = IF Len(presentQueue) > 1 THEN "take" ELSE "wait"
    /\ UNCHANGED <<world, multiplier, appVars, acquireSem, lastStatus, generation, pipeVars,
                   gpuVars, localVars, chainVars, pacerVars>>
-----------------------------------------------------------------------------
(* DxvkDLFGPresenter::runPacerThread.                                      *)

PacerTake ==
    /\ pcpc = "wait"
    /\ pacerQueue # <<>>
    /\ pcpc' = "pace"
    /\ UNCHANGED <<world, multiplier, appVars, sharedVars, pipeVars, gpuVars, ppc, localVars,
                   chainVars, pacerQueue, pacerSem, pacerValue>>

(* Without the lock: wait for the interpolation's fence, for a second at   *)
(* most, sleep or not, and signal the values of the job.                   *)
PacerSignal ==
    /\ pcpc = "pace"
    /\ pacerSem' = Max({pacerSem, Head(pacerQueue).value + Head(pacerQueue).count - 1})
    /\ pcpc' = "pop"
    /\ UNCHANGED <<world, multiplier, appVars, sharedVars, pipeVars, gpuVars, ppc, localVars,
                   chainVars, pacerQueue, pacerValue>>

(* Pop and notify under the pacer's mutex: it reaches only a thread that   *)
(* is already asleep.                                                      *)
PacerPop ==
    /\ pcpc = "pop"
    /\ pacerQueue' = Tail(pacerQueue)
    /\ pcpc' = "wait"
    /\ apc' = IF apc = "asleep" THEN "retest" ELSE apc
    /\ UNCHANGED <<world, multiplier, frameId, index, retries, site, resume, sharedVars,
                   pipeVars, gpuVars, ppc, localVars, chainVars, pacerSem, pacerValue>>
-----------------------------------------------------------------------------
AppWaits == AppSynchronizePresent \/ AppAcquire \/ AppWaitImage \/ AppSubmitPresent
            \/ AppSyncFrameLatency
Recreate == RecreateWaitSubmission \/ RecreateWaitQueue \/ SyncTest \/ SyncSleep
            \/ RecreateDeviceIdle \/ RecreateBuild
Submit   == SubmitList \/ SubmitPresentFails \/ SubmitPresentQueued \/ SubmitPush
Present  == PresentTake \/ InterpolatedAcquire \/ FirstPresent \/ PacedPresent
            \/ RenderedAcquire \/ RenderedPresent \/ PresentFinish
Pacer    == PacerTake \/ PacerSignal \/ PacerPop

Next == AppPresent \/ ChangeMultiplier \/ AppWaits \/ Recreate \/ CsPresent \/ Submit
        \/ GpuComplete \/ EngineShows \/ Present \/ Pacer

(* Every thread runs; the GPU and the engine work on what they are given.  *)
(* Nothing makes the application present again.                            *)
Fairness == /\ WF_vars(AppWaits) /\ WF_vars(Recreate) /\ WF_vars(CsPresent)
            /\ WF_vars(Submit) /\ WF_vars(Present) /\ WF_vars(Pacer)
            /\ WF_vars(GpuComplete) /\ WF_vars(EngineShows)

Spec == Init /\ [][Next]_vars /\ Fairness
-----------------------------------------------------------------------------
(* Properties.                                                             *)

TypeOK ==
    /\ world \in Worlds /\ multiplier \in 1 .. MaxInterpolated
    /\ apc \in {"idle", "synchronizePresent", "acquire", "waitImage", "record",
               "frameLatency", "recreate", "drain", "sync", "testPassed", "asleep",
               "retest", "deviceIdle", "build"}
    /\ frameId \in 0 .. MaxFrame /\ index \in Images /\ retries \in 0 .. MaxRetries + 2
    /\ site \in {"none", "queue", "presenter"}
    /\ resume \in {"synchronizePresent", "acquire"}
    /\ status \in {Success, NotReady, EventSet, Error} /\ lastStatus \in {Success, Error}
    /\ csQueue \in Seq(Frame) /\ submitQueue \in Seq(Frame) /\ presentQueue \in Seq(Frame)
    /\ spc \in {"idle", "present", "push"}
    /\ gpuLists \in Seq([frame : Frames, ready : BOOLEAN]) /\ latencySignal \in 0 .. MaxFrame
    /\ acquireSem \in [Images -> BOOLEAN] /\ inFlight \subseteq Images
    /\ generation \in 0 .. MaxRecreate
    /\ ppc \in {"wait", "take", "interpolate", "firstPresent", "pacedPresent",
               "renderedAcquire", "renderedPresent", "finish"}
    /\ pi \in 0 .. MaxInterpolated /\ acquired \subseteq 0 .. MaxInterpolated - 1
    /\ pacerValueLocal \in Nat \union {kPacerDoNotWait} /\ useMetering \in BOOLEAN
    /\ imageCount \in 2 .. MaxInterpolated + 1 /\ free \in Nat /\ shown \in {0, 1}
    /\ engine \in Seq([wait : Nat \union {kPacerDoNotWait}, frame : Frames])
    /\ pcpc \in {"wait", "pace", "pop"}
    /\ pacerQueue \in Seq([value : Nat, count : 1 .. MaxInterpolated])
    /\ pacerSem \in Nat /\ pacerValue \in Nat

(* The status of a frame is not posted over the "not ready" of a later one *)
Orderly == ~world.overtake

(* Only calls fail whose error path leaves the frame: the acquire loop and *)
(* the loop of the paced presents go on after an error.                    *)
Leaving == world.faults \subseteq {"firstPresent", "renderedAcquire", "renderedPresent"}

Calm == world.faults = {} /\ ~world.changes

(* The backbuffers' owners.                                                *)
AppOwns     == IF apc = "record" THEN <<index>> ELSE <<>>
PipeOwns    == [i \in DOMAIN (csQueue \o submitQueue) |-> (csQueue \o submitQueue)[i].image]
PresentOwns == [i \in DOMAIN presentQueue |-> presentQueue[i].image]

(* A backbuffer is recorded into, on its way to the presenter or waiting   *)
(* for the present thread, never two of these and never twice: the image   *)
(* index advances without asking the CS thread or the submission worker,   *)
(* only inFlight is looked at (rtx_dlfg.cpp:205), and what the others hold *)
(* follows from the status alone.                                          *)
BackbufferExclusive ==
    Orderly => /\ IsInjective(AppOwns \o PipeOwns \o PresentOwns)
               /\ inFlight = ToSet(PresentOwns)

(* assert(m_backbufferInFlight[acquiredImageIndex] == false), presentImage *)
PushFindsImageIdle == [][SubmitPush => Head(submitQueue).image \notin inFlight]_vars

(* While no error is pending, an image the application records into has    *)
(* the signal of its acquire semaphore pending: its list will complete.    *)
(* A frame dropped by the present thread never signals it.                 *)
CleanAcquireIsReady ==
    Orderly /\ Leaving /\ apc = "record" /\ lastStatus = Success => acquireSem[index]

(* The stronger claim of createBackbuffers, "the acquire semaphores need   *)
(* to be signaled", of every image acquireNextImage hands out.             *)
AcquiredIsReady == apc = "record" => acquireSem[index]

(* "Ensure that we can safely destroy the swap chain": when the presenter  *)
(* destroys its images and semaphores, no present made with them is still  *)
(* on its way from the application to the presenter.                       *)
RecreateFindsNoFrame ==
    apc = "build" => csQueue = <<>> /\ submitQueue = <<>> /\ presentQueue = <<>>

(* The present thread presents only images it acquired: the acquire loop   *)
(* and the present loops agree although each has its own error path.       *)
PresentsOnlyAcquired ==
    /\ ppc = "firstPresent" => 0 \in acquired
    /\ ppc = "pacedPresent" => pi \in acquired

(* Every image of the swap chain has one owner, and a present thread that  *)
(* is done with a frame without an error keeps none: interpolated frames   *)
(* plus one images are enough, none leaks.                                 *)
ImagesAccounted ==
    Leaving /\ (Orderly \/ Calm) =>
        /\ free + Len(engine) + shown <= imageCount
        /\ ppc = "wait" /\ lastStatus = Success => free + Len(engine) + shown = imageCount

(* assert(pacerSemaphoreValue == m_dlfgPacerSemaphoreValue): every value a *)
(* present waits for is covered by a job queued before it or by what the   *)
(* pacer has signalled, so no present waits for a value nobody signals.    *)
Covered(v) == \/ v <= pacerSem
              \/ \E i \in DOMAIN pacerQueue :
                    v < pacerQueue[i].value + pacerQueue[i].count
PacedWaitsAreCovered == \A i \in DOMAIN engine : Covered(engine[i].wait)

(* An error the presenter recorded stays until recreateSwapChain clears    *)
(* it ("drop frames until recreateSwapchain is called").                   *)
ErrorStaysUntilRecreate ==
    [][lastStatus = Error /\ lastStatus' = Success => apc = "build"]_vars

(* However the presents fail, the application never has more than Latency  *)
(* + 1 frames whose lists the GPU has not completed: a present that        *)
(* returns without waiting (SyncFrameLatency skipped after the acquire     *)
(* loop gave up) has submitted none.                                       *)
LatencyBound ==
    Len(csQueue) + Len(submitQueue) - (IF spc = "idle" THEN 0 ELSE 1) + Len(gpuLists)
      <= Latency + 1

(* Without failures and changes every Present returns and everything it    *)
(* queued reaches the screen, be the pacing done by the CPU or by metering *)
(* and late or not: the present thread finds a free image, the status is   *)
(* posted, the latency signal arrives and no present waits for ever for a  *)
(* pacer value.                                                            *)
Served == apc = "idle" /\ presentQueue = <<>> /\ pacerQueue = <<>> /\ engine = <<>>
EveryPresentIsServed == (Calm /\ Orderly /\ ~Served) ~> Served

(* synchronize "waits for all queued frames to be consumed" and returns.   *)
SynchronizeReturns == (apc = "sync") ~> apc \in {"deviceIdle", "build"}
=============================================================================
