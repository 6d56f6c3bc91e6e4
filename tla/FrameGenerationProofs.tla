------------------------ MODULE FrameGenerationProofs ------------------------
(***************************************************************************)
(* Proofs about FrameGeneration for every number of backbuffers, frames,   *)
(* retries and recreations, every latency and multiplier, and every        *)
(* environment.                                                            *)
(***************************************************************************)
EXTENDS FrameGeneration, DataInduction

-----------------------------------------------------------------------------
(* Where the threads are.                                                  *)

(* From the moment the application waits for the queue to be empty to the  *)
(* new swap chain ...                                                      *)
Synchronizing == {"sync", "testPassed", "asleep", "retest", "deviceIdle", "build"}

(* ... and from the moment the present queue has been found empty.         *)
Synchronized == Synchronizing \ {"sync"}

Recreating == {"recreate", "drain"} \union Synchronizing

(* Each thread holds the work its place in the code says it holds.         *)
PlaceInv ==
    /\ spc # "idle" => submitQueue # <<>>
    /\ pcpc # "wait" => pacerQueue # <<>>
    /\ ppc # "wait" => presentQueue # <<>>
    /\ ppc \in {"interpolate", "firstPresent", "pacedPresent"} => Job.interpolated > 0
    /\ ppc = "interpolate" => pi < Job.interpolated
    /\ ppc = "pacedPresent" => pi > 0 /\ pi < Job.interpolated
    /\ ppc \in {"renderedAcquire", "renderedPresent"} => pi = Job.interpolated
    /\ apc \in Synchronizing \union {"drain"} => generation < MaxRecreate
    /\ apc # "idle" => frameId > 0 /\ retries <= MaxRetries + 1

-----------------------------------------------------------------------------
(* The pacer: values are covered from the first present of a frame on.     *)

PacingInv ==
    /\ PacedWaitsAreCovered
    /\ pcpc = "pop" => Head(pacerQueue).value + Head(pacerQueue).count - 1 <= pacerSem
    /\ ppc \in {"pacedPresent", "renderedAcquire", "renderedPresent"} =>
         IF useMetering \/ Job.interpolated = 0
           THEN pacerValueLocal = kPacerDoNotWait
           ELSE /\ pacerValueLocal \in Nat
                /\ pacerValueLocal <= pacerValue + pi - 1
                /\ Covered(pacerValue + Job.interpolated - 1)

-----------------------------------------------------------------------------
(* The latency: the frames the GPU has not completed, oldest first.        *)

FramesOf(q) == [i \in DOMAIN q |-> q[i].frame]

(* Frames queued whose list is not submitted.                              *)
Unsubmitted == IF spc = "idle" THEN submitQueue ELSE Tail(submitQueue)

Incomplete == FramesOf(gpuLists) \o (FramesOf(Unsubmitted) \o FramesOf(csQueue))

(* No two frames closer than their distance in s.                          *)
Spaced(s) == \A i, j \in DOMAIN s : i <= j => s[j] - s[i] >= j - i

Bounded(s, low, high) == \A i \in DOMAIN s : low < s[i] /\ s[i] <= high

(* The last frame whose list may have been recorded.                       *)
LastSubmitted == IF apc \in {"idle", "frameLatency"} THEN frameId ELSE frameId - 1

LatencyInv ==
    /\ Spaced(Incomplete)
    /\ Bounded(Incomplete, latencySignal, LastSubmitted)
    /\ latencySignal <= LastSubmitted
    /\ Len(Incomplete) <= Latency + 1
    /\ apc # "frameLatency" => Len(Incomplete) <= Latency

-----------------------------------------------------------------------------
(* The status: not ready while a frame is on its way to the presenter.     *)

OnItsWay == Len(csQueue) + Len(submitQueue) - (IF spc = "push" THEN 1 ELSE 0)

StatusInv == Orderly =>
    /\ OnItsWay <= 1
    /\ OnItsWay = 1 => status = NotReady
    /\ apc \in {"acquire", "waitImage", "record", "drain"} => OnItsWay = 0
    /\ apc \in Synchronizing => csQueue = <<>> /\ submitQueue = <<>>
    /\ apc \in Synchronized => presentQueue = <<>>

(* A retry has synchronized before.                                        *)
RetryInv ==
    /\ apc = "synchronizePresent" => retries = 0
    /\ apc \in {"acquire", "waitImage", "record"} => resume = "acquire"
    /\ apc \in Recreating /\ resume = "synchronizePresent" => retries = 0
    /\ Orderly /\ apc \in {"acquire", "waitImage"} /\ retries > 0
         => csQueue = <<>> /\ submitQueue = <<>>

-----------------------------------------------------------------------------
(* The backbuffers: index is the last one handed out.                      *)

Named(q) == {q[i].image : i \in DOMAIN q}

Distinct(q) == \A i, j \in DOMAIN q : q[i].image = q[j].image => i = j

LastIs(q, i) == q # <<>> => q[Len(q)].image = i

BackbufferInv == Orderly =>
    /\ Distinct(presentQueue) /\ Distinct(submitQueue)
    /\ inFlight = Named(presentQueue)
    /\ Named(submitQueue) \intersect inFlight = {}
    /\ Named(csQueue) \intersect inFlight = {}
    /\ Named(csQueue) \intersect Named(submitQueue) = {}
    /\ apc \in {"waitImage", "record"} => index \notin Named(submitQueue)
    /\ apc = "record" => index \notin inFlight
    /\ apc \notin {"waitImage", "record"} =>
         /\ LastIs(csQueue, index)
         /\ csQueue = <<>> => LastIs(submitQueue, index)

-----------------------------------------------------------------------------
(* The acquire semaphores: one that is not signalled will be by the frame  *)
(* that has its image.                                                     *)

Signals(i) ==
    \/ spc # "idle" /\ Head(submitQueue).image = i
    \/ \E j \in DOMAIN presentQueue :
          /\ presentQueue[j].image = i
          /\ j = 1 => ppc \notin {"renderedPresent", "finish"}

SemaphoreInv == Leaving =>
    /\ lastStatus # Success => ppc \in {"finish", "take", "wait"}
    /\ lastStatus = Success => \A i \in Images : acquireSem[i] \/ Signals(i)

-----------------------------------------------------------------------------
(* The images of the swap chain: those acquired and not yet presented.     *)

Held == CASE ppc = "interpolate" -> pi
          [] ppc = "firstPresent" -> Job.interpolated
          [] ppc = "pacedPresent" -> Job.interpolated - pi
          [] ppc = "renderedPresent" -> 1
          [] OTHER -> 0

(* No frame of q has more than m interpolated frames.                      *)
Within(q, m) == \A i \in DOMAIN q : q[i].interpolated <= m

(* In a calm world there is nothing to recreate.                           *)
CalmInv == Calm =>
    /\ apc \notin Recreating
    /\ status # Error /\ lastStatus = Success
    /\ imageCount = ImagesNeeded(multiplier)
    /\ Within(csQueue, multiplier) /\ Within(submitQueue, multiplier)
    /\ Within(presentQueue, multiplier)

ImagesInv == Leaving /\ (Orderly \/ Calm) =>
    /\ free + Len(engine) + shown + Held <= imageCount
    /\ lastStatus = Success => free + Len(engine) + shown + Held = imageCount
    /\ ppc = "interpolate" => acquired = 0 .. pi - 1
    /\ ppc \in {"firstPresent", "pacedPresent"} => acquired = 0 .. Job.interpolated - 1

PresenterInv ==
    /\ TypeOK
    /\ PlaceInv
    /\ PacingInv
    /\ LatencyInv
    /\ StatusInv
    /\ RetryInv
    /\ BackbufferInv
    /\ SemaphoreInv
    /\ CalmInv
    /\ ImagesInv

-----------------------------------------------------------------------------
(* Facts about the data.                                                   *)

(* Max of two numbers is one of them and no less than the other.           *)
LEMMA MaxOfTwo ==
    ASSUME NEW a \in Int, NEW b \in Int
    PROVE  /\ Max({a, b}) \in {a, b}
           /\ Max({a, b}) >= a /\ Max({a, b}) >= b
  <1>1. \E x \in {a, b} : \A y \in {a, b} : x >= y
    OBVIOUS
  <1>2. Max({a, b}) \in {a, b} /\ \A y \in {a, b} : Max({a, b}) >= y
    BY <1>1, Zenon DEF Max
  <1> QED BY <1>2

(* The next backbuffer is one, and another one.                            *)
LEMMA NextBackbuffer ==
    ASSUME index \in Images
    PROVE  NextIndex \in Images /\ NextIndex # index
  <1>1. Backbuffers \in Nat /\ Backbuffers > 1
    BY FGAssumption
  <1> DEFINE n == Backbuffers
  <1>2. index \in 0 .. n - 1 /\ n \in Nat /\ n > 1
    BY <1>1 DEF Images
  <1> HIDE DEF n
  <1>3. (index + 1) % n \in 0 .. n - 1
    BY <1>2
  <1>4. CASE index + 1 < n
    <2>1. (index + 1) % n = index + 1
      BY <1>2, <1>4
    <2> QED BY <1>2, <1>3, <2>1 DEF NextIndex, Images, n
  <1>5. CASE index + 1 = n
    <2>1. (index + 1) % n = 0
      BY <1>2, <1>5
    <2> QED BY <1>2, <1>3, <1>5, <2>1 DEF NextIndex, Images, n
  <1> QED BY <1>2, <1>4, <1>5

(* What a queue of frames holds, after its head is taken ...               *)
LEMMA TakenQueue ==
    ASSUME NEW T, NEW q \in Seq(T), q # <<>>
    PROVE  /\ Head(q) \in T /\ Head(q) = q[1]
           /\ Tail(q) \in Seq(T) /\ Len(Tail(q)) = Len(q) - 1
           /\ Len(q) \in Nat \ {0} /\ DOMAIN q = 1 .. Len(q)
           /\ DOMAIN Tail(q) = 1 .. Len(q) - 1
           /\ \A i \in 1 .. Len(q) - 1 : Tail(q)[i] = q[i + 1]
  OBVIOUS

(* ... and after a frame is added.                                         *)
LEMMA AddedQueue ==
    ASSUME NEW T, NEW q \in Seq(T), NEW e \in T
    PROVE  /\ Append(q, e) \in Seq(T) /\ Append(q, e) # <<>>
           /\ Len(Append(q, e)) = Len(q) + 1
           /\ Len(q) \in Nat /\ DOMAIN q = 1 .. Len(q)
           /\ DOMAIN Append(q, e) = 1 .. Len(q) + 1
           /\ \A i \in 1 .. Len(q) : Append(q, e)[i] = q[i]
           /\ Append(q, e)[Len(q) + 1] = e
           /\ q # <<>> => Head(Append(q, e)) = Head(q)
           /\ q = <<>> => Head(Append(q, e)) = e
  OBVIOUS

LEMMA QueueElement ==
    ASSUME NEW T, NEW q \in Seq(T), NEW i \in DOMAIN q
    PROVE  q[i] \in T
  OBVIOUS

LEMMA QueueEmpty ==
    ASSUME NEW T, NEW q \in Seq(T)
    PROVE  Len(q) \in Nat /\ (q = <<>> <=> Len(q) = 0)
  OBVIOUS

LEMMA QueueTypes ==
    ASSUME TypeOK
    PROVE  /\ csQueue \in Seq(Frame) /\ submitQueue \in Seq(Frame)
           /\ presentQueue \in Seq(Frame)
  BY DEF TypeOK

(* The job of the present thread is a frame.                               *)
LEMMA JobType ==
    ASSUME TypeOK, presentQueue # <<>>
    PROVE  /\ Job \in Frame /\ Job.frame \in Frames /\ Job.image \in Images
           /\ Job.interpolated \in 0 .. MaxInterpolated
  <1>1. Job \in Frame
    BY QueueTypes, TakenQueue DEF Job
  <1> QED BY <1>1 DEF Frame

-----------------------------------------------------------------------------
(* Types, and where the threads are.                                       *)

LEMMA TypeInit == Init => TypeOK
  <1> SUFFICES ASSUME Init PROVE TypeOK
    OBVIOUS
  <1>1. Backbuffers \in Nat /\ Backbuffers > 1 /\ MaxInterpolated \in Nat /\ MaxInterpolated > 0
        /\ MaxFrame \in Nat /\ MaxRecreate \in Nat /\ MaxRetries \in Nat
    BY FGAssumption
  <1>2. 0 \in Images /\ imageCount \in 2 .. MaxInterpolated + 1 /\ imageCount \in Nat
    BY <1>1 DEF Init, Images, ImagesNeeded
  <1>3. multiplier \in 1 .. MaxInterpolated /\ free = imageCount
    BY DEF Init
  <1> QED BY <1>1, <1>2, <1>3 DEF Init, TypeOK, FirstFrame

LEMMA TypeStep ==
    ASSUME TypeOK, PlaceInv, [Next]_vars
    PROVE  TypeOK'
  <1> USE DEF appVars, pipeVars, gpuVars, localVars, chainVars, pacerVars, sharedVars
  <1>0. /\ Backbuffers \in Nat /\ Backbuffers > 1 /\ MaxInterpolated \in Nat /\ MaxInterpolated > 0
        /\ MaxFrame \in Nat /\ MaxRecreate \in Nat /\ MaxRetries \in Nat /\ 0 \in Images
    BY FGAssumption DEF Images
  <1>1. CASE AppPresent
    BY <1>0, <1>1 DEF TypeOK, AppPresent
  <1>2. CASE ChangeMultiplier
    BY <1>0, <1>2 DEF TypeOK, ChangeMultiplier
  <1>3. CASE AppSynchronizePresent
    BY <1>0, <1>3 DEF TypeOK, AppSynchronizePresent
  <1>4. CASE AppAcquire
    <2>1. NextIndex \in Images
      BY NextBackbuffer DEF TypeOK
    <2>2. index' \in Images
      BY <1>4, <2>1 DEF TypeOK, AppAcquire
    <2>3. retries \in Nat /\ retries' \in 0 .. MaxRetries + 2
      <3>1. retries > MaxRetries \/ retries <= MaxRetries
        BY <1>0 DEF TypeOK
      <3>2. retries \in 0 .. MaxRetries + 1
        BY <1>4 DEF TypeOK, AppAcquire, PlaceInv
      <3> QED BY <1>0, <1>4, <3>2 DEF AppAcquire
    <2>4. apc' \in {"waitImage", "idle", "recreate"}
      BY <1>4 DEF AppAcquire
    <2> HIDE DEF NextIndex
    <2> QED BY <1>4, <2>2, <2>3, <2>4, SMTT(20) DEF TypeOK, AppAcquire
  <1>5. CASE AppWaitImage
    BY <1>0, <1>5 DEF TypeOK, AppWaitImage
  <1>6. CASE AppSubmitPresent
    <2>1. PICK k \in {0, multiplier} :
            csQueue' = Append(csQueue, [frame |-> frameId, image |-> index,
                                        interpolated |-> k, generation |-> generation])
      BY <1>6 DEF AppSubmitPresent
    <2>2. k \in 0 .. MaxInterpolated /\ frameId \in Frames
      BY <1>0, <1>6 DEF TypeOK, AppSubmitPresent, PlaceInv, Frames
    <2>3. [frame |-> frameId, image |-> index, interpolated |-> k,
           generation |-> generation] \in Frame
      BY <2>2 DEF Frame, TypeOK
    <2>4. csQueue' \in Seq(Frame)
      BY <2>1, <2>3, QueueTypes, AddedQueue
    <2> QED BY <1>6, <2>4, SMTT(20) DEF TypeOK, AppSubmitPresent
  <1>7. CASE AppSyncFrameLatency
    BY <1>0, <1>7 DEF TypeOK, AppSyncFrameLatency
  <1>8. CASE RecreateWaitSubmission
    BY <1>0, <1>8 DEF TypeOK, RecreateWaitSubmission
  <1>9. CASE RecreateWaitQueue
    BY <1>0, <1>9 DEF TypeOK, RecreateWaitQueue
  <1>10. CASE SyncTest
    BY <1>0, <1>10 DEF TypeOK, SyncTest
  <1>11. CASE SyncSleep
    BY <1>0, <1>11 DEF TypeOK, SyncSleep
  <1>12. CASE RecreateDeviceIdle
    BY <1>0, <1>12 DEF TypeOK, RecreateDeviceIdle
  <1>13. CASE RecreateBuild
    <2>1. generation' \in 0 .. MaxRecreate
      BY <1>0, <1>13 DEF TypeOK, RecreateBuild, PlaceInv, Synchronizing
    <2>2. imageCount' \in 2 .. MaxInterpolated + 1 /\ imageCount' \in Nat
      BY <1>0, <1>13 DEF TypeOK, RecreateBuild, ImagesNeeded
    <2>3. acquireSem' \in [Images -> BOOLEAN]
      BY <1>13 DEF RecreateBuild, FreshSemaphores
    <2>4. apc' \in {"synchronizePresent", "acquire"}
      BY <1>13 DEF TypeOK, RecreateBuild
    <2> QED BY <1>0, <1>13, <2>1, <2>2, <2>3, <2>4 DEF TypeOK, RecreateBuild
  <1>14. CASE CsPresent
    BY <1>0, <1>14 DEF TypeOK, CsPresent
  <1>15. CASE SubmitList
    <2>1. Head(submitQueue) \in Frame /\ Head(submitQueue).image \in Images
          /\ Head(submitQueue).frame \in Frames
      <3>1. Head(submitQueue) \in Frame
        BY <1>15, QueueTypes, TakenQueue DEF SubmitList
      <3> QED BY <3>1 DEF Frame
    <2> DEFINE f == Head(submitQueue)
    <2>2. PICK ready \in IF f.generation = generation THEN {acquireSem[f.image]} ELSE BOOLEAN :
            /\ gpuLists' = Append(gpuLists, [frame |-> f.frame, ready |-> ready])
            /\ acquireSem' = [acquireSem EXCEPT ![f.image] = FALSE]
      BY <1>15 DEF SubmitList
    <2>3. ready \in BOOLEAN
      BY <2>1, <2>2 DEF TypeOK
    <2>4. gpuLists' \in Seq([frame : Frames, ready : BOOLEAN])
      BY <2>1, <2>2, <2>3, AddedQueue DEF TypeOK
    <2>5. acquireSem' \in [Images -> BOOLEAN]
      BY <2>2 DEF TypeOK
    <2> QED BY <1>15, <2>4, <2>5, SMTT(20) DEF TypeOK, SubmitList
  <1>16. CASE SubmitPresentFails
    BY <1>0, <1>16 DEF TypeOK, SubmitPresentFails
  <1>17. CASE SubmitPresentQueued
    BY <1>0, <1>17 DEF TypeOK, SubmitPresentQueued
  <1>18. CASE SubmitPush
    <2>1. Head(submitQueue) \in Frame /\ Head(submitQueue).image \in Images
          /\ Tail(submitQueue) \in Seq(Frame)
      <3>1. Head(submitQueue) \in Frame /\ Tail(submitQueue) \in Seq(Frame)
        BY <1>18, QueueTypes, TakenQueue DEF SubmitPush, PlaceInv
      <3> QED BY <3>1 DEF Frame
    <2>2. presentQueue' \in Seq(Frame) /\ submitQueue' \in Seq(Frame)
      BY <1>18, <2>1, QueueTypes, AddedQueue DEF SubmitPush
    <2>3. inFlight' \subseteq Images
      BY <1>18, <2>1 DEF SubmitPush, TypeOK
    <2> QED BY <1>18, <2>2, <2>3, SMTT(20) DEF TypeOK, SubmitPush
  <1>19. CASE GpuComplete
    <2>1. Head(gpuLists) \in [frame : Frames, ready : BOOLEAN]
          /\ Tail(gpuLists) \in Seq([frame : Frames, ready : BOOLEAN])
      BY <1>19, TakenQueue DEF GpuComplete, TypeOK
    <2>2. latencySignal' \in 0 .. MaxFrame
      BY <1>0, <1>19, <2>1 DEF GpuComplete, Frames
    <2>3. gpuLists' = Tail(gpuLists) /\ UNCHANGED <<world, multiplier, appVars, sharedVars,
             pipeVars, ppc, localVars, chainVars, pacerVars>>
      BY <1>19 DEF GpuComplete
    <2>4. gpuLists' \in Seq([frame : Frames, ready : BOOLEAN])
      BY <2>1, <2>3
    <2> QED BY <2>2, <2>3, <2>4, SMTT(20) DEF TypeOK
  <1>20. CASE EngineShows
    BY <1>0, <1>20 DEF TypeOK, EngineShows
  <1>21. CASE PresentTake
    <2>1. ppc' \in {"finish", "renderedAcquire", "interpolate"} /\ lastStatus' \in {Success, Error}
      BY <1>21 DEF PresentTake, TypeOK
    <2>2. /\ pi' = 0 /\ acquired' = {} /\ pacerValueLocal' = kPacerDoNotWait
          /\ useMetering' = FALSE
          /\ UNCHANGED <<world, multiplier, appVars, status, acquireSem, inFlight, presentQueue,
                        generation, pipeVars, gpuVars, chainVars, pacerVars>>
      BY <1>21 DEF PresentTake
    <2>3. /\ pi' \in 0 .. MaxInterpolated /\ acquired' \subseteq 0 .. MaxInterpolated - 1
          /\ pacerValueLocal' \in Nat \union {kPacerDoNotWait} /\ useMetering' \in BOOLEAN
      <3>1. pi' = 0 /\ acquired' = {} /\ pacerValueLocal' = kPacerDoNotWait /\ useMetering' = FALSE
        BY <2>2
      <3>2. 0 \in 0 .. MaxInterpolated
        BY <1>0
      <3> QED BY <3>1, <3>2, Zenon
    <2>4. UNCHANGED <<world, multiplier, appVars, status, acquireSem, inFlight, presentQueue,
                      generation, pipeVars, gpuVars, chainVars, pacerVars>>
      BY <2>2
    <2> QED BY <2>1, <2>3, <2>4, SMTT(20) DEF TypeOK
  <1>22. CASE InterpolatedAcquire
    <2>1. /\ Job.interpolated \in 0 .. MaxInterpolated /\ pi \in Nat
          /\ pi < Job.interpolated
      <3>1. presentQueue # <<>> /\ pi < Job.interpolated
        BY <1>22 DEF InterpolatedAcquire, PlaceInv
      <3>2. pi \in Nat
        BY DEF TypeOK
      <3> QED BY <3>1, <3>2, JobType
    <2>2. pi' \in 0 .. MaxInterpolated
      BY <1>0, <1>22, <2>1 DEF InterpolatedAcquire, MoreToAcquire
    <2>3. pi \in 0 .. MaxInterpolated - 1
      BY <1>0, <2>1
    <2>4. PICK res \in Answers("interpolatedAcquire") :
            /\ res = Success => free > 0
            /\ lastStatus' = res
            /\ free' = IF res = Success THEN free - 1 ELSE free
            /\ acquired' = IF res = Success THEN acquired \union {pi} ELSE acquired
      BY <1>22 DEF InterpolatedAcquire
    <2>5. acquired' \subseteq 0 .. MaxInterpolated - 1 /\ lastStatus' \in {Success, Error}
          /\ free' \in Nat
      BY <2>3, <2>4 DEF TypeOK, Answers
    <2>6. ppc' \in {"interpolate", "firstPresent"}
      BY <1>22 DEF InterpolatedAcquire
    <2> QED BY <1>22, <2>2, <2>5, <2>6, SMTT(20) DEF TypeOK, InterpolatedAcquire
  <1>23. CASE FirstPresent
    <2>1. /\ Job.interpolated \in 1 .. MaxInterpolated /\ Job.frame \in Frames
      BY <1>23, JobType DEF FirstPresent, PlaceInv
    <2>2. PICK res \in Answers("firstPresent"), metering \in BOOLEAN :
            /\ lastStatus' = res
            /\ IF res = Success
              THEN /\ engine' = Append(engine, [wait |-> kPacerDoNotWait, frame |-> Job.frame])
                   /\ useMetering' = metering
                   /\ pacerValueLocal' = IF metering THEN kPacerDoNotWait ELSE pacerValue
                   /\ pacerQueue' = IF metering THEN pacerQueue
                        ELSE Append(pacerQueue, [value |-> pacerValue, count |-> JobCount])
                   /\ pi' = 1
                   /\ ppc' = IF MoreToPresent(1) THEN "pacedPresent" ELSE "renderedAcquire"
              ELSE /\ ppc' = "finish"
                   /\ UNCHANGED <<engine, useMetering, pacerValueLocal, pacerQueue, pi>>
      BY <1>23 DEF FirstPresent
    <2>3. lastStatus' \in {Success, Error}
      BY <2>2 DEF Answers
    <2>4. engine' \in Seq([wait : Nat \union {kPacerDoNotWait}, frame : Frames])
      <3>1. [wait |-> kPacerDoNotWait, frame |-> Job.frame]
              \in [wait : Nat \union {kPacerDoNotWait}, frame : Frames]
        BY <2>1
      <3>2. engine \in Seq([wait : Nat \union {kPacerDoNotWait}, frame : Frames])
        BY DEF TypeOK
      <3>3. Append(engine, [wait |-> kPacerDoNotWait, frame |-> Job.frame])
              \in Seq([wait : Nat \union {kPacerDoNotWait}, frame : Frames])
        BY <3>1, <3>2, AddedQueue
      <3> QED BY <2>2, <3>2, <3>3
    <2>5. pacerQueue' \in Seq([value : Nat, count : 1 .. MaxInterpolated])
      <3>1. [value |-> pacerValue, count |-> JobCount] \in [value : Nat, count : 1 .. MaxInterpolated]
        BY <2>1 DEF TypeOK, JobCount
      <3>2. pacerQueue \in Seq([value : Nat, count : 1 .. MaxInterpolated])
        BY DEF TypeOK
      <3>3. Append(pacerQueue, [value |-> pacerValue, count |-> JobCount])
              \in Seq([value : Nat, count : 1 .. MaxInterpolated])
        BY <3>1, <3>2, AddedQueue
      <3> QED BY <2>2, <3>2, <3>3
    <2>6. /\ ppc' \in {"pacedPresent", "renderedAcquire", "finish"} /\ pi' \in 0 .. MaxInterpolated
          /\ pacerValueLocal' \in Nat \union {kPacerDoNotWait} /\ useMetering' \in BOOLEAN
      BY <1>0, <2>2, SMTT(20) DEF TypeOK
    <2>7. UNCHANGED <<world, multiplier, appVars, status, acquireSem, inFlight, presentQueue,
                      generation, pipeVars, gpuVars, acquired, imageCount, free, shown, pcpc,
                      pacerSem, pacerValue>>
      BY <1>23 DEF FirstPresent
    <2> QED BY <2>3, <2>4, <2>5, <2>6, <2>7, SMTT(20) DEF TypeOK
  <1>24. CASE PacedPresent
    <2>1. /\ Job.interpolated \in 0 .. MaxInterpolated /\ Job.frame \in Frames
          /\ pi \in Nat /\ pi < Job.interpolated
      BY <1>24, JobType DEF PacedPresent, PlaceInv, TypeOK
    <2>2. PICK res \in Answers("pacedPresent") :
            /\ lastStatus' = res
            /\ engine' = IF res = Success
                 THEN Append(engine, [wait |-> pacerValueLocal, frame |-> Job.frame]) ELSE engine
            /\ pacerValueLocal' = IF res = Success /\ ~useMetering
                 THEN pacerValueLocal + 1 ELSE pacerValueLocal
      BY <1>24 DEF PacedPresent
    <2>3. lastStatus' \in {Success, Error}
      BY <2>2 DEF Answers
    <2>4. engine' \in Seq([wait : Nat \union {kPacerDoNotWait}, frame : Frames])
      <3>1. [wait |-> pacerValueLocal, frame |-> Job.frame]
              \in [wait : Nat \union {kPacerDoNotWait}, frame : Frames]
        BY <2>1 DEF TypeOK
      <3> QED BY <2>2, <3>1, AddedQueue DEF TypeOK
    <2>5. pacerValueLocal' \in Nat \union {kPacerDoNotWait}
      BY <2>2 DEF TypeOK, kPacerDoNotWait
    <2>6. ppc' \in {"pacedPresent", "renderedAcquire"} /\ pi' \in 0 .. MaxInterpolated
      BY <1>0, <1>24, <2>1 DEF PacedPresent
    <2> QED BY <1>24, <2>3, <2>4, <2>5, <2>6, SMTT(20) DEF TypeOK, PacedPresent
  <1>25. CASE RenderedAcquire
    <2>1. PICK res \in Answers("renderedAcquire") :
            /\ res = Success => free > 0
            /\ lastStatus' = res
            /\ free' = IF res = Success THEN free - 1 ELSE free
            /\ acquireSem' = IF res = Success THEN [acquireSem EXCEPT ![Job.image] = TRUE]
                                             ELSE acquireSem
            /\ ppc' = IF res = Success THEN "renderedPresent" ELSE "finish"
      BY <1>25 DEF RenderedAcquire
    <2>2. /\ lastStatus' \in {Success, Error} /\ free' \in Nat
          /\ ppc' \in {"renderedPresent", "finish"}
      BY <2>1 DEF TypeOK, Answers
    <2>3. acquireSem' \in [Images -> BOOLEAN]
      BY <2>1 DEF TypeOK
    <2> QED BY <1>25, <2>2, <2>3 DEF TypeOK, RenderedAcquire
  <1>26. CASE RenderedPresent
    <2>1. /\ Job.interpolated \in 0 .. MaxInterpolated /\ Job.frame \in Frames
      BY <1>26, JobType DEF RenderedPresent, PlaceInv
    <2>2. PICK res \in Answers("renderedPresent") :
            /\ lastStatus' = res
            /\ engine' = IF res = Success
                 THEN Append(engine, [wait |-> pacerValueLocal, frame |-> Job.frame]) ELSE engine
            /\ LET paced == res = Success /\ Job.interpolated > 0 /\ ~useMetering
               IN  /\ pacerValueLocal' = IF paced THEN pacerValueLocal + 1 ELSE pacerValueLocal
                   /\ pacerValue' = IF paced THEN pacerValue + Job.interpolated ELSE pacerValue
      BY <1>26 DEF RenderedPresent
    <2>3. lastStatus' \in {Success, Error}
      BY <2>2 DEF Answers
    <2>4. engine' \in Seq([wait : Nat \union {kPacerDoNotWait}, frame : Frames])
      <3>1. [wait |-> pacerValueLocal, frame |-> Job.frame]
              \in [wait : Nat \union {kPacerDoNotWait}, frame : Frames]
        BY <2>1 DEF TypeOK
      <3> QED BY <2>2, <3>1, AddedQueue DEF TypeOK
    <2>5. pacerValueLocal' \in Nat \union {kPacerDoNotWait} /\ pacerValue' \in Nat
      <3>1. /\ pacerValueLocal \in Nat \union {kPacerDoNotWait} /\ pacerValue \in Nat
            /\ Job.interpolated \in Nat
        BY <2>1 DEF TypeOK
      <3>2. pacerValueLocal' \in {pacerValueLocal, pacerValueLocal + 1}
            /\ pacerValue' \in {pacerValue, pacerValue + Job.interpolated}
        BY <2>2
      <3> QED BY <3>1, <3>2 DEF kPacerDoNotWait
    <2> QED BY <1>26, <2>3, <2>4, <2>5, SMTT(20) DEF TypeOK, RenderedPresent
  <1>27. CASE PresentFinish
    <2>1. presentQueue' \in Seq(Frame)
      BY <1>27, QueueTypes, TakenQueue DEF PresentFinish, PlaceInv
    <2>2. ppc' \in {"take", "wait"} /\ inFlight' \subseteq Images /\ status' \in {Success, Error}
      BY <1>27 DEF PresentFinish, TypeOK
    <2> QED BY <1>27, <2>1, <2>2, SMTT(20) DEF TypeOK, PresentFinish
  <1>28. CASE PacerTake
    BY <1>0, <1>28, SMTT(20) DEF TypeOK, PacerTake
  <1>29. CASE PacerSignal
    <2>1. Head(pacerQueue) \in [value : Nat, count : 1 .. MaxInterpolated]
      BY <1>29, TakenQueue DEF PacerSignal, PlaceInv, TypeOK
    <2>2. Head(pacerQueue).value + Head(pacerQueue).count - 1 \in Nat
      BY <1>0, <2>1
    <2>3. pacerSem' \in Nat
      <3>1. pacerSem \in Nat
        BY DEF TypeOK
      <3>2. pacerSem' = Max({pacerSem, Head(pacerQueue).value + Head(pacerQueue).count - 1})
        BY <1>29 DEF PacerSignal
      <3> DEFINE n == Head(pacerQueue).value + Head(pacerQueue).count - 1
      <3> HIDE DEF n
      <3>3. n \in Nat /\ pacerSem' = Max({pacerSem, n})
        BY <2>2, <3>2 DEF n
      <3>4. n \in Int /\ pacerSem \in Int
        BY <3>1, <3>3
      <3>5. Max({pacerSem, n}) \in {pacerSem, n}
        BY ONLY <3>4, MaxOfTwo
      <3> QED BY ONLY <3>1, <3>3, <3>5
    <2> QED BY <1>29, <2>3, SMTT(20) DEF TypeOK, PacerSignal
  <1>30. CASE PacerPop
    <2>1. pacerQueue' \in Seq([value : Nat, count : 1 .. MaxInterpolated])
      BY <1>30, TakenQueue DEF PacerPop, PlaceInv, TypeOK
    <2>2. apc' \in {"retest", apc} /\ pcpc' = "wait"
      BY <1>30 DEF PacerPop
    <2>3. UNCHANGED <<world, multiplier, frameId, index, retries, site, resume, sharedVars,
                      pipeVars, gpuVars, ppc, localVars, chainVars, pacerSem, pacerValue>>
      BY <1>30 DEF PacerPop
    <2> QED BY <2>1, <2>2, <2>3, SMTT(20) DEF TypeOK
  <1>31. CASE UNCHANGED vars
    BY <1>31 DEF TypeOK, vars
  <1> QED BY <1>1, <1>2, <1>3, <1>4, <1>5, <1>6, <1>7, <1>8, <1>9, <1>10, <1>11, <1>12,
       <1>13, <1>14, <1>15, <1>16, <1>17, <1>18, <1>19, <1>20, <1>21, <1>22, <1>23,
       <1>24, <1>25, <1>26, <1>27, <1>28, <1>29, <1>30, <1>31
          DEF Next, AppWaits, Recreate, Submit, Present, Pacer

LEMMA PlaceInit == Init => PlaceInv
  BY DEF Init, PlaceInv, Synchronizing

LEMMA PlaceStep ==
    ASSUME TypeOK, PlaceInv, [Next]_vars
    PROVE  PlaceInv'
  <1> USE DEF PlaceInv, Synchronizing, Job, appVars, pipeVars, gpuVars, localVars,
       chainVars, pacerVars, sharedVars
  <1>0. /\ generation \in Nat /\ frameId \in Nat /\ retries \in Nat /\ pi \in Nat
        /\ MaxRecreate \in Nat /\ MaxRetries \in Nat /\ MaxInterpolated \in Nat
    BY FGAssumption DEF TypeOK
  <1>1. CASE AppPresent
    BY <1>0, <1>1 DEF AppPresent
  <1>2. CASE ChangeMultiplier
    BY <1>0, <1>2 DEF ChangeMultiplier
  <1>3. CASE AppSynchronizePresent
    BY <1>0, <1>3 DEF AppSynchronizePresent
  <1>4. CASE AppAcquire
    BY <1>0, <1>4 DEF AppAcquire
  <1>5. CASE AppWaitImage
    BY <1>0, <1>5 DEF AppWaitImage
  <1>6. CASE AppSubmitPresent
    BY <1>0, <1>6 DEF AppSubmitPresent
  <1>7. CASE AppSyncFrameLatency
    BY <1>0, <1>7 DEF AppSyncFrameLatency
  <1>8. CASE RecreateWaitSubmission
    BY <1>0, <1>8 DEF RecreateWaitSubmission
  <1>9. CASE RecreateWaitQueue
    BY <1>0, <1>9 DEF RecreateWaitQueue
  <1>10. CASE SyncTest
    BY <1>0, <1>10 DEF SyncTest
  <1>11. CASE SyncSleep
    BY <1>0, <1>11 DEF SyncSleep
  <1>12. CASE RecreateDeviceIdle
    BY <1>0, <1>12 DEF RecreateDeviceIdle
  <1>13. CASE RecreateBuild
    <2>1. apc' \in {"synchronizePresent", "acquire"}
      BY <1>13 DEF TypeOK, RecreateBuild
    <2> QED BY <1>0, <1>13, <2>1 DEF RecreateBuild
  <1>14. CASE CsPresent
    <2>1. submitQueue' # <<>>
      <3>1. Head(csQueue) \in Frame
        BY <1>14, QueueTypes, TakenQueue DEF CsPresent
      <3>2. Append(submitQueue, Head(csQueue)) # <<>>
        BY <3>1, QueueTypes, AddedQueue
      <3> QED BY <1>14, <3>2 DEF CsPresent
    <2> QED BY <1>14, <2>1 DEF CsPresent
  <1>15. CASE SubmitList
    BY <1>0, <1>15 DEF SubmitList
  <1>16. CASE SubmitPresentFails
    BY <1>0, <1>16 DEF SubmitPresentFails
  <1>17. CASE SubmitPresentQueued
    BY <1>0, <1>17 DEF SubmitPresentQueued
  <1>18. CASE SubmitPush
    BY <1>0, <1>18 DEF SubmitPush, MutexFree
  <1>19. CASE GpuComplete
    BY <1>0, <1>19 DEF GpuComplete
  <1>20. CASE EngineShows
    BY <1>0, <1>20 DEF EngineShows
  <1>21. CASE PresentTake
    <2>1. Job.interpolated \in Nat
      BY <1>21, JobType DEF PresentTake
    <2> QED BY <1>0, <1>21, <2>1 DEF PresentTake
  <1>22. CASE InterpolatedAcquire
    <2>1. Job.interpolated \in Nat
      BY <1>22, JobType DEF InterpolatedAcquire
    <2> QED BY <1>0, <1>22, <2>1 DEF InterpolatedAcquire, MoreToAcquire
  <1>23. CASE FirstPresent
    <2>1. Job.interpolated \in Nat
      BY <1>23, JobType DEF FirstPresent
    <2>2. PICK res \in Answers("firstPresent"), metering \in BOOLEAN :
            IF res = Success
              THEN /\ pacerQueue' = IF metering THEN pacerQueue
                        ELSE Append(pacerQueue, [value |-> pacerValue, count |-> JobCount])
                   /\ pi' = 1
                   /\ ppc' = IF MoreToPresent(1) THEN "pacedPresent" ELSE "renderedAcquire"
              ELSE /\ ppc' = "finish"
                   /\ UNCHANGED <<pacerQueue, pi>>
      BY <1>23 DEF FirstPresent
    <2>3. pacerQueue # <<>> => pacerQueue' # <<>>
      <3> HIDE DEF Job
      <3>4. Job.interpolated > 0 /\ Job.interpolated \in 0 .. MaxInterpolated
        BY <1>23, JobType DEF FirstPresent
      <3>5. JobCount \in 1 .. MaxInterpolated /\ pacerValue \in Nat
        BY <1>0, <3>4 DEF TypeOK, JobCount
      <3>1. [value |-> pacerValue, count |-> JobCount] \in [value : Nat, count : 1 .. MaxInterpolated]
        BY <3>5
      <3>2. pacerQueue \in Seq([value : Nat, count : 1 .. MaxInterpolated])
        BY DEF TypeOK
      <3>3. Append(pacerQueue, [value |-> pacerValue, count |-> JobCount]) # <<>>
        BY <3>1, <3>2, AddedQueue
      <3> QED BY <2>2, <3>3
    <2>4. ppc' \in {"pacedPresent", "renderedAcquire", "finish"}
          /\ (ppc' # "finish" => pi' = 1 /\ (ppc' = "pacedPresent" <=> 1 < Job.interpolated))
      BY <2>2 DEF MoreToPresent
    <2>5. /\ Job.interpolated > 0 /\ presentQueue # <<>>
          /\ UNCHANGED <<world, appVars, presentQueue, generation, pipeVars, pcpc>>
      BY <1>23 DEF FirstPresent
    <2> QED BY <1>0, <2>1, <2>3, <2>4, <2>5
  <1>24. CASE PacedPresent
    <2>1. Job.interpolated \in Nat
      BY <1>24, JobType DEF PacedPresent
    <2> QED BY <1>0, <1>24, <2>1 DEF PacedPresent, MoreToPresent
  <1>25. CASE RenderedAcquire
    BY <1>0, <1>25 DEF RenderedAcquire
  <1>26. CASE RenderedPresent
    BY <1>0, <1>26 DEF RenderedPresent
  <1>27. CASE PresentFinish
    <2>1. ppc' = "take" => presentQueue' # <<>>
      <3>1. Len(presentQueue) > 1 => Tail(presentQueue) # <<>>
        BY <1>27, QueueTypes, TakenQueue, SMTT(20) DEF PresentFinish
      <3> QED BY <1>27, <3>1 DEF PresentFinish
    <2>2. ppc' \in {"take", "wait"}
      BY <1>27 DEF PresentFinish
    <2> QED BY <1>27, <2>1, <2>2 DEF PresentFinish
  <1>28. CASE PacerTake
    BY <1>0, <1>28 DEF PacerTake
  <1>29. CASE PacerSignal
    BY <1>0, <1>29 DEF PacerSignal
  <1>30. CASE PacerPop
    BY <1>0, <1>30 DEF PacerPop
  <1>31. CASE UNCHANGED vars
    BY <1>31 DEF vars
  <1> QED BY <1>1, <1>2, <1>3, <1>4, <1>5, <1>6, <1>7, <1>8, <1>9, <1>10, <1>11, <1>12,
       <1>13, <1>14, <1>15, <1>16, <1>17, <1>18, <1>19, <1>20, <1>21, <1>22, <1>23,
       <1>24, <1>25, <1>26, <1>27, <1>28, <1>29, <1>30, <1>31
          DEF Next, AppWaits, Recreate, Submit, Present, Pacer
-----------------------------------------------------------------------------
(* The pacer.                                                              *)

PacerJob == [value : Nat, count : 1 .. MaxInterpolated]

LEMMA CoveredBelow ==
    ASSUME TypeOK, NEW v \in Int, NEW w \in Int, w <= v, Covered(v)
    PROVE  Covered(w)
  <1>1. pacerSem \in Nat /\ pacerQueue \in Seq(PacerJob) /\ MaxInterpolated \in Nat
    BY FGAssumption DEF TypeOK, PacerJob
  <1>2. CASE v <= pacerSem
    BY <1>1, <1>2 DEF Covered
  <1>3. CASE \E i \in DOMAIN pacerQueue : v < pacerQueue[i].value + pacerQueue[i].count
    <2>1. PICK i \in DOMAIN pacerQueue : v < pacerQueue[i].value + pacerQueue[i].count
      BY <1>3
    <2>2. pacerQueue[i] \in PacerJob
      BY <1>1
    <2>3. pacerQueue[i].value \in Nat /\ pacerQueue[i].count \in Nat
      BY <1>1, <2>2 DEF PacerJob
    <2>4. w < pacerQueue[i].value + pacerQueue[i].count
      BY <2>1, <2>3
    <2> QED BY <2>4 DEF Covered
  <1> QED BY <1>2, <1>3 DEF Covered

(* What is covered stays covered: a job leaves the queue when its values   *)
(* have been signalled.                                                    *)
LEMMA CoveredStays ==
    ASSUME TypeOK, TypeOK', PlaceInv, PacingInv, NEW v \in Int, Covered(v),
           \/ UNCHANGED <<pacerQueue, pacerSem>>
           \/ PacerSignal
           \/ PacerPop
           \/ /\ pacerSem' = pacerSem
              /\ \E e \in PacerJob : pacerQueue' = Append(pacerQueue, e)
    PROVE  Covered(v)'
  <1>1. pacerSem \in Nat /\ pacerQueue \in Seq(PacerJob) /\ MaxInterpolated \in Nat
    BY FGAssumption DEF TypeOK, PacerJob
  <1>2. CASE UNCHANGED <<pacerQueue, pacerSem>>
    BY <1>2 DEF Covered
  <1>3. CASE PacerSignal
    <2>1. Head(pacerQueue) \in PacerJob
      BY <1>1, <1>3, TakenQueue DEF PacerSignal, PlaceInv
    <2> DEFINE n == Head(pacerQueue).value + Head(pacerQueue).count - 1
    <2>2. n \in Int
      BY <1>1, <2>1 DEF PacerJob
    <2>3. pacerSem' = Max({pacerSem, n}) /\ pacerQueue' = pacerQueue
      BY <1>3 DEF PacerSignal
    <2> HIDE DEF n
    <2>4. pacerSem' \in Int /\ pacerSem' >= pacerSem
      <3>1. pacerSem \in Int
        BY <1>1
      <3>2. Max({pacerSem, n}) \in {pacerSem, n} /\ Max({pacerSem, n}) >= pacerSem
        BY ONLY <2>2, <3>1, MaxOfTwo
      <3> QED BY ONLY <2>2, <2>3, <3>1, <3>2
    <2> QED BY <1>1, <2>3, <2>4 DEF Covered
  <1>4. CASE PacerPop
    <2>1. pacerQueue # <<>> /\ pacerQueue' = Tail(pacerQueue) /\ pacerSem' = pacerSem
      BY <1>4 DEF PacerPop, PlaceInv
    <2>2. Head(pacerQueue).value + Head(pacerQueue).count - 1 <= pacerSem
      BY <1>4 DEF PacerPop, PacingInv
    <2>3. /\ Head(pacerQueue) \in PacerJob /\ Head(pacerQueue) = pacerQueue[1]
          /\ Len(pacerQueue) \in Nat \ {0} /\ DOMAIN pacerQueue = 1 .. Len(pacerQueue)
          /\ DOMAIN Tail(pacerQueue) = 1 .. Len(pacerQueue) - 1
          /\ \A i \in 1 .. Len(pacerQueue) - 1 : Tail(pacerQueue)[i] = pacerQueue[i + 1]
      BY <1>1, <2>1, TakenQueue
    <2>4. CASE v <= pacerSem
      BY <2>1, <2>4 DEF Covered
    <2>5. CASE \E i \in DOMAIN pacerQueue : v < pacerQueue[i].value + pacerQueue[i].count
      <3>1. PICK i \in DOMAIN pacerQueue : v < pacerQueue[i].value + pacerQueue[i].count
        BY <2>5
      <3>2. CASE i = 1
        <4>1. pacerQueue[1].value \in Nat /\ pacerQueue[1].count \in Nat
          BY <1>1, <2>3 DEF PacerJob
        <4>3. /\ v < pacerQueue[1].value + pacerQueue[1].count
              /\ pacerQueue[1].value + pacerQueue[1].count - 1 <= pacerSem'
          BY <2>1, <2>2, <2>3, <3>1, <3>2
        <4>4. pacerSem' \in Nat
          BY <1>1, <2>1
        <4>2. v <= pacerSem'
          BY ONLY <4>1, <4>3, <4>4, v \in Int
        <4> QED BY <4>2 DEF Covered
      <3>3. CASE i # 1
        <4>1. i - 1 \in 1 .. Len(pacerQueue) - 1 /\ (i - 1) + 1 = i
          BY <2>3, <3>1, <3>3
        <4>2. i - 1 \in DOMAIN pacerQueue' /\ pacerQueue'[i - 1] = pacerQueue[i]
          BY <2>1, <2>3, <4>1
        <4> QED BY <3>1, <4>2 DEF Covered
      <3> QED BY <3>2, <3>3
    <2> QED BY <2>4, <2>5 DEF Covered
  <1>5. CASE /\ pacerSem' = pacerSem
             /\ \E e \in PacerJob : pacerQueue' = Append(pacerQueue, e)
    <2>1. PICK e \in PacerJob : pacerQueue' = Append(pacerQueue, e)
      BY <1>5
    <2>2. \A i \in DOMAIN pacerQueue : i \in DOMAIN pacerQueue' /\ pacerQueue'[i] = pacerQueue[i]
      <3>1. /\ DOMAIN pacerQueue = 1 .. Len(pacerQueue) /\ Len(pacerQueue) \in Nat
            /\ DOMAIN Append(pacerQueue, e) = 1 .. Len(pacerQueue) + 1
            /\ \A i \in 1 .. Len(pacerQueue) : Append(pacerQueue, e)[i] = pacerQueue[i]
        BY <1>1, AddedQueue
      <3> QED BY ONLY <2>1, <3>1
    <2> QED BY <1>5, <2>2 DEF Covered
  <1> QED BY <1>2, <1>3, <1>4, <1>5

(* What a present in the engine's queue waits for.                         *)
LEMMA EngineTypes ==
    ASSUME TypeOK
    PROVE  /\ engine \in Seq([wait : Nat \union {kPacerDoNotWait}, frame : Frames])
           /\ DOMAIN engine = 1 .. Len(engine) /\ Len(engine) \in Nat
           /\ \A i \in DOMAIN engine : engine[i].wait \in Int
  <1> DEFINE E == [wait : Nat \union {kPacerDoNotWait}, frame : Frames]
  <1>1. engine \in Seq(E)
    BY DEF TypeOK
  <1>2. \A x \in E : x.wait \in Int
    BY DEF kPacerDoNotWait
  <1> HIDE DEF E
  <1>3. \A i \in DOMAIN engine : engine[i] \in E
    BY <1>1
  <1>4. DOMAIN engine = 1 .. Len(engine) /\ Len(engine) \in Nat
    BY <1>1
  <1> QED BY <1>1, <1>2, <1>3, <1>4 DEF E

(* The engine gets one more image, whose wait is covered.                  *)
LEMMA EngineCovered ==
    ASSUME TypeOK, PacedWaitsAreCovered, NEW w \in Nat \union {kPacerDoNotWait}, Covered(w),
           NEW f \in Frames, engine' = Append(engine, [wait |-> w, frame |-> f]),
           \A v \in Int : Covered(v) => Covered(v)'
    PROVE  PacedWaitsAreCovered'
  <1> DEFINE E == [wait : Nat \union {kPacerDoNotWait}, frame : Frames]
             e == [wait |-> w, frame |-> f]
  <1>1. engine \in Seq(E) /\ e \in E /\ e.wait = w
    BY DEF TypeOK
  <1>2. \A x \in Nat \union {kPacerDoNotWait} : x \in Int
    BY DEF kPacerDoNotWait
  <1> HIDE DEF e
  <1>3. /\ DOMAIN engine' = 1 .. Len(engine) + 1 /\ DOMAIN engine = 1 .. Len(engine)
        /\ Len(engine) \in Nat
        /\ \A i \in 1 .. Len(engine) : engine'[i] = engine[i]
        /\ engine'[Len(engine) + 1] = e
    <2>1. engine' = Append(engine, e)
      BY DEF e
    <2> HIDE DEF E
    <2> QED BY <1>1, <2>1, AddedQueue
  <1> DEFINE C(v) == \/ v <= pacerSem'
                     \/ \E i \in DOMAIN pacerQueue' :
                           v < pacerQueue'[i].value + pacerQueue'[i].count
  <1>4. \A v \in Int : Covered(v) => C(v)
    BY DEF Covered
  <1>5. \A i \in DOMAIN engine : engine[i].wait \in Int /\ Covered(engine[i].wait)
    BY EngineTypes DEF PacedWaitsAreCovered
  <1> HIDE DEF C, E
  <1>6. \A i \in DOMAIN engine' : C(engine'[i].wait)
    BY <1>1, <1>2, <1>3, <1>4, <1>5
  <1> QED BY <1>6 DEF PacedWaitsAreCovered, Covered, C

(* Or it gets none.                                                        *)
LEMMA EngineStays ==
    ASSUME TypeOK, PacedWaitsAreCovered, UNCHANGED engine,
           \A v \in Int : Covered(v) => Covered(v)'
    PROVE  PacedWaitsAreCovered'
  <1> DEFINE C(v) == \/ v <= pacerSem'
                     \/ \E i \in DOMAIN pacerQueue' :
                           v < pacerQueue'[i].value + pacerQueue'[i].count
  <1>1. \A v \in Int : Covered(v) => C(v)
    BY DEF Covered
  <1>2. \A i \in DOMAIN engine : engine[i].wait \in Int
    BY EngineTypes
  <1> HIDE DEF C
  <1>4. \A i \in DOMAIN engine : C(engine[i].wait)
    BY <1>1, <1>2 DEF PacedWaitsAreCovered
  <1> QED BY <1>4 DEF PacedWaitsAreCovered, Covered, C

LEMMA PacingInit == Init => PacingInv
  BY DEF Init, PacingInv, PacedWaitsAreCovered

LEMMA PacingStep ==
    ASSUME TypeOK, TypeOK', PlaceInv, PacingInv, [Next]_vars
    PROVE  PacingInv'
  <1> USE DEF appVars, pipeVars, gpuVars, localVars, chainVars, pacerVars, sharedVars
  <1>a. pacerSem \in Nat /\ pacerQueue \in Seq(PacerJob) /\ MaxInterpolated \in Nat
    BY FGAssumption DEF TypeOK, PacerJob
  <1>b. /\ kPacerDoNotWait \in Nat \union {kPacerDoNotWait} /\ kPacerDoNotWait \in Int
        /\ Covered(kPacerDoNotWait)
    BY DEF TypeOK, kPacerDoNotWait, Covered
  <1>0. ASSUME UNCHANGED <<engine, pacerQueue, pacerSem, pcpc, ppc, pi, presentQueue, pacerValueLocal,
                        pacerValue, useMetering>> PROVE PacingInv'
    BY <1>0 DEF PacingInv, PacedWaitsAreCovered, Covered, Job
  <1>1. CASE \/ AppPresent \/ ChangeMultiplier \/ AppSynchronizePresent \/ AppAcquire
             \/ AppWaitImage \/ AppSubmitPresent \/ AppSyncFrameLatency
             \/ RecreateWaitSubmission \/ RecreateWaitQueue \/ SyncTest \/ SyncSleep
             \/ RecreateDeviceIdle \/ CsPresent \/ SubmitList \/ SubmitPresentFails
             \/ SubmitPresentQueued \/ GpuComplete \/ UNCHANGED vars
    <2>1. UNCHANGED <<engine, pacerQueue, pacerSem, pcpc, ppc, pi, presentQueue, pacerValueLocal,
                        pacerValue, useMetering>>
      BY <1>1 DEF vars, AppPresent, ChangeMultiplier, AppSynchronizePresent, AppAcquire,
            AppWaitImage, AppSubmitPresent, AppSyncFrameLatency, RecreateWaitSubmission,
            RecreateWaitQueue, SyncTest, SyncSleep, RecreateDeviceIdle, CsPresent,
            SubmitList, SubmitPresentFails, SubmitPresentQueued, GpuComplete
    <2> QED BY <1>0, <2>1
  <1>2. CASE RecreateBuild
    <2>1. engine' = <<>>
      BY <1>2 DEF RecreateBuild
    <2>2. PacedWaitsAreCovered'
      BY <2>1 DEF PacedWaitsAreCovered
    <2> QED BY <1>2, <2>2 DEF RecreateBuild, PacingInv, Covered, Job
  <1>3. CASE SubmitPush
    <2>1. ppc = "wait" /\ UNCHANGED <<ppc, engine, pacerVars>>
      BY <1>3 DEF SubmitPush, MutexFree, TypeOK
    <2> QED BY <2>1 DEF PacingInv, PacedWaitsAreCovered, Covered
  <1>4. CASE EngineShows
    <2>1. engine # <<>> /\ engine' = Tail(engine)
      BY <1>4 DEF EngineShows
    <2>2. UNCHANGED <<pcpc, pacerQueue, pacerSem, pacerValue, ppc, pi, pacerValueLocal,
                      useMetering, presentQueue>>
      BY <1>4 DEF EngineShows
    <2>3. \A i \in DOMAIN engine' : i + 1 \in DOMAIN engine /\ engine'[i] = engine[i + 1]
      <3>1. /\ DOMAIN engine = 1 .. Len(engine) /\ Len(engine) \in Nat
            /\ DOMAIN Tail(engine) = 1 .. Len(engine) - 1
            /\ \A i \in 1 .. Len(engine) - 1 : Tail(engine)[i] = engine[i + 1]
        BY <2>1, EngineTypes, TakenQueue
      <3> QED BY ONLY <2>1, <3>1
    <2>4. PacedWaitsAreCovered'
      BY <2>2, <2>3 DEF PacingInv, PacedWaitsAreCovered, Covered
    <2> QED BY <2>2, <2>4 DEF PacingInv, Covered, Job
  <1>5. CASE PresentTake
    <2>1. /\ UNCHANGED <<engine, pacerVars, presentQueue>> /\ pacerValueLocal' = kPacerDoNotWait
          /\ pi' = 0 /\ useMetering' = FALSE
      BY <1>5 DEF PresentTake
    <2>2. \/ ppc' \in {"finish", "interpolate"}
          \/ ppc' = "renderedAcquire" /\ Job.interpolated = 0
      BY <1>5 DEF PresentTake
    <2> QED BY <2>1, <2>2 DEF PacingInv, PacedWaitsAreCovered, Covered, Job
  <1>6. CASE InterpolatedAcquire
    <2>1. UNCHANGED <<engine, pacerVars>> /\ ppc' \in {"interpolate", "firstPresent"}
      BY <1>6 DEF InterpolatedAcquire
    <2> QED BY <2>1 DEF PacingInv, PacedWaitsAreCovered, Covered
  <1>7. CASE FirstPresent
    <2>1. /\ Job.interpolated \in 1 .. MaxInterpolated /\ Job.frame \in Frames
          /\ JobCount \in Nat \ {0} /\ pacerValue \in Nat
      <3> HIDE DEF Job
      <3>1. Job.interpolated > 0 /\ presentQueue # <<>>
        BY <1>7 DEF FirstPresent, PlaceInv
      <3>2. Job.interpolated \in 0 .. MaxInterpolated /\ Job.frame \in Frames
        BY <3>1, JobType
      <3>3. pacerValue \in Nat
        BY DEF TypeOK
      <3>4. Job.interpolated \in 1 .. MaxInterpolated /\ Job.interpolated \in Nat \ {0}
        BY <1>a, <3>1, <3>2
      <3> QED BY <3>2, <3>3, <3>4 DEF JobCount
    <2>2. PICK res \in Answers("firstPresent"), metering \in BOOLEAN :
            IF res = Success
              THEN /\ engine' = Append(engine, [wait |-> kPacerDoNotWait, frame |-> Job.frame])
                   /\ useMetering' = metering
                   /\ pacerValueLocal' = IF metering THEN kPacerDoNotWait ELSE pacerValue
                   /\ pacerQueue' = IF metering THEN pacerQueue
                        ELSE Append(pacerQueue, [value |-> pacerValue, count |-> JobCount])
                   /\ pi' = 1
                   /\ ppc' = IF MoreToPresent(1) THEN "pacedPresent" ELSE "renderedAcquire"
              ELSE /\ ppc' = "finish"
                   /\ UNCHANGED <<engine, useMetering, pacerValueLocal, pacerQueue, pi>>
      BY <1>7 DEF FirstPresent
    <2>3. UNCHANGED <<presentQueue, pcpc, pacerSem, pacerValue>>
      BY <1>7 DEF FirstPresent
    <2> DEFINE e == [value |-> pacerValue, count |-> JobCount]
    <2>4. e \in PacerJob /\ e.value = pacerValue /\ e.count = JobCount
      BY <2>1 DEF PacerJob, JobCount
    <2>5. CASE res # Success
      <3>1. ppc' = "finish" /\ UNCHANGED <<engine, pacerQueue>>
        BY <2>2, <2>5
      <3> QED BY <2>3, <3>1 DEF PacingInv, PacedWaitsAreCovered, Covered
    <2>6. CASE res = Success /\ metering
      <3>1. /\ ppc' \in {"pacedPresent", "renderedAcquire"} /\ UNCHANGED pacerQueue
            /\ useMetering' /\ pacerValueLocal' = kPacerDoNotWait
            /\ engine' = Append(engine, [wait |-> kPacerDoNotWait, frame |-> Job.frame])
        BY <2>2, <2>6
      <3>2. \A v \in Int : Covered(v) => Covered(v)'
        BY <2>3, <3>1 DEF Covered
      <3>3. PacedWaitsAreCovered'
        BY <1>b, <2>1, <3>1, <3>2, EngineCovered DEF PacingInv
      <3> QED BY <2>3, <3>1, <3>3 DEF PacingInv
    <2>7. CASE res = Success /\ ~metering
      <3> HIDE DEF e
      <3>1. /\ ppc' \in {"pacedPresent", "renderedAcquire"} /\ pacerQueue' = Append(pacerQueue, e)
            /\ ~useMetering' /\ pacerValueLocal' = pacerValue /\ pi' = 1
            /\ engine' = Append(engine, [wait |-> kPacerDoNotWait, frame |-> Job.frame])
        BY <2>2, <2>7 DEF e
      <3>2. \A v \in Int : Covered(v) => Covered(v)'
        BY <2>3, <2>4, <3>1, CoveredStays
      <3>3. PacedWaitsAreCovered'
        BY <1>b, <2>1, <3>1, <3>2, EngineCovered DEF PacingInv
      <3>4. /\ DOMAIN pacerQueue' = 1 .. Len(pacerQueue) + 1 /\ Len(pacerQueue) \in Nat
            /\ pacerQueue'[Len(pacerQueue) + 1] = e
            /\ pacerQueue # <<>> => Head(pacerQueue') = Head(pacerQueue)
        BY <1>a, <2>4, <3>1, AddedQueue
      <3>5. Covered(pacerValue + Job.interpolated - 1)'
        <4>1. \E i \in DOMAIN pacerQueue' :
                pacerValue + Job.interpolated - 1 < pacerQueue'[i].value + pacerQueue'[i].count
          <5>1. Len(pacerQueue) + 1 \in DOMAIN pacerQueue'
            BY <3>4
          <5>2. pacerValue + Job.interpolated - 1 < e.value + e.count
            BY <2>1, <2>4 DEF JobCount
          <5> QED BY <3>4, <5>1, <5>2
        <4> QED BY <2>3, <4>1 DEF Covered, Job
      <3>6. pcpc = "pop" => pacerQueue # <<>>
        BY DEF PlaceInv
      <3>7. Job' = Job
        BY <2>3 DEF Job
      <3>8. pcpc' = "pop" => Head(pacerQueue').value + Head(pacerQueue').count - 1 <= pacerSem'
        BY <2>3, <3>4, <3>6 DEF PacingInv
      <3>9. pacerValueLocal' \in Nat /\ pacerValueLocal' <= pacerValue' + pi' - 1
        BY <2>1, <2>3, <3>1
      <3>10. ~(useMetering \/ Job.interpolated = 0)'
        BY <2>1, <3>1, <3>7
      <3> HIDE DEF Job
      <3> QED BY <3>3, <3>5, <3>8, <3>9, <3>10 DEF PacingInv
    <2> QED BY <2>5, <2>6, <2>7
  <1>8. CASE PacedPresent
    <2>1. /\ Job.interpolated \in Nat /\ Job.frame \in Frames /\ pi \in Nat /\ pi < Job.interpolated
          /\ pacerValue \in Nat /\ pi' = pi + 1 /\ ppc = "pacedPresent"
      <3> HIDE DEF Job
      <3>1. presentQueue # <<>> /\ pi < Job.interpolated
        BY <1>8 DEF PacedPresent, PlaceInv
      <3> QED BY <1>8, <3>1, JobType, SMTT(20) DEF TypeOK, PacedPresent
    <2>2. PICK res \in Answers("pacedPresent") :
            /\ engine' = IF res = Success
                 THEN Append(engine, [wait |-> pacerValueLocal, frame |-> Job.frame]) ELSE engine
            /\ pacerValueLocal' = IF res = Success /\ ~useMetering
                 THEN pacerValueLocal + 1 ELSE pacerValueLocal
      BY <1>8 DEF PacedPresent
    <2>3. UNCHANGED <<presentQueue, pacerVars, useMetering>>
      BY <1>8 DEF PacedPresent
    <2>4. \A v \in Int : Covered(v) => Covered(v)'
      BY <2>3 DEF Covered
    <2>5. pacerValueLocal \in Nat \union {kPacerDoNotWait} /\ Covered(pacerValueLocal)
      <3>1. pacerValueLocal \in Nat \union {kPacerDoNotWait}
        BY DEF TypeOK
      <3>2. CASE useMetering
        <4>1. pacerValueLocal = kPacerDoNotWait
          BY <2>1, <3>2 DEF PacingInv
        <4> QED BY <1>b, <3>1, <4>1
      <3>3. CASE ~useMetering
        <4>1. /\ pacerValueLocal \in Nat /\ pacerValueLocal <= pacerValue + pi - 1
              /\ Covered(pacerValue + Job.interpolated - 1)
          BY <2>1, <3>3 DEF PacingInv
        <4>2. pacerValueLocal \in Int /\ pacerValue + Job.interpolated - 1 \in Int
              /\ pacerValueLocal <= pacerValue + Job.interpolated - 1
          BY <2>1, <4>1
        <4> QED BY <3>1, <4>1, <4>2, CoveredBelow
      <3> QED BY <3>2, <3>3
    <2>6. PacedWaitsAreCovered'
      BY <2>1, <2>2, <2>4, <2>5, EngineCovered, EngineStays DEF PacingInv
    <2>7. Job' = Job
      BY <2>3 DEF Job
    <2>8. IF useMetering' \/ (Job.interpolated = 0)'
           THEN pacerValueLocal' = kPacerDoNotWait
           ELSE /\ pacerValueLocal' \in Nat
                /\ pacerValueLocal' <= pacerValue' + pi' - 1
                /\ Covered(pacerValue + Job.interpolated - 1)'
      <3>1. CASE useMetering
        BY <2>1, <2>2, <2>3, <3>1 DEF PacingInv
      <3>2. CASE ~useMetering
        <4>1. /\ pacerValueLocal \in Nat /\ pacerValueLocal <= pacerValue + pi - 1
              /\ Covered(pacerValue + Job.interpolated - 1)
          BY <2>1, <3>2 DEF PacingInv
        <4>2. Covered(pacerValue + Job.interpolated - 1)'
          BY <2>3, <2>7, <4>1 DEF Covered
        <4>3. pacerValueLocal' \in Nat /\ pacerValueLocal' <= pacerValue' + pi' - 1
          BY <2>1, <2>2, <2>3, <4>1
        <4> QED BY <2>1, <2>3, <2>7, <3>2, <4>2, <4>3
      <3> QED BY <3>1, <3>2
    <2> QED BY <2>3, <2>6, <2>8 DEF PacingInv
  <1>9. CASE RenderedAcquire
    <2>1. /\ UNCHANGED <<engine, pacerVars, presentQueue, pi, pacerValueLocal,
                         useMetering>>
          /\ ppc = "renderedAcquire" /\ ppc' \in {"renderedPresent", "finish"}
      BY <1>9 DEF RenderedAcquire
    <2> QED BY <2>1 DEF PacingInv, PacedWaitsAreCovered, Covered, Job
  <1>10. CASE RenderedPresent
    <2>1. /\ Job.interpolated \in Nat /\ Job.frame \in Frames /\ pi = Job.interpolated
          /\ pacerValue \in Nat /\ ppc = "renderedPresent"
      <3> HIDE DEF Job
      <3>1. presentQueue # <<>> /\ pi = Job.interpolated
        BY <1>10 DEF RenderedPresent, PlaceInv
      <3> QED BY <1>10, <3>1, JobType, SMTT(20) DEF TypeOK, RenderedPresent
    <2>2. PICK res \in Answers("renderedPresent") :
            engine' = IF res = Success
                 THEN Append(engine, [wait |-> pacerValueLocal, frame |-> Job.frame]) ELSE engine
      BY <1>10 DEF RenderedPresent
    <2>3. UNCHANGED <<pcpc, pacerQueue, pacerSem>> /\ ppc' = "finish"
      BY <1>10 DEF RenderedPresent
    <2>4. \A v \in Int : Covered(v) => Covered(v)'
      BY <2>3 DEF Covered
    <2>5. pacerValueLocal \in Nat \union {kPacerDoNotWait} /\ Covered(pacerValueLocal)
      <3>1. pacerValueLocal \in Nat \union {kPacerDoNotWait}
        BY DEF TypeOK
      <3>2. CASE useMetering \/ Job.interpolated = 0
        <4>1. pacerValueLocal = kPacerDoNotWait
          BY <2>1, <3>2 DEF PacingInv
        <4> QED BY <1>b, <3>1, <4>1
      <3>3. CASE ~(useMetering \/ Job.interpolated = 0)
        <4>1. /\ pacerValueLocal \in Nat /\ pacerValueLocal <= pacerValue + pi - 1
              /\ Covered(pacerValue + Job.interpolated - 1)
          BY <2>1, <3>3 DEF PacingInv
        <4>2. pacerValueLocal \in Int /\ pacerValue + Job.interpolated - 1 \in Int
              /\ pacerValueLocal <= pacerValue + Job.interpolated - 1
          BY <2>1, <4>1
        <4> QED BY <3>1, <4>1, <4>2, CoveredBelow
      <3> QED BY <3>2, <3>3
    <2>6. PacedWaitsAreCovered'
      BY <2>1, <2>2, <2>4, <2>5, EngineCovered, EngineStays DEF PacingInv
    <2> QED BY <2>3, <2>6 DEF PacingInv
  <1>11. CASE PresentFinish
    <2>1. UNCHANGED <<engine, pacerVars>> /\ ppc' \in {"take", "wait"}
      BY <1>11 DEF PresentFinish
    <2> QED BY <2>1 DEF PacingInv, PacedWaitsAreCovered, Covered
  <1>12. CASE PacerTake
    <2>1. /\ UNCHANGED <<engine, pacerQueue, pacerSem, pacerValue, presentQueue, ppc, pi,
                         pacerValueLocal, useMetering>>
          /\ pcpc' = "pace"
      BY <1>12 DEF PacerTake
    <2> QED BY <2>1 DEF PacingInv, PacedWaitsAreCovered, Covered, Job
  <1>13. CASE PacerSignal
    <2>1. UNCHANGED <<engine, pacerQueue, pacerValue, presentQueue, ppc, pi, pacerValueLocal,
                      useMetering>>
      BY <1>13 DEF PacerSignal
    <2>2. \A v \in Int : Covered(v) => Covered(v)'
      BY <1>13, CoveredStays
    <2>3. PacedWaitsAreCovered'
      BY <2>1, <2>2, EngineStays DEF PacingInv
    <2>4. Job' = Job
      BY <2>1 DEF Job
    <2>5. ppc \in {"pacedPresent", "renderedAcquire", "renderedPresent"}
            /\ Covered(pacerValue + Job.interpolated - 1)
            => Covered(pacerValue + Job.interpolated - 1)'
      <3>1. ASSUME ppc \in {"pacedPresent", "renderedAcquire", "renderedPresent"}
            PROVE  pacerValue + Job.interpolated - 1 \in Int
        <4>1. presentQueue # <<>>
          BY <3>1 DEF PlaceInv
        <4>2. Job.interpolated \in Nat
          BY <4>1, JobType
        <4>3. pacerValue \in Nat
          BY DEF TypeOK
        <4> QED BY ONLY <4>2, <4>3
      <3> DEFINE v == pacerValue + Job.interpolated - 1
      <3>2. v' = v
        BY <2>1, <2>4
      <3> HIDE DEF v
      <3>3. ASSUME v \in Int, Covered(v) PROVE Covered(v)'
        BY <2>2, <3>2, <3>3 DEF Covered
      <3> QED BY <3>1, <3>3 DEF v

    <2>6. Head(pacerQueue).value + Head(pacerQueue).count - 1 <= pacerSem'
      <3>1. Head(pacerQueue) \in PacerJob
        BY <1>a, <1>13, TakenQueue DEF PacerSignal, PlaceInv
      <3> DEFINE n == Head(pacerQueue).value + Head(pacerQueue).count - 1
      <3>2. n \in Int
        BY <1>a, <3>1 DEF PacerJob
      <3>3. pacerSem' = Max({pacerSem, n}) /\ pacerSem \in Int
        BY <1>a, <1>13 DEF PacerSignal
      <3> HIDE DEF n
      <3>4. n <= pacerSem'
        <4>1. Max({pacerSem, n}) \in {pacerSem, n} /\ Max({pacerSem, n}) >= n
          BY ONLY <3>2, <3>3, MaxOfTwo
        <4> QED BY ONLY <3>2, <3>3, <4>1
      <3> QED BY <3>4 DEF n
    <2> QED BY <2>1, <2>3, <2>4, <2>5, <2>6 DEF PacingInv
  <1>14. CASE PacerPop
    <2>1. UNCHANGED <<engine, pacerValue, presentQueue, ppc, pi, pacerValueLocal,
                      useMetering>>
      BY <1>14 DEF PacerPop
    <2>2. \A v \in Int : Covered(v) => Covered(v)'
      BY <1>14, CoveredStays
    <2>3. PacedWaitsAreCovered'
      BY <2>1, <2>2, EngineStays DEF PacingInv
    <2>4. Job' = Job
      BY <2>1 DEF Job
    <2>5. ppc \in {"pacedPresent", "renderedAcquire", "renderedPresent"}
            /\ Covered(pacerValue + Job.interpolated - 1)
            => Covered(pacerValue + Job.interpolated - 1)'
      <3>1. ASSUME ppc \in {"pacedPresent", "renderedAcquire", "renderedPresent"}
            PROVE  pacerValue + Job.interpolated - 1 \in Int
        <4>1. presentQueue # <<>>
          BY <3>1 DEF PlaceInv
        <4>2. Job.interpolated \in Nat
          BY <4>1, JobType
        <4>3. pacerValue \in Nat
          BY DEF TypeOK
        <4> QED BY ONLY <4>2, <4>3
      <3> DEFINE v == pacerValue + Job.interpolated - 1
      <3>2. v' = v
        BY <2>1, <2>4
      <3> HIDE DEF v
      <3>3. ASSUME v \in Int, Covered(v) PROVE Covered(v)'
        BY <2>2, <3>2, <3>3 DEF Covered
      <3> QED BY <3>1, <3>3 DEF v

    <2>6. pcpc' = "wait"
      BY <1>14 DEF PacerPop
    <2> QED BY <2>1, <2>3, <2>4, <2>5, <2>6 DEF PacingInv
  <1> QED BY <1>1, <1>2, <1>3, <1>4, <1>5, <1>6, <1>7, <1>8, <1>9, <1>10, <1>11, <1>12,
       <1>13, <1>14
          DEF Next, AppWaits, Recreate, Submit, Present, Pacer
-----------------------------------------------------------------------------
(* The status.                                                             *)

LEMMA WayFacts ==
    ASSUME TypeOK, PlaceInv
    PROVE  /\ Len(csQueue) \in Nat /\ Len(submitQueue) \in Nat /\ OnItsWay \in Nat
           /\ OnItsWay = 0 => csQueue = <<>>
           /\ OnItsWay = 0 /\ spc # "push" => submitQueue = <<>>
           /\ csQueue = <<>> /\ submitQueue = <<>> => OnItsWay = 0
  <1>1. /\ Len(csQueue) \in Nat /\ Len(submitQueue) \in Nat
        /\ csQueue = <<>> <=> Len(csQueue) = 0
        /\ submitQueue = <<>> <=> Len(submitQueue) = 0
    BY QueueTypes, QueueEmpty
  <1>2. spc = "push" => Len(submitQueue) > 0
    BY <1>1 DEF PlaceInv
  <1> QED BY <1>1, <1>2 DEF OnItsWay

LEMMA StatusInit == Init => StatusInv /\ RetryInv
  BY DEF Init, StatusInv, RetryInv, Synchronizing, Synchronized, Recreating, OnItsWay,
       FirstFrame

LEMMA StatusStep ==
    ASSUME TypeOK, TypeOK', PlaceInv, StatusInv, RetryInv, [Next]_vars
    PROVE  StatusInv' /\ RetryInv'
  <1> USE DEF appVars, pipeVars, gpuVars, localVars, chainVars, pacerVars, sharedVars
  <1> USE DEF StatusInv, RetryInv, Synchronizing, Synchronized, Recreating, Orderly
  <1>a. /\ Len(csQueue) \in Nat /\ Len(submitQueue) \in Nat /\ OnItsWay \in Nat
        /\ OnItsWay = 0 => csQueue = <<>>
        /\ OnItsWay = 0 /\ spc # "push" => submitQueue = <<>>
        /\ csQueue = <<>> /\ submitQueue = <<>> => OnItsWay = 0
    BY WayFacts
  <1>b. spc = "push" => submitQueue # <<>>
    BY DEF PlaceInv
  <1>0. ASSUME UNCHANGED <<world, csQueue, submitQueue, spc, status, apc, presentQueue, resume,
                        retries>> PROVE StatusInv' /\ RetryInv'
    BY <1>0 DEF OnItsWay
  <1>1. CASE \/ ChangeMultiplier \/ GpuComplete \/ EngineShows \/ PresentTake
             \/ InterpolatedAcquire \/ FirstPresent \/ PacedPresent \/ RenderedAcquire
             \/ RenderedPresent \/ PacerTake \/ PacerSignal \/ UNCHANGED vars
    <2>1. UNCHANGED <<world, csQueue, submitQueue, spc, status, apc, presentQueue, resume,
                        retries>>
      BY <1>1 DEF vars, ChangeMultiplier, GpuComplete, EngineShows, PresentTake,
            InterpolatedAcquire, FirstPresent, PacedPresent, RenderedAcquire,
            RenderedPresent, PacerTake, PacerSignal
    <2> QED BY <1>0, <2>1
  <1>2. CASE AppPresent
    <2>1. UNCHANGED <<world, csQueue, submitQueue, spc, presentQueue>> /\ OnItsWay' = OnItsWay
      BY <1>2 DEF AppPresent, OnItsWay
    <2>2. apc' \in {"synchronizePresent", "recreate"} /\ retries' = 0 /\ status' = status
      BY <1>2, <1>a DEF AppPresent, TypeOK
    <2> QED BY <1>a, <1>b, <2>1, <2>2
  <1>3. CASE AppSynchronizePresent
    <2>1. UNCHANGED <<world, csQueue, submitQueue, spc, presentQueue>> /\ OnItsWay' = OnItsWay
      BY <1>3 DEF AppSynchronizePresent, OnItsWay
    <2>2. /\ apc = "synchronizePresent" /\ apc' \in {"acquire", "recreate"} /\ retries' = retries
          /\ resume' = "acquire" /\ status' = status /\ status # NotReady
      BY <1>3, <1>a DEF AppSynchronizePresent, TypeOK
    <2> QED BY <1>a, <1>b, <2>1, <2>2
  <1>4. CASE AppAcquire
    <2>1. UNCHANGED <<world, csQueue, submitQueue, spc, presentQueue>> /\ OnItsWay' = OnItsWay
      BY <1>4 DEF AppAcquire, OnItsWay
    <2>2. /\ apc = "acquire" /\ resume' = resume /\ status' = status
          /\ \/ apc' = "waitImage" /\ retries' = retries
             \/ apc' \in {"idle", "recreate"}
      BY <1>4, <1>a DEF AppAcquire, TypeOK
    <2> QED BY <1>a, <1>b, <2>1, <2>2
  <1>5. CASE AppWaitImage
    <2>1. UNCHANGED <<world, csQueue, submitQueue, spc, presentQueue>> /\ OnItsWay' = OnItsWay
      BY <1>5 DEF AppWaitImage, OnItsWay
    <2>2. /\ apc = "waitImage" /\ resume' = resume /\ status' = status /\ retries' = retries
          /\ apc' \in {"record", "idle"}
      BY <1>5, <1>a DEF AppWaitImage, TypeOK
    <2> QED BY <1>a, <1>b, <2>1, <2>2
  <1>6. CASE AppSubmitPresent
    <2>1. PICK e \in Frame : csQueue' = Append(csQueue, e)
      <3>1. csQueue' \in Seq(Frame) /\ \E e : csQueue' = Append(csQueue, e)
        BY <1>6 DEF TypeOK, AppSubmitPresent
      <3>2. PICK e : csQueue' = Append(csQueue, e)
        BY <3>1
      <3>3. Len(csQueue) + 1 \in DOMAIN csQueue' /\ csQueue'[Len(csQueue) + 1] = e
        BY <1>a, <3>2, QueueTypes
      <3>4. e \in Frame
        BY <3>1, <3>3, QueueElement
      <3> QED BY <3>2, <3>4
    <2>2. Len(csQueue') = Len(csQueue) + 1
      BY <2>1, QueueTypes, AddedQueue
    <2>3. /\ UNCHANGED <<world, submitQueue, spc, presentQueue, resume, retries>>
          /\ apc = "record" /\ apc' = "frameLatency" /\ status' = NotReady
      BY <1>6 DEF AppSubmitPresent
    <2>4. OnItsWay' = OnItsWay + 1
      BY <1>a, <2>2, <2>3 DEF OnItsWay
    <2> QED BY <1>a, <1>b, <2>3, <2>4
  <1>7. CASE AppSyncFrameLatency
    <2>1. UNCHANGED <<world, csQueue, submitQueue, spc, presentQueue>> /\ OnItsWay' = OnItsWay
      BY <1>7 DEF AppSyncFrameLatency, OnItsWay
    <2>2. /\ resume' = resume /\ status' = status /\ retries' = retries /\ apc' = "idle"
      BY <1>7, <1>a DEF AppSyncFrameLatency, TypeOK
    <2> QED BY <1>a, <1>b, <2>1, <2>2
  <1>8. CASE RecreateWaitSubmission
    <2>1. UNCHANGED <<world, csQueue, submitQueue, spc, presentQueue>> /\ OnItsWay' = OnItsWay
      BY <1>8 DEF RecreateWaitSubmission, OnItsWay
    <2>2. /\ apc = "recreate" /\ resume' = resume /\ status' = status /\ retries' = retries
          /\ apc' = "drain" /\ status # NotReady
      BY <1>8, <1>a DEF RecreateWaitSubmission, TypeOK
    <2> QED BY <1>a, <1>b, <2>1, <2>2
  <1>9. CASE RecreateWaitQueue
    <2>1. /\ UNCHANGED <<world, csQueue, submitQueue, spc, presentQueue, resume,
                         status, retries>>
          /\ OnItsWay' = OnItsWay
      BY <1>9 DEF RecreateWaitQueue, OnItsWay
    <2>2. apc = "drain" /\ apc' = "sync" /\ submitQueue = <<>>
      BY <1>9 DEF RecreateWaitQueue, Drained
    <2> QED BY <1>a, <1>b, <2>1, <2>2
  <1>10. CASE SyncTest
    <2>1. UNCHANGED <<world, csQueue, submitQueue, spc, presentQueue>> /\ OnItsWay' = OnItsWay
      BY <1>10 DEF SyncTest, OnItsWay
    <2>2. /\ resume' = resume /\ status' = status /\ retries' = retries
          /\ apc \in {"sync", "retest"} /\ apc' \in {"deviceIdle", "build", "testPassed"}
          /\ apc = "sync" => presentQueue = <<>>
      BY <1>10, <1>a DEF SyncTest, TypeOK
    <2> QED BY <1>a, <1>b, <2>1, <2>2
  <1>11. CASE SyncSleep
    <2>1. UNCHANGED <<world, csQueue, submitQueue, spc, presentQueue>> /\ OnItsWay' = OnItsWay
      BY <1>11 DEF SyncSleep, OnItsWay
    <2>2. /\ resume' = resume /\ status' = status /\ retries' = retries
          /\ apc = "testPassed" /\ apc' = "asleep"
      BY <1>11, <1>a DEF SyncSleep, TypeOK
    <2> QED BY <1>a, <1>b, <2>1, <2>2
  <1>12. CASE RecreateDeviceIdle
    <2>1. UNCHANGED <<world, csQueue, submitQueue, spc, presentQueue>> /\ OnItsWay' = OnItsWay
      BY <1>12 DEF RecreateDeviceIdle, OnItsWay
    <2>2. /\ resume' = resume /\ retries' = retries
          /\ apc = "deviceIdle" /\ apc' = "sync"
      BY <1>12, <1>a DEF RecreateDeviceIdle, TypeOK
    <2> QED BY <1>a, <1>b, <2>1, <2>2
  <1>13. CASE RecreateBuild
    <2>1. UNCHANGED <<world, csQueue, submitQueue, spc, presentQueue>> /\ OnItsWay' = OnItsWay
      BY <1>13 DEF RecreateBuild, OnItsWay
    <2>2. /\ resume' = resume /\ status' = status /\ retries' = retries
          /\ apc = "build" /\ apc' = resume /\ apc' \in {"synchronizePresent", "acquire"}
      BY <1>13, <1>a DEF RecreateBuild, TypeOK
    <2> QED BY <1>a, <1>b, <2>1, <2>2
  <1>14. CASE CsPresent
    <2>1. /\ UNCHANGED <<world, apc, spc, presentQueue, resume, retries>>
          /\ csQueue # <<>> /\ status' = NotReady
          /\ submitQueue' = Append(submitQueue, Head(csQueue)) /\ csQueue' = Tail(csQueue)
      BY <1>14 DEF CsPresent
    <2>2. Len(csQueue') = Len(csQueue) - 1 /\ Head(csQueue) \in Frame
      BY <2>1, QueueTypes, TakenQueue
    <2>3. Len(submitQueue') = Len(submitQueue) + 1
      BY <2>1, <2>2, QueueTypes, AddedQueue
    <2>4. OnItsWay' = OnItsWay
      BY <1>a, <2>1, <2>2, <2>3 DEF OnItsWay
    <2>5. OnItsWay # 0
      BY <1>a, <2>1
    <2> QED BY <1>a, <1>b, <2>1, <2>4, <2>5
  <1>15. CASE SubmitList
    <2>1. /\ UNCHANGED <<world, apc, csQueue, submitQueue, presentQueue, status,
                         resume, retries>>
          /\ spc = "idle" /\ spc' = "present"
      BY <1>15 DEF SubmitList
    <2>2. OnItsWay' = OnItsWay
      BY <2>1 DEF OnItsWay
    <2> QED BY <1>a, <1>b, <2>1, <2>2
  <1>16. CASE SubmitPresentFails
    <2>1. /\ UNCHANGED <<world, apc, csQueue, presentQueue, resume, retries>>
          /\ spc = "present" /\ spc' = "idle" /\ submitQueue' = Tail(submitQueue)
          /\ submitQueue # <<>>
      BY <1>16 DEF SubmitPresentFails, PlaceInv
    <2>2. Len(submitQueue') = Len(submitQueue) - 1 /\ Len(submitQueue) > 0
      BY <2>1, QueueTypes, TakenQueue
    <2>3. OnItsWay' = OnItsWay - 1 /\ OnItsWay # 0
      BY <1>a, <2>1, <2>2 DEF OnItsWay
    <2> QED BY <1>a, <1>b, <2>1, <2>3
  <1>17. CASE SubmitPresentQueued
    <2>1. /\ UNCHANGED <<world, apc, csQueue, submitQueue, presentQueue, resume, retries>>
          /\ spc = "present" /\ spc' = "push" /\ submitQueue # <<>>
      BY <1>17 DEF SubmitPresentQueued, PlaceInv
    <2>2. Len(submitQueue) > 0
      BY <2>1, QueueTypes, TakenQueue
    <2>3. OnItsWay' = OnItsWay - 1 /\ OnItsWay # 0
      BY <1>a, <2>1, <2>2 DEF OnItsWay
    <2> QED BY <1>a, <1>b, <2>1, <2>3
  <1>18. CASE SubmitPush
    <2>1. /\ UNCHANGED <<world, apc, csQueue, status, resume, retries>>
          /\ spc = "push" /\ spc' = "idle" /\ submitQueue' = Tail(submitQueue)
          /\ submitQueue # <<>>
      BY <1>18 DEF SubmitPush, PlaceInv
    <2>2. Len(submitQueue') = Len(submitQueue) - 1 /\ Len(submitQueue) > 0
      BY <2>1, QueueTypes, TakenQueue
    <2>3. OnItsWay' = OnItsWay
      BY <1>a, <2>1, <2>2 DEF OnItsWay
    <2> QED BY <1>a, <1>b, <2>1, <2>3
  <1>19. CASE PresentFinish
    <2>1. /\ UNCHANGED <<world, apc, csQueue, submitQueue, spc, resume, retries>>
          /\ Orderly => status # NotReady
          /\ presentQueue # <<>>
      BY <1>19 DEF PresentFinish, PlaceInv, Orderly
    <2>2. OnItsWay' = OnItsWay
      BY <2>1 DEF OnItsWay
    <2> QED BY <1>a, <1>b, <2>1, <2>2
  <1>20. CASE PacerPop
    <2>1. UNCHANGED <<world, csQueue, submitQueue, spc, presentQueue>> /\ OnItsWay' = OnItsWay
      BY <1>20 DEF PacerPop, OnItsWay
    <2>2. /\ resume' = resume /\ status' = status /\ retries' = retries
          /\ \/ apc = "asleep" /\ apc' = "retest"
             \/ apc' = apc
      BY <1>20, <1>a DEF PacerPop, TypeOK
    <2> QED BY <1>a, <1>b, <2>1, <2>2
  <1> QED BY <1>1, <1>2, <1>3, <1>4, <1>5, <1>6, <1>7, <1>8, <1>9, <1>10, <1>11, <1>12,
       <1>13, <1>14, <1>15, <1>16, <1>17, <1>18, <1>19, <1>20
          DEF Next, AppWaits, Recreate, Submit, Present, Pacer
-----------------------------------------------------------------------------
(* The backbuffers.                                                        *)

LEMMA NamedTail ==
    ASSUME NEW q \in Seq(Frame), q # <<>>, Distinct(q)
    PROVE  /\ Named(Tail(q)) = Named(q) \ {Head(q).image}
           /\ Head(q).image \in Named(q)
           /\ Distinct(Tail(q))
           /\ \A i : LastIs(q, i) => LastIs(Tail(q), i)
  <1>1. /\ Head(q) = q[1] /\ Tail(q) \in Seq(Frame) /\ Len(Tail(q)) = Len(q) - 1
        /\ Len(q) \in Nat \ {0} /\ DOMAIN q = 1 .. Len(q)
        /\ DOMAIN Tail(q) = 1 .. Len(q) - 1
        /\ \A i \in 1 .. Len(q) - 1 : Tail(q)[i] = q[i + 1]
    BY TakenQueue
  <1> DEFINE t == Tail(q)
  <1> HIDE DEF t
  <1>2. /\ DOMAIN t = 1 .. Len(q) - 1 /\ Len(t) = Len(q) - 1
        /\ \A i \in 1 .. Len(q) - 1 : i + 1 \in DOMAIN q /\ i + 1 # 1 /\ t[i] = q[i + 1]
    BY <1>1 DEF t
  <1>3. Head(q).image \in Named(q)
    BY <1>1 DEF Named
  <1>4. Named(t) \subseteq Named(q) \ {Head(q).image}
    <2>1. 1 \in DOMAIN q
      BY <1>1
    <2> QED BY <1>1, <1>2, <2>1 DEF Named, Distinct
  <1>5. Named(q) \ {Head(q).image} \subseteq Named(t)
    <2> SUFFICES ASSUME NEW j \in DOMAIN q, q[j].image # Head(q).image
                 PROVE  q[j].image \in Named(t)
      BY DEF Named
    <2>1. j - 1 \in 1 .. Len(q) - 1 /\ (j - 1) + 1 = j
      BY <1>1
    <2> QED BY <1>2, <2>1 DEF Named
  <1>6. Distinct(t)
    <2> SUFFICES ASSUME NEW i \in DOMAIN t, NEW j \in DOMAIN t, t[i].image = t[j].image
                 PROVE  i = j
      BY DEF Distinct
    <2>1. i + 1 \in DOMAIN q /\ j + 1 \in DOMAIN q /\ q[i + 1].image = q[j + 1].image
      BY <1>2
    <2>2. i + 1 = j + 1
      BY <2>1 DEF Distinct
    <2> QED BY <1>1, <1>2, <2>2
  <1>7. ASSUME NEW i, LastIs(q, i) PROVE LastIs(t, i)
    <2> SUFFICES ASSUME t # <<>> PROVE t[Len(t)].image = i
      BY DEF LastIs
    <2>1. Len(t) \in 1 .. Len(q) - 1 /\ Len(t) + 1 = Len(q)
      <3>1. t \in Seq(Frame)
        BY <1>1 DEF t
      <3>2. Len(t) # 0 /\ Len(t) \in Nat
        BY <3>1, QueueEmpty
      <3> QED BY <1>1, <1>2, <3>2
    <2>2. t[Len(t)] = q[Len(q)]
      BY <1>2, <2>1
    <2> QED BY <1>7, <2>2 DEF LastIs
  <1> QED BY <1>3, <1>4, <1>5, <1>6, <1>7 DEF t

LEMMA NamedAppend ==
    ASSUME NEW q \in Seq(Frame), NEW e \in Frame
    PROVE  /\ Named(Append(q, e)) = Named(q) \union {e.image}
           /\ LastIs(Append(q, e), e.image)
           /\ Distinct(q) /\ e.image \notin Named(q) => Distinct(Append(q, e))
  <1> DEFINE a == Append(q, e)
  <1>1. /\ Len(a) = Len(q) + 1 /\ Len(q) \in Nat
        /\ DOMAIN q = 1 .. Len(q) /\ DOMAIN a = 1 .. Len(q) + 1
        /\ \A i \in 1 .. Len(q) : a[i] = q[i]
        /\ a[Len(q) + 1] = e
    BY AddedQueue
  <1> HIDE DEF a
  <1>2. DOMAIN a = DOMAIN q \union {Len(q) + 1} /\ Len(q) + 1 \notin DOMAIN q
    BY <1>1
  <1>3. Named(a) = Named(q) \union {e.image}
    BY <1>1, <1>2 DEF Named
  <1>4. LastIs(a, e.image)
    BY <1>1 DEF LastIs
  <1>5. Distinct(q) /\ e.image \notin Named(q) => Distinct(a)
    BY <1>1, <1>2 DEF Distinct, Named
  <1> QED BY <1>3, <1>4, <1>5 DEF a

(* A behaviour has one environment.                                        *)
LEMMA WorldStays ==
    ASSUME [Next]_vars
    PROVE  world' = world
  <1> USE DEF appVars, pipeVars, gpuVars, localVars, chainVars, pacerVars, sharedVars
  <1>1. AppPresent => world' = world
    BY DEF AppPresent
  <1>2. ChangeMultiplier => world' = world
    BY DEF ChangeMultiplier
  <1>3. AppSynchronizePresent => world' = world
    BY DEF AppSynchronizePresent
  <1>4. AppAcquire => world' = world
    BY DEF AppAcquire
  <1>5. AppWaitImage => world' = world
    BY DEF AppWaitImage
  <1>6. AppSubmitPresent => world' = world
    BY DEF AppSubmitPresent
  <1>7. AppSyncFrameLatency => world' = world
    BY DEF AppSyncFrameLatency
  <1>8. RecreateWaitSubmission => world' = world
    BY DEF RecreateWaitSubmission
  <1>9. RecreateWaitQueue => world' = world
    BY DEF RecreateWaitQueue
  <1>10. SyncTest => world' = world
    BY DEF SyncTest
  <1>11. SyncSleep => world' = world
    BY DEF SyncSleep
  <1>12. RecreateDeviceIdle => world' = world
    BY DEF RecreateDeviceIdle
  <1>13. RecreateBuild => world' = world
    BY DEF RecreateBuild
  <1>14. CsPresent => world' = world
    BY DEF CsPresent
  <1>15. SubmitList => world' = world
    BY DEF SubmitList
  <1>16. SubmitPresentFails => world' = world
    BY DEF SubmitPresentFails
  <1>17. SubmitPresentQueued => world' = world
    BY DEF SubmitPresentQueued
  <1>18. SubmitPush => world' = world
    BY DEF SubmitPush
  <1>19. GpuComplete => world' = world
    BY DEF GpuComplete
  <1>20. EngineShows => world' = world
    BY DEF EngineShows
  <1>21. PresentTake => world' = world
    BY DEF PresentTake
  <1>22. InterpolatedAcquire => world' = world
    BY DEF InterpolatedAcquire
  <1>23. FirstPresent => world' = world
    BY DEF FirstPresent
  <1>24. PacedPresent => world' = world
    BY DEF PacedPresent
  <1>25. RenderedAcquire => world' = world
    BY DEF RenderedAcquire
  <1>26. RenderedPresent => world' = world
    BY DEF RenderedPresent
  <1>27. PresentFinish => world' = world
    BY DEF PresentFinish
  <1>28. PacerTake => world' = world
    BY DEF PacerTake
  <1>29. PacerSignal => world' = world
    BY DEF PacerSignal
  <1>30. PacerPop => world' = world
    BY DEF PacerPop
  <1>31. UNCHANGED vars => world' = world
    BY DEF vars
  <1> QED BY <1>1, <1>2, <1>3, <1>4, <1>5, <1>6, <1>7, <1>8, <1>9, <1>10, <1>11, <1>12,
       <1>13, <1>14, <1>15, <1>16, <1>17, <1>18, <1>19, <1>20, <1>21, <1>22, <1>23,
       <1>24, <1>25, <1>26, <1>27, <1>28, <1>29, <1>30, <1>31
          DEF Next, AppWaits, Recreate, Submit, Present, Pacer

LEMMA BackbufferInit == Init => BackbufferInv
  BY DEF Init, BackbufferInv, Named, Distinct, LastIs

LEMMA BackbufferStep ==
    ASSUME TypeOK, TypeOK', PlaceInv, StatusInv, RetryInv, BackbufferInv, [Next]_vars
    PROVE  BackbufferInv'
  <1> USE DEF appVars, pipeVars, gpuVars, localVars, chainVars, pacerVars, sharedVars
  <1> SUFFICES ASSUME Orderly, Orderly' PROVE BackbufferInv'
    BY WorldStays DEF BackbufferInv, Orderly
  <1>0. ASSUME UNCHANGED <<world, csQueue, submitQueue, presentQueue, inFlight, index, apc>> PROVE BackbufferInv'
    BY <1>0 DEF BackbufferInv
  <1>1. CASE \/ ChangeMultiplier \/ SubmitList \/ SubmitPresentQueued \/ GpuComplete
             \/ EngineShows \/ PresentTake \/ InterpolatedAcquire \/ FirstPresent
             \/ PacedPresent \/ RenderedAcquire \/ RenderedPresent \/ PacerTake
             \/ PacerSignal \/ UNCHANGED vars
    <2>1. UNCHANGED <<world, csQueue, submitQueue, presentQueue, inFlight, index, apc>>
      BY <1>1 DEF vars, ChangeMultiplier, SubmitList, SubmitPresentQueued, GpuComplete,
            EngineShows, PresentTake, InterpolatedAcquire, FirstPresent, PacedPresent,
            RenderedAcquire, RenderedPresent, PacerTake, PacerSignal
    <2> QED BY <1>0, <2>1
  <1>2. CASE AppPresent
    <2>1. /\ UNCHANGED <<world, csQueue, submitQueue, presentQueue, inFlight, index>>
          /\ \/ apc' = apc
             \/ /\ apc \notin {"waitImage", "record"}
                /\ apc' \notin {"waitImage", "record"}
      BY <1>2 DEF AppPresent
    <2> QED BY <2>1 DEF BackbufferInv
  <1>3. CASE AppSynchronizePresent
    <2>1. /\ UNCHANGED <<world, csQueue, submitQueue, presentQueue, inFlight, index>>
          /\ \/ apc' = apc
             \/ /\ apc \notin {"waitImage", "record"}
                /\ apc' \notin {"waitImage", "record"}
      BY <1>3 DEF AppSynchronizePresent
    <2> QED BY <2>1 DEF BackbufferInv
  <1>4. CASE AppAcquire
    <2>1. UNCHANGED <<world, csQueue, submitQueue, presentQueue, inFlight>> /\ apc = "acquire"
      BY <1>4 DEF AppAcquire
    <2>2. CASE apc' = "waitImage" /\ index' = NextIndex
      <3>1. OnItsWay = 0 /\ LastIs(submitQueue, index)
        BY <2>1, WayFacts DEF StatusInv, BackbufferInv
      <3>2. csQueue = <<>> /\ Len(submitQueue) <= 1
        <4>1. csQueue = <<>> /\ Len(submitQueue) \in Nat
          BY <3>1, WayFacts
        <4>2. Len(csQueue) = 0
          BY <4>1
        <4> DEFINE c == Len(csQueue)
                   n == Len(submitQueue)
                   p == IF spc = "push" THEN 1 ELSE 0
        <4>3. c + n - p = 0 /\ p \in {0, 1} /\ c = 0 /\ n \in Nat
          BY <3>1, <4>1, <4>2 DEF OnItsWay
        <4> HIDE DEF c, n, p
        <4>4. n <= 1
          BY ONLY <4>3
        <4>5. Len(submitQueue) <= 1
          BY <4>4 DEF n
        <4> QED BY <4>1, <4>5
      <3>3. Named(submitQueue) \subseteq {index}
        <4>1. submitQueue = <<>> => Named(submitQueue) = {}
          BY DEF Named
        <4>2. submitQueue # <<>> => Len(submitQueue) = 1 /\ DOMAIN submitQueue = {1}
          <5>1. submitQueue # <<>> => Len(submitQueue) \in Nat \ {0}
                                        /\ DOMAIN submitQueue = 1 .. Len(submitQueue)
            BY QueueTypes, TakenQueue
          <5> QED BY ONLY <3>2, <5>1
        <4> QED BY <3>1, <4>1, <4>2 DEF LastIs, Named
      <3>4. index' # index
        BY <2>2, NextBackbuffer DEF TypeOK
      <3> QED BY <2>1, <2>2, <3>3, <3>4 DEF BackbufferInv
    <2>3. CASE apc' \in {"idle", "recreate"} /\ index' = index
      BY <2>1, <2>3 DEF BackbufferInv
    <2> QED BY <1>4, <2>2, <2>3 DEF AppAcquire
  <1>5. CASE AppWaitImage
    <2>1. /\ UNCHANGED <<world, csQueue, submitQueue, presentQueue, inFlight, index>>
          /\ apc = "waitImage" /\ index \notin inFlight
          /\ apc' = IF retries > MaxRetries THEN "idle" ELSE "record"
      BY <1>5 DEF AppWaitImage, ImageIdle
    <2>2. apc' = "idle" => csQueue = <<>> /\ submitQueue = <<>>
      <3>1. apc' = "idle" => retries > MaxRetries /\ retries \in Nat /\ MaxRetries \in Nat
        BY <2>1, FGAssumption DEF TypeOK
      <3> QED BY <2>1, <3>1 DEF RetryInv
    <2>3. csQueue = <<>> /\ submitQueue = <<>> => LastIs(csQueue, index) /\ LastIs(submitQueue, index)
      BY DEF LastIs
    <2> QED BY <2>1, <2>2, <2>3 DEF BackbufferInv
  <1>6. CASE AppSubmitPresent
    <2>1. PICK k \in {0, multiplier} :
            csQueue' = Append(csQueue, [frame |-> frameId, image |-> index,
                                        interpolated |-> k, generation |-> generation])
      BY <1>6 DEF AppSubmitPresent
    <2> DEFINE e == [frame |-> frameId, image |-> index, interpolated |-> k,
                     generation |-> generation]
    <2>2. e \in Frame /\ e.image = index
      <3>1. csQueue' \in Seq(Frame) /\ Len(csQueue) \in Nat
        BY QueueTypes DEF TypeOK
      <3>2. Len(csQueue) + 1 \in DOMAIN csQueue' /\ csQueue'[Len(csQueue) + 1] = e
        BY <2>1, <3>1, QueueTypes
      <3> QED BY <3>1, <3>2, QueueElement
    <2> HIDE DEF e
    <2>3. csQueue' = Append(csQueue, e)
      BY <2>1 DEF e
    <2>4. Named(csQueue') = Named(csQueue) \union {index} /\ LastIs(csQueue', index)
          /\ csQueue' # <<>>
      BY <2>2, <2>3, QueueTypes, NamedAppend, AddedQueue
    <2>5. /\ UNCHANGED <<world, submitQueue, presentQueue, inFlight, index>>
          /\ apc = "record" /\ apc' = "frameLatency"
      BY <1>6 DEF AppSubmitPresent
    <2>6. index \notin Named(submitQueue) /\ index \notin inFlight
      BY <2>5 DEF BackbufferInv
    <2> QED BY <2>4, <2>5, <2>6 DEF BackbufferInv, Orderly
  <1>7. CASE AppSyncFrameLatency
    <2>1. /\ UNCHANGED <<world, csQueue, submitQueue, presentQueue, inFlight, index>>
          /\ \/ apc' = apc
             \/ /\ apc \notin {"waitImage", "record"}
                /\ apc' \notin {"waitImage", "record"}
      BY <1>7 DEF AppSyncFrameLatency
    <2> QED BY <2>1 DEF BackbufferInv
  <1>8. CASE RecreateWaitSubmission
    <2>1. /\ UNCHANGED <<world, csQueue, submitQueue, presentQueue, inFlight, index>>
          /\ \/ apc' = apc
             \/ /\ apc \notin {"waitImage", "record"}
                /\ apc' \notin {"waitImage", "record"}
      BY <1>8 DEF RecreateWaitSubmission
    <2> QED BY <2>1 DEF BackbufferInv
  <1>9. CASE RecreateWaitQueue
    <2>1. /\ UNCHANGED <<world, csQueue, submitQueue, presentQueue, inFlight, index>>
          /\ \/ apc' = apc
             \/ /\ apc \notin {"waitImage", "record"}
                /\ apc' \notin {"waitImage", "record"}
      BY <1>9 DEF RecreateWaitQueue
    <2> QED BY <2>1 DEF BackbufferInv
  <1>10. CASE SyncTest
    <2>1. /\ UNCHANGED <<world, csQueue, submitQueue, presentQueue, inFlight, index>>
          /\ \/ apc' = apc
             \/ /\ apc \notin {"waitImage", "record"}
                /\ apc' \notin {"waitImage", "record"}
      BY <1>10 DEF SyncTest
    <2> QED BY <2>1 DEF BackbufferInv
  <1>11. CASE SyncSleep
    <2>1. /\ UNCHANGED <<world, csQueue, submitQueue, presentQueue, inFlight, index>>
          /\ \/ apc' = apc
             \/ /\ apc \notin {"waitImage", "record"}
                /\ apc' \notin {"waitImage", "record"}
      BY <1>11 DEF SyncSleep
    <2> QED BY <2>1 DEF BackbufferInv
  <1>12. CASE RecreateDeviceIdle
    <2>1. /\ UNCHANGED <<world, csQueue, submitQueue, presentQueue, inFlight, index>>
          /\ \/ apc' = apc
             \/ /\ apc \notin {"waitImage", "record"}
                /\ apc' \notin {"waitImage", "record"}
      BY <1>12 DEF RecreateDeviceIdle
    <2> QED BY <2>1 DEF BackbufferInv
  <1>13. CASE RecreateBuild
    <2>1. csQueue = <<>> /\ submitQueue = <<>> /\ presentQueue = <<>>
      BY <1>13 DEF RecreateBuild, StatusInv, Synchronizing, Synchronized
    <2>2. /\ UNCHANGED <<csQueue, submitQueue, presentQueue>> /\ inFlight' = {}
          /\ apc' \notin {"waitImage", "record"}
      BY <1>13 DEF RecreateBuild, TypeOK
    <2> QED BY <2>1, <2>2 DEF BackbufferInv, Named, Distinct, LastIs
  <1>14. CASE CsPresent
    <2>1. /\ UNCHANGED <<world, apc, index, presentQueue, inFlight>> /\ csQueue # <<>>
          /\ submitQueue' = Append(submitQueue, Head(csQueue)) /\ csQueue' = Tail(csQueue)
      BY <1>14 DEF CsPresent
    <2>2. /\ Head(csQueue) \in Frame /\ Head(csQueue) = csQueue[1]
          /\ Len(csQueue) \in Nat \ {0} /\ Len(csQueue') = Len(csQueue) - 1
          /\ DOMAIN csQueue = 1 .. Len(csQueue)
      BY <2>1, QueueTypes, TakenQueue
    <2>3. OnItsWay # 0 /\ Len(csQueue) <= OnItsWay
      <3>1. spc = "push" => Len(submitQueue) > 0
        BY WayFacts, QueueTypes, QueueEmpty DEF PlaceInv
      <3> QED BY <2>1, <2>2, <3>1, WayFacts DEF OnItsWay
    <2>4. Len(csQueue) = 1 /\ apc \notin {"waitImage", "record"}
      BY <2>2, <2>3, WayFacts DEF StatusInv
    <2>5. csQueue' = <<>>
      <3>1. csQueue' \in Seq(Frame) /\ Len(csQueue') = 0
        BY <2>2, <2>4, QueueTypes DEF TypeOK
      <3> QED BY <3>1, QueueEmpty
    <2>6. Head(csQueue).image = index /\ Head(csQueue).image \in Named(csQueue)
      BY <2>1, <2>2, <2>4 DEF BackbufferInv, LastIs, Named
    <2>7. index \notin Named(submitQueue) /\ index \notin inFlight
      BY <2>6 DEF BackbufferInv
    <2>8. /\ Named(submitQueue') = Named(submitQueue) \union {index}
          /\ LastIs(submitQueue', index) /\ Distinct(submitQueue')
      BY <2>1, <2>2, <2>6, <2>7, QueueTypes, NamedAppend DEF BackbufferInv
    <2>9. Named(csQueue') = {} /\ LastIs(csQueue', index)
      BY <2>5 DEF Named, LastIs
    <2> QED BY <2>1, <2>4, <2>7, <2>8, <2>9 DEF BackbufferInv
  <1>15. CASE SubmitPresentFails
    <2>1. /\ UNCHANGED <<world, apc, index, csQueue, presentQueue, inFlight>>
          /\ submitQueue # <<>> /\ submitQueue' = Tail(submitQueue)
      BY <1>15 DEF SubmitPresentFails, PlaceInv
    <2>2. /\ Named(submitQueue') \subseteq Named(submitQueue)
          /\ Distinct(submitQueue')
          /\ LastIs(submitQueue, index) => LastIs(submitQueue', index)
      BY <2>1, QueueTypes, NamedTail DEF BackbufferInv
    <2> QED BY <2>1, <2>2 DEF BackbufferInv
  <1>16. CASE SubmitPush
    <2> DEFINE f == Head(submitQueue)
    <2>1. /\ UNCHANGED <<world, apc, index, csQueue>> /\ submitQueue # <<>>
          /\ submitQueue' = Tail(submitQueue) /\ inFlight' = inFlight \union {f.image}
          /\ presentQueue' = Append(presentQueue, f)
      BY <1>16 DEF SubmitPush, PlaceInv
    <2>2. /\ Named(submitQueue') = Named(submitQueue) \ {f.image}
          /\ f.image \in Named(submitQueue) /\ Distinct(submitQueue')
          /\ LastIs(submitQueue, index) => LastIs(submitQueue', index)
      BY <2>1, QueueTypes, NamedTail DEF BackbufferInv
    <2>3. f.image \notin Named(presentQueue) /\ f \in Frame
      BY <2>1, <2>2, QueueTypes, TakenQueue DEF BackbufferInv
    <2> HIDE DEF f
    <2>4. Named(presentQueue') = Named(presentQueue) \union {f.image} /\ Distinct(presentQueue')
      BY <2>1, <2>3, QueueTypes, NamedAppend DEF BackbufferInv
    <2> QED BY <2>1, <2>2, <2>4 DEF BackbufferInv
  <1>17. CASE PresentFinish
    <2>1. /\ UNCHANGED <<world, apc, index, csQueue, submitQueue>> /\ presentQueue # <<>>
          /\ presentQueue' = Tail(presentQueue) /\ inFlight' = inFlight \ {Head(presentQueue).image}
      BY <1>17 DEF PresentFinish, PlaceInv, Job
    <2>2. /\ Named(presentQueue') = Named(presentQueue) \ {Head(presentQueue).image}
          /\ Distinct(presentQueue')
      BY <2>1, QueueTypes, NamedTail DEF BackbufferInv
    <2> QED BY <2>1, <2>2 DEF BackbufferInv
  <1>18. CASE PacerPop
    <2>1. UNCHANGED <<world, csQueue, submitQueue, presentQueue, inFlight, index>>
      BY <1>18 DEF PacerPop
    <2>2. apc' = apc \/ (apc = "asleep" /\ apc' = "retest")
      BY <1>18 DEF PacerPop
    <2> QED BY <2>1, <2>2 DEF BackbufferInv
  <1> QED BY <1>1, <1>2, <1>3, <1>4, <1>5, <1>6, <1>7, <1>8, <1>9, <1>10, <1>11, <1>12,
       <1>13, <1>14, <1>15, <1>16, <1>17, <1>18
          DEF Next, AppWaits, Recreate, Submit, Present, Pacer
-----------------------------------------------------------------------------
(* The calm world.                                                         *)

LEMMA WithinTail ==
    ASSUME NEW q \in Seq(Frame), q # <<>>, NEW m, Within(q, m)
    PROVE  Within(Tail(q), m) /\ Head(q).interpolated <= m
  <1>1. /\ Head(q) = q[1] /\ Len(q) \in Nat \ {0} /\ DOMAIN q = 1 .. Len(q)
        /\ DOMAIN Tail(q) = 1 .. Len(q) - 1
        /\ \A i \in 1 .. Len(q) - 1 : Tail(q)[i] = q[i + 1]
    BY TakenQueue
  <1>2. 1 \in DOMAIN q /\ \A i \in 1 .. Len(q) - 1 : i + 1 \in DOMAIN q
    BY <1>1
  <1> QED BY <1>1, <1>2 DEF Within

LEMMA WithinAppend ==
    ASSUME NEW q \in Seq(Frame), NEW m, Within(q, m), NEW e \in Frame, e.interpolated <= m
    PROVE  Within(Append(q, e), m)
  <1>1. /\ Len(q) \in Nat /\ DOMAIN q = 1 .. Len(q)
        /\ DOMAIN Append(q, e) = 1 .. Len(q) + 1
        /\ \A i \in 1 .. Len(q) : Append(q, e)[i] = q[i]
        /\ Append(q, e)[Len(q) + 1] = e
    BY AddedQueue
  <1>2. \A i \in DOMAIN Append(q, e) : i \in DOMAIN q \/ i = Len(q) + 1
    BY <1>1
  <1> QED BY <1>1, <1>2 DEF Within

LEMMA CalmInit == Init => CalmInv
  <1> SUFFICES ASSUME Init PROVE CalmInv
    OBVIOUS
  <1>1. apc \notin Recreating /\ status # Error /\ lastStatus = Success
        /\ imageCount = ImagesNeeded(multiplier)
    BY DEF Init, Recreating, Synchronizing, Success, Error
  <1>2. Within(csQueue, multiplier) /\ Within(submitQueue, multiplier)
        /\ Within(presentQueue, multiplier)
    BY DEF Init, Within
  <1> QED BY <1>1, <1>2 DEF CalmInv

LEMMA CalmStep ==
    ASSUME TypeOK, TypeOK', PlaceInv, CalmInv, [Next]_vars
    PROVE  CalmInv'
  <1> USE DEF appVars, pipeVars, gpuVars, localVars, chainVars, pacerVars, sharedVars
  <1>s. SUFFICES ASSUME Calm PROVE CalmInv'
    BY WorldStays DEF CalmInv, Calm
  <1>c. /\ world.faults = {} /\ ~world.changes
        /\ apc \notin Recreating /\ status # Error /\ lastStatus = Success
        /\ imageCount = ImagesNeeded(multiplier)
        /\ Within(csQueue, multiplier) /\ Within(submitQueue, multiplier)
        /\ Within(presentQueue, multiplier)
    BY <1>s DEF CalmInv, Calm
  <1>d. NotReady # Error /\ EventSet # Error /\ Success # Error
    BY DEF NotReady, EventSet, Success, Error
  <1> USE <1>c DEF CalmInv, Recreating, Synchronizing
  <1>0. ASSUME UNCHANGED <<world, apc, status, lastStatus, imageCount, multiplier, csQueue, submitQueue,
                        presentQueue>> PROVE CalmInv'
    BY <1>0, <1>c DEF CalmInv
  <1>1. CASE \/ SubmitList \/ GpuComplete \/ EngineShows \/ PacerTake \/ PacerSignal
             \/ UNCHANGED vars
    <2>1. UNCHANGED <<world, apc, status, lastStatus, imageCount, multiplier, csQueue, submitQueue,
                        presentQueue>>
      BY <1>1 DEF vars, SubmitList, GpuComplete, EngineShows, PacerTake, PacerSignal
    <2> QED BY <1>0, <2>1
  <1>2. CASE AppPresent
    <2>1. UNCHANGED <<world, status, lastStatus, imageCount, multiplier, csQueue,
                      submitQueue, presentQueue>>
          /\ apc' = "synchronizePresent"
      BY <1>2, <1>c DEF AppPresent
    <2> QED BY <2>1
  <1>3. CASE ChangeMultiplier
    BY <1>3, <1>c DEF ChangeMultiplier
  <1>4. CASE AppSynchronizePresent
    <2>1. UNCHANGED <<world, status, lastStatus, imageCount, multiplier, csQueue,
                      submitQueue, presentQueue>>
          /\ apc' = "acquire"
      BY <1>4, <1>c DEF AppSynchronizePresent, TypeOK
    <2> QED BY <2>1
  <1>5. CASE AppAcquire
    <2>1. UNCHANGED <<world, status, lastStatus, imageCount, multiplier, csQueue,
                      submitQueue, presentQueue>>
          /\ apc' = "waitImage"
      BY <1>5, <1>c DEF AppAcquire
    <2> QED BY <2>1
  <1>6. CASE AppWaitImage
    <2>1. UNCHANGED <<world, status, lastStatus, imageCount, multiplier, csQueue,
                      submitQueue, presentQueue>>
          /\ apc' \in {"idle", "record"}
      BY <1>6, <1>c DEF AppWaitImage
    <2> QED BY <2>1
  <1>7. CASE AppSubmitPresent
    <2>1. PICK k \in {0, multiplier} :
            csQueue' = Append(csQueue, [frame |-> frameId, image |-> index,
                                        interpolated |-> k, generation |-> generation])
      BY <1>7 DEF AppSubmitPresent
    <2> DEFINE e == [frame |-> frameId, image |-> index, interpolated |-> k,
                     generation |-> generation]
    <2>2. e \in Frame /\ e.interpolated <= multiplier
      <3>1. csQueue' \in Seq(Frame) /\ Len(csQueue) \in Nat
        BY QueueTypes DEF TypeOK
      <3>2. Len(csQueue) + 1 \in DOMAIN csQueue' /\ csQueue'[Len(csQueue) + 1] = e
        BY <2>1, <3>1, QueueTypes
      <3>3. k <= multiplier
        BY FGAssumption DEF TypeOK
      <3> QED BY <3>1, <3>2, <3>3, QueueElement
    <2> HIDE DEF e
    <2>3. csQueue' = Append(csQueue, e)
      BY <2>1 DEF e
    <2>4. Within(csQueue', multiplier)
      BY <1>c, <2>2, <2>3, QueueTypes, WithinAppend
    <2>5. /\ UNCHANGED <<lastStatus, imageCount, multiplier, submitQueue, presentQueue>>
          /\ apc' = "frameLatency" /\ status' = NotReady
      BY <1>7 DEF AppSubmitPresent
    <2> QED BY <2>4, <2>5, <1>d
  <1>8. CASE AppSyncFrameLatency
    <2>1. UNCHANGED <<world, status, lastStatus, imageCount, multiplier, csQueue,
                      submitQueue, presentQueue>>
          /\ apc' = "idle"
      BY <1>8, <1>c DEF AppSyncFrameLatency
    <2> QED BY <2>1
  <1>9. CASE RecreateWaitSubmission
    BY <1>9, <1>c DEF RecreateWaitSubmission
  <1>10. CASE RecreateWaitQueue
    BY <1>10, <1>c DEF RecreateWaitQueue
  <1>11. CASE SyncTest
    BY <1>11, <1>c DEF SyncTest
  <1>12. CASE SyncSleep
    BY <1>12, <1>c DEF SyncSleep
  <1>13. CASE RecreateDeviceIdle
    BY <1>13, <1>c DEF RecreateDeviceIdle
  <1>14. CASE RecreateBuild
    BY <1>14, <1>c DEF RecreateBuild
  <1>15. CASE CsPresent
    <2>1. /\ UNCHANGED <<apc, lastStatus, imageCount, multiplier, presentQueue>>
          /\ csQueue # <<>> /\ status' = NotReady
          /\ submitQueue' = Append(submitQueue, Head(csQueue)) /\ csQueue' = Tail(csQueue)
      BY <1>15 DEF CsPresent
    <2>2. Within(csQueue', multiplier) /\ Head(csQueue).interpolated <= multiplier
          /\ Head(csQueue) \in Frame
      BY <1>c, <2>1, QueueTypes, WithinTail, TakenQueue
    <2>3. Within(submitQueue', multiplier)
      BY <1>c, <2>1, <2>2, QueueTypes, WithinAppend
    <2> QED BY <2>1, <2>2, <2>3, <1>d
  <1>16. CASE SubmitPresentFails
    BY <1>16, <1>c DEF SubmitPresentFails
  <1>17. CASE SubmitPresentQueued
    <2>1. UNCHANGED <<apc, lastStatus, imageCount, multiplier, csQueue, submitQueue,
                      presentQueue>>
          /\ status' = EventSet
      BY <1>17 DEF SubmitPresentQueued
    <2> QED BY <2>1, <1>d
  <1>18. CASE SubmitPush
    <2>1. /\ UNCHANGED <<apc, status, lastStatus, imageCount, multiplier, csQueue>>
          /\ submitQueue # <<>>
          /\ presentQueue' = Append(presentQueue, Head(submitQueue))
          /\ submitQueue' = Tail(submitQueue)
      BY <1>18 DEF SubmitPush, PlaceInv
    <2>2. Within(submitQueue', multiplier) /\ Head(submitQueue).interpolated <= multiplier
          /\ Head(submitQueue) \in Frame
      BY <1>c, <2>1, QueueTypes, WithinTail, TakenQueue
    <2>3. Within(presentQueue', multiplier)
      BY <1>c, <2>1, <2>2, QueueTypes, WithinAppend
    <2> QED BY <2>1, <2>2, <2>3
  <1>19. CASE PresentTake
    <2>1. /\ UNCHANGED <<apc, status, imageCount, multiplier, csQueue, submitQueue,
                         presentQueue>>
          /\ presentQueue # <<>>
          /\ lastStatus' = lastStatus \/ ImagesNeeded(Job.interpolated) > imageCount
      BY <1>19 DEF PresentTake
    <2>2. Job.interpolated <= multiplier /\ Job.interpolated \in Nat /\ multiplier \in Nat
      <3>1. Job.interpolated <= multiplier
        BY <1>c, <2>1, QueueTypes, WithinTail DEF Job
      <3>2. Job.interpolated \in 0 .. MaxInterpolated
        BY <2>1, JobType
      <3>3. multiplier \in 1 .. MaxInterpolated
        BY DEF TypeOK
      <3> QED BY <3>1, <3>2, <3>3
    <2>3. ~(ImagesNeeded(Job.interpolated) > imageCount)
      BY <1>c, <2>2 DEF ImagesNeeded
    <2> QED BY <2>1, <2>3
  <1>20. CASE InterpolatedAcquire
    <2>1. UNCHANGED <<apc, status, imageCount, multiplier, csQueue, submitQueue,
                      presentQueue>>
          /\ lastStatus' \in Answers("interpolatedAcquire")
      BY <1>20 DEF InterpolatedAcquire
    <2> QED BY <1>c, <2>1 DEF Answers
  <1>21. CASE FirstPresent
    <2>1. UNCHANGED <<apc, status, imageCount, multiplier, csQueue, submitQueue,
                      presentQueue>>
          /\ lastStatus' \in Answers("firstPresent")
      BY <1>21 DEF FirstPresent
    <2> QED BY <1>c, <2>1 DEF Answers
  <1>22. CASE PacedPresent
    <2>1. UNCHANGED <<apc, status, imageCount, multiplier, csQueue, submitQueue,
                      presentQueue>>
          /\ lastStatus' \in Answers("pacedPresent")
      BY <1>22 DEF PacedPresent
    <2> QED BY <1>c, <2>1 DEF Answers
  <1>23. CASE RenderedAcquire
    <2>1. UNCHANGED <<apc, status, imageCount, multiplier, csQueue, submitQueue,
                      presentQueue>>
          /\ lastStatus' \in Answers("renderedAcquire")
      BY <1>23 DEF RenderedAcquire
    <2> QED BY <1>c, <2>1 DEF Answers
  <1>24. CASE RenderedPresent
    <2>1. UNCHANGED <<apc, status, imageCount, multiplier, csQueue, submitQueue,
                      presentQueue>>
          /\ lastStatus' \in Answers("renderedPresent")
      BY <1>24 DEF RenderedPresent
    <2> QED BY <1>c, <2>1 DEF Answers
  <1>25. CASE PresentFinish
    <2>1. /\ UNCHANGED <<apc, lastStatus, imageCount, multiplier, csQueue, submitQueue>>
          /\ status' = lastStatus /\ presentQueue # <<>> /\ presentQueue' = Tail(presentQueue)
      BY <1>25 DEF PresentFinish, PlaceInv
    <2>2. Within(presentQueue', multiplier)
      BY <1>c, <2>1, QueueTypes, WithinTail
    <2> QED BY <2>1, <2>2, <1>d
  <1>26. CASE PacerPop
    <2>1. UNCHANGED <<world, status, lastStatus, imageCount, multiplier, csQueue,
                      submitQueue, presentQueue>>
          /\ apc' = apc
      BY <1>26, <1>c DEF PacerPop
    <2> QED BY <2>1
  <1> QED BY <1>1, <1>2, <1>3, <1>4, <1>5, <1>6, <1>7, <1>8, <1>9, <1>10, <1>11, <1>12,
       <1>13, <1>14, <1>15, <1>16, <1>17, <1>18, <1>19, <1>20, <1>21, <1>22, <1>23,
       <1>24, <1>25, <1>26
          DEF Next, AppWaits, Recreate, Submit, Present, Pacer
-----------------------------------------------------------------------------
(* The acquire semaphores.                                                 *)

LEMMA SemaphoreInit == Init => SemaphoreInv
  BY DEF Init, SemaphoreInv

LEMMA SemaphoreStep ==
    ASSUME TypeOK, TypeOK', PlaceInv, SemaphoreInv, [Next]_vars
    PROVE  SemaphoreInv'
  <1> USE DEF appVars, pipeVars, gpuVars, localVars, chainVars, pacerVars, sharedVars
  <1>s. SUFFICES ASSUME Leaving, Leaving' PROVE SemaphoreInv'
    BY WorldStays DEF SemaphoreInv, Leaving
  <1> USE <1>s DEF SemaphoreInv
  <1>0. ASSUME UNCHANGED <<lastStatus, ppc, acquireSem, spc, submitQueue, presentQueue>> PROVE SemaphoreInv'
    BY <1>0 DEF Signals
  <1>1. CASE \/ AppPresent \/ ChangeMultiplier \/ AppSynchronizePresent \/ AppAcquire
             \/ AppWaitImage \/ AppSubmitPresent \/ AppSyncFrameLatency
             \/ RecreateWaitSubmission \/ RecreateWaitQueue \/ SyncTest \/ SyncSleep
             \/ RecreateDeviceIdle \/ GpuComplete \/ EngineShows \/ PacerTake
             \/ PacerSignal \/ PacerPop \/ UNCHANGED vars
    <2>1. UNCHANGED <<lastStatus, ppc, acquireSem, spc, submitQueue, presentQueue>>
      BY <1>1 DEF vars, AppPresent, ChangeMultiplier, AppSynchronizePresent, AppAcquire,
            AppWaitImage, AppSubmitPresent, AppSyncFrameLatency, RecreateWaitSubmission,
            RecreateWaitQueue, SyncTest, SyncSleep, RecreateDeviceIdle, GpuComplete,
            EngineShows, PacerTake, PacerSignal, PacerPop
    <2> QED BY <1>0, <2>1
  <1>2. CASE RecreateBuild
    <2>1. lastStatus' = Success /\ acquireSem' = [i \in Images |-> TRUE]
      BY <1>2 DEF RecreateBuild, FreshSemaphores
    <2> QED BY <2>1
  <1>3. CASE CsPresent
    <2>1. /\ UNCHANGED <<lastStatus, ppc, acquireSem, spc, presentQueue>>
          /\ csQueue # <<>> /\ submitQueue' = Append(submitQueue, Head(csQueue))
      BY <1>3 DEF CsPresent
    <2>2. spc # "idle" => Head(submitQueue') = Head(submitQueue)
      BY <2>1, QueueTypes, TakenQueue, AddedQueue DEF PlaceInv
    <2> QED BY <2>1, <2>2 DEF Signals
  <1>4. CASE SubmitList
    <2>1. /\ UNCHANGED <<lastStatus, ppc, submitQueue, presentQueue>> /\ spc = "idle" /\ spc' = "present"
          /\ acquireSem' = [acquireSem EXCEPT ![Head(submitQueue).image] = FALSE]
      BY <1>4 DEF SubmitList
    <2>2. ASSUME NEW i \in Images, acquireSem[i] \/ Signals(i) PROVE acquireSem'[i] \/ Signals(i)'
      BY <2>1, <2>2 DEF Signals, TypeOK
    <2> QED BY <2>1, <2>2
  <1>5. CASE SubmitPresentFails
    <2>1. UNCHANGED <<lastStatus, ppc>> /\ lastStatus # Success
      BY <1>5 DEF SubmitPresentFails
    <2> QED BY <2>1
  <1>6. CASE SubmitPresentQueued
    <2>1. /\ UNCHANGED <<lastStatus, ppc, acquireSem, submitQueue, presentQueue>>
          /\ spc = "present" /\ spc' = "push"
      BY <1>6 DEF SubmitPresentQueued
    <2> QED BY <2>1 DEF Signals
  <1>7. CASE SubmitPush
    <2> DEFINE f == Head(submitQueue)
    <2>1. /\ UNCHANGED <<lastStatus, ppc, acquireSem>> /\ spc = "push" /\ spc' = "idle"
          /\ submitQueue # <<>> /\ ppc = "wait"
          /\ presentQueue' = Append(presentQueue, f)
      BY <1>7 DEF SubmitPush, PlaceInv, MutexFree, TypeOK
    <2>2. f \in Frame
      BY <2>1, QueueTypes, TakenQueue
    <2> HIDE DEF f
    <2>3. /\ Len(presentQueue) \in Nat /\ DOMAIN presentQueue = 1 .. Len(presentQueue)
          /\ DOMAIN presentQueue' = 1 .. Len(presentQueue) + 1
          /\ \A i \in 1 .. Len(presentQueue) : presentQueue'[i] = presentQueue[i]
          /\ presentQueue'[Len(presentQueue) + 1] = f
      BY <2>1, <2>2, QueueTypes, AddedQueue
    <2>4. ASSUME NEW i \in Images, Signals(i) PROVE Signals(i)'
      <3>1. CASE f.image = i
        <4>1. Len(presentQueue) + 1 \in DOMAIN presentQueue'
          BY <2>3
        <4> QED BY <2>1, <2>3, <3>1, <4>1 DEF Signals
      <3>2. CASE \E j \in DOMAIN presentQueue : presentQueue[j].image = i
        BY <2>1, <2>3, <3>2 DEF Signals
      <3> QED BY <2>1, <2>4, <3>1, <3>2 DEF Signals, f
    <2> QED BY <2>1, <2>4
  <1>8. CASE PresentTake
    <2>1. /\ UNCHANGED <<acquireSem, spc, submitQueue, presentQueue>>
          /\ ppc' \in {"finish", "interpolate", "renderedAcquire"}
          /\ ppc' = "finish" => lastStatus' # Success
          /\ ppc' # "finish" => lastStatus = Success /\ lastStatus' = lastStatus
      BY <1>8 DEF PresentTake, DropsFrame, Error, Success
    <2> QED BY <2>1 DEF Signals
  <1>9. CASE InterpolatedAcquire
    <2>1. /\ UNCHANGED <<acquireSem, spc, submitQueue, presentQueue>>
          /\ ppc \in {"interpolate", "pacedPresent"} /\ lastStatus' \in Answers("interpolatedAcquire")
          /\ ppc' \in {"interpolate", "firstPresent"}
      BY <1>9 DEF InterpolatedAcquire
    <2>2. lastStatus' = Success
      BY <1>s, <2>1 DEF Answers, Leaving
    <2>3. lastStatus = Success
      BY <2>1
    <2> QED BY <2>1, <2>2, <2>3 DEF Signals
  <1>10. CASE FirstPresent
    <2>1. /\ UNCHANGED <<acquireSem, spc, submitQueue, presentQueue>> /\ ppc = "firstPresent"
          /\ IF lastStatus' = Success THEN ppc' \in {"pacedPresent", "renderedAcquire"}
                                      ELSE ppc' = "finish"
      BY <1>10 DEF FirstPresent
    <2> QED BY <2>1 DEF Signals
  <1>11. CASE PacedPresent
    <2>1. /\ UNCHANGED <<acquireSem, spc, submitQueue, presentQueue>>
          /\ ppc \in {"interpolate", "pacedPresent"} /\ lastStatus' \in Answers("pacedPresent")
          /\ ppc' \in {"pacedPresent", "renderedAcquire"}
      BY <1>11 DEF PacedPresent
    <2>2. lastStatus' = Success
      BY <1>s, <2>1 DEF Answers, Leaving
    <2>3. lastStatus = Success
      BY <2>1
    <2> QED BY <2>1, <2>2, <2>3 DEF Signals
  <1>12. CASE RenderedAcquire
    <2>1. /\ UNCHANGED <<spc, submitQueue, presentQueue>> /\ ppc = "renderedAcquire"
          /\ IF lastStatus' = Success
               THEN /\ ppc' = "renderedPresent"
                    /\ acquireSem' = [acquireSem EXCEPT ![Job.image] = TRUE]
               ELSE ppc' = "finish"
      BY <1>12 DEF RenderedAcquire
    <2>2. lastStatus = Success
      BY <2>1
    <2>3. Job = presentQueue[1]
      BY <2>1, QueueTypes, TakenQueue DEF Job, PlaceInv
    <2>4. ASSUME lastStatus' = Success, NEW i \in Images PROVE acquireSem'[i] \/ Signals(i)'
      <3>1. CASE i = Job.image
        BY <2>1, <2>4, <3>1 DEF TypeOK
      <3>2. CASE i # Job.image
        <4>1. acquireSem'[i] = acquireSem[i]
          BY <2>1, <2>4, <3>2 DEF TypeOK
        <4>2. Signals(i) => Signals(i)'
          BY <2>1, <2>3, <3>2 DEF Signals
        <4>3. acquireSem[i] \/ Signals(i)
          BY <2>2
        <4> QED BY <4>1, <4>2, <4>3
      <3> QED BY <3>1, <3>2
    <2> QED BY <2>1, <2>4
  <1>13. CASE RenderedPresent
    <2>1. /\ UNCHANGED <<acquireSem, spc, submitQueue, presentQueue>>
          /\ ppc = "renderedPresent" /\ ppc' = "finish"
      BY <1>13 DEF RenderedPresent
    <2>2. lastStatus = Success
      BY <2>1
    <2> QED BY <2>1, <2>2 DEF Signals
  <1>14. CASE PresentFinish
    <2>1. /\ UNCHANGED <<lastStatus, acquireSem, spc, submitQueue>> /\ presentQueue # <<>>
          /\ ppc = "finish" /\ ppc' \in {"take", "wait"} /\ presentQueue' = Tail(presentQueue)
      BY <1>14 DEF PresentFinish, PlaceInv
    <2>2. /\ Len(presentQueue) \in Nat \ {0} /\ DOMAIN presentQueue = 1 .. Len(presentQueue)
          /\ DOMAIN presentQueue' = 1 .. Len(presentQueue) - 1
          /\ \A i \in 1 .. Len(presentQueue) - 1 : presentQueue'[i] = presentQueue[i + 1]
      BY <2>1, QueueTypes, TakenQueue
    <2>3. ASSUME NEW i \in Images, Signals(i) PROVE Signals(i)'
      <3>1. CASE spc # "idle" /\ Head(submitQueue).image = i
        BY <2>1, <3>1 DEF Signals
      <3>2. CASE \E j \in DOMAIN presentQueue : j # 1 /\ presentQueue[j].image = i
        <4>1. PICK j \in DOMAIN presentQueue : j # 1 /\ presentQueue[j].image = i
          BY <3>2
        <4>2. j - 1 \in 1 .. Len(presentQueue) - 1 /\ (j - 1) + 1 = j
          BY <2>2, <4>1
        <4>3. j - 1 \in DOMAIN presentQueue' /\ presentQueue'[j - 1].image = i
          BY <2>2, <4>1, <4>2
        <4> QED BY <2>1, <4>3 DEF Signals
      <3> QED BY <2>1, <2>3, <3>1, <3>2 DEF Signals
    <2> QED BY <2>1, <2>3
  <1> QED BY <1>1, <1>2, <1>3, <1>4, <1>5, <1>6, <1>7, <1>8, <1>9, <1>10, <1>11, <1>12,
       <1>13, <1>14
          DEF Next, AppWaits, Recreate, Submit, Present, Pacer
-----------------------------------------------------------------------------
(* The images of the swap chain.                                           *)

LEMMA EngineAdds ==
    ASSUME TypeOK, NEW w \in Nat \union {kPacerDoNotWait}, NEW f \in Frames,
           engine' = Append(engine, [wait |-> w, frame |-> f])
    PROVE  Len(engine') = Len(engine) + 1
  <1>1. engine \in Seq([wait : Nat \union {kPacerDoNotWait}, frame : Frames])
        /\ [wait |-> w, frame |-> f] \in [wait : Nat \union {kPacerDoNotWait}, frame : Frames]
    BY DEF TypeOK
  <1>2. Len(Append(engine, [wait |-> w, frame |-> f])) = Len(engine) + 1
    BY ONLY <1>1, AddedQueue
  <1> QED BY <1>2

LEMMA ImagesInit == Init => ImagesInv
  <1> SUFFICES ASSUME Init PROVE ImagesInv
    OBVIOUS
  <1>1. Held = 0 /\ Len(engine) = 0 /\ shown = 0 /\ free = imageCount
    BY DEF Init, Held
  <1>2. imageCount \in Nat
    BY TypeInit, SMTT(20) DEF TypeOK
  <1> QED BY <1>1, <1>2 DEF ImagesInv, Init

LEMMA ImagesStep ==
    ASSUME TypeOK, TypeOK', PlaceInv, StatusInv, SemaphoreInv, CalmInv, ImagesInv, [Next]_vars
    PROVE  ImagesInv'
  <1> USE DEF appVars, pipeVars, gpuVars, localVars, chainVars, pacerVars, sharedVars
  <1>s. SUFFICES ASSUME Leaving, Orderly \/ Calm PROVE ImagesInv'
    BY WorldStays DEF ImagesInv, Leaving, Orderly, Calm
  <1>i. /\ free + Len(engine) + shown + Held <= imageCount
        /\ lastStatus = Success => free + Len(engine) + shown + Held = imageCount
        /\ ppc = "interpolate" => acquired = 0 .. pi - 1
        /\ ppc \in {"firstPresent", "pacedPresent"} => acquired = 0 .. Job.interpolated - 1
    BY <1>s DEF ImagesInv
  <1>a. /\ free \in Nat /\ free' \in Nat /\ shown \in Nat /\ shown' \in Nat /\ pi \in Nat
        /\ imageCount \in Nat /\ imageCount' \in Nat
        /\ Len(engine) \in Nat /\ Len(engine') \in Nat
    <2>1. Len(engine) \in Nat /\ Len(engine') \in Nat
      BY QueueEmpty DEF TypeOK
    <2>2. imageCount \in Nat /\ imageCount' \in Nat /\ pi \in Nat
      BY FGAssumption DEF TypeOK
    <2>3. free \in Nat /\ free' \in Nat
      BY DEF TypeOK
    <2>4. shown \in Nat /\ shown' \in Nat
      <3>1. shown \in {0, 1} /\ shown' \in {0, 1}
        BY DEF TypeOK
      <3> QED BY <3>1
    <2> QED BY <2>1, <2>2, <2>3, <2>4
  <1>h. /\ ppc = "interpolate" => Held = pi
        /\ ppc = "firstPresent" => Held = Job.interpolated
        /\ ppc = "pacedPresent" => Held = Job.interpolated - pi
        /\ ppc = "renderedPresent" => Held = 1
        /\ ppc \notin {"interpolate", "firstPresent", "pacedPresent", "renderedPresent"} => Held = 0
        /\ ppc' = "interpolate" => Held' = pi'
        /\ ppc' = "firstPresent" => Held' = Job'.interpolated
        /\ ppc' = "pacedPresent" => Held' = Job'.interpolated - pi'
        /\ ppc' = "renderedPresent" => Held' = 1
        /\ ppc' \notin {"interpolate", "firstPresent", "pacedPresent", "renderedPresent"} => Held' = 0
    BY DEF Held
  <1> USE <1>s DEF ImagesInv
  <1>0. ASSUME UNCHANGED <<free, engine, shown, imageCount, lastStatus, ppc, pi, acquired,
                        presentQueue>> PROVE ImagesInv'
    BY <1>0, <1>i DEF Held, Job
  <1>1. CASE \/ AppPresent \/ ChangeMultiplier \/ AppSynchronizePresent \/ AppAcquire
             \/ AppWaitImage \/ AppSubmitPresent \/ AppSyncFrameLatency
             \/ RecreateWaitSubmission \/ RecreateWaitQueue \/ SyncTest \/ SyncSleep
             \/ RecreateDeviceIdle \/ CsPresent \/ SubmitList \/ SubmitPresentFails
             \/ SubmitPresentQueued \/ GpuComplete \/ PacerTake \/ PacerSignal \/ PacerPop
             \/ UNCHANGED vars
    <2>1. UNCHANGED <<free, engine, shown, imageCount, lastStatus, ppc, pi, acquired,
                        presentQueue>>
      BY <1>1 DEF vars, AppPresent, ChangeMultiplier, AppSynchronizePresent, AppAcquire,
            AppWaitImage, AppSubmitPresent, AppSyncFrameLatency, RecreateWaitSubmission,
            RecreateWaitQueue, SyncTest, SyncSleep, RecreateDeviceIdle, CsPresent,
            SubmitList, SubmitPresentFails, SubmitPresentQueued, GpuComplete, PacerTake,
            PacerSignal, PacerPop
    <2> QED BY <1>0, <2>1
  <1>2. CASE RecreateBuild
    <2>1. Orderly /\ presentQueue = <<>>
      BY <1>2, <1>s DEF RecreateBuild, CalmInv, StatusInv, Recreating, Synchronizing,
           Synchronized
    <2>2. ppc = "wait"
      BY <2>1 DEF PlaceInv, TypeOK
    <2>3. /\ imageCount' \in Nat /\ free' = imageCount' /\ engine' = <<>> /\ shown' = 0 /\ ppc' = "wait"
      BY <1>2, <1>a, <2>2 DEF RecreateBuild
    <2>4. Held' = 0 /\ Len(engine') = 0
      BY <1>h, <2>3
    <2>5. free' + Len(engine') + shown' + Held' = imageCount'
      <3>1. Len(engine') <= 0
        BY <2>4
      <3>2. /\ free' \in Nat /\ Len(engine') \in Nat /\ shown' = 0 /\ Held' = 0
            /\ free' = imageCount'
        BY <1>a, <2>3, <2>4
      <3> QED BY ONLY <3>1, <3>2
    <2> QED BY <1>a, <2>3, <2>5
  <1>3. CASE SubmitPush
    <2>1. /\ UNCHANGED <<free, engine, shown, imageCount, lastStatus, ppc, pi, acquired>>
          /\ ppc = "wait"
      BY <1>3 DEF SubmitPush, MutexFree, TypeOK
    <2>2. Held = 0 /\ Held' = 0
      BY <1>h, <2>1
    <2> QED BY <1>i, <2>1, <2>2
  <1>4. CASE EngineShows
    <2>1. /\ UNCHANGED <<imageCount, lastStatus, ppc, pi, acquired, presentQueue>>
          /\ engine # <<>> /\ engine' = Tail(engine) /\ free' = free + shown /\ shown' = 1
      BY <1>4 DEF EngineShows
    <2>2. Len(engine') = Len(engine) - 1
      BY <2>1, EngineTypes, TakenQueue
    <2>3. Held' = Held
      BY <2>1 DEF Held, Job
    <2>4. free' + Len(engine') + shown' + Held' = free + Len(engine) + shown + Held
      BY <1>a, <2>1, <2>2, <2>3
    <2> QED BY <1>i, <2>1, <2>4 DEF Job
  <1>5. CASE PresentTake
    <2>1. /\ UNCHANGED <<imageCount, free, engine, shown, presentQueue>> /\ pi' = 0 /\ acquired' = {}
          /\ ppc \in {"take", "wait"} /\ ppc' \in {"finish", "interpolate", "renderedAcquire"}
          /\ lastStatus' = Success => lastStatus = Success
      BY <1>5 DEF PresentTake, Error, Success
    <2>2. Held = 0 /\ Held' = 0 /\ acquired' = 0 .. pi' - 1
      BY <1>h, <2>1
    <2> QED BY <1>i, <2>1, <2>2
  <1>6. CASE InterpolatedAcquire
    <2>1. /\ UNCHANGED <<imageCount, engine, shown, presentQueue>> /\ ppc = "interpolate"
          /\ lastStatus' \in Answers("interpolatedAcquire")
          /\ lastStatus' = Success => /\ free' = free - 1
                                      /\ acquired' = acquired \union {pi}
          /\ pi' = IF MoreToAcquire(pi + 1) THEN pi + 1 ELSE 0
          /\ ppc' = IF MoreToAcquire(pi + 1) THEN "interpolate" ELSE "firstPresent"
      BY <1>6 DEF InterpolatedAcquire
    <2>2. lastStatus' = Success
      BY <1>s, <2>1 DEF Answers, Leaving
    <2>3. /\ presentQueue # <<>> /\ pi < Job.interpolated /\ Job.interpolated \in Nat
      BY <2>1, JobType DEF PlaceInv
    <2>4. Job' = Job /\ lastStatus = Success
      <3>1. lastStatus = Success
        BY <1>s, <2>1 DEF SemaphoreInv
      <3> QED BY <2>1, <3>1 DEF Job
    <2>5. acquired' = 0 .. pi
      <3>1. acquired' = (0 .. pi - 1) \union {pi}
        BY <1>i, <2>1, <2>2
      <3> QED BY ONLY <1>a, <3>1
    <2>6. CASE pi + 1 < Job.interpolated
      <3>1. ppc' = "interpolate" /\ pi' = pi + 1
        BY <2>1, <2>6 DEF MoreToAcquire
      <3>2. Held = pi /\ Held' = pi + 1 /\ acquired' = 0 .. pi' - 1
        BY <1>a, <1>h, <2>1, <2>5, <3>1
      <3>3. free' + Len(engine') + shown' + Held' = free + Len(engine) + shown + Held
        BY <1>a, <2>1, <2>2, <3>2
      <3> QED BY <1>i, <2>1, <2>4, <3>1, <3>2, <3>3
    <2>7. CASE pi + 1 = Job.interpolated
      <3>1. ppc' = "firstPresent"
        BY <1>a, <2>1, <2>3, <2>7 DEF MoreToAcquire
      <3>2. Held = pi /\ Held' = pi + 1 /\ acquired' = 0 .. Job'.interpolated - 1
        BY <1>a, <1>h, <2>1, <2>4, <2>5, <2>7, <3>1
      <3>3. free' + Len(engine') + shown' + Held' = free + Len(engine) + shown + Held
        BY <1>a, <2>1, <2>2, <3>2
      <3> QED BY <1>i, <2>1, <2>4, <3>1, <3>2, <3>3
    <2> QED BY <1>a, <2>3, <2>6, <2>7
  <1>7. CASE FirstPresent
    <2>1. /\ UNCHANGED <<imageCount, free, shown, presentQueue, acquired>> /\ ppc = "firstPresent"
          /\ IF lastStatus' = Success
               THEN /\ engine' = Append(engine, [wait |-> kPacerDoNotWait, frame |-> Job.frame])
                    /\ pi' = 1
                    /\ ppc' = IF MoreToPresent(1) THEN "pacedPresent" ELSE "renderedAcquire"
               ELSE /\ ppc' = "finish" /\ UNCHANGED engine
      BY <1>7 DEF FirstPresent
    <2>2. /\ presentQueue # <<>> /\ Job.interpolated > 0 /\ Job.interpolated \in Nat
          /\ Job.frame \in Frames
      BY <2>1, JobType DEF PlaceInv
    <2>3. Job' = Job /\ lastStatus = Success /\ Held = Job.interpolated
      <3>1. lastStatus = Success /\ Held = Job.interpolated
        BY <1>h, <1>s, <2>1 DEF SemaphoreInv
      <3> QED BY <2>1, <3>1 DEF Job
    <2>4. CASE lastStatus' = Success
      <3>1. Len(engine') = Len(engine) + 1
        BY <2>1, <2>2, <2>4, EngineAdds
      <3>2. Held' = Job.interpolated - 1
        BY <1>a, <1>h, <2>1, <2>2, <2>3, <2>4 DEF MoreToPresent
      <3>3. free' + Len(engine') + shown' + Held' = free + Len(engine) + shown + Held
        BY <1>a, <2>1, <2>2, <2>3, <3>1, <3>2
      <3>4. ppc' \in {"pacedPresent", "renderedAcquire"}
        BY <2>1, <2>4
      <3> QED BY <1>i, <2>1, <2>3, <3>3, <3>4
    <2>5. CASE lastStatus' # Success
      <3>1. Held' = 0 /\ ppc' = "finish" /\ UNCHANGED engine
        BY <1>h, <2>1, <2>5
      <3>2. free' + Len(engine') + shown' + Held' <= free + Len(engine) + shown + Held
        BY <1>a, <2>1, <2>2, <2>3, <3>1
      <3> QED BY <1>a, <1>i, <2>1, <2>2, <2>3, <2>5, <3>1, <3>2
    <2> QED BY <2>4, <2>5
  <1>8. CASE PacedPresent
    <2>1. /\ UNCHANGED <<imageCount, free, shown, presentQueue, acquired>> /\ ppc = "pacedPresent"
          /\ lastStatus' \in Answers("pacedPresent")
          /\ lastStatus' = Success =>
               engine' = Append(engine, [wait |-> pacerValueLocal, frame |-> Job.frame])
          /\ pi' = pi + 1
          /\ ppc' = IF MoreToPresent(pi + 1) THEN "pacedPresent" ELSE "renderedAcquire"
      BY <1>8 DEF PacedPresent
    <2>2. lastStatus' = Success
      BY <1>s, <2>1 DEF Answers, Leaving
    <2>3. /\ presentQueue # <<>> /\ pi < Job.interpolated /\ Job.interpolated \in Nat
          /\ Job.frame \in Frames
      BY <2>1, JobType DEF PlaceInv
    <2>4. Job' = Job /\ lastStatus = Success /\ Held = Job.interpolated - pi
      <3>1. lastStatus = Success /\ Held = Job.interpolated - pi
        BY <1>h, <1>s, <2>1 DEF SemaphoreInv
      <3> QED BY <2>1, <3>1 DEF Job
    <2>5. Len(engine') = Len(engine) + 1
      <3>1. pacerValueLocal \in Nat \union {kPacerDoNotWait}
        BY DEF TypeOK
      <3> QED BY <2>1, <2>2, <2>3, <3>1, EngineAdds
    <2>6. Held' = Job.interpolated - pi - 1
      <3>1. CASE pi + 1 < Job.interpolated
        BY <1>a, <1>h, <2>1, <2>3, <2>4, <3>1, SMTT(20) DEF MoreToPresent
      <3>2. CASE pi + 1 = Job.interpolated
        BY <1>a, <1>h, <2>1, <2>3, <2>4, <3>2, SMTT(20) DEF MoreToPresent
      <3> QED BY <1>a, <2>3, <3>1, <3>2
    <2>7. free' + Len(engine') + shown' + Held' = free + Len(engine) + shown + Held
      BY <1>a, <2>1, <2>3, <2>4, <2>5, <2>6
    <2>8. ppc' \in {"pacedPresent", "renderedAcquire"}
      BY <2>1
    <2> QED BY <1>i, <2>1, <2>4, <2>7, <2>8
  <1>9. CASE RenderedAcquire
    <2>1. /\ UNCHANGED <<imageCount, engine, shown>> /\ ppc = "renderedAcquire"
          /\ IF lastStatus' = Success
               THEN ppc' = "renderedPresent" /\ free' = free - 1
               ELSE ppc' = "finish" /\ free' = free
      BY <1>9 DEF RenderedAcquire
    <2>2. Held = 0 /\ lastStatus = Success
      BY <1>h, <1>s, <2>1 DEF SemaphoreInv
    <2>3. CASE lastStatus' = Success
      <3>1. Held' = 1 /\ free' = free - 1 /\ ppc' = "renderedPresent"
        BY <1>h, <2>1, <2>3
      <3>2. free' + Len(engine') + shown' + Held' = free + Len(engine) + shown + Held
        BY <1>a, <2>1, <2>2, <3>1
      <3> QED BY <1>i, <2>1, <2>2, <3>1, <3>2
    <2>4. CASE lastStatus' # Success
      <3>1. Held' = 0 /\ free' = free /\ ppc' = "finish"
        BY <1>h, <2>1, <2>4
      <3> QED BY <1>i, <2>1, <2>2, <2>4, <3>1
    <2> QED BY <2>3, <2>4
  <1>10. CASE RenderedPresent
    <2>1. /\ UNCHANGED <<imageCount, free, shown, presentQueue>>
          /\ ppc = "renderedPresent" /\ ppc' = "finish"
          /\ engine' = IF lastStatus' = Success
               THEN Append(engine, [wait |-> pacerValueLocal, frame |-> Job.frame]) ELSE engine
      BY <1>10 DEF RenderedPresent
    <2>2. Held = 1 /\ Held' = 0 /\ lastStatus = Success
      BY <1>h, <1>s, <2>1 DEF SemaphoreInv
    <2>3. CASE lastStatus' = Success
      <3>1. Job.frame \in Frames /\ pacerValueLocal \in Nat \union {kPacerDoNotWait}
        BY <2>1, JobType DEF PlaceInv, TypeOK
      <3>2. Len(engine') = Len(engine) + 1
        BY <2>1, <2>3, <3>1, EngineAdds
      <3>3. free' + Len(engine') + shown' + Held' = free + Len(engine) + shown + Held
        BY <1>a, <2>1, <2>2, <3>2
      <3> QED BY <1>i, <2>1, <2>2, <3>3
    <2>4. CASE lastStatus' # Success
      <3>1. free' + Len(engine') + shown' + Held' <= free + Len(engine) + shown + Held
        BY <1>a, <2>1, <2>2, <2>4
      <3> QED BY <1>a, <1>i, <2>1, <2>2, <2>4, <3>1
    <2> QED BY <2>3, <2>4
  <1>11. CASE PresentFinish
    <2>1. /\ UNCHANGED <<imageCount, free, shown, engine, lastStatus>>
          /\ ppc = "finish" /\ ppc' \in {"take", "wait"}
      BY <1>11 DEF PresentFinish
    <2>2. Held = 0 /\ Held' = 0
      BY <1>h, <2>1
    <2> QED BY <1>i, <2>1, <2>2
  <1> QED BY <1>1, <1>2, <1>3, <1>4, <1>5, <1>6, <1>7, <1>8, <1>9, <1>10, <1>11
          DEF Next, AppWaits, Recreate, Submit, Present, Pacer
-----------------------------------------------------------------------------
(* The latency.                                                            *)

LEMMA FrameFrames == \A x \in Frame : x.frame \in Frames
  BY DEF Frame

LEMMA FramesOfSeq ==
    ASSUME NEW T, \A x \in T : x.frame \in Frames, NEW q \in Seq(T)
    PROVE  /\ FramesOf(q) \in Seq(Frames) /\ Len(FramesOf(q)) = Len(q)
           /\ DOMAIN FramesOf(q) = DOMAIN q /\ DOMAIN q = 1 .. Len(q) /\ Len(q) \in Nat
           /\ \A i \in DOMAIN q : FramesOf(q)[i] = q[i].frame
  <1>1. Len(q) \in Nat /\ DOMAIN q = 1 .. Len(q)
    OBVIOUS
  <1>2. \A i \in 1 .. Len(q) : q[i].frame \in Frames
    BY <1>1
  <1>3. FramesOf(q) = [i \in 1 .. Len(q) |-> q[i].frame]
    BY <1>1 DEF FramesOf
  <1>4. FramesOf(q) \in Seq(Frames) /\ Len(FramesOf(q)) = Len(q)
    BY <1>1, <1>2, <1>3
  <1> QED BY <1>1, <1>3, <1>4

LEMMA FramesOfAppend ==
    ASSUME NEW T, \A x \in T : x.frame \in Frames, NEW q \in Seq(T), NEW e \in T
    PROVE  FramesOf(Append(q, e)) = Append(FramesOf(q), e.frame)
  <1> DEFINE a == Append(q, e)
             f == Append(FramesOf(q), e.frame)
  <1>1. /\ a \in Seq(T) /\ DOMAIN a = 1 .. Len(q) + 1 /\ Len(q) \in Nat
        /\ \A i \in 1 .. Len(q) : a[i] = q[i]
        /\ a[Len(q) + 1] = e /\ Len(a) = Len(q) + 1
    BY AddedQueue
  <1>2. /\ FramesOf(q) \in Seq(Frames) /\ Len(FramesOf(q)) = Len(q) /\ DOMAIN q = 1 .. Len(q)
        /\ \A i \in DOMAIN q : FramesOf(q)[i] = q[i].frame
    BY FramesOfSeq
  <1>3. /\ f \in Seq(Frames) /\ DOMAIN f = 1 .. Len(q) + 1 /\ Len(f) = Len(q) + 1
        /\ \A i \in 1 .. Len(q) : f[i] = q[i].frame
        /\ f[Len(q) + 1] = e.frame
    BY <1>2, AddedQueue
  <1> HIDE DEF a, f
  <1>4. /\ FramesOf(a) \in Seq(Frames) /\ Len(FramesOf(a)) = Len(q) + 1
        /\ \A i \in 1 .. Len(q) + 1 : FramesOf(a)[i] = a[i].frame
    BY <1>1, FramesOfSeq
  <1>5. \A i \in 1 .. Len(q) + 1 : i \in 1 .. Len(q) \/ i = Len(q) + 1
    BY <1>1
  <1>6. \A i \in 1 .. Len(q) + 1 : FramesOf(a)[i] = f[i]
    BY <1>1, <1>3, <1>4, <1>5
  <1>7. FramesOf(a) = f
    BY <1>3, <1>4, <1>6, SeqEqual
  <1> QED BY <1>7 DEF a, f

LEMMA FramesOfTail ==
    ASSUME NEW T, \A x \in T : x.frame \in Frames, NEW q \in Seq(T), q # <<>>
    PROVE  FramesOf(q) = <<Head(q).frame>> \o FramesOf(Tail(q))
  <1> DEFINE t == FramesOf(Tail(q))
             c == <<Head(q).frame>> \o t
  <1>1. /\ Head(q) \in T /\ Head(q) = q[1] /\ Tail(q) \in Seq(T) /\ Len(Tail(q)) = Len(q) - 1
        /\ Len(q) \in Nat \ {0} /\ DOMAIN q = 1 .. Len(q)
        /\ DOMAIN Tail(q) = 1 .. Len(q) - 1
        /\ \A i \in 1 .. Len(q) - 1 : Tail(q)[i] = q[i + 1]
    BY TakenQueue
  <1>2. /\ t \in Seq(Frames) /\ Len(t) = Len(q) - 1
        /\ \A i \in 1 .. Len(q) - 1 : t[i] = q[i + 1].frame
    <2>1. /\ t \in Seq(Frames) /\ Len(t) = Len(Tail(q))
          /\ \A i \in DOMAIN Tail(q) : t[i] = Tail(q)[i].frame
      BY <1>1, FramesOfSeq
    <2> QED BY <1>1, <2>1
  <1>3. Head(q).frame \in Frames
    BY <1>1
  <1> DEFINE h == Head(q).frame
  <1> HIDE DEF t
  <1>4. /\ c \in Seq(Frames) /\ Len(c) = Len(q)
        /\ \A i \in 1 .. Len(q) : c[i] = IF i = 1 THEN h ELSE t[i - 1]
    <2> HIDE DEF h
    <2>1. h \in Frames
      BY <1>3 DEF h
    <2>2. /\ <<h>> \o t \in Seq(Frames) /\ Len(<<h>> \o t) = 1 + Len(t)
          /\ \A i \in 1 .. 1 + Len(t) : (<<h>> \o t)[i] = IF i = 1 THEN h ELSE t[i - 1]
      BY <1>2, <2>1
    <2>3. 1 + Len(t) = Len(q)
      BY <1>1, <1>2
    <2> QED BY <2>2, <2>3 DEF h
  <1> HIDE DEF c
  <1>5. /\ FramesOf(q) \in Seq(Frames) /\ Len(FramesOf(q)) = Len(q)
        /\ \A i \in 1 .. Len(q) : FramesOf(q)[i] = q[i].frame
    BY <1>1, FramesOfSeq
  <1>6. \A i \in 1 .. Len(q) : FramesOf(q)[i] = c[i]
    <2> SUFFICES ASSUME NEW i \in 1 .. Len(q) PROVE FramesOf(q)[i] = c[i]
      OBVIOUS
    <2>1. CASE i = 1
      BY <1>1, <1>4, <1>5, <2>1 DEF h
    <2>2. CASE i # 1
      <3>1. i - 1 \in 1 .. Len(q) - 1 /\ (i - 1) + 1 = i
        BY <1>1, <2>2
      <3>2. t[i - 1] = q[i].frame
        BY <1>2, <3>1
      <3> QED BY <1>4, <1>5, <2>2, <3>2
    <2> QED BY <2>1, <2>2
  <1>7. FramesOf(q) = c
    BY <1>4, <1>5, <1>6, SeqEqual
  <1> QED BY <1>7 DEF c, t

(* Moving the boundary of a concatenation by one element.                  *)
LEMMA ConcatMoves ==
    ASSUME NEW T, NEW s \in Seq(T), NEW t \in Seq(T), NEW e \in T
    PROVE  Append(s, e) \o t = s \o (<<e>> \o t)
  <1>1. Append(s, e) = s \o <<e>> /\ <<e>> \in Seq(T)
    BY AppendIsConcat
  <1> QED BY <1>1, ConcatAssociative

LEMMA TailOfAppend ==
    ASSUME NEW T, NEW q \in Seq(T), q # <<>>, NEW e \in T
    PROVE  Tail(Append(q, e)) = Append(Tail(q), e)
  OBVIOUS

(* Frames closer than their distance do not fit between two frames.        *)
LEMMA SpacedAppend ==
    ASSUME NEW T, T \subseteq Int, NEW s \in Seq(T), NEW low \in Int, NEW f \in T,
           Spaced(s), Bounded(s, low, f - 1), low <= f - 1
    PROVE  /\ Spaced(Append(s, f)) /\ Bounded(Append(s, f), low, f)
           /\ Len(Append(s, f)) = Len(s) + 1
  <1> DEFINE a == Append(s, f)
             n == Len(s)
  <1>1. \A i \in DOMAIN s : s[i] \in Int
    <2>1. \A i \in DOMAIN s : s[i] \in T
      BY QueueElement
    <2> QED BY <2>1
  <1>2. /\ n \in Nat /\ DOMAIN s = 1 .. n /\ DOMAIN a = 1 .. n + 1 /\ Len(a) = n + 1
        /\ \A i \in 1 .. n : a[i] = s[i]
        /\ a[n + 1] = f /\ f \in Int
    BY AddedQueue
  <1> HIDE DEF a, n
  <1>3. Bounded(a, low, f)
    <2> SUFFICES ASSUME NEW i \in 1 .. n + 1 PROVE low < a[i] /\ a[i] <= f
      BY <1>2 DEF Bounded
    <2>1. CASE i \in 1 .. n
      <3>1. a[i] = s[i] /\ s[i] \in Int /\ low < s[i] /\ s[i] <= f - 1
        BY <1>1, <1>2, <2>1 DEF Bounded
      <3> QED BY <3>1
    <2>2. CASE i = n + 1
      BY <1>2, <2>2
    <2> QED BY <1>2, <2>1, <2>2
  <1>4. Spaced(a)
    <2> SUFFICES ASSUME NEW i \in 1 .. n + 1, NEW j \in 1 .. n + 1, i <= j
                 PROVE  a[j] - a[i] >= j - i
      BY <1>2 DEF Spaced
    <2>1. CASE j \in 1 .. n
      <3>1. i \in 1 .. n
        BY <1>2, <2>1
      <3> QED BY <1>2, <2>1, <3>1 DEF Spaced
    <2>2. CASE j = n + 1 /\ i = n + 1
      BY <1>2, <2>2
    <2>3. CASE j = n + 1 /\ i \in 1 .. n
      <3>1. n \in 1 .. n /\ i <= n
        BY <1>2, <2>3
      <3>2. /\ s[n] - s[i] >= n - i /\ s[n] <= f - 1 /\ s[n] \in Int /\ s[i] \in Int
        BY <1>1, <1>2, <2>3, <3>1 DEF Spaced, Bounded
      <3>3. a[j] = f /\ a[i] = s[i]
        BY <1>2, <2>3
      <3> QED BY <1>2, <2>3, <3>2, <3>3
    <2> QED BY <1>2, <2>1, <2>2, <2>3
  <1> QED BY <1>2, <1>3, <1>4 DEF a, n

LEMMA SpacedTail ==
    ASSUME NEW T, T \subseteq Int, NEW s \in Seq(T), NEW t \in Seq(T), NEW x \in T, s = <<x>> \o t,
           NEW low \in Int, NEW high \in Int, Spaced(s), Bounded(s, low, high)
    PROVE  /\ Spaced(t) /\ Bounded(t, x, high) /\ low < x /\ x <= high
           /\ Len(t) <= Len(s)
  <1>1. \A i \in DOMAIN s : s[i] \in Int
    <2>1. \A i \in DOMAIN s : s[i] \in T
      BY QueueElement
    <2> QED BY <2>1
  <1> DEFINE n == Len(t)
  <1>2. /\ n \in Nat /\ DOMAIN s = 1 .. n + 1 /\ DOMAIN t = 1 .. n /\ Len(s) = n + 1
        /\ s[1] = x
        /\ \A i \in 1 .. n : t[i] = s[i + 1]
    OBVIOUS
  <1> HIDE DEF n
  <1>3. 1 \in DOMAIN s /\ \A i \in 1 .. n : i + 1 \in DOMAIN s /\ i + 1 >= 1
    BY <1>2
  <1>4. low < x /\ x <= high
    BY <1>2, <1>3 DEF Bounded
  <1>5. Bounded(t, x, high)
    <2> SUFFICES ASSUME NEW i \in 1 .. n PROVE x < t[i] /\ t[i] <= high
      BY <1>2 DEF Bounded
    <2>1. s[i + 1] - s[1] >= (i + 1) - 1 /\ s[i + 1] <= high
      BY <1>2, <1>3 DEF Spaced, Bounded
    <2>2. s[i + 1] \in Int /\ s[1] \in Int /\ i >= 1 /\ i \in Nat
      <3>1. i >= 1 /\ i \in Nat
        BY <1>2
      <3> QED BY <1>1, <1>3, <3>1
    <2>3. s[1] < s[i + 1]
      BY ONLY <2>1, <2>2
    <2> QED BY <1>2, <2>1, <2>3
  <1>6. Spaced(t)
    <2> SUFFICES ASSUME NEW i \in 1 .. n, NEW j \in 1 .. n, i <= j PROVE t[j] - t[i] >= j - i
      BY <1>2 DEF Spaced
    <2>1. i + 1 \in DOMAIN s /\ j + 1 \in DOMAIN s /\ i + 1 <= j + 1
      BY <1>2, <1>3
    <2>2. s[j + 1] - s[i + 1] >= (j + 1) - (i + 1)
      BY <2>1 DEF Spaced
    <2> QED BY <1>1, <1>2, <2>1, <2>2
  <1> QED BY <1>2, <1>4, <1>5, <1>6 DEF n

LEMMA SpacedLen ==
    ASSUME NEW T, T \subseteq Int, NEW s \in Seq(T), NEW low \in Int, NEW high \in Int,
           Spaced(s), Bounded(s, low, high), low <= high
    PROVE  Len(s) <= high - low
  <1>1. \A i \in DOMAIN s : s[i] \in Int
    <2>1. \A i \in DOMAIN s : s[i] \in T
      BY QueueElement
    <2> QED BY <2>1
  <1> DEFINE n == Len(s)
  <1>2. n \in Nat /\ DOMAIN s = 1 .. n
    OBVIOUS
  <1> HIDE DEF n
  <1>3. CASE n = 0
    BY <1>3 DEF n
  <1>4. CASE n # 0
    <2>1. 1 \in 1 .. n /\ n \in 1 .. n /\ 1 <= n
      BY <1>2, <1>4
    <2>2. s[n] - s[1] >= n - 1 /\ low < s[1] /\ s[n] <= high
      BY <1>2, <2>1 DEF Spaced, Bounded
    <2>3. s[n] \in Int /\ s[1] \in Int
      BY <1>1, <1>2, <2>1
    <2>4. n <= high - low
      BY <1>2, <2>2, <2>3
    <2> QED BY <2>4 DEF n
  <1> QED BY <1>3, <1>4

LEMMA IncompleteType ==
    ASSUME TypeOK, PlaceInv
    PROVE  /\ Unsubmitted \in Seq(Frame)
           /\ FramesOf(gpuLists) \in Seq(Frames) /\ FramesOf(Unsubmitted) \in Seq(Frames)
           /\ FramesOf(csQueue) \in Seq(Frames) /\ Incomplete \in Seq(Frames)
           /\ Len(Incomplete) = Len(gpuLists) + Len(Unsubmitted) + Len(csQueue)
  <1>1. Unsubmitted \in Seq(Frame)
    BY QueueTypes, TakenQueue DEF Unsubmitted, PlaceInv
  <1>2. FramesOf(gpuLists) \in Seq(Frames) /\ Len(FramesOf(gpuLists)) = Len(gpuLists)
    <2> DEFINE R == [frame : Frames, ready : BOOLEAN]
    <2>1. gpuLists \in Seq(R) /\ \A x \in R : x.frame \in Frames
      BY DEF TypeOK
    <2> HIDE DEF R
    <2> QED BY <2>1, FramesOfSeq
  <1>3. /\ FramesOf(Unsubmitted) \in Seq(Frames) /\ Len(FramesOf(Unsubmitted)) = Len(Unsubmitted)
        /\ FramesOf(csQueue) \in Seq(Frames) /\ Len(FramesOf(csQueue)) = Len(csQueue)
    BY <1>1, QueueTypes, FrameFrames, FramesOfSeq
  <1> DEFINE g == FramesOf(gpuLists)
             u == FramesOf(Unsubmitted)
             c == FramesOf(csQueue)
  <1>4. g \o (u \o c) \in Seq(Frames) /\ Len(g \o (u \o c)) = Len(g) + Len(u) + Len(c)
    <2>1. g \in Seq(Frames) /\ u \in Seq(Frames) /\ c \in Seq(Frames)
      BY <1>2, <1>3
    <2> HIDE DEF g, u, c
    <2>2. u \o c \in Seq(Frames) /\ Len(u \o c) = Len(u) + Len(c)
      BY <2>1
    <2>3. g \o (u \o c) \in Seq(Frames) /\ Len(g \o (u \o c)) = Len(g) + Len(u \o c)
      BY <2>1, <2>2
    <2>4. Len(g) \in Nat /\ Len(u) \in Nat /\ Len(c) \in Nat
      BY <2>1
    <2> QED BY <2>2, <2>3, <2>4
  <1> QED BY <1>1, <1>2, <1>3, <1>4 DEF Incomplete

LEMMA LatencyInit == Init => LatencyInv
  <1> SUFFICES ASSUME Init PROVE LatencyInv
    OBVIOUS
  <1>1. Incomplete = <<>>
    BY DEF Init, Incomplete, Unsubmitted, FramesOf
  <1>2. latencySignal = 0 /\ frameId = 0 /\ apc = "idle" /\ Latency \in Nat
    BY FGAssumption DEF Init, FirstFrame
  <1>3. Spaced(Incomplete) /\ Bounded(Incomplete, latencySignal, LastSubmitted)
    BY <1>1 DEF Spaced, Bounded
  <1> QED BY <1>1, <1>2, <1>3 DEF LatencyInv, LastSubmitted

LEMMA LatencyStep ==
    ASSUME TypeOK, TypeOK', PlaceInv, LatencyInv, [Next]_vars
    PROVE  LatencyInv'
  <1> USE DEF appVars, pipeVars, gpuVars, localVars, chainVars, pacerVars, sharedVars
  <1>t. /\ Unsubmitted \in Seq(Frame)
        /\ FramesOf(gpuLists) \in Seq(Frames) /\ FramesOf(Unsubmitted) \in Seq(Frames)
        /\ FramesOf(csQueue) \in Seq(Frames) /\ Incomplete \in Seq(Frames)
    BY IncompleteType
  <1>a. /\ frameId \in Int /\ latencySignal \in Int /\ Latency \in Nat /\ LastSubmitted \in Int
        /\ Incomplete \in Seq(Frames) /\ Len(Incomplete) \in Nat /\ Frames \subseteq Int
    <2>1. frameId \in Int /\ latencySignal \in Int
      BY DEF TypeOK
    <2> QED BY <1>t, <2>1, QueueEmpty, FGAssumption DEF LastSubmitted, Frames
  <1>i. /\ Spaced(Incomplete) /\ Bounded(Incomplete, latencySignal, LastSubmitted)
        /\ latencySignal <= LastSubmitted
        /\ Len(Incomplete) <= Latency + 1
        /\ apc # "frameLatency" => Len(Incomplete) <= Latency
    BY DEF LatencyInv
  <1>u. ASSUME UNCHANGED <<gpuLists, spc, submitQueue, csQueue, latencySignal>>,
               apc = "frameLatency" => apc' = "frameLatency",
               LastSubmitted \in Int, LastSubmitted' \in Int, LastSubmitted <= LastSubmitted'
        PROVE  LatencyInv'
    <2>1. Incomplete' = Incomplete
      BY <1>u DEF Incomplete, Unsubmitted
    <2>2. Bounded(Incomplete, latencySignal, LastSubmitted')
      <3>1. \A i \in DOMAIN Incomplete : Incomplete[i] \in Int
        <4>1. \A i \in DOMAIN Incomplete : Incomplete[i] \in Frames
          BY <1>a, QueueElement
        <4> QED BY <1>a, <4>1
      <3> QED BY <1>a, <1>i, <1>u, <3>1 DEF Bounded
    <2>3. latencySignal <= LastSubmitted'
      BY <1>a, <1>i, <1>u
    <2> QED BY <1>i, <1>u, <2>1, <2>2, <2>3 DEF LatencyInv
  <1>0. ASSUME UNCHANGED <<gpuLists, spc, submitQueue, csQueue, latencySignal, frameId, apc>> PROVE LatencyInv'
    BY <1>0, <1>i DEF LatencyInv, Incomplete, Unsubmitted, LastSubmitted
  <1>1. CASE \/ ChangeMultiplier \/ EngineShows \/ PresentTake \/ InterpolatedAcquire
             \/ FirstPresent \/ PacedPresent \/ RenderedAcquire \/ RenderedPresent
             \/ PresentFinish \/ PacerTake \/ PacerSignal \/ UNCHANGED vars
    <2>1. UNCHANGED <<gpuLists, spc, submitQueue, csQueue, latencySignal, frameId, apc>>
      BY <1>1 DEF vars, ChangeMultiplier, EngineShows, PresentTake, InterpolatedAcquire,
            FirstPresent, PacedPresent, RenderedAcquire, RenderedPresent, PresentFinish,
            PacerTake, PacerSignal
    <2> QED BY <1>0, <2>1
  <1>2. CASE AppPresent
    <2>1. UNCHANGED <<gpuLists, spc, submitQueue, csQueue, latencySignal>>
      BY <1>2 DEF AppPresent
    <2>2. apc = "idle" /\ apc' \in {"synchronizePresent", "recreate"} /\ frameId' = frameId + 1
      BY <1>2 DEF AppPresent, TypeOK
    <2>3. LastSubmitted \in Int /\ LastSubmitted' \in Int /\ LastSubmitted <= LastSubmitted'
      BY <1>a, <2>2 DEF LastSubmitted
    <2> QED BY <1>u, <2>1, <2>2, <2>3
  <1>3. CASE AppSynchronizePresent
    <2>1. UNCHANGED <<gpuLists, spc, submitQueue, csQueue, latencySignal>>
      BY <1>3 DEF AppSynchronizePresent
    <2>2. frameId' = frameId /\ apc \notin {"idle", "frameLatency"} /\ apc' \notin {"idle", "frameLatency"}
      BY <1>3 DEF AppSynchronizePresent, TypeOK
    <2>3. LastSubmitted \in Int /\ LastSubmitted' \in Int /\ LastSubmitted <= LastSubmitted'
      BY <1>a, <2>2 DEF LastSubmitted
    <2> QED BY <1>u, <2>1, <2>2, <2>3
  <1>4. CASE AppAcquire
    <2>1. UNCHANGED <<gpuLists, spc, submitQueue, csQueue, latencySignal>>
      BY <1>4 DEF AppAcquire
    <2>2. frameId' = frameId /\ apc \notin {"idle", "frameLatency"} /\ apc' # "frameLatency"
      BY <1>4 DEF AppAcquire, TypeOK
    <2>3. LastSubmitted \in Int /\ LastSubmitted' \in Int /\ LastSubmitted <= LastSubmitted'
      BY <1>a, <2>2 DEF LastSubmitted
    <2> QED BY <1>u, <2>1, <2>2, <2>3
  <1>5. CASE AppWaitImage
    <2>1. UNCHANGED <<gpuLists, spc, submitQueue, csQueue, latencySignal>>
      BY <1>5 DEF AppWaitImage
    <2>2. frameId' = frameId /\ apc \notin {"idle", "frameLatency"} /\ apc' # "frameLatency"
      BY <1>5 DEF AppWaitImage, TypeOK
    <2>3. LastSubmitted \in Int /\ LastSubmitted' \in Int /\ LastSubmitted <= LastSubmitted'
      BY <1>a, <2>2 DEF LastSubmitted
    <2> QED BY <1>u, <2>1, <2>2, <2>3
  <1>6. CASE AppSubmitPresent
    <2>1. PICK k \in {0, multiplier} :
            csQueue' = Append(csQueue, [frame |-> frameId, image |-> index,
                                        interpolated |-> k, generation |-> generation])
      BY <1>6 DEF AppSubmitPresent
    <2> DEFINE e == [frame |-> frameId, image |-> index, interpolated |-> k,
                     generation |-> generation]
    <2>2. e \in Frame /\ e.frame = frameId
      <3>1. csQueue' \in Seq(Frame) /\ Len(csQueue) \in Nat
        BY QueueTypes DEF TypeOK
      <3>2. Len(csQueue) + 1 \in DOMAIN csQueue' /\ csQueue'[Len(csQueue) + 1] = e
        BY <2>1, <3>1, QueueTypes
      <3> QED BY <3>1, <3>2, QueueElement
    <2> HIDE DEF e
    <2>3. /\ csQueue' = Append(csQueue, e) /\ apc = "record" /\ apc' = "frameLatency"
          /\ UNCHANGED <<gpuLists, spc, submitQueue, latencySignal, frameId>>
      BY <1>6, <2>1 DEF AppSubmitPresent, e
    <2>4. Incomplete' = Append(Incomplete, frameId)
      <3>1. FramesOf(csQueue') = Append(FramesOf(csQueue), frameId)
        BY <2>2, <2>3, QueueTypes, FrameFrames, FramesOfAppend
      <3>2. frameId \in Frames
        BY <2>2, FrameFrames
      <3>3. UNCHANGED <<FramesOf(gpuLists), FramesOf(Unsubmitted)>>
        BY <2>3 DEF Unsubmitted
      <3>4. FramesOf(gpuLists) \o (FramesOf(Unsubmitted) \o Append(FramesOf(csQueue), frameId))
              = Append(Incomplete, frameId)
        <4> DEFINE g == FramesOf(gpuLists)
                   u == FramesOf(Unsubmitted)
                   c == FramesOf(csQueue)
        <4>1. g \in Seq(Frames) /\ u \in Seq(Frames) /\ c \in Seq(Frames)
              /\ Incomplete = g \o (u \o c)
          BY <1>t DEF Incomplete
        <4> HIDE DEF g, u, c
        <4>2. u \o c \in Seq(Frames) /\ <<frameId>> \in Seq(Frames)
          BY <3>2, <4>1
        <4>3. Append(c, frameId) = c \o <<frameId>>
          BY <3>2, <4>1, AppendIsConcat
        <4>4. u \o (c \o <<frameId>>) = (u \o c) \o <<frameId>>
          BY <4>1, <4>2, ConcatAssociative
        <4>5. g \o ((u \o c) \o <<frameId>>) = (g \o (u \o c)) \o <<frameId>>
          BY <4>1, <4>2, ConcatAssociative
        <4>6. (g \o (u \o c)) \o <<frameId>> = Append(g \o (u \o c), frameId)
          BY <3>2, <4>1, <4>2, AppendIsConcat
        <4> QED BY <4>1, <4>3, <4>4, <4>5, <4>6 DEF g, u, c
      <3> QED BY <3>1, <3>3, <3>4 DEF Incomplete
    <2>5. LastSubmitted = frameId - 1 /\ LastSubmitted' = frameId
      BY <2>3 DEF LastSubmitted
    <2>6. Spaced(Incomplete') /\ Bounded(Incomplete', latencySignal, frameId)
          /\ Len(Incomplete') = Len(Incomplete) + 1
      <3>1. frameId \in Frames /\ frameId - 1 \in Int
        BY <1>a, <2>2, FrameFrames
      <3> QED BY <1>a, <1>i, <2>4, <2>5, <3>1, SpacedAppend
    <2> QED BY <1>a, <1>i, <2>3, <2>5, <2>6 DEF LatencyInv
  <1>7. CASE AppSyncFrameLatency
    <2>1. /\ UNCHANGED <<gpuLists, spc, submitQueue, csQueue, latencySignal, frameId>>
          /\ apc = "frameLatency" /\ apc' = "idle" /\ latencySignal >= frameId - Latency
      BY <1>7 DEF AppSyncFrameLatency, LatencyReached
    <2>2. LastSubmitted = frameId /\ LastSubmitted' = frameId
      BY <2>1 DEF LastSubmitted
    <2>3. Len(Incomplete) <= frameId - latencySignal
      BY <1>a, <1>i, <2>2, SpacedLen
    <2>4. Len(Incomplete) <= Latency
      BY <1>a, <2>1, <2>3
    <2>5. Incomplete' = Incomplete
      BY <2>1 DEF Incomplete, Unsubmitted
    <2> QED BY <1>i, <2>1, <2>2, <2>4, <2>5 DEF LatencyInv
  <1>8. CASE RecreateWaitSubmission
    <2>1. UNCHANGED <<gpuLists, spc, submitQueue, csQueue, latencySignal>>
      BY <1>8 DEF RecreateWaitSubmission
    <2>2. frameId' = frameId /\ apc \notin {"idle", "frameLatency"} /\ apc' \notin {"idle", "frameLatency"}
      BY <1>8 DEF RecreateWaitSubmission, TypeOK
    <2>3. LastSubmitted \in Int /\ LastSubmitted' \in Int /\ LastSubmitted <= LastSubmitted'
      BY <1>a, <2>2 DEF LastSubmitted
    <2> QED BY <1>u, <2>1, <2>2, <2>3
  <1>9. CASE RecreateWaitQueue
    <2>1. UNCHANGED <<gpuLists, spc, submitQueue, csQueue, latencySignal>>
      BY <1>9 DEF RecreateWaitQueue
    <2>2. frameId' = frameId /\ apc \notin {"idle", "frameLatency"} /\ apc' \notin {"idle", "frameLatency"}
      BY <1>9 DEF RecreateWaitQueue, TypeOK
    <2>3. LastSubmitted \in Int /\ LastSubmitted' \in Int /\ LastSubmitted <= LastSubmitted'
      BY <1>a, <2>2 DEF LastSubmitted
    <2> QED BY <1>u, <2>1, <2>2, <2>3
  <1>10. CASE SyncTest
    <2>1. UNCHANGED <<gpuLists, spc, submitQueue, csQueue, latencySignal>>
      BY <1>10 DEF SyncTest
    <2>2. frameId' = frameId /\ apc \notin {"idle", "frameLatency"} /\ apc' \notin {"idle", "frameLatency"}
      BY <1>10 DEF SyncTest, TypeOK
    <2>3. LastSubmitted \in Int /\ LastSubmitted' \in Int /\ LastSubmitted <= LastSubmitted'
      BY <1>a, <2>2 DEF LastSubmitted
    <2> QED BY <1>u, <2>1, <2>2, <2>3
  <1>11. CASE SyncSleep
    <2>1. UNCHANGED <<gpuLists, spc, submitQueue, csQueue, latencySignal>>
      BY <1>11 DEF SyncSleep
    <2>2. frameId' = frameId /\ apc \notin {"idle", "frameLatency"} /\ apc' \notin {"idle", "frameLatency"}
      BY <1>11 DEF SyncSleep, TypeOK
    <2>3. LastSubmitted \in Int /\ LastSubmitted' \in Int /\ LastSubmitted <= LastSubmitted'
      BY <1>a, <2>2 DEF LastSubmitted
    <2> QED BY <1>u, <2>1, <2>2, <2>3
  <1>12. CASE RecreateDeviceIdle
    <2>1. UNCHANGED <<gpuLists, spc, submitQueue, csQueue, latencySignal>>
      BY <1>12 DEF RecreateDeviceIdle
    <2>2. frameId' = frameId /\ apc \notin {"idle", "frameLatency"} /\ apc' \notin {"idle", "frameLatency"}
      BY <1>12 DEF RecreateDeviceIdle, TypeOK
    <2>3. LastSubmitted \in Int /\ LastSubmitted' \in Int /\ LastSubmitted <= LastSubmitted'
      BY <1>a, <2>2 DEF LastSubmitted
    <2> QED BY <1>u, <2>1, <2>2, <2>3
  <1>13. CASE RecreateBuild
    <2>1. UNCHANGED <<gpuLists, spc, submitQueue, csQueue, latencySignal>>
      BY <1>13 DEF RecreateBuild
    <2>2. frameId' = frameId /\ apc \notin {"idle", "frameLatency"} /\ apc' \notin {"idle", "frameLatency"}
      BY <1>13 DEF RecreateBuild, TypeOK
    <2>3. LastSubmitted \in Int /\ LastSubmitted' \in Int /\ LastSubmitted <= LastSubmitted'
      BY <1>a, <2>2 DEF LastSubmitted
    <2> QED BY <1>u, <2>1, <2>2, <2>3
  <1>14. CASE CsPresent
    <2>1. /\ csQueue # <<>> /\ submitQueue' = Append(submitQueue, Head(csQueue))
          /\ csQueue' = Tail(csQueue)
          /\ UNCHANGED <<apc, gpuLists, spc, latencySignal, frameId>>
      BY <1>14 DEF CsPresent
    <2>2. Head(csQueue) \in Frame /\ Tail(csQueue) \in Seq(Frame)
      BY <2>1, QueueTypes, TakenQueue
    <2>3. Unsubmitted' = Append(Unsubmitted, Head(csQueue))
      <3>1. CASE spc = "idle"
        BY <2>1, <3>1 DEF Unsubmitted
      <3>2. CASE spc # "idle"
        <4>1. submitQueue # <<>>
          BY <3>2 DEF PlaceInv
        <4>2. Tail(Append(submitQueue, Head(csQueue))) = Append(Tail(submitQueue), Head(csQueue))
          BY <2>2, <4>1, QueueTypes, TailOfAppend
        <4> QED BY <2>1, <3>2, <4>2 DEF Unsubmitted
      <3> QED BY <3>1, <3>2
    <2>4. FramesOf(Unsubmitted') = Append(FramesOf(Unsubmitted), Head(csQueue).frame)
      BY <1>t, <2>2, <2>3, FrameFrames, FramesOfAppend
    <2>5. FramesOf(csQueue) = <<Head(csQueue).frame>> \o FramesOf(csQueue')
      BY <2>1, QueueTypes, FrameFrames, FramesOfTail
    <2>6. FramesOf(csQueue') \in Seq(Frames) /\ Head(csQueue).frame \in Frames
      BY <2>1, <2>2, FrameFrames, FramesOfSeq
    <2>7. FramesOf(Unsubmitted') \o FramesOf(csQueue') = FramesOf(Unsubmitted) \o FramesOf(csQueue)
      <3> DEFINE u == FramesOf(Unsubmitted)
                 x == Head(csQueue).frame
                 c == FramesOf(csQueue')
      <3>1. u \in Seq(Frames) /\ x \in Frames /\ c \in Seq(Frames)
        BY <1>t, <2>6
      <3> HIDE DEF u, x, c
      <3>2. Append(u, x) \o c = u \o (<<x>> \o c)
        BY <3>1, ConcatMoves
      <3> QED BY <2>4, <2>5, <3>2 DEF u, x, c
    <2>8. Incomplete' = Incomplete
      BY <2>1, <2>7 DEF Incomplete
    <2> QED BY <1>i, <2>1, <2>8 DEF LatencyInv, LastSubmitted
  <1>15. CASE SubmitList
    <2>1. /\ submitQueue # <<>> /\ spc = "idle" /\ spc' = "present"
          /\ \E ready : gpuLists' = Append(gpuLists, [frame |-> Head(submitQueue).frame, ready |-> ready])
          /\ UNCHANGED <<apc, submitQueue, csQueue, latencySignal, frameId>>
      BY <1>15 DEF SubmitList
    <2>2. PICK ready : gpuLists' = Append(gpuLists, [frame |-> Head(submitQueue).frame, ready |-> ready])
      BY <2>1
    <2> DEFINE e == [frame |-> Head(submitQueue).frame, ready |-> ready]
    <2>3. e \in [frame : Frames, ready : BOOLEAN] /\ e.frame = Head(submitQueue).frame
      <3>1. gpuLists' \in Seq([frame : Frames, ready : BOOLEAN]) /\ Len(gpuLists) \in Nat
            /\ gpuLists \in Seq([frame : Frames, ready : BOOLEAN])
        BY QueueEmpty DEF TypeOK
      <3>2. Len(gpuLists) + 1 \in DOMAIN gpuLists' /\ gpuLists'[Len(gpuLists) + 1] = e
        BY <2>2, <3>1
      <3>3. e \in [frame : Frames, ready : BOOLEAN]
        BY <3>1, <3>2, QueueElement
      <3> QED BY <3>3
    <2> HIDE DEF e
    <2>4. FramesOf(gpuLists') = Append(FramesOf(gpuLists), Head(submitQueue).frame)
      <3>1. gpuLists' = Append(gpuLists, e) /\ gpuLists \in Seq([frame : Frames, ready : BOOLEAN])
        BY <2>2 DEF e, TypeOK
      <3>2. \A x \in [frame : Frames, ready : BOOLEAN] : x.frame \in Frames
        OBVIOUS
      <3> QED BY <2>3, <3>1, <3>2, FramesOfAppend
    <2>5. FramesOf(Unsubmitted) = <<Head(submitQueue).frame>> \o FramesOf(Unsubmitted')
      BY <2>1, QueueTypes, FrameFrames, FramesOfTail DEF Unsubmitted
    <2>6. FramesOf(Unsubmitted') \in Seq(Frames) /\ Head(submitQueue).frame \in Frames
      <3>1. Head(submitQueue) \in Frame /\ Unsubmitted' \in Seq(Frame)
        BY <2>1, QueueTypes, TakenQueue DEF Unsubmitted
      <3> QED BY <3>1, FrameFrames, FramesOfSeq
    <2> DEFINE g == FramesOf(gpuLists)
               x == Head(submitQueue).frame
               u == FramesOf(Unsubmitted')
               c == FramesOf(csQueue)
    <2>7. Append(g, x) \o (u \o c) = g \o ((<<x>> \o u) \o c)
      <3>1. g \in Seq(Frames) /\ x \in Frames /\ u \in Seq(Frames) /\ c \in Seq(Frames)
        BY <1>t, <2>6
      <3> HIDE DEF g, x, u, c
      <3>2. u \o c \in Seq(Frames) /\ <<x>> \in Seq(Frames)
        BY <3>1
      <3>3. Append(g, x) \o (u \o c) = g \o (<<x>> \o (u \o c))
        BY <3>1, <3>2, ConcatMoves, SMTT(20)
      <3>4. <<x>> \o (u \o c) = (<<x>> \o u) \o c
        BY <3>1, <3>2, ConcatAssociative
      <3> QED BY <3>3, <3>4
    <2>8. Incomplete' = Incomplete
      BY <2>1, <2>4, <2>5, <2>7 DEF Incomplete
    <2> QED BY <1>i, <2>1, <2>8 DEF LatencyInv, LastSubmitted
  <1>16. CASE SubmitPresentFails
    <2>1. /\ submitQueue' = Tail(submitQueue) /\ spc \in {"present", "push"} /\ spc' = "idle"
          /\ UNCHANGED <<apc, gpuLists, csQueue, latencySignal, frameId>>
      BY <1>16 DEF SubmitPresentFails
    <2>2. Incomplete' = Incomplete
      BY <2>1 DEF Incomplete, Unsubmitted
    <2> QED BY <1>i, <2>1, <2>2 DEF LatencyInv, LastSubmitted
  <1>17. CASE SubmitPresentQueued
    <2>1. /\ spc = "present" /\ spc' = "push"
          /\ UNCHANGED <<apc, gpuLists, csQueue, submitQueue, latencySignal, frameId>>
      BY <1>17 DEF SubmitPresentQueued
    <2>2. Incomplete' = Incomplete
      BY <2>1 DEF Incomplete, Unsubmitted
    <2> QED BY <1>i, <2>1, <2>2 DEF LatencyInv, LastSubmitted
  <1>18. CASE SubmitPush
    <2>1. /\ submitQueue' = Tail(submitQueue) /\ spc \in {"present", "push"} /\ spc' = "idle"
          /\ UNCHANGED <<apc, gpuLists, csQueue, latencySignal, frameId>>
      BY <1>18 DEF SubmitPush
    <2>2. Incomplete' = Incomplete
      BY <2>1 DEF Incomplete, Unsubmitted
    <2> QED BY <1>i, <2>1, <2>2 DEF LatencyInv, LastSubmitted
  <1>19. CASE GpuComplete
    <2>1. /\ gpuLists # <<>> /\ gpuLists' = Tail(gpuLists)
          /\ latencySignal' = Head(gpuLists).frame
          /\ UNCHANGED <<apc, spc, submitQueue, csQueue, frameId>>
      BY <1>19 DEF GpuComplete
    <2> DEFINE R == [frame : Frames, ready : BOOLEAN]
               x == Head(gpuLists).frame
               r == FramesOf(Unsubmitted) \o FramesOf(csQueue)
    <2>2. gpuLists \in Seq(R) /\ \A y \in R : y.frame \in Frames
      BY DEF TypeOK
    <2> HIDE DEF R
    <2>3. /\ FramesOf(gpuLists) = <<x>> \o FramesOf(gpuLists')
          /\ FramesOf(gpuLists') \in Seq(Frames) /\ x \in Frames
      <3>1. Head(gpuLists) \in R /\ Tail(gpuLists) \in Seq(R)
        BY <2>1, <2>2, TakenQueue
      <3>2. FramesOf(gpuLists) = <<x>> \o FramesOf(gpuLists')
        BY <2>1, <2>2, FramesOfTail
      <3>3. FramesOf(gpuLists') \in Seq(Frames)
        BY <2>1, <2>2, <3>1, FramesOfSeq
      <3> QED BY <2>2, <3>1, <3>2, <3>3
    <2>4. r \in Seq(Frames) /\ r' = r
      BY <1>t, <2>1 DEF Unsubmitted
    <2>5. Incomplete = <<x>> \o Incomplete' /\ Incomplete' \in Seq(Frames)
      <3>1. Incomplete = (<<x>> \o FramesOf(gpuLists')) \o r
        BY <2>3 DEF Incomplete
      <3>2. Incomplete' = FramesOf(gpuLists') \o r
        BY <2>4 DEF Incomplete
      <3> HIDE DEF r, x
      <3>3. <<x>> \in Seq(Frames)
        BY <2>3
      <3>4. (<<x>> \o FramesOf(gpuLists')) \o r = <<x>> \o (FramesOf(gpuLists') \o r)
        BY <2>3, <2>4, <3>3, ConcatAssociative
      <3> QED BY <2>3, <2>4, <3>1, <3>2, <3>4
    <2>6. /\ Spaced(Incomplete') /\ Bounded(Incomplete', x, LastSubmitted)
          /\ x <= LastSubmitted /\ Len(Incomplete') <= Len(Incomplete)
      <3> HIDE DEF x
      <3> QED BY <1>a, <1>i, <2>3, <2>5, SpacedTail
    <2>7. LastSubmitted' = LastSubmitted /\ latencySignal' = x
      BY <2>1 DEF LastSubmitted
    <2>8. Len(Incomplete') \in Nat
      BY <2>5, QueueEmpty
    <2> QED BY <1>a, <1>i, <2>1, <2>6, <2>7, <2>8 DEF LatencyInv
  <1>20. CASE PacerPop
    <2>1. UNCHANGED <<gpuLists, spc, submitQueue, csQueue, latencySignal>>
      BY <1>20 DEF PacerPop
    <2>2. /\ frameId' = frameId
          /\ \/ apc' = apc
             \/ apc = "asleep" /\ apc' = "retest"
      BY <1>20 DEF PacerPop, TypeOK
    <2>3. LastSubmitted \in Int /\ LastSubmitted' \in Int /\ LastSubmitted <= LastSubmitted'
      BY <1>a, <2>2 DEF LastSubmitted
    <2> QED BY <1>u, <2>1, <2>2, <2>3
  <1> QED BY <1>1, <1>2, <1>3, <1>4, <1>5, <1>6, <1>7, <1>8, <1>9, <1>10, <1>11, <1>12,
       <1>13, <1>14, <1>15, <1>16, <1>17, <1>18, <1>19, <1>20
          DEF Next, AppWaits, Recreate, Submit, Present, Pacer
-----------------------------------------------------------------------------
(* What the invariant says of the properties.                              *)

ImagesOf(q) == [i \in DOMAIN q |-> q[i].image]

LEMMA ImagesOfSeq ==
    ASSUME NEW q \in Seq(Frame)
    PROVE  /\ ImagesOf(q) \in Seq(Images) /\ DOMAIN ImagesOf(q) = DOMAIN q
           /\ \A i \in DOMAIN q : ImagesOf(q)[i] = q[i].image
           /\ Distinct(q) => IsInjective(ImagesOf(q))
           /\ ToSet(ImagesOf(q)) = Named(q)
  <1>1. Len(q) \in Nat /\ DOMAIN q = 1 .. Len(q)
    OBVIOUS
  <1>2. \A i \in DOMAIN q : q[i].image \in Images
    <2>1. \A i \in DOMAIN q : q[i] \in Frame
      BY QueueElement
    <2> QED BY <2>1 DEF Frame
  <1>3. ImagesOf(q) = [i \in 1 .. Len(q) |-> q[i].image]
    BY <1>1 DEF ImagesOf
  <1>4. ImagesOf(q) \in Seq(Images)
    BY <1>1, <1>2, <1>3
  <1>5. DOMAIN ImagesOf(q) = DOMAIN q /\ \A i \in DOMAIN q : ImagesOf(q)[i] = q[i].image
    BY DEF ImagesOf
  <1>6. Distinct(q) => IsInjective(ImagesOf(q))
    BY <1>5 DEF Distinct, IsInjective
  <1>7. ToSet(ImagesOf(q)) = Named(q)
    BY <1>5 DEF ToSet, Named
  <1> QED BY <1>4, <1>5, <1>6, <1>7

LEMMA DistinctConcat ==
    ASSUME NEW q \in Seq(Frame), NEW r \in Seq(Frame), Distinct(q), Distinct(r),
           Named(q) \intersect Named(r) = {}
    PROVE  q \o r \in Seq(Frame) /\ Distinct(q \o r) /\ Named(q \o r) = Named(q) \union Named(r)
  <1> DEFINE c == q \o r
             m == Len(q)
             n == Len(r)
  <1>1. /\ c \in Seq(Frame) /\ m \in Nat /\ n \in Nat
        /\ DOMAIN q = 1 .. m /\ DOMAIN r = 1 .. n /\ DOMAIN c = 1 .. m + n
        /\ \A i \in 1 .. m : c[i] = q[i]
        /\ \A i \in 1 .. m + n : i > m => c[i] = r[i - m]
    OBVIOUS
  <1> HIDE DEF c, m, n
  <1>2. ASSUME NEW i \in DOMAIN c
        PROVE  \/ i \in DOMAIN q /\ c[i] = q[i]
               \/ i - m \in DOMAIN r /\ c[i] = r[i - m]
    BY <1>1
  <1>3. \A i \in DOMAIN r : i + m \in DOMAIN c /\ c[i + m] = r[i]
    <2> SUFFICES ASSUME NEW i \in 1 .. n PROVE i + m \in 1 .. m + n /\ c[i + m] = r[i]
      BY <1>1
    <2>1. i + m \in 1 .. m + n /\ i + m > m /\ (i + m) - m = i
      BY <1>1
    <2> QED BY <1>1, <2>1
  <1>4. \A i \in DOMAIN q : i \in DOMAIN c /\ c[i] = q[i]
    BY <1>1
  <1>5. Named(c) = Named(q) \union Named(r)
    BY <1>2, <1>3, <1>4 DEF Named
  <1>6. ASSUME NEW i \in DOMAIN c, NEW j \in DOMAIN c, c[i].image = c[j].image
        PROVE  i = j
    <2>1. \A a \in DOMAIN q, b \in DOMAIN r : q[a].image # r[b].image
      BY DEF Named
    <2>2. i \in Int /\ j \in Int /\ m \in Int
      BY <1>1
    <2>3. CASE i \in DOMAIN q /\ c[i] = q[i] /\ j \in DOMAIN q /\ c[j] = q[j]
      BY <1>6, <2>3 DEF Distinct
    <2>4. CASE i - m \in DOMAIN r /\ c[i] = r[i - m] /\ j - m \in DOMAIN r /\ c[j] = r[j - m]
      <3>1. i - m = j - m
        BY <1>6, <2>4 DEF Distinct
      <3> QED BY <2>2, <3>1
    <2>5. CASE i \in DOMAIN q /\ c[i] = q[i] /\ j - m \in DOMAIN r /\ c[j] = r[j - m]
      BY <1>6, <2>1, <2>5
    <2>6. CASE i - m \in DOMAIN r /\ c[i] = r[i - m] /\ j \in DOMAIN q /\ c[j] = q[j]
      BY <1>6, <2>1, <2>6
    <2> QED BY <1>2, <2>3, <2>4, <2>5, <2>6
  <1> QED BY <1>1, <1>5, <1>6 DEF Distinct, c

LEMMA InjectiveConcat ==
    ASSUME NEW s \in Seq(Images), NEW t \in Seq(Images), IsInjective(s), IsInjective(t),
           \A i \in DOMAIN s : \A j \in DOMAIN t : s[i] # t[j]
    PROVE  /\ s \o t \in Seq(Images) /\ IsInjective(s \o t)
           /\ \A k \in DOMAIN (s \o t) : \/ \E i \in DOMAIN s : (s \o t)[k] = s[i]
                                         \/ \E j \in DOMAIN t : (s \o t)[k] = t[j]
  <1> DEFINE c == s \o t
             m == Len(s)
             n == Len(t)
  <1>1. /\ c \in Seq(Images) /\ m \in Nat /\ n \in Nat
        /\ DOMAIN s = 1 .. m /\ DOMAIN t = 1 .. n /\ DOMAIN c = 1 .. m + n
        /\ \A i \in 1 .. m : c[i] = s[i]
        /\ \A i \in 1 .. m + n : i > m => c[i] = t[i - m]
    OBVIOUS
  <1> HIDE DEF c, m, n
  <1>2. ASSUME NEW i \in DOMAIN c
        PROVE  \/ i \in DOMAIN s /\ c[i] = s[i]
               \/ i - m \in DOMAIN t /\ c[i] = t[i - m]
    BY <1>1
  <1>3. ASSUME NEW i \in DOMAIN c, NEW j \in DOMAIN c, c[i] = c[j]
        PROVE  i = j
    <2>2. i \in Int /\ j \in Int /\ m \in Int
      BY <1>1
    <2>3. CASE i \in DOMAIN s /\ c[i] = s[i] /\ j \in DOMAIN s /\ c[j] = s[j]
      BY <1>3, <2>3 DEF IsInjective
    <2>4. CASE i - m \in DOMAIN t /\ c[i] = t[i - m] /\ j - m \in DOMAIN t /\ c[j] = t[j - m]
      <3>1. i - m = j - m
        BY <1>3, <2>4 DEF IsInjective
      <3> QED BY <2>2, <3>1
    <2>5. CASE i \in DOMAIN s /\ c[i] = s[i] /\ j - m \in DOMAIN t /\ c[j] = t[j - m]
      BY <1>3, <2>5
    <2>6. CASE i - m \in DOMAIN t /\ c[i] = t[i - m] /\ j \in DOMAIN s /\ c[j] = s[j]
      BY <1>3, <2>6
    <2> QED BY <1>2, <2>3, <2>4, <2>5, <2>6
  <1>4. IsInjective(c)
    BY <1>3 DEF IsInjective
  <1> QED BY <1>1, <1>2, <1>4 DEF c

LEMMA ExclusiveFollows ==
    ASSUME TypeOK, PlaceInv, StatusInv, BackbufferInv
    PROVE  BackbufferExclusive
  <1> SUFFICES ASSUME Orderly
               PROVE  /\ IsInjective(AppOwns \o PipeOwns \o PresentOwns)
                      /\ inFlight = ToSet(PresentOwns)
    BY DEF BackbufferExclusive
  <1> DEFINE p == csQueue \o submitQueue
  <1>1. Distinct(csQueue)
    <2>1. Len(csQueue) <= 1
      <3>1. /\ Len(csQueue) \in Nat /\ Len(submitQueue) \in Nat
            /\ spc = "push" => Len(submitQueue) >= 1
        BY QueueTypes, QueueEmpty DEF PlaceInv
      <3>2. OnItsWay <= 1
        BY DEF StatusInv
      <3> QED BY <3>1, <3>2 DEF OnItsWay
    <2>2. DOMAIN csQueue = 1 .. Len(csQueue) /\ Len(csQueue) \in Nat
      BY QueueTypes
    <2>3. \A i, j \in DOMAIN csQueue : i = j
      BY <2>1, <2>2
    <2> QED BY <2>3 DEF Distinct
  <1>2. /\ p \in Seq(Frame) /\ Distinct(p)
        /\ Named(p) = Named(csQueue) \union Named(submitQueue)
    BY <1>1, QueueTypes, DistinctConcat DEF BackbufferInv
  <1>3. PipeOwns = ImagesOf(p) /\ PresentOwns = ImagesOf(presentQueue)
    BY DEF PipeOwns, PresentOwns, ImagesOf
  <1> HIDE DEF p
  <1>4. /\ PipeOwns \in Seq(Images) /\ IsInjective(PipeOwns) /\ DOMAIN PipeOwns = DOMAIN p
        /\ \A i \in DOMAIN PipeOwns : PipeOwns[i] \in Named(p)
    <2>1. \A i \in DOMAIN p : PipeOwns[i] = p[i].image
      BY <1>2, <1>3, ImagesOfSeq
    <2> QED BY <1>2, <1>3, <2>1, ImagesOfSeq DEF Named
  <1>5. /\ PresentOwns \in Seq(Images) /\ IsInjective(PresentOwns)
        /\ ToSet(PresentOwns) = Named(presentQueue)
        /\ \A i \in DOMAIN PresentOwns : PresentOwns[i] \in Named(presentQueue)
    <2>1. \A i \in DOMAIN presentQueue : PresentOwns[i] = presentQueue[i].image
      BY <1>3, QueueTypes, ImagesOfSeq
    <2>2. DOMAIN PresentOwns = DOMAIN presentQueue
      BY <1>3, QueueTypes, ImagesOfSeq
    <2> QED BY <1>3, <2>1, <2>2, QueueTypes, ImagesOfSeq DEF BackbufferInv, Named
  <1>6. /\ AppOwns \in Seq(Images) /\ IsInjective(AppOwns)
        /\ \A i \in DOMAIN AppOwns : apc = "record" /\ AppOwns[i] = index
    BY DEF AppOwns, TypeOK, IsInjective
  <1>7. apc = "record" => index \notin Named(p) /\ index \notin Named(presentQueue)
    <2>1. apc = "record" => csQueue = <<>>
      BY WayFacts DEF StatusInv
    <2>2. csQueue = <<>> => Named(csQueue) = {}
      BY DEF Named
    <2> QED BY <1>2, <2>1, <2>2 DEF BackbufferInv
  <1>8. Named(p) \intersect Named(presentQueue) = {}
    BY <1>2 DEF BackbufferInv
  <1> DEFINE a == AppOwns \o PipeOwns
  <1>9. \A i \in DOMAIN AppOwns : \A j \in DOMAIN PipeOwns : AppOwns[i] # PipeOwns[j]
    BY <1>4, <1>6, <1>7
  <1>10. /\ a \in Seq(Images) /\ IsInjective(a)
         /\ \A k \in DOMAIN a : \/ \E i \in DOMAIN AppOwns : a[k] = AppOwns[i]
                                \/ \E j \in DOMAIN PipeOwns : a[k] = PipeOwns[j]
    BY <1>4, <1>6, <1>9, InjectiveConcat
  <1> HIDE DEF a
  <1>11. \A k \in DOMAIN a : \A l \in DOMAIN PresentOwns : a[k] # PresentOwns[l]
    <2> SUFFICES ASSUME NEW k \in DOMAIN a, NEW l \in DOMAIN PresentOwns
                 PROVE  a[k] # PresentOwns[l]
      OBVIOUS
    <2>1. CASE \E i \in DOMAIN AppOwns : a[k] = AppOwns[i]
      BY <1>5, <1>6, <1>7, <2>1
    <2>2. CASE \E j \in DOMAIN PipeOwns : a[k] = PipeOwns[j]
      BY <1>4, <1>5, <1>8, <2>2
    <2> QED BY <1>10, <2>1, <2>2
  <1>12. IsInjective(a \o PresentOwns)
    BY <1>5, <1>10, <1>11, InjectiveConcat
  <1> QED BY <1>5, <1>12 DEF BackbufferInv, a

LEMMA ReadyFollows ==
    ASSUME TypeOK, PlaceInv, BackbufferInv, SemaphoreInv
    PROVE  CleanAcquireIsReady
  <1> SUFFICES ASSUME Orderly, Leaving, apc = "record", lastStatus = Success
               PROVE  acquireSem[index]
    BY DEF CleanAcquireIsReady
  <1>1. index \in Images /\ (acquireSem[index] \/ Signals(index))
    BY DEF SemaphoreInv, TypeOK
  <1>2. index \notin Named(submitQueue) /\ index \notin Named(presentQueue)
    BY DEF BackbufferInv
  <1>3. spc # "idle" => Head(submitQueue).image \in Named(submitQueue)
    <2>1. submitQueue # <<>> => 1 \in DOMAIN submitQueue /\ Head(submitQueue) = submitQueue[1]
      BY QueueTypes, TakenQueue
    <2> QED BY <2>1 DEF PlaceInv, Named
  <1>4. ~Signals(index)
    BY <1>2, <1>3 DEF Signals, Named
  <1> QED BY <1>1, <1>4

LEMMA LatencyFollows ==
    ASSUME TypeOK, PlaceInv, LatencyInv
    PROVE  LatencyBound
  <1>1. /\ Len(Incomplete) = Len(gpuLists) + Len(Unsubmitted) + Len(csQueue)
        /\ Len(Incomplete) <= Latency + 1
    BY IncompleteType DEF LatencyInv
  <1>2. Len(gpuLists) \in Nat /\ Len(csQueue) \in Nat /\ Len(submitQueue) \in Nat
    BY QueueTypes, QueueEmpty DEF TypeOK
  <1>3. Len(Unsubmitted) = Len(submitQueue) - (IF spc = "idle" THEN 0 ELSE 1)
    <2>1. CASE spc = "idle"
      BY <1>2, <2>1 DEF Unsubmitted
    <2>2. CASE spc # "idle"
      <3>1. Len(Tail(submitQueue)) = Len(submitQueue) - 1
        BY <2>2, QueueTypes, TakenQueue DEF PlaceInv
      <3> QED BY <2>2, <3>1 DEF Unsubmitted
    <2> QED BY <2>1, <2>2
  <1>4. Latency \in Nat /\ (IF spc = "idle" THEN 0 ELSE 1) \in Nat
    BY FGAssumption
  <1> DEFINE o == IF spc = "idle" THEN 0 ELSE 1
  <1> HIDE DEF o
  <1>5. /\ Len(gpuLists) + (Len(submitQueue) - o) + Len(csQueue) <= Latency + 1
        /\ o \in Nat
    BY <1>1, <1>3, <1>4 DEF o
  <1>6. Len(csQueue) + Len(submitQueue) - o + Len(gpuLists) <= Latency + 1
    BY <1>2, <1>4, <1>5
  <1> QED BY <1>6 DEF LatencyBound, o

LEMMA AccountsFollow ==
    ASSUME TypeOK, PlaceInv, ImagesInv
    PROVE  ImagesAccounted
  <1> SUFFICES ASSUME Leaving, Orderly \/ Calm
               PROVE  /\ free + Len(engine) + shown <= imageCount
                      /\ ppc = "wait" /\ lastStatus = Success =>
                           free + Len(engine) + shown = imageCount
    BY DEF ImagesAccounted
  <1>1. Held \in Nat
    <2>1. ppc \in {"interpolate", "firstPresent", "pacedPresent"} =>
            Job.interpolated \in Nat /\ (ppc = "pacedPresent" => pi < Job.interpolated)
      BY JobType DEF PlaceInv
    <2>2. pi \in Nat
      BY DEF TypeOK
    <2> QED BY <2>1, <2>2 DEF Held
  <1>2. ppc = "wait" => Held = 0
    BY DEF Held
  <1>3. free \in Nat /\ Len(engine) \in Nat /\ shown \in {0, 1} /\ imageCount \in Int
    BY EngineTypes DEF TypeOK
  <1>4. /\ free + Len(engine) + shown + Held <= imageCount
        /\ lastStatus = Success => free + Len(engine) + shown + Held = imageCount
    BY DEF ImagesInv
  <1> QED BY <1>1, <1>2, <1>3, <1>4
-----------------------------------------------------------------------------
(* The invariant, and the theorems.                                        *)

LEMMA PresenterInit == Init => PresenterInv
  BY TypeInit, PlaceInit, PacingInit, LatencyInit, StatusInit, BackbufferInit,
       SemaphoreInit,
     CalmInit, ImagesInit
     DEF PresenterInv

LEMMA PresenterStep == PresenterInv /\ [Next]_vars => PresenterInv'
  <1> SUFFICES ASSUME PresenterInv, [Next]_vars PROVE PresenterInv'
    OBVIOUS
  <1>1. /\ TypeOK /\ PlaceInv /\ PacingInv /\ LatencyInv /\ StatusInv /\ RetryInv
        /\ BackbufferInv /\ SemaphoreInv /\ CalmInv /\ ImagesInv
    BY DEF PresenterInv
  <1>2. TypeOK'
    BY <1>1, TypeStep
  <1>3. PlaceInv'
    BY <1>1, PlaceStep
  <1>4. PacingInv'
    BY <1>1, <1>2, PacingStep
  <1>5. LatencyInv'
    BY <1>1, <1>2, LatencyStep
  <1>6. StatusInv' /\ RetryInv'
    BY <1>1, <1>2, StatusStep
  <1>7. BackbufferInv'
    BY <1>1, <1>2, BackbufferStep
  <1>8. SemaphoreInv'
    BY <1>1, <1>2, SemaphoreStep
  <1>9. CalmInv'
    BY <1>1, <1>2, CalmStep
  <1>10. ImagesInv'
    BY <1>1, <1>2, ImagesStep
  <1> QED BY <1>2, <1>3, <1>4, <1>5, <1>6, <1>7, <1>8, <1>9, <1>10 DEF PresenterInv

(* The inductive invariant holds of every behaviour.                       *)
THEOREM PresenterInvariant == Spec => []PresenterInv
  <1>1. Init => PresenterInv
    BY PresenterInit
  <1>2. PresenterInv /\ [Next]_vars => PresenterInv'
    BY PresenterStep
  <1> QED BY <1>1, <1>2, PTL DEF Spec

(* No present waits for a pacer value that nobody has signalled and no     *)
(* queued job will signal, whichever calls fail and whatever the changes.  *)
THEOREM PacedWaitsCovered == Spec => []PacedWaitsAreCovered
  <1>1. PresenterInv => PacedWaitsAreCovered
    BY DEF PresenterInv, PacingInv
  <1> QED BY <1>1, PresenterInvariant, PTL

(* Never more than Latency + 1 frames are submitted and not complete, also *)
(* when the application gives a frame up in its acquire loop.              *)
THEOREM LatencyBounded == Spec => []LatencyBound
  <1>1. PresenterInv => LatencyBound
    BY LatencyFollows DEF PresenterInv
  <1> QED BY <1>1, PresenterInvariant, PTL

(* A backbuffer is recorded into, on its way to the presenter or waiting   *)
(* for the present thread, never two of these, when no status is posted    *)
(* over the "not ready" of a later frame.                                  *)
THEOREM BackbuffersExclusive == Spec => []BackbufferExclusive
  <1>1. PresenterInv => BackbufferExclusive
    BY ExclusiveFollows DEF PresenterInv
  <1> QED BY <1>1, PresenterInvariant, PTL

(* The acquire semaphore of an image that is recorded into without an      *)
(* error pending is signalled, although dropped frames never signal it.    *)
THEOREM CleanAcquiresReady == Spec => []CleanAcquireIsReady
  <1>1. PresenterInv => CleanAcquireIsReady
    BY ReadyFollows DEF PresenterInv
  <1> QED BY <1>1, PresenterInvariant, PTL

(* Every image of the real swap chain is free, queued, on screen or held   *)
(* by the frame in progress, and none is lost without an error.            *)
THEOREM NoImageLeaks == Spec => []ImagesAccounted
  <1>1. PresenterInv => ImagesAccounted
    BY AccountsFollow DEF PresenterInv
  <1> QED BY <1>1, PresenterInvariant, PTL

(* What the run fg_recreate refutes holds when no status is posted over    *)
(* the "not ready" of a later frame: the new swap chain is built when no   *)
(* present is on its way, whichever calls fail and whatever changes.       *)
THEOREM OrderlyRecreateFindsNoFrame == Spec => [](Orderly => RecreateFindsNoFrame)
  <1>1. PresenterInv => (Orderly => RecreateFindsNoFrame)
    BY DEF PresenterInv, StatusInv, RecreateFindsNoFrame, Synchronizing, Synchronized
  <1> QED BY <1>1, PresenterInvariant, PTL

(* The present thread presents only images it has acquired when a failure  *)
(* leaves the frame; the acquire loop goes on after one (rtx_dlfg.cpp:664) *)
(* and is what the hypothesis excludes.                                    *)
THEOREM LeavingPresentsAcquired ==
    Spec => [](Leaving /\ (Orderly \/ Calm) => PresentsOnlyAcquired)
  <1>1. PresenterInv => (Leaving /\ (Orderly \/ Calm) => PresentsOnlyAcquired)
    <2> SUFFICES ASSUME PresenterInv, Leaving, Orderly \/ Calm PROVE PresentsOnlyAcquired
      OBVIOUS
    <2>1. /\ TypeOK /\ PlaceInv
          /\ ppc \in {"firstPresent", "pacedPresent"} => acquired = 0 .. Job.interpolated - 1
      BY DEF PresenterInv, ImagesInv
    <2>2. ASSUME ppc \in {"firstPresent", "pacedPresent"}
          PROVE  Job.interpolated > 0 /\ Job.interpolated \in Nat
      BY <2>1, <2>2, JobType DEF PlaceInv
    <2>3. ppc = "pacedPresent" => pi < Job.interpolated /\ pi \in Nat
      BY <2>1 DEF PlaceInv, TypeOK
    <2> QED BY <2>1, <2>2, <2>3 DEF PresentsOnlyAcquired
  <1> QED BY <1>1, PresenterInvariant, PTL

(* The steps that clear an error.                                          *)
ErrorCleared == Leaving /\ lastStatus = Error /\ lastStatus' = Success

(* With such failures, only building the new swap chain clears an error.   *)
THEOREM LeavingErrorsStay == Spec => [][ErrorCleared => apc = "build"]_vars
  <1>1. PresenterInv /\ [Next]_vars => [ErrorCleared => apc = "build"]_vars
    <2> SUFFICES ASSUME PresenterInv, Next, ErrorCleared PROVE apc = "build"
      OBVIOUS
    <2>1. ppc \in {"finish", "take", "wait"}
      BY DEF PresenterInv, SemaphoreInv, ErrorCleared, Error, Success
    <2>2. lastStatus # Success /\ lastStatus' # lastStatus
      BY DEF ErrorCleared, Error, Success
    <2> USE <2>2 DEF appVars, pipeVars, gpuVars, localVars, chainVars, pacerVars, sharedVars
    <2>3. CASE RecreateBuild
      BY <2>3 DEF RecreateBuild
    <2>4. CASE PresentTake
      BY <2>4 DEF PresentTake, DropsFrame, ErrorCleared
    <2>5. CASE InterpolatedAcquire
      BY <2>1, <2>5 DEF InterpolatedAcquire
    <2>6. CASE FirstPresent
      BY <2>1, <2>6 DEF FirstPresent
    <2>7. CASE PacedPresent
      BY <2>1, <2>7 DEF PacedPresent
    <2>8. CASE RenderedAcquire
      BY <2>1, <2>8 DEF RenderedAcquire
    <2>9. CASE RenderedPresent
      BY <2>1, <2>9 DEF RenderedPresent
    <2>10. CASE \/ AppPresent \/ ChangeMultiplier \/ AppSynchronizePresent \/ AppAcquire
               \/ AppWaitImage \/ AppSubmitPresent \/ AppSyncFrameLatency
               \/ RecreateWaitSubmission \/ RecreateWaitQueue \/ SyncTest \/ SyncSleep
               \/ RecreateDeviceIdle \/ CsPresent \/ SubmitList \/ SubmitPresentFails
               \/ SubmitPresentQueued \/ SubmitPush \/ GpuComplete \/ EngineShows
               \/ PresentFinish \/ PacerTake \/ PacerSignal \/ PacerPop
      BY <2>10 DEF AppPresent, ChangeMultiplier, AppSynchronizePresent, AppAcquire,
         AppWaitImage, AppSubmitPresent, AppSyncFrameLatency, RecreateWaitSubmission,
         RecreateWaitQueue, SyncTest, SyncSleep, RecreateDeviceIdle, CsPresent,
         SubmitList, SubmitPresentFails, SubmitPresentQueued, SubmitPush, GpuComplete,
         EngineShows, PresentFinish, PacerTake, PacerSignal, PacerPop
    <2> QED BY <2>3, <2>4, <2>5, <2>6, <2>7, <2>8, <2>9, <2>10
            DEF Next, AppWaits, Recreate, Submit, Present, Pacer
  <1> QED BY <1>1, PresenterInvariant, PTL DEF Spec
=============================================================================
