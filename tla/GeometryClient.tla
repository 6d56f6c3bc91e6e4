--------------------------- MODULE GeometryClient ----------------------------
(***************************************************************************)
(* D3D11Rtx as the client of its WorkerThreadPool (d3d11_rtx.cpp): a draw  *)
(* schedules the hashes of its geometry and, when it may be skinned, its   *)
(* bones; the draws of a frame, or of a command list, are throttled.  The  *)
(* futures travel with the draws to the CS thread, which consumes them     *)
(* (rtx_types.cpp).                                                        *)
(*                                                                         *)
(* NumTasksPerThread is kMaxConcurrentDraws.  A deferred context has a     *)
(* pool of one worker without idle waiting.                                *)
(***************************************************************************)
EXTENDS WorkerPool

VARIABLES
    drawCallID,   \* m_drawCallID
    stage,        \* what SubmitDraw has done: "none" outside of it
    firstTask,    \* the first task of the draw in SubmitDraw
    submitted     \* tasks below it: their draws are with the CS thread

client     == <<drawCallID, stage, firstTask, submitted>>
clientVars == <<vars, client>>

kMaxConcurrentDraws == NumTasksPerThread

ClientInit ==
    /\ Init
    /\ drawCallID = 0 /\ stage = "none" /\ firstTask = 0 /\ submitted = 0

-----------------------------------------------------------------------------
(* SubmitDraw, between the calls of the pool.                              *)

(* The throttle looks at the draws counted, not at tasks or futures.       *)
Throttled == drawCallID >= kMaxConcurrentDraws

NextDrawCallID == drawCallID + 1

(* ComputeGeometryHashes: a draw whose hashes the pool refuses is rejected. *)
ScheduleHashes ==
    /\ stage = "none" /\ ~Throttled
    /\ Schedule
    /\ stage' = IF taskId' # taskId THEN "hashes" ELSE "none"
    /\ firstTask' = taskId
    /\ UNCHANGED <<drawCallID, submitted>>

(* Blend weights and indices are bound: the draw schedules its bones too,  *)
(* and goes on without them when the pool refuses.                         *)
ScheduleSkinning ==
    /\ stage = "hashes"
    /\ Schedule
    /\ stage' = "skinning"
    /\ UNCHANGED <<drawCallID, firstTask, submitted>>

(* A terrain draw, which may be prepared already, puts its hashes off      *)
(* until it has been counted.                                              *)
ScheduleDeferredHashes ==
    /\ stage = "none" /\ ~Throttled
    /\ Schedule
    /\ drawCallID' = NextDrawCallID
    /\ stage' = IF taskId' # taskId THEN "counted" ELSE "none"
    /\ firstTask' = taskId
    /\ UNCHANGED submitted

(* The draw is counted and recorded with its futures.  An immediate        *)
(* context hands it to the CS thread with its chunk, a deferred one with   *)
(* its command list.                                                       *)
RecordDraw ==
    /\ stage # "none" /\ ppc = "idle"
    /\ drawCallID' = IF stage = "counted" THEN drawCallID ELSE NextDrawCallID
    /\ stage' = "none"
    /\ submitted' = IF pool.idle THEN taskId ELSE submitted
    /\ UNCHANGED <<vars, firstTask>>

(* A draw is refused after its tasks have been scheduled: its futures are  *)
(* dropped, the tasks run all the same, and it is not counted (an          *)
(* offscreen target) or already is (a screen-space composite).             *)
RefuseDraw ==
    /\ stage # "none" /\ ppc = "idle"
    /\ \/ UNCHANGED drawCallID
       \/ stage # "counted" /\ drawCallID' = NextDrawCallID
    /\ stage' = "none"
    /\ futures' = SelectSeq(futures, LAMBDA t : t < firstTask)
    /\ UNCHANGED <<pool, stopWork, enabled, numTasks, ring, lock, slots, producer, worker,
                   history, firstTask, submitted>>

(* ResetCommandListState, of EndFrame or of FinishCommandList: the count   *)
(* starts again, whatever futures are still held.                          *)
ResetCommandListState ==
    /\ stage = "none" /\ ppc = "idle" /\ ~stopWork
    /\ drawCallID' = 0
    /\ submitted' = taskId
    /\ UNCHANGED <<vars, stage, firstTask>>

-----------------------------------------------------------------------------
(* The CS thread executes the draws handed to it, in their order.          *)
Finalize ==
    /\ Get
    /\ Head(futures) < submitted
    /\ UNCHANGED client

(* The rest of the pool: Schedule goes on, and the owner of the pool       *)
(* switches idle waiting or destroys it outside of a draw.                 *)
PoolStep ==
    /\ \/ PushWrite \/ PushPublish \/ ScheduleNotify
       \/ stage = "none" /\ (SetIdleWaiting \/ StopWork)
       \/ ToggleNotify \/ StopNotify \/ Join \/ Drain \/ Drained
       \/ \E w \in Workers : WorkerStep(w)
    /\ UNCHANGED client

ClientNext ==
    \/ ScheduleHashes \/ ScheduleDeferredHashes \/ ScheduleSkinning
    \/ RecordDraw \/ RefuseDraw
    \/ ResetCommandListState
    \/ Finalize
    \/ PoolStep

ClientSpec == ClientInit /\ [][ClientNext]_clientVars

-----------------------------------------------------------------------------
(* "Throttle: don't exceed the worker ring buffer capacity. Beyond this    *)
(* point new futures would overwrite in-flight ones": while a future is    *)
(* held its slot holds its own task, so that its get waits for and returns *)
(* its own result.                                                         *)
FutureKeepsSlot == \A t \in Held : slots[Slot(t)].task = t
=============================================================================
