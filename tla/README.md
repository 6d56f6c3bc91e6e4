# Verification of the Kenshi RTX Remix command path

Kenshi-RTX-Remix is a DXVK fork (D3D11 on Vulkan) that carries NVIDIA's RTX
Remix renderer. An application thread calls D3D11, the calls become commands in
chunks, a CS thread executes the chunks into Vulkan command lists, and two
worker threads submit these lists and wait for the GPU. Everything that has to
be right about lifetimes (a buffer slice is not written while the GPU reads it,
a command list is not recorded while it is executing, a wait ends) depends on
that chain, and tests hardly reach it. Around it stand the machinery that
presents interpolated frames, the worker pools that prepare geometry, and the
cache of opacity micromaps, each with threads and failures of its own. This
directory models them in TLA+, checks them with TLC on small instances, and
proves the central facts with TLAPS.

Paths below are those of the repository (`src/dxvk/...`); `PROJECT.json`, which
maps each definition to its lines, prefixes them with the checkout directory.

    application threads      CS thread            dxvk-submit        dxvk-queue       GPU
    Map, Draw, Discard --->  chunks, in order --> submit queue  -->  finish queue --> fences
        ^                         |                                       |
        |   sequence numbers      |              use counts, condition    |
        +-------------------------+              variables                |
        +-----------------------------------------------------------------+

## 1. Inventory

### The modelled chain

| Part | Source | State | Operations | Meets others through |
|---|---|---|---|---|
| Submission queue | `dxvk/dxvk_queue.*` | two queues, `m_pending`, `m_lastError`, `m_stopped`, `m_mutexQueue`, interpolation data | `submit`, `present`, `setupFrameInterpolation`, `synchronize*`, `lockDeviceQueue`, two worker loops, destructor | three condition variables, use counts, fences |
| Device waits | `dxvk/dxvk_device.cpp` | the stashed presenter | `createCommandList`, `presentImage`, `waitForSubmission`, `waitForResource`, `waitForIdle`, destructor | queue and device lock |
| Command lists | `dxvk/dxvk_cmdlist.*`, `dxvk_lifetime.*`, `dxvk_recycler.h` | fence, tracked resources, retired slices, `m_notified` | submit, wait, notify, reset, recycle | use counts read by any thread |
| CS thread | `dxvk/dxvk_cs.*` | chunk queue, executed and dispatched counters, `m_stopped` | `dispatchChunk`, `synchronize`, thread loop, destructor | two condition variables |
| Immediate context | `d3d11/d3d11_context_imm.cpp` | recorded chunk, `m_csSeqNum`, `m_csIsBusy` | `Map`, discard, `Flush`, implicit flush, `ExecuteCommandList`, `SynchronizeCsThread`, destructor | chunks, sequence numbers, use counts, context lock |
| Buffers | `d3d11/d3d11_buffer.h`, `dxvk/dxvk_buffer.*`, `dxvk_resource.h` | `m_mapped`, `m_seq`, `m_physSlice`, free slices, use counts | `DiscardSlice`, `allocSlice`, `rename`, `isInUse`, `freeSlice` | written by application, CS and queue threads |
| Deferred contexts | `d3d11/d3d11_context_def.cpp`, `d3d11_cmdlist.cpp` | recorded chunks and the resources to track | map, finish, execute | the immediate context |
| Frame generation presenter | `dxvk/rtx_render/rtx_dlfg.*` | present and pacer queues, images in flight, `m_lastPresentStatus`, pacer semaphore value | `acquireNextImage`, `presentImage`, `recreateSwapChain`, `synchronize`, two thread loops | the submission worker hands it frames; the status word; the driver's swap chain |
| Swap chain | `d3d11/d3d11_swapchain.cpp` | `m_presentStatus`, frame number, dirty flag | `PresentImage`, `SynchronizePresent`, `SubmitPresent`, `SyncFrameLatency`, `RecreateSwapChain` | the CS thread, the presenter, the latency fence |
| Worker pools | `util/util_threadpool.h`, `util_atomic_queue.h` | rings of task slots, counters, the spinlock, results | `Schedule`, `setIdleWaiting`, worker loop, `Result::get`, destructor | one condition variable, futures read by the CS thread |
| Geometry of draws | parts of `d3d11/d3d11_rtx.cpp`, `rtx_types.cpp` | `m_drawCallID`, futures in recorded draws | throttle, hash and bone tasks of `SubmitDraw`, `ResetCommandListState`, `finalizePendingFutures` | its worker pool, the CS thread |
| Micromap store | `dxvk/rtx_render/rtx_omm_cache.h`, parts of `rtx_opacity_micromap_manager.cpp` | records and their states, job queue, two byte counters, files | `request`, `publish`, `trim`, worker loop, destructor | shared records, files that outlive the process |

What makes each correct:

* *Submission queue*: lists are submitted, finished and released in the order
  they were accepted, once each; a list's resources stay in use until the GPU is
  done; no wait outlives what it waits for; loss of the device ends every wait;
  shutdown joins both workers.
* *CS thread*: a sequence number is reported as executed only after its chunk
  ran to the end; `synchronize` returns exactly when it should; the destructor
  ends the thread.
* *Immediate context and buffers*: a Map that waits returns only when nothing
  conflicting is recorded, queued or executing; a discard gives out an idle
  slice; each command sees the slice of the moment it was recorded.
* *Frame generation*: a backbuffer has one user; a present uses an image that
  was acquired and a pacer value that will be signalled; a swap chain is
  destroyed only when no frame is on its way to it; frames in flight are bounded
  and each of them reaches the screen when nothing fails.
* *Worker pools*: no slot of a ring is overwritten while it is read; the count of
  tasks is exact; each accepted task runs once, or the destructor destroys it,
  unless its slot of the task array was taken by another; the destructor
  returns. A future keeps the slot of its own task only if the client sees to it.
* *Micromap store*: whoever sees a hit sees the whole array, whatever the files
  hold; the byte counters are exact through misses, evictions and replaced
  records; no crash leaves part of an array under the name of a key; an item
  that waits gets an answer.

### Hard behaviours

Interleaving of four kinds of threads over three locks; condition variables
shared by waiters with different predicates; predicates over counters changed
without the lock; a driver that fails any submission and loses the device at any
moment; back pressure; shutdown at any point; and state (the mapped slice,
the sequence number) kept on one thread about what another will have done.
Frame generation adds three threads that share a status word and a semaphore
value and error paths in the middle of loops; the pools a lock that only one
side takes and three ways to sleep; the store reference counts as a condition,
files that fail and processes that end between any two steps. `PROJECT.json`
lists every hazard at its line, with the property that covers it or the reason
why none does.

### The rest of the program

| Part | Correctness that would be worth stating | Why it is not modelled |
|---|---|---|
| `vk::Presenter` | failures are reported to the swap chain | Vulkan calls of one thread; their results are environment of the models |
| Election of the primary swap chain | one primary, taken over only after the hysteresis | needs two swap chains, each with the threads of `FrameGeneration` |
| `RenderProcessor` | each item processed once, the thread ends | the protocol of the CS thread, which `CsThread` models and proves |
| Staging ring, cache maintenance, retention, options | reuse only when idle; every key visited; layer resolution | sequential code of one thread, with unit tests beside it |
| Queries, resource initializer | results read only after they are written | rests on the order of the command stream, which is modelled |
| State cache, memory allocator | a miss is compiled once; a chunk is not handed out twice | one lock around data |
| Texture manager | promotion stays within a budget | measurements and heuristics around one worker |
| Scene, instance, light and camera managers; Kenshi capture heuristics; DXBC compiler; shaders; USD and API plumbing | | numerical or translation work without a protocol |
| `include/`, `.build_deps/`, ImGui, Tracy, GLM, GLI | | third-party |

## 2. Modules

| Module | Role |
|---|---|
| `SubmissionQueue` | the queue, its clients and both workers, detailed to the points where a thread may block or drop the mutex |
| `CommandStream` | what the queue promises, without threads: the abstract specification |
| `SubmissionQueueProofs` | inductive invariant, the counts and idle waits, for all constants |
| `SubmissionQueueRefinement` | proof that `SubmissionQueue` implements `CommandStream` |
| `MCSubmissionQueue` | instances for TLC |
| `CsThread` | the CS thread and `synchronize` |
| `CsThreadProofs` | its inductive invariant and consequences |
| `ImmediateContext` | extends `CsThread`: recording, sequence numbers, slices, use counts, Map |
| `MCImmediateContext` | instances for TLC |
| `MCContextThreads` | the CS thread under the context, or alone under callers that dispatch and synchronize at any time |
| `DataInduction` | induction over the naturals for the data of the models, what `FlattenSeq` does to a queue of chunks, folds and sums over finite sets |
| `ImmediateContextProofs` | the inductive invariant of recording, slices, use counts and callers, and its consequences |
| `FrameGeneration` | one swap chain through the frame generation presenter |
| `MCFrameGeneration` | its environments for TLC |
| `FrameGenerationProofs` | the inductive invariant of threads, backbuffers, pacer and latency, and its consequences |
| `WorkerPool` | the worker pool over its rings, a producer and a consumer |
| `MCWorkerPool` | the three pools the program has |
| `GeometryClient` | extends `WorkerPool`: the draws that schedule on it and the throttle |
| `MCGeometryClient` | the pool of a deferred context |
| `WorkerPoolProofs` | the ring's, the tasks' and the count's invariants, for all constants, and the pool of one worker, with and without its client |
| `MicromapStore` | the micromap store, its files and its user |
| `MicromapStoreProofs` | hits and files are whole, the accounts exact, evictions free, for all constants |
| `MCMicromapStore` | an instance for TLC |

### SubmissionQueue

`pc[t]` says where thread `t` is; an action is the code between two points at
which the thread may block or give up `m_mutex`. A thread whose wait predicate
is false takes a `...Block` action, which parks it on a condition variable:
it runs again only after some action notifies that variable (`Woken`). Lost
wakeups are therefore behaviours of the model. The entry being handled stays in
front of its queue, as in the code.

| Code | Actions |
|---|---|
| `submit` | `Record`, `SubmitPush`, `SubmitBlock` |
| `presentImage`, `present`, `setupFrameInterpolation` | `PresentImage`, `SetupFrameInterpolation` |
| `waitForSubmission`, `synchronizeSubmission` | `WaitForSubmission`, `SynchronizeSubmission[Block]` |
| `waitForResource`, `synchronizeUntil` | `WaitForResource`, `SynchronizeUntil[Block]` |
| `waitForIdle` | `WaitForIdle`, `Synchronize[Block]`, `LockDeviceQueue`, `DeviceWaitIdle` |
| `submitCmdLists` | `TakeEntry[Block]`, `CheckLost`, `SkipLost`, `IssueList`, `IssueInterp`, `IssuePresent`, `RetireEntry`, the `waitForIdle` steps, `DropEntry` |
| `finishCmdLists` | `TakeFinished[Block]`, `ReadLastError`, `WaitFence`, the `waitForIdle` steps, `NotifyObjects`, `RetireFinished`, `Recycle` |
| `~DxvkDevice`, `~DxvkSubmissionQueue` | `Close`, the `waitForIdle` steps, `Stop`, `Join` |
| GPU and driver | `GpuComplete`, `LoseDevice`, the results in `SubmitResults`, `PresentResults`, `FenceResults` |

Abstracted: the presenter is the base one, whose `synchronize` does nothing; a
list is one `vkQueueSubmit`; all resources of a list are one resource, named by
the list; Reflex, Aftermath, statistics and the present throttle are left out.
`submitter` is a history variable for `IdleMeansDone`.

### CommandStream

Lists are `idle`, being recorded, accepted, started, released or refused. The
stream keeps the order of acceptance, releases lists in the order they started,
releases a list's resources only when the GPU is done with it or the device is
lost, and reuses a list after its release only. `ImplementsStream` instantiates
it with a refinement mapping: an entry leaves the stream's queue when it is
issued, one step before the code pops it, and a list is released when its
objects are notified.

### CsThread and ImmediateContext

The CS thread acknowledges the chunk it executed when it takes the lock to
fetch the next one, so the executed counter lags; `holding` is the chunk
reference that is still to be counted. In `CsThread` by itself any caller may
dispatch and synchronize. `ImmediateContext` extends it with what the chunks
hold: uses of a buffer's slice, renames and flushes. The calls of an application
thread up to the point where they block are one step (they touch state private
to the context lock), and `app[a]` says where a blocked call is. A command list
on the GPU is a pair of its use counts and the slices it retires; that lists
leave in order is what `SubmissionQueue` establishes, so here they are a queue.
`usage` tells staging buffers, which have sequence numbers, from dynamic ones,
which are renamed by discards, and these from the dynamic buffers that deferred
contexts discard too.

Multithread protection is on in the model: with it off D3D11 requires the
application to serialize its calls, which is the instance with one thread.

### FrameGeneration

Five threads (`apc`, the CS thread and submission worker a present passes
through, `ppc` and `pcpc` for the present and pacer threads) and the
environment: GPU, driver results, presentation engine. `world` fixes the
environment of a behaviour, so one run covers several: the driver calls that may
fail (`faults`), whether the multiplier and the swap chain change (`changes`),
and whether the present thread may post the status of a frame over the "not
ready" of a later one (`overtake`). Three words for worlds occur in the
properties: `Orderly` (no overtaking), `Leaving` (only failures whose error path
leaves the frame) and `Calm` (no failures, no changes).

| Code | Actions |
|---|---|
| `D3D11SwapChain::PresentImage` | `AppPresent`, `AppSynchronizePresent`, `AppAcquire`, `AppWaitImage`, `AppSubmitPresent`, `AppSyncFrameLatency` |
| `RecreateSwapChain`, with `waitForIdle` and the presenter's `synchronize` and `recreateSwapChain` | `RecreateWaitSubmission`, `RecreateWaitQueue`, `SyncTest`, `SyncSleep`, `RecreateDeviceIdle`, `RecreateBuild` |
| `DxvkDevice::presentImage`, submission worker | `CsPresent`, `SubmitList`, `SubmitPresentFails`, `SubmitPresentQueued`, `SubmitPush` |
| `runPresentThread` | `PresentTake`, `InterpolatedAcquire`, `FirstPresent`, `PacedPresent`, `RenderedAcquire`, `RenderedPresent`, `PresentFinish` |
| `runPacerThread` | `PacerTake`, `PacerSignal`, `PacerPop` |

The present thread holds its mutex from `PresentTake` to `PresentFinish`, which
`MutexFree` says to the others. A swap chain is counts: images free, presents
queued in the engine with the pacer value each waits for, the image on screen.
One value stands for every error. Sleeps and timestamps of the pacer are left
out: it signals at any time. Device loss is the subject of `SubmissionQueue`,
of which this module repeats only the order of the queue.

### WorkerPool

A step is one access to what another thread touches. `push` is two steps
(`PushWrite`, `PushPublish`), and `pop` is two as well: it gives up the position
(`PopPublish`) before it reads it (`PopRead`). The spinlock the workers share is
`lock`; the producer does not take it. `Schedule` also captures the task into
its slot, `Run`, `SetResult` and `Epilogue` are the three parts of a task as its
future sees them, `Get` is the future. `LoopHead`, `ScanAgain` and `IdleWait`
are the ways to sleep: at the head of the loop in high-latency mode, or in idle
waiting; `ScheduleNotify`, `ToggleNotify` and `StopNotify` what wakes them. The
destructor is `StopWork`, `StopNotify`, `Join`, `Drain`, `Drained`. `pool` is
the instantiation of the template; `MCWorkerPool` has the three of the program
(geometry hashing, deferred pipelines, the asset exporter).

`Schedule` refuses a task when the ring is full and looks at nothing else: the
next slot of `m_tasks` is captured whether the task there is finished or not and
whether its future was consumed or not. The model does the same. `overrun` is a
history variable that becomes true when the task captured over was still queued,
being published or executing. The properties about tasks are about the pool until
then; `NoOverwriteWhileRead` and `CountIsExact` hold throughout. After an overrun
two ring entries name one slot, and the second may be popped without a thunk,
which ends the process (`Run`, `Drain`).

Whether it comes to that is decided by the clients, of which the program has
three kinds. The asset exporter has no throttle and one worker
(`rtx_asset_exporter.cpp:102`); one worker is enough (`OneWorkerNeverOverruns`).
The finalizer of deferred pipelines (`dxvk_raytracing.cpp:131`) retries a refused
task and joins the futures of its batch (`:384`); batches of several threads may
overlap. The geometry
pools have a throttle, the subject of `GeometryClient`.

### GeometryClient

| Code | Actions |
|---|---|
| throttle, hashes of a draw (`d3d11_rtx.cpp:13511`, `:15293`) | `ScheduleHashes` |
| bones of a draw (`:15349`) | `ScheduleSkinning` |
| hashes put off by terrain draws (`:16228`) | `ScheduleDeferredHashes` |
| the draw is counted and recorded (`:15683`, `:20120`) | `RecordDraw` |
| the draw is refused after its tasks were scheduled (`:15619`, `:15998` and later returns) | `RefuseDraw` |
| `ResetCommandListState` | `ResetCommandListState` |
| `finalizePendingFutures` on the CS thread | `Finalize` |

`stage` says what the draw in `SubmitDraw` has done. The pool of an immediate
context (`pool.idle`) hands its draws to the CS thread with the chunks, that of a
deferred context with the finished command list, which the CS thread executes
later: `submitted` is the boundary. Lists are executed in the order they were
recorded, which is the gentlest case for the slots.

### MicromapStore

What `m_mutex` covers is one step: `Request`, with its three ways out
(`Found`, `Refused`, `Queued`), and `Publish`, both with the `trim` they begin
with. The worker takes a job, reads the file and fills the bytes (`ReadFile`),
stores the state in another step (`DecideHit`), and returns the reservation of a
miss under the mutex in a third (`ReleaseMiss`); a write is the temporary file
(`WriteTemporary`), the rename with its one retry (`Rename`) and the counter
(`Saved`). Each file operation may fail. `References` counts the shared pointers
(map, items, queue, worker): `trim` tests it, and `Objects` gives back what
nobody refers to. Of the manager there is one item per key: it asks, and drops
its record when it uploaded or built the array or is destroyed (`Drop`); a miss
is baked and comes back from the GPU (`FinishBake`, `Publish`).
`Restart` ends the process between any two steps, in whatever way, and a power
failure may tear any file; files found at the start may be damaged or old.

Bytes are abstracted to whole or not, as the key determines the array; the
checksum finds every difference. A temporary file left behind is not kept: the
next write of the key truncates it. A publish may replace a record somebody
still holds, whose memory then counts for nobody until it is dropped.

## 3. Runs

| Run | Question | Instance |
|---|---|---|
| `sq_safety` | does the queue implement the abstract stream; is the invariant of the proofs an invariant; are resources released or lists reused too early under any failure; are the bound and the pending count right; does `waitForIdle` mean idle | 3 lists, 2 producers, 1 waiter, queue limit 0, out of memory and device loss |
| `sq_backpressure` | does every blocked producer, waiter and list get through; is the pending count exact | 3 lists, limit 1, no failure, fair |
| `sq_loss` | does every wait end and shutdown complete when the device may be lost at any step | 1 list, presents, limit 3, loss only, fair |
| `ic_buffers` | does Map wait enough; does renaming give out idle slices in the right order; does the destructor drop work | 1 thread, 1 buffer of each usage in turn, deferred lists, 2 slices, 3 chunks |
| `ic_threads` | do Map and synchronization of two threads return, do slices come back; does `synchronize` wait enough and not for ever; does the thread stop | 2 threads, staging buffer, 2 slices, 2 chunks, or the CS thread alone with 2 callers that take no lock and dispatch at any time; fair |
| `fg_frames` | is a backbuffer shared, an image or a pacer value lost, the latency exceeded; does every frame reach the screen when nothing fails | 3 frames, 2 backbuffers, multiplier up to 2, one recreation; calm, slow, failing and changing worlds; fair |
| `wp_pools` | is a slot overwritten while it is read; is the count exact; is a task lost or run twice; does the destructor return | 2 workers, rings of 2, 5 tasks, the three pools, fair |
| `ms_store` | are the byte counters exact; is a hit whole; are files replaced whole; is every request decided and every save taken up | 2 keys of size 1 and 2, room for 2, 2 jobs, 3 items, restarts without limit, fair worker |

Deadlock checking is off where the driver may fail a submission, where the
program may end, and where the application or client stops after its bound.

The remaining four runs are expected to be violated; each shows a disagreement
between the code and a comment or header of it, listed under "findings":

| Run | What the counterexample shows |
|---|---|
| `sq_worker_idle` | After a submission fails for a reason other than device loss, with another entry queued, the submission worker's `waitForIdle` waits for the queue only it drains. The comment at `dxvk_queue.cpp:413` says this deadlock is avoided; it is, for the failed entry only. |
| `fg_recreate` | The status word is shared by all frames: the result of frame N, posted late, replaces the "not ready" of frame N+1, and the swap chain is destroyed while N+1 is a command of the CS thread. The comment at `d3d11_swapchain.cpp:1264` says the swap chain can be destroyed safely. It takes a CS thread slower than the present thread by a frame. |
| `fg_synchronize` | `synchronize` sleeps on the pacer's condition variable with the present thread's mutex; the pacer notifies under its own. The last notification can fall between test and sleep (`rtx_dlfg.cpp:393`). |
| `wp_frames` | The throttle of `D3D11Rtx` counts the draws recorded in a frame or list. A draw may schedule two tasks, a refused draw schedules tasks and is not counted, and the count returns to zero while futures are held. With a pool of one worker and 4 slots for 3 draws, two draws with bones and one without reach a fifth task while the first future waits in the list: its slot goes to another task. The comment at `d3d11_rtx.cpp:13511` says that the throttle keeps new futures from overwriting those in flight. |

### What else the models show

Disagreements and surprises met on the way that have no run of their own. Each is
a behaviour of the models; those with a name are found by putting that
definition into the configuration said.

* A producer blocked in `submit` stays there after device loss: the worker
  notifies `m_submitCond`, the producer sleeps on `m_finishCond`
  (`dxvk_queue.cpp:160`, `:418`), and its predicate has no escape
  (`SubmitReturns` in `SQLoss.cfg` with a limit of 0).
* A failed list releases its resources when it is destroyed, and nobody notifies
  `m_finishCond` (`WaitForResourceReturns`, with failures); nor is `m_pending`
  lowered for it (`PendingIsQueued`; `dxvk_queue.h:123`).
* `m_lastError` is stored unconditionally (`dxvk_queue.cpp:382`): an
  out-of-memory result that arrives after the other worker recorded the loss
  revives submission (`LossIsSticky`, with failures of both kinds).
* A discard inside an executed command list renames the buffer on the CS thread
  (`d3d11_context_def.cpp:301`) and leaves the application's mapped slice
  behind, against the comment at `d3d11_context_imm.cpp:394`
  (`OnlyMapInvalidates` in `ICBuffers.cfg`). `MappedIsFinal`,
  `UsesIssuedSlice`, `FreeSlicesAreIdle` and `MapReturnsIdle` are stated of
  buffers no deferred context discards for this reason.
* `dxvk_cs.h:409` says that sequence number 0 waits for all pending chunks; 0 is
  never greater than the executed counter (`dxvk_cs.cpp:147`), so it waits for
  nothing, and `SynchronizeAll` has that role. `Map` passes 0 for a resource no
  chunk uses, for which it is right. `SynchronizeCovers` is about the calls that
  wait and says nothing of it.
* With one more late status than in `fg_recreate` the application is two frames
  ahead of the submission worker. `acquireNextImage` asks only whether a
  backbuffer is in flight, which it becomes when its frame is pushed, so the
  application records into the backbuffer of a frame still to be pushed, and
  pushes it a second time; the assertion at `rtx_dlfg.cpp:247` says that a pushed
  image is not in flight (`PushFindsImageIdle` in `FGRecreate.cfg` with
  `MaxFrame = 4`). The proof attempt found it: with three frames
  `BackbufferExclusive` held in every world.
* `acquireNextImage` looks at the error before it waits for the image. An error
  in between lets the application record into a backbuffer whose acquire
  semaphore nobody will signal; the frame is then dropped by the present thread,
  but its list was submitted (`AcquiredIsReady` in `FGFrames.cfg` with
  `Worlds <- onlyFailing`). `CleanAcquireIsReady` is what does hold.
* `continue` after a failed acquire or paced present (`rtx_dlfg.cpp:664`,
  `:764`) goes on with the next image of the frame: the first present may use an
  image that was not acquired, and a later success clears the recorded error.
  With these faults in the world (`Worlds <- onlyBreaks`), `PresentsOnlyAcquired`
  and `ErrorStaysUntilRecreate` fail (without them both are theorems), and the values paced presents wait for no
  longer agree with the assertion at `rtx_dlfg.cpp:797`. The runs have the
  faults whose error path leaves the frame.
* The first job of the pacer signals the value 0 of a semaphore whose value is
  0, so that the first interpolated frame is not paced; "see acquireNextImage"
  at `rtx_dlfg.cpp:270` refers to code that is elsewhere.
* The fourth retry of the swap chain's acquire loop gives up although it
  acquired an image.
* A pool of several workers that one of them lags behind: the tasks the others
  finish let `Schedule` go round the task array and capture a task over one still
  queued in the ring of the slow worker (`BeforeOverrun` as an invariant of
  `WPPools.cfg`). One worker cannot (`OneWorkerNeverOverruns`).
* A future whose task the pool's destructor cancelled spins in `get` for ever
  (`util_threadpool.h:112`); a refused `Schedule` leaves the asset exporter's
  count of exports raised (`rtx_asset_exporter.cpp:312`).
* Reads pass queued writes in the store, so that requests without end starve
  the saves; `AcceptedIsSaved` rests on the bounded number of requests.

### Bounds and why they are enough

* Queue limit (`MaxQueued`): 18 in the code. With 0 or 1 the second or third
  list blocks; the predicate and the notifications do not depend on the number.
  Presents and interpolation entries enter without a limit and their removal
  notifies no producer, so a limit below `2 * MaxPresents + 1` would block a
  producer behind presents only; `sq_loss` uses 3, as 18 exceeds what the
  frame-latency limit admits.
* Lists: three are one in the finish queue, one being submitted and one being
  recorded; with two lists the two workers and one producer still overlap.
* `MaxPresents` bounds the presents queued at a time; the swap chain waits for
  each before the next, so one is what a single swap chain produces.
* `MaxChunks`: three chunks are one executing, one queued and one whose number
  is being waited for. `ic_threads` has two, the one executing and the one waited
  for; that the executed counter and `SynchronizeCovers` are right for any number is
  proved, and the CS thread alone passes with three too (`CsFairSpec`). `ChunkCapacity` 2 allows a chunk to fill up by itself.
* Slices: two let a discard find no free slice and reuse one. With three, two
  retired slices can be in flight in different lists: `ic_buffers` also passes
  with `ThreeSlices`, in about twice the time.
* One buffer: commands of different buffers share only the order of the stream.
* Frames (`MaxFrame` 3) are one with the application, one with the CS thread or
  in the submission queue and one with the present thread, with a latency of 1
  so that the wait bites; two backbuffers make the third frame reuse one. In
  order that is enough; with late statuses only the fourth frame meets its
  backbuffer in use (above), and that the safety properties hold for every number
  of frames is proved. With four frames and without `EveryPresentIsServed`, TLC
  also finishes in a minute. A
  multiplier of 2 has a first, a paced and a rendered present; more paced ones
  repeat the second. `MaxRetries` is 0 for 3: the loop returns after one retry,
  by the same path. One recreation (`MaxRecreate`) has frames of two swap chains.
* In the failing and changing worlds the present thread does not post a frame's
  status over the "not ready" of a later frame (`overtake`), because of
  `fg_recreate`; in the slow world it does, and the pacing, image and latency
  properties hold there too. With the failures that go on with
  the frame (`Worlds <- onlyBreaks`) the invariants of `fg_frames` also pass, with
  three frames.
* Rings of 2 have one usable position, so that every second `Schedule` finds one
  full; two workers steal from each other; 5 tasks wrap the array of 4 slots.
  One switch of idle waiting (`MaxToggles`) at any time is enough, as it starts
  on. A behaviour is not followed beyond an overrun (`CONSTRAINT BeforeOverrun`),
  where the properties promise nothing; it is a step of `Schedule`, which no
  fairness obliges anybody to take, so the constraint hides no behaviour in which
  the pool alone goes on. Without it the two invariants pass as well, and they are
  proved.
* `wp_frames`: a deferred context has 8192 slots for `kMaxConcurrentDraws` = 6144
  draws (a power of two, `d3d11_rtx.h:133`); rings of 3 have 4 slots, the same
  proportion.
* Two keys of which one takes all the room evict each other; the items ask three
  times per process, so that a record is asked for, evicted and asked for again.
  Six objects are more than can be referred to at once (`Records`).
* Symmetry is used over lists and slices, in runs without liveness only.

### Fairness

Weak fairness of every thread's step is the operating system's scheduling: a
thread that can run does. A thread asleep on a condition variable is not enabled
until it is notified, and waits for a mutex are short (each section under the
mutex is one step). `GpuComplete` is weakly fair because the GPU finishes or the
device is lost. Nobody is obliged to start an operation, to lose the device or
to close. `WaitForIdleReturns` is conditional on `ProducersPause`:
`synchronize` waits for an empty queue and can be starved by a busy producer,
which the code accepts. `SynchronizeReturns` of the CS thread needs no strong
fairness: waiters test a counter that only grows. `m_condOnSync.notify_one`
suffices because the context lock admits one waiter at a time.

`FrameGeneration` has a weakly fair step for every thread, for the GPU and for
the presentation engine, and none for the application's next present.
`EveryPresentIsServed` is conditional on a calm and orderly world: after an error
the code drops frames on purpose, and after a late status two frames may share a
backbuffer. In `WorkerPool` the workers are fair and the producer is
once it is inside a call (`Continues`); nobody has to schedule, to consume a
future or to destroy the pool. `MCContextThreads` has the fairness of the context
for its behaviours and that of the CS thread alone for the others. In `MicromapStore` only the
worker is fair; a restart answers every wait by ending it.

## 4. Proofs

All statements hold for every value of the constants under the named
assumptions, which TLC evaluates on its instances: `ConstantsAssumption` (thread
names and list names are distinct from the model's constants, limits are
naturals, failures are among the two modelled), `CsAssumption`,
`ContextAssumption` (more than one slice, as a rename needs, a positive
chunk capacity, names distinct from the model's), `FGAssumption` (at least two backbuffers, positive bounds, worlds of the
form described), `WorkersAssumption`, `CapacityAssumption` and `TaskCountAssumption`
of the pool (the last says of the constructor's power of two that it is at least
the product it is made from), and `StoreAssumption` and `RecordsAssumption` of the store.

| Theorem | Statement |
|---|---|
| `TypeCorrectness` | `Spec => []TypeOK` |
| `Ownership` | `Spec => []OwnershipInv` |
| `NoEarlyRelease` | `Spec => []InUseWhileExecuting` |
| `NoEarlyReuse` | `Spec => []RecycledIsIdle` |
| `BackPressure` | `Spec => []QueueBound` |
| `PendingIsExact` | without driver errors `Spec => []PendingIsQueued` |
| `PendingNeverShort` | `pending` is never below the lists in the queues |
| `IdleIsDone` | `Spec => IdleMeansDone` |
| `Refinement` | `Spec => ImplementsStream` |
| `ChunkBalance` | `CsSpec => []CsInv` |
| `ReportedHaveRun` | `CsSpec => []ExecutedHaveRun` |
| `SynchronizeIsEnough` | `CsSpec => SynchronizeCovers` |
| `ContextInvariant` | `Spec => []ContextInv` (immediate context) |
| `SlicesAreTaken` | `Spec => []InFlightIsTaken` |
| `UsesAreOrdered` | `Spec => []UsesIssuedSlice` |
| `FreeSlicesUnnamed` | `Spec => []FreeSlicesAreIdle` |
| `MappedAgrees` | `Spec => []MappedIsFinal` |
| `NothingIsDropped` | `Spec => []NothingDropped` |
| `MapIsIdle` | `Spec => MapReturnsIdle` |
| `PresenterInvariant` | `Spec => []PresenterInv` (frame generation) |
| `PacedWaitsCovered` | `Spec => []PacedWaitsAreCovered` |
| `LatencyBounded` | `Spec => []LatencyBound` |
| `BackbuffersExclusive` | `Spec => []BackbufferExclusive` |
| `CleanAcquiresReady` | `Spec => []CleanAcquireIsReady` |
| `NoImageLeaks` | `Spec => []ImagesAccounted` |
| `OrderlyRecreateFindsNoFrame` | `Spec => [](Orderly => RecreateFindsNoFrame)` |
| `LeavingPresentsAcquired` | `Leaving` and in order or calm: `PresentsOnlyAcquired` |
| `LeavingErrorsStay` | `Leaving`: an error is cleared by a new swap chain only |
| `NeverOverwritten` | `Spec => []NoOverwriteWhileRead` (worker pool) |
| `PushIsAccepted` | the push of `Schedule`, whose result nobody looks at, finds room |
| `PoppedTasksAreCaptured` | `Spec => []PoppedIsInitialized` |
| `TasksStartOnce` | `Spec => StartsOnceUnlessCancelled` |
| `CountExact` | `Spec => []CountIsExact` |
| `NothingIsLeft` | `Spec => []NothingLeft` |
| `OneWorkerNeverOverruns` | `N = 1`: `Spec => []~overrun` |
| `ClientNeverOverruns` | `N = 1`: `ClientSpec => []~overrun` |
| `HitsComplete` | `Spec => []HitIsComplete` (micromap store) |
| `FilesReplacedWhole` | `Spec => FileIsReplacedWhole` |
| `AccountsAreExact` | `Spec => []AccountsExact` |
| `StoreWithinBudget` | `Spec => [](TypeOK /\ WithinBudget)` |
| `EvictionsFree` | `Spec => EvictionFrees` |

*The submission queue.* `InUseWhileExecuting` is not inductive: nothing in it
says that the list whose resources the finish worker releases is not the one the
GPU executes. `OwnershipInv` adds where each list is. `EntriesInv` ties what a
worker holds to the front of its queue, `DistinctInv` excludes a list twice in a
queue or with two recorders, `OwnerInv` makes the recycler, the recorders, the
two queues and the lists a worker drops disjoint, `GpuInv` says what executes is
waiting for its fence (unless the device is lost), and `UseInv` ties use
counts to these places. Each conjunct has a lemma that every action preserves
it; facts about `Tail`, `Append` and repeated elements are lemmas of their own.
The two safety theorems follow from it.

The counts need it too. `InTransit` is the number of lists in the two queues;
`TransitStep` shows that `submit` adds one to it and to `m_pending`, that the
finish worker takes one from both, and that the submission worker changes neither
unless the submission failed, when the list leaves the queues and `m_pending` stays.
So `m_pending` never misses a list (`PendingNeverShort`), whatever fails; that it is
exact holds without failures only (`PendingIsExact` assumes `Failures = {}`, as the
run does, and `NoErrorInv` says that no error then arises). `BackPressure` follows
from the same lemma, as `submit` pushes only while there is room. For `IdleIsDone`,
`IdleInv` says that a client that waits for the device has nothing left in
the submission queue unless the loss of the device is known.

*The refinement.* Each action maps to a step of `CommandStream` or a stutter
under the invariant: `IssueList` to `Start`, or to nothing when the driver
refuses the list (`RetireEntry` then discards it), `NotifyObjects` to
`Release`, `Recycle` to `Reuse`, and so on; `SubmissionQueueRefinement` has
one lemma per group of actions.

*The CS thread.* `CsInv` balances the chunks: executed, held and queued add up
to dispatched. It says why the executed counter lags by at most the held chunk.

*The immediate context.* What a command finds when it is executed was decided when
it was recorded, and between the two lies a queue of chunks of any length. The
invariant (stated in `ImmediateContext`, where TLC can check it) therefore speaks
of `Unexecuted`, the concatenation of everything recorded and not executed.
`StreamInv` adds to `CsInv` of the thread that the context counts the same
chunks. `SliceInv` says that every slice has one holder: its buffer binds it,
one list in flight retires it, it is free, or exactly one rename, in the stream
or in the deferred list, is to bind it (`ListsOwn`, `CommandsOwn`,
`DeferredOwns`); and that each use in the stream will find its slice bound, the
last one bound being the mapped one (`Chained`, `BoundAt`). `FlushInv` says what
"nothing recorded since the last flush" means for the stream, `SeqInv` that the
number kept with a staging buffer is not below that of any chunk that uses it,
`CallInv` and `SyncInv` who is inside a call and what a thread that stands after a
wait has waited for. `MapReturnsIdle` is an action property that follows from
these. The lemmas on the concatenation of a queue that grows, or whose head
shrinks or is taken, are proved in `DataInduction` by an induction over a set
(`SetInduction`) where the library's theorems have an operator.

*Frame generation.* None of the five properties is inductive. `PlaceInv` says what
each thread holds where it stands. `PacingInv` adds to `PacedWaitsAreCovered` that
the job queued before a frame's paced presents covers all the values still to be
waited for. `LatencyInv` takes the frames whose list the GPU has not completed,
oldest first (`Incomplete`): they are distinct and in order (`Spaced`), above the
value of the latency signal and not above the last frame recorded (`Bounded`), so
that when the wait for frame `f - Latency` returns at most `Latency` are left; a
frame that was given up leaves a gap and only helps. `StatusInv` and `RetryInv`
say that, in order, at most one frame is on its way to the presenter and that the
status is then "not ready"; `BackbufferInv` that the frames in the three places
have different images, of which the last one is `index`, so that the next index
can only collide with one that `inFlight` shows. `SemaphoreInv` says that an
acquire semaphore that is not signalled will be signalled by the frame that has
its image, `ImagesInv` that the images held by the present thread (`Held`) are what
is missing from the count, and `CalmInv` what cannot happen when nothing fails or
changes, when the image count holds with overtaking as well.

*The worker pool.* `NoOverwriteWhileRead` is not inductive: it says nothing of
why the position a pop gave up is not the one push writes. `RingInv` adds that a
worker between the two accesses holds the spinlock and that the head of its ring
is the position after the one it will read (`ReaderHoldsLock`), and that the room
`Schedule` saw is still there (`PushHasRoom`): consumers only make room, and
there is one producer. The position free between tail and head is then the one
being read, or none. `DrainsAlone` is needed for the destructor, which moves the
heads without the lock.

`StartsOnceUnlessCancelled` needs to know where each task is. `TaskInv` has three
places, the hand of the producer, a position of a ring (`Stored`: between head and
tail, being published, or popped and not yet read) and a worker that runs it, and
says that no two of them have the same slot of `m_tasks` (`StoredApart`,
`RunningApart`, `PushedApart`), that a slot has a task of its own number
(`LiveTasks`), and that a task in one of them that a worker has not begun has neither
run nor been cancelled (`Waiting`). Every step keeps a task in its place or moves it
to the next one, except a `Schedule` that captures over an unfinished task. For the destructor the converse is needed, that a captured task
is in one of the places (`LivePlaced`), and the count: `Join` does not look at the
rings when `m_numTasks` is zero. `CountInv` has the sum of the lengths of the rings;
with the workers joined it is zero just when every ring is empty
(`CountWhenJoined`), which gives `NothingIsLeft`. The parts about tasks hold until
an overrun, those of the rings and the count always, so `WholeInv` is
`CountedInv /\ (overrun \/ LeavingInv)`: nothing is assumed about the client, and
the properties are stated with the same condition.

That one worker has no overrun follows from the rings (`OrderInv`): with one ring
the task at a position is the one pushed as many pushes ago as the position is
behind the tail (`Back`, `At`), also for the position being read and for the task
being run, which was read from the position before the head. While the ring has
room all these are fewer than `NumTasksPerThread` pushes ago, hence fewer than
`TaskCount`, and numbers less than `TaskCount` apart have different slots
(`SlotsApart`). With several rings the ring of a slow worker may hold a task of any
age. `GeometryClient` only restricts when the pool's steps are taken and drops
futures, of which the invariant does not speak (`FuturesApart`).

*The micromap store.* `StoreInv` says that a record that is a hit is whole, that
the record of a queued save is whole, and what the worker may rely on between
its steps: that its record has the bytes before it decides, and that the
temporary file is whole before it is renamed (`WorkersRecord`). Objects are
reused by the model when no pointer refers to them; that one referred to by the
queue or the worker is not is `ReferredTo`, which counts pointers by
`FiniteSetTheorems`, and `AllocationFacts`.

The accounts are sums over the map and over the queue. `AccountsInv` adds three
parts to `StoreInv`. `Ledger`: `reservedBytes` is the sum of what the records in the
map reserve, the map has no more records than it may, and a record in the map or
held by an item is of its key, so that no record is in the map twice; without this
the worker that sets what a miss reserves to zero could empty the account of
another key. `WriteLedger`: `queuedWriteBytes` is the sum over the queued saves plus
the save the worker has, and it has one from `write` to `saved` and at no other
step. `ManagerType`: the rest of the types. What trim makes of the map is a fold
over the keys in the order of the map; `TrimmedStage` shows that the fold stays in
`Stages`, the maps from which some evictable records have been taken together with
what they reserve, whatever the order is and wherever it stops. `EvictionsFree`
follows: a hit that may be evicted has one pointer (`Evictable`), which is the one
in the map, and a step of request or publish adds none to it. The sums are treated in
`DataInduction`: `MapThenSumSet` is a function of the subsets, chosen to satisfy
an equation, of which one has to show that it has a solution (`FoldsExist`), that the
order of the elements does not matter (`SumsRemove`) and how the sum changes with
the set (`SumAdded`, `SumRemoved`, `SumRenamed`).

Only model-checked: everything about termination, since liveness and `ENABLED` are
out of the prover's reach. That is `SubmitReturns`, `WaitForResourceReturns` and what
`sq_loss` shows of waits and shutdown on a lost device, `SynchronizeReturns`,
`StopCompletes`, `MapReturns`, `SlicesComeBack`, `EveryPresentIsServed`,
`AcceptedIsServed`, `ShutdownCompletes`, `PendingIsDecided` and `AcceptedIsSaved`. Every
invariant and every action property that a passing run checks is also stated by a theorem.

The modules also state invariants no listed run has, because the ones listed say
more or a theorem covers them: the type invariants (`TypeOK`, `CsTypeOK`,
conjuncts of what is proved for the queue, the CS thread and, as `RingType` and
`StoreType`, for the pool and the store), `OwnershipInv`, `CsInv`, `ContextInv`,
`PresenterInv`, `PoppedIsInitialized` and `NothingLeft`, which theorems state,
`PresentsOnlyAcquired` and `ErrorStaysUntilRecreate`. They hold in the listed configurations and can be
added to them.

## 5. Not modelled

In the modelled parts: Map of textures (the same protocol per subresource),
the Map for writing of a busy buffer no larger than `MaxImplicitDiscardSize`, which
renames it and copies its contents instead of waiting
(`d3d11_context_imm.cpp:429`), the Map of a deferred context whose list may be
executed more than once, draw state, the contents of buffers, memory allocation, lazily allocated slices,
weak memory order of the atomics, the presenter stash in `DxvkDevice`, switching
multithread protection while it is in use, the end of the presenter's threads,
the election of the primary swap chain, the waitable latency object, the sharing
of one micromap key by several sources, and the retention sweep of the manager. In
`GeometryClient`: command lists executed in another order than they were recorded,
draws of an instance batch, whose futures the application's thread consumes
(`d3d11_rtx.cpp:19960`), and bones of a draw that puts its hashes off.

The parts of section 1 that are not modelled at all have the reason beside them.
By lines nearly all of the repository is among them: third-party headers and
libraries, tables, shaders, and translation or numerical code without a protocol
between actors, in which there is nothing for a state machine to say.

What would come next, in this order:

1. A second swap chain in `FrameGeneration`, for the presenter stash and the
   election of the primary.
2. The lifetime tracker of the frame generation lists, over their reuse.
3. The retention sweep of the micromap manager, over `MicromapStore`.
4. The CS thread as the producer of the submission queue, with the immediate
   context's queue of lists shown to be what `CommandStream` allows.
