---------------------------- MODULE CsThreadProofs ----------------------------
(***************************************************************************)
(* Proofs about CsThread for every number of callers and chunks.           *)
(***************************************************************************)
EXTENDS CsThread, TLAPS

\* A notification wakes threads and puts none to sleep.
LEMMA NotifiedType ==
  ASSUME NEW S, NEW W, NEW cond, NEW a, asleep \in [S -> W], Awake \in W,
         a \in Notified(cond)
  PROVE  a \in [S -> W]
  BY DEF Notified

\* Going to sleep is a change of the thread's own entry.
LEMMA SleepType ==
  ASSUME NEW a \in [Callers \cup {Worker} -> {Awake, "add", "sync"}]
  PROVE  SleepUnlessWork(a) \in [Callers \cup {Worker} -> {Awake, "add", "sync"}]
  BY DEF SleepUnlessWork

\* Taking the front of the queue, or finding it empty, keeps the balance.
LEMMA TakeNextBalance ==
  ASSUME CsTypeOK, TakeNext
  PROVE  /\ queued' \in Seq(Seq(Commands))
         /\ chunk' \in Seq(Commands)
         /\ \/ csPc' = "execute" /\ holding' = TRUE /\ Len(queued') + 1 = Len(queued)
            \/ csPc' \in {"loop", "wait"} /\ holding' = FALSE /\ Len(queued') = Len(queued)
  <1>1. CASE queued # <<>> /\ TakeFront
    <2>1. /\ Head(queued) \in Seq(Commands)
          /\ Tail(queued) \in Seq(Seq(Commands))
          /\ Len(Tail(queued)) + 1 = Len(queued)
      BY <1>1 DEF CsTypeOK
    <2>2. /\ queued' \in Seq(Seq(Commands)) /\ chunk' \in Seq(Commands)
          /\ holding' = TRUE /\ csPc' = "execute"
          /\ Len(queued') + 1 = Len(queued)
      BY <1>1, <2>1 DEF TakeFront
    <2> QED BY <2>2
  <1>2. CASE /\ queued = <<>>
             /\ holding' = FALSE
             /\ csPc' = IF HasWork THEN "loop" ELSE "wait"
             /\ UNCHANGED <<chunk, queued>>
    <2>1. queued' = queued /\ chunk' = chunk /\ Len(queued) = 0
      BY <1>2
    <2>2. csPc' \in {"loop", "wait"} /\ csPc' # "execute" /\ holding' = FALSE
      BY <1>2
    <2>3. queued' \in Seq(Seq(Commands)) /\ chunk' \in Seq(Commands) /\ Len(queued') = 0
      BY <2>1 DEF CsTypeOK
    <2> QED BY <2>1, <2>2, <2>3
  <1> QED BY <1>1, <1>2 DEF TakeNext

-----------------------------------------------------------------------------

\* The balance of chunks holds when the thread is created.
LEMMA CsInvInit == CsInit => CsInv
  <1> SUFFICES ASSUME CsInit PROVE CsInv
    OBVIOUS
  <1> USE DEF CsInit
  <1>1. queued \in Seq(Seq(Commands)) /\ Len(queued) = 0 /\ chunk \in Seq(Commands)
    OBVIOUS
  <1>2. /\ asleep \in [Callers \cup {Worker} -> {Awake, "add", "sync"}]
        /\ sync \in [Callers -> {"idle", "lock", "wait"}]
        /\ seqArg \in [Callers -> Sequence]
    BY DEF Sequence
  <1>3. CsTypeOK
    BY <1>1, <1>2 DEF CsTypeOK
  <1> QED BY <1>1, <1>3 DEF CsInv

\* Dispatching chunks keeps it ...
LEMMA CsInvDispatch ==
  ASSUME CsInv, NEW chunks \in Seq(Seq(Commands)), Dispatch(chunks)
  PROVE  CsInv'
  <1> USE DEF CsInv
  <1>1. /\ queued' \in Seq(Seq(Commands))
        /\ Len(queued') = Len(queued) + Len(chunks)
        /\ dispatched' = dispatched + Len(chunks)
        /\ Len(chunks) \in Nat
    BY DEF Dispatch, Push, CsTypeOK
  <1>2. asleep' \in [Callers \cup {Worker} -> {Awake, "add", "sync"}]
    BY NotifiedType DEF Dispatch, Push, CsTypeOK
  <1>3. CsTypeOK'
    BY <1>1, <1>2 DEF Dispatch, CsTypeOK
  <1>4. /\ ran' = ran /\ csPc' = csPc /\ executed' = executed /\ holding' = holding
        /\ sync' = sync /\ seqArg' = seqArg
    BY DEF Dispatch
  <1>5. Len(queued) \in Nat /\ ran \in Nat
    BY DEF CsTypeOK
  <1>6. ran' + Len(queued') + (IF csPc' = "execute" THEN 1 ELSE 0) = dispatched'
    <2>1. CASE csPc = "execute"
      BY <1>1, <1>4, <1>5, <2>1
    <2>2. CASE csPc # "execute"
      BY <1>1, <1>4, <1>5, <2>2
    <2> QED BY <2>1, <2>2
  <1> QED BY <1>3, <1>4, <1>6

\* ... and so does calling synchronize ...
LEMMA CsInvBeginSync ==
  ASSUME CsInv, NEW c \in Callers, NEW seq \in Sequence, BeginSync(c, seq)
  PROVE  CsInv'
  BY DEF CsInv, BeginSync, CsTypeOK

\* ... every step in it ...
LEMMA CsInvSyncStep ==
  ASSUME CsInv, NEW c \in Callers, SyncStep(c)
  PROVE  CsInv'
  <1> USE DEF CsInv
  <1>1. CASE LockSync(c)
    BY <1>1 DEF LockSync, CsTypeOK, Sequence
  <1>2. CASE WaitSync(c)
    BY <1>2 DEF WaitSync, CsTypeOK, Sequence
  <1>3. CASE SleepSync(c)
    BY <1>3 DEF SleepSync, CsTypeOK
  <1> QED BY <1>1, <1>2, <1>3 DEF SyncStep

\* ... and the request to stop.
LEMMA CsInvStop ==
  ASSUME CsInv, StopThread
  PROVE  CsInv'
  <1>1. asleep' \in [Callers \cup {Worker} -> {Awake, "add", "sync"}]
    BY NotifiedType DEF StopThread, CsInv, CsTypeOK
  <1> QED BY <1>1 DEF StopThread, CsInv, CsTypeOK

\* Every step of a caller keeps it.
LEMMA CsInvCaller ==
  ASSUME CsInv, NEW c \in Callers, DispatchAny(c) \/ SynchronizeAny(c) \/ SyncStep(c)
  PROVE  CsInv'
  <1>1. CASE DispatchAny(c)
    <2>1. PICK cmd \in Commands : Dispatch(<< <<cmd>> >>)
      BY <1>1 DEF DispatchAny
    <2>2. << <<cmd>> >> \in Seq(Seq(Commands))
      OBVIOUS
    <2> QED BY <2>1, <2>2, CsInvDispatch
  <1>2. CASE SynchronizeAny(c)
    <2>1. PICK seq \in 0..dispatched \cup {All} : BeginSync(c, seq)
      BY <1>2 DEF SynchronizeAny
    <2>2. seq \in Sequence
      BY <2>1 DEF CsInv, CsTypeOK, Sequence
    <2> QED BY <2>1, <2>2, CsInvBeginSync
  <1> QED BY <1>1, <1>2, CsInvSyncStep

\* Every step of the thread keeps it.
LEMMA CsInvWorker ==
  ASSUME CsInv, WorkerStep
  PROVE  CsInv'
  <1> USE DEF CsInv
  <1>1. CASE Loop
    BY <1>1 DEF Loop, CsTypeOK
  <1>2. CASE Acknowledge
    <2>1. PICK a \in (IF holding THEN Notified("sync") ELSE {asleep}) :
            asleep' = SleepUnlessWork(a)
      BY <1>2 DEF Acknowledge
    <2>2. a \in [Callers \cup {Worker} -> {Awake, "add", "sync"}]
      BY <2>1, NotifiedType DEF CsTypeOK
    <2>3. asleep' \in [Callers \cup {Worker} -> {Awake, "add", "sync"}]
      BY <2>1, <2>2, SleepType
    <2>4. executed' \in Nat /\ executed' = ran
      BY <1>2 DEF Acknowledge, Counted, CsTypeOK
    <2>5. /\ queued' \in Seq(Seq(Commands)) /\ chunk' \in Seq(Commands)
          /\ \/ csPc' = "execute" /\ holding' = TRUE /\ Len(queued') + 1 = Len(queued)
             \/ csPc' \in {"loop", "wait"} /\ holding' = FALSE /\ Len(queued') = Len(queued)
      BY <1>2, TakeNextBalance DEF Acknowledge
    <2>6. CsTypeOK'
      BY <1>2, <2>3, <2>4, <2>5 DEF Acknowledge, CsTypeOK
    <2>7. ran' = ran /\ dispatched' = dispatched /\ sync' = sync /\ seqArg' = seqArg
      BY <1>2 DEF Acknowledge
    <2>8. ran + Len(queued) = dispatched
      BY <1>2 DEF Acknowledge, CsTypeOK
    <2>9. ran' + Len(queued') + (IF csPc' = "execute" THEN 1 ELSE 0) = dispatched'
      <3>1. Len(queued') \in Nat /\ Len(queued) \in Nat /\ ran \in Nat
        BY <2>5 DEF CsTypeOK
      <3>2. CASE csPc' = "execute"
        BY <2>5, <2>7, <2>8, <3>1, <3>2
      <3>3. CASE csPc' # "execute"
        BY <2>5, <2>7, <2>8, <3>1, <3>3
      <3> QED BY <3>2, <3>3
    <2>10. executed' + (IF holding' /\ csPc' # "execute" THEN 1 ELSE 0) = ran'
      BY <2>4, <2>5, <2>7 DEF CsTypeOK
    <2>11. \A c \in Callers : sync'[c] = "wait" => seqArg'[c] \in Nat
      BY <2>7
    <2> QED BY <2>5, <2>6, <2>9, <2>10, <2>11
  <1>3. CASE Wake
    <2>1. asleep' \in [Callers \cup {Worker} -> {Awake, "add", "sync"}]
      BY <1>3, SleepType DEF Wake, CsTypeOK
    <2>2. /\ queued' \in Seq(Seq(Commands)) /\ chunk' \in Seq(Commands)
          /\ \/ csPc' = "execute" /\ holding' = TRUE /\ Len(queued') + 1 = Len(queued)
             \/ csPc' \in {"loop", "wait"} /\ holding' = FALSE /\ Len(queued') = Len(queued)
      BY <1>3, TakeNextBalance DEF Wake
    <2>3. CsTypeOK'
      BY <1>3, <2>1, <2>2 DEF Wake, CsTypeOK
    <2>4. /\ ran' = ran /\ dispatched' = dispatched /\ executed' = executed
          /\ sync' = sync /\ seqArg' = seqArg
      BY <1>3 DEF Wake
    <2>5. ran + Len(queued) = dispatched /\ executed = ran
      BY <1>3 DEF Wake, CsTypeOK
    <2>6. ran' + Len(queued') + (IF csPc' = "execute" THEN 1 ELSE 0) = dispatched'
      BY <2>2, <2>3, <2>4, <2>5 DEF CsTypeOK
    <2>7. executed' + (IF holding' /\ csPc' # "execute" THEN 1 ELSE 0) = ran'
      BY <2>2, <2>4, <2>5 DEF CsTypeOK
    <2>8. \A c \in Callers : sync'[c] = "wait" => seqArg'[c] \in Nat
      BY <2>4
    <2> QED BY <2>2, <2>3, <2>6, <2>7, <2>8
  <1>4. CASE Execute
    <2>1. Tail(chunk) \in Seq(Commands)
      BY <1>4 DEF Execute, CsTypeOK
    <2> QED BY <1>4, <2>1 DEF Execute, CsTypeOK
  <1>5. CASE Finish
    BY <1>5 DEF Finish, CsTypeOK
  <1> QED BY <1>1, <1>2, <1>3, <1>4, <1>5 DEF WorkerStep

\* It does not depend on other variables.
LEMMA CsInvFrame == CsInv /\ UNCHANGED csVars => CsInv'
  BY DEF csVars, CsInv, CsTypeOK

\* And so does every step.
LEMMA CsInvStep == CsInv /\ [CsNext]_csVars => CsInv'
  <1> SUFFICES ASSUME CsInv, [CsNext]_csVars PROVE CsInv'
    OBVIOUS
  <1>1. CASE \E c \in Callers : DispatchAny(c) \/ SynchronizeAny(c) \/ SyncStep(c)
    BY <1>1, CsInvCaller
  <1>2. CASE Destroy
    BY <1>2, CsInvStop DEF Destroy
  <1>3. CASE WorkerStep
    BY <1>3, CsInvWorker
  <1>4. CASE CsDone \/ UNCHANGED csVars
    BY <1>4, CsInvFrame DEF CsDone
  <1> QED BY <1>1, <1>2, <1>3, <1>4 DEF CsNext

\* The balance holds at all times.
THEOREM ChunkBalance == CsSpec => []CsInv
  BY CsInvInit, CsInvStep, PTL DEF CsSpec

-----------------------------------------------------------------------------

\* A number that lastSequenceNumber reports as executed has been executed, and
\* no chunk is lost between dispatchChunk and executeAll.
THEOREM ReportedHaveRun == CsSpec => []ExecutedHaveRun
  <1>1. CsInv => ExecutedHaveRun
    BY DEF CsInv, ExecutedHaveRun, CsTypeOK
  <1> QED BY <1>1, ChunkBalance, PTL

\* synchronize returns only after every chunk up to its argument has run.
THEOREM SynchronizeIsEnough == CsSpec => SynchronizeCovers
  <1>1. CsInv /\ [CsNext]_csVars =>
          [\A c \in Callers :
             sync[c] = "wait" /\ sync'[c] = "idle"
             => seqArg[c] \in Nat /\ ran >= seqArg[c]]_csVars
    <2> SUFFICES ASSUME CsInv, [CsNext]_csVars, NEW c \in Callers,
                        sync[c] = "wait", sync'[c] = "idle"
                 PROVE  seqArg[c] \in Nat /\ ran >= seqArg[c]
      OBVIOUS
    <2>1. PICK d \in Callers : WaitSync(d) /\ d = c
      BY DEF CsInv, CsTypeOK, CsNext, DispatchAny, Dispatch, SynchronizeAny,
             BeginSync, SyncStep, LockSync, WaitSync, SleepSync, Destroy, StopThread,
             WorkerStep, Loop, Acknowledge, Wake, Execute, Finish, CsDone, csVars
    <2>2. executed >= seqArg[c]
      BY <2>1 DEF WaitSync, Reached
    <2> QED BY <2>2 DEF CsInv, CsTypeOK
  <1> QED BY <1>1, ChunkBalance, PTL DEF CsSpec, SynchronizeCovers
=============================================================================
