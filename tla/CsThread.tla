------------------------------- MODULE CsThread -------------------------------
(***************************************************************************)
(* DxvkCsThread (src/dxvk/dxvk_cs.cpp): the thread that executes chunks of *)
(* commands in the order they are dispatched, and the callers that wait    *)
(* for it.  A caller learns the sequence number of what it dispatches and  *)
(* may wait until the thread has executed up to a number.                  *)
(*                                                                         *)
(* A step is the code between two points at which a thread may block or    *)
(* drop m_mutex.  A notification sent after the mutex is dropped belongs   *)
(* to the step that changed the state: sent later it could only wake the   *)
(* thread later.  A command is one step of the thread.  Reference counts,  *)
(* the chunk pool, statistics and the exception that ends the process are  *)
(* left out.                                                               *)
(***************************************************************************)
EXTENDS Naturals, Sequences

CONSTANTS
  Callers,   \* threads that dispatch and synchronize
  Commands,  \* what a chunk is made of
  All,       \* SynchronizeAll: ~0ull, above every sequence number
  MaxChunks  \* bound of the model: chunks dispatched before the last operation

Worker == "dxvk-cs"

ASSUME CsAssumption == Worker \notin Callers /\ All \notin Nat /\ MaxChunks \in Nat

VARIABLES
  dispatched,  \* m_chunksDispatched
  executed,    \* m_chunksExecuted
  queued,      \* m_chunksQueued
  chunk,       \* the commands left of the local "chunk"
  holding,     \* the local "chunk" is not null
  csStopped,   \* m_stopped
  csPc,        \* where the thread is
  asleep,      \* the condition variable each thread sleeps on, or Awake
  sync,        \* where each caller is in synchronize
  seqArg,      \* its argument
  ran          \* history: number of chunks executed to their end

csVars == <<dispatched, executed, queued, chunk, holding, csStopped, csPc,
            asleep, sync, seqArg, ran>>

Awake == "awake"

Sequence == Nat \cup {All}

\* seq > n, with SynchronizeAll the largest number.
Beyond(seq, n) == seq = All \/ seq > n

CsInit ==
  /\ dispatched = 0
  /\ executed = 0
  /\ queued = <<>>
  /\ chunk = <<>>
  /\ holding = FALSE
  /\ csStopped = FALSE
  /\ csPc = "loop"
  /\ asleep = [t \in Callers \cup {Worker} |-> Awake]
  /\ sync = [c \in Callers |-> "idle"]
  /\ seqArg = [c \in Callers |-> 0]
  /\ ran = 0

-----------------------------------------------------------------------------
(* Faulty variants of definitions below, one for each property.            *)

\* A chunk counts as executed when the thread takes it.
CountedWhenTaken == executed + (IF queued # <<>> THEN 1 ELSE 0)

\* The thread forgets that it may be asked to stop while it sleeps.
HasQueued == queued # <<>>

\* dispatchChunk does not notify.
PushQuietly(chunks) ==
  /\ queued' = queued \o chunks
  /\ dispatched' = dispatched + Len(chunks)
  /\ UNCHANGED asleep

\* The wait ends one chunk early.
ReachedEarly(c) == executed + 1 >= seqArg[c]

-----------------------------------------------------------------------------

\* What notify_one may leave: it wakes one of the threads that sleep on cond.
Notified(cond) ==
  LET sleeping == {t \in DOMAIN asleep : asleep[t] = cond}
  IN IF sleeping = {} THEN {asleep}
     ELSE {[asleep EXCEPT ![t] = Awake] : t \in sleeping}

\* dispatchChunk, for one chunk or for those of a deferred command list.
Push(chunks) ==
  /\ queued' = queued \o chunks
  /\ dispatched' = dispatched + Len(chunks)
  /\ asleep' \in Notified("add")

Dispatch(chunks) ==
  /\ Push(chunks)
  /\ UNCHANGED <<executed, chunk, holding, csStopped, csPc, sync, seqArg, ran>>

\* synchronize(seq) returns at once if the number is reached ...
BeginSync(c, seq) ==
  /\ sync[c] = "idle"
  /\ IF Beyond(seq, executed)
     THEN sync' = [sync EXCEPT ![c] = "lock"] /\ seqArg' = [seqArg EXCEPT ![c] = seq]
     ELSE UNCHANGED <<sync, seqArg>>
  /\ UNCHANGED <<dispatched, executed, queued, chunk, holding, csStopped, csPc,
                 asleep, ran>>

\* ... else SynchronizeAll is resolved under the lock ...
LockSync(c) ==
  /\ sync[c] = "lock"
  /\ seqArg' = [seqArg EXCEPT ![c] = IF @ = All THEN dispatched ELSE @]
  /\ sync' = [sync EXCEPT ![c] = "wait"]
  /\ UNCHANGED <<dispatched, executed, queued, chunk, holding, csStopped, csPc,
                 asleep, ran>>

Reached(c) == executed >= seqArg[c]

\* ... and the caller sleeps until the number is reached.
WaitSync(c) ==
  /\ sync[c] = "wait"
  /\ asleep[c] = Awake
  /\ Reached(c)
  /\ sync' = [sync EXCEPT ![c] = "idle"]
  /\ seqArg' = [seqArg EXCEPT ![c] = 0]
  /\ UNCHANGED <<dispatched, executed, queued, chunk, holding, csStopped, csPc,
                 asleep, ran>>

SleepSync(c) ==
  /\ sync[c] = "wait"
  /\ asleep[c] = Awake
  /\ ~Reached(c)
  /\ asleep' = [asleep EXCEPT ![c] = "sync"]
  /\ UNCHANGED <<dispatched, executed, queued, chunk, holding, csStopped, csPc,
                 sync, seqArg, ran>>

SyncStep(c) == LockSync(c) \/ WaitSync(c) \/ SleepSync(c)

\* ~DxvkCsThread, up to the join.
StopThread ==
  /\ ~csStopped
  /\ csStopped' = TRUE
  /\ asleep' \in Notified("add")
  /\ UNCHANGED <<dispatched, executed, queued, chunk, holding, csPc, sync, seqArg,
                 ran>>

-----------------------------------------------------------------------------
(* threadFunc.                                                             *)

\* while (!m_stopped)
Loop ==
  /\ csPc = "loop"
  /\ csPc' = IF csStopped THEN "exited" ELSE "lock"
  /\ UNCHANGED <<dispatched, executed, queued, chunk, holding, csStopped, asleep,
                 sync, seqArg, ran>>

HasWork == queued # <<>> \/ csStopped

TakeFront ==
  /\ chunk' = Head(queued)
  /\ queued' = Tail(queued)
  /\ holding' = TRUE
  /\ csPc' = "execute"

\* The next chunk, or none: the thread waits, or loops when it is stopped.
TakeNext ==
  \/ queued # <<>> /\ TakeFront
  \/ /\ queued = <<>>
     /\ holding' = FALSE
     /\ csPc' = IF HasWork THEN "loop" ELSE "wait"
     /\ UNCHANGED <<chunk, queued>>

SleepUnlessWork(a) == IF HasWork THEN a ELSE [a EXCEPT ![Worker] = "add"]

\* Under the lock, the chunk just executed is counted and its waiter notified.
Counted == executed + (IF holding THEN 1 ELSE 0)

Acknowledge ==
  /\ csPc = "lock"
  /\ executed' = Counted
  /\ \E a \in (IF holding THEN Notified("sync") ELSE {asleep}) :
       asleep' = SleepUnlessWork(a)
  /\ TakeNext
  /\ UNCHANGED <<dispatched, csStopped, sync, seqArg, ran>>

Wake ==
  /\ csPc = "wait"
  /\ asleep[Worker] = Awake
  /\ asleep' = SleepUnlessWork(asleep)
  /\ TakeNext
  /\ UNCHANGED <<dispatched, executed, csStopped, sync, seqArg, ran>>

\* executeAll, one command at a time.
Execute ==
  /\ csPc = "execute"
  /\ chunk # <<>>
  /\ chunk' = Tail(chunk)
  /\ UNCHANGED <<dispatched, executed, queued, holding, csStopped, csPc, asleep,
                 sync, seqArg, ran>>

Finish ==
  /\ csPc = "execute"
  /\ chunk = <<>>
  /\ ran' = ran + 1
  /\ csPc' = "loop"
  /\ UNCHANGED <<dispatched, executed, queued, chunk, holding, csStopped, asleep,
                 sync, seqArg>>

WorkerStep == Loop \/ Acknowledge \/ Wake \/ Execute \/ Finish

-----------------------------------------------------------------------------
(* The thread with callers that dispatch single commands and synchronize   *)
(* with whatever they have seen.  Calls of synchronize do not overlap:     *)
(* D3D11ImmediateContext::SynchronizeCsThread holds the context lock.      *)

DispatchAny(c) ==
  /\ sync[c] = "idle"
  /\ ~csStopped
  /\ dispatched < MaxChunks
  /\ \E cmd \in Commands : Dispatch(<< <<cmd>> >>)

SynchronizeAny(c) ==
  /\ \A d \in Callers : sync[d] = "idle"
  /\ ~csStopped
  /\ \E seq \in 0..dispatched \cup {All} : BeginSync(c, seq)

Destroy == (\A c \in Callers : sync[c] = "idle") /\ StopThread

CsDone == csPc = "exited" /\ UNCHANGED csVars

CsNext ==
  \/ \E c \in Callers : DispatchAny(c) \/ SynchronizeAny(c) \/ SyncStep(c)
  \/ Destroy
  \/ WorkerStep
  \/ CsDone

CsSpec == CsInit /\ [][CsNext]_csVars

\* Both sides run when they can; callers need not call.
CsFairSpec ==
  /\ CsSpec
  /\ WF_csVars(WorkerStep)
  /\ \A c \in Callers : WF_csVars(SyncStep(c))

-----------------------------------------------------------------------------

CsTypeOK ==
  /\ dispatched \in Nat
  /\ executed \in Nat
  /\ queued \in Seq(Seq(Commands))
  /\ chunk \in Seq(Commands)
  /\ holding \in BOOLEAN
  /\ csStopped \in BOOLEAN
  /\ csPc \in {"loop", "lock", "wait", "execute", "exited"}
  /\ asleep \in [Callers \cup {Worker} -> {Awake, "add", "sync"}]
  /\ sync \in [Callers -> {"idle", "lock", "wait"}]
  /\ seqArg \in [Callers -> Sequence]
  /\ ran \in Nat

\* A number is reported as executed only when every chunk up to it has run to
\* its end, and every chunk is run, in the thread's hands or queued: what
\* lastSequenceNumber() promises to MapImage.
ExecutedHaveRun ==
  /\ executed <= ran
  /\ ran + Len(queued) + (IF csPc = "execute" THEN 1 ELSE 0) = dispatched

\* synchronize(seq) returns only after the chunks up to seq have run; with
\* SynchronizeAll, after everything dispatched before the call.
SynchronizeCovers ==
  [][\A c \in Callers :
       sync[c] = "wait" /\ sync'[c] = "idle"
       => seqArg[c] \in Nat /\ ran >= seqArg[c]]_csVars

\* Why it holds: the thread owes the count of one chunk exactly when it holds a
\* chunk it has run, and a waiter waits for a number of chunks.
CsInv ==
  /\ CsTypeOK
  /\ ran + Len(queued) + (IF csPc = "execute" THEN 1 ELSE 0) = dispatched
  /\ executed + (IF holding /\ csPc # "execute" THEN 1 ELSE 0) = ran
  /\ csPc = "execute" => holding
  /\ csPc = "wait" => ~holding
  /\ \A c \in Callers : sync[c] = "wait" => seqArg[c] \in Nat

\* synchronize returns: the thread counts every chunk and wakes the caller.
SynchronizeReturns == \A c \in Callers : sync[c] # "idle" ~> sync[c] = "idle"

\* The destructor joins: the thread sees the request even while it sleeps.
StopCompletes == csStopped ~> csPc = "exited"
=============================================================================
