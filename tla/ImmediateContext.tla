--------------------------- MODULE ImmediateContext ---------------------------
(***************************************************************************)
(* D3D11ImmediateContext (src/d3d11/d3d11_context_imm.cpp) on the CS       *)
(* thread: commands are recorded into chunks, buffers are renamed when     *)
(* they are discarded, and Map finds out how long it has to wait from the  *)
(* sequence number of the last chunk that uses the buffer and from the     *)
(* buffer's use counts.                                                    *)
(*                                                                         *)
(* Application threads call the context under the lock of ID3D11Multithread*)
(* (LockContext).  What a call does before it blocks is private to its     *)
(* thread and is one step.  Command lists leave the CS thread in order     *)
(* and are released in order: SubmissionQueue is the detailed model of     *)
(* that, here a list is submitted and later notified and reset.  Contents  *)
(* of a buffer are named by the slice that holds them.                     *)
(***************************************************************************)
EXTENDS CsThread, FiniteSets, SequencesExt

CONSTANTS
  Buffers,         \* D3D11Buffers that can be mapped
  Usages,          \* the usages considered
  DeferredContext, \* whether the application records on a deferred context
  Slices,          \* backing slices a buffer may have (bound of the model)
  ChunkCapacity    \* commands a chunk can hold

NoSlice == "none"
Free    == "free"
Access  == {"R", "W"}

\* A staging buffer has a sequence number (HasSequenceNumber).  A dynamic one is
\* renamed when it is discarded, and if it is shared then also by discards that
\* a deferred context records.
Usage == {"staging", "dynamic", "shared"}

MapType == {"READ", "WRITE"}

Use(b, s, acc) == [op |-> "use", buf |-> b, slice |-> s, access |-> acc]
Rename(b, s)   == [op |-> "rename", buf |-> b, slice |-> s]
FlushCommand   == [op |-> "flush"]

Command ==
  {Use(b, s, acc) : b \in Buffers, s \in Slices \cup {NoSlice}, acc \in Access}
    \cup {Rename(b, s) : b \in Buffers, s \in Slices} \cup {FlushCommand}

ASSUME ContextAssumption ==
  /\ Commands = Command
  /\ Usages \subseteq Usage
  /\ DeferredContext \in BOOLEAN
  /\ Buffers # {}
  /\ Cardinality(Slices) > 1 /\ NoSlice \notin Slices
  /\ ChunkCapacity \in Nat \ {0}
  /\ Free \notin Callers

VARIABLES
  ctxLock,    \* owner of the context lock, or Free
  app,        \* where each application thread is in a call
  ret,        \* where it goes after SynchronizeCsThread
  map,        \* the arguments of its Map
  csChunk,    \* m_csChunk: the chunk being recorded
  csSeqNum,   \* m_csSeqNum
  csIsBusy,   \* m_csIsBusy
  seqOf,      \* D3D11Buffer::m_seq
  mapped,     \* D3D11Buffer::m_mapped
  phys,       \* DxvkBuffer::m_physSlice
  free,       \* m_freeSlices and m_nextSlices, with slices not created yet
  recording,  \* the command list the CS thread records
  submitted,  \* command lists submitted and not reset, oldest first
  deferred,   \* chunks of a finished deferred command list
  closing,    \* the context is being destroyed
  usage       \* D3D11_BUFFER_DESC::Usage, fixed when the buffer is created

callVars   == <<ctxLock, app, ret, map>>
streamVars == <<csChunk, csSeqNum, csIsBusy>>
sliceVars  == <<mapped, phys, free>>
listVars   == <<recording, submitted>>
vars == <<csVars, callVars, streamVars, seqOf, sliceVars, listVars, deferred, closing,
          usage>>

NoMap == [buf |-> CHOOSE b \in Buffers : TRUE, type |-> "READ", noWait |-> FALSE]

NewList == [uses |-> {}, retired |-> {}]

Init ==
  /\ CsInit
  /\ ctxLock = Free
  /\ app = [a \in Callers |-> "ready"]
  /\ ret = [a \in Callers |-> "ready"]
  /\ map = [a \in Callers |-> NoMap]
  /\ csChunk = <<>>
  /\ csSeqNum = 0
  /\ csIsBusy = FALSE
  /\ seqOf = [b \in Buffers |-> 0]
  /\ \E s \in Slices :
       /\ mapped = [b \in Buffers |-> s]
       /\ phys = mapped
       /\ free = [b \in Buffers |-> Slices \ {s}]
  /\ recording = NewList
  /\ submitted = <<>>
  /\ deferred = <<>>
  /\ closing = FALSE
  /\ usage \in [Buffers -> Usages]

-----------------------------------------------------------------------------
(* Faulty variants of definitions below, one for each property.            *)

\* The use belongs to the chunk dispatched last.
TrackedOneEarly(stream) == csSeqNum + Len(stream.out)

\* EmitCsChunk leaves m_csIsBusy as it was.
SentUnnoticed(stream) ==
  [out |-> Append(stream.out, stream.cur), cur |-> <<>>, busy |-> stream.busy]

\* The slice a discard allocates is not remembered.
KeepMapped(b, s) == mapped

\* The slice that is replaced is free at once.
FreedAtOnce(b, s) == [free EXCEPT ![b] = @ \cup {phys[b]}]

\* The use counts are released with the reset only.
NeverReleased(list) == list

\* The destructor does not synchronize with the CS thread.
CloseAtOnce == "stop"

-----------------------------------------------------------------------------
(* The stream of commands: EmitCs, FlushCsChunk and Flush work on the      *)
(* chunk being recorded and say which chunks they dispatch.                *)

Stream == [out |-> <<>>, cur |-> csChunk, busy |-> csIsBusy]

\* EmitCsChunk
Sent(stream) ==
  [out |-> Append(stream.out, stream.cur), cur |-> <<>>, busy |-> TRUE]

EmitCs(stream, cmd) ==
  LET room == IF Len(stream.cur) < ChunkCapacity THEN stream ELSE Sent(stream)
  IN [room EXCEPT !.cur = Append(@, cmd)]

FlushCsChunk(stream) == IF stream.cur = <<>> THEN stream ELSE Sent(stream)

Flush(stream) ==
  IF stream.busy \/ stream.cur # <<>>
  THEN [FlushCsChunk(EmitCs(stream, FlushCommand)) EXCEPT !.busy = FALSE]
  ELSE stream

\* FlushImplicit flushes or not, by the time since the last flush.
FlushImplicit(stream) == {stream, Flush(stream)}

Commit(stream) ==
  /\ IF stream.out = <<>> THEN UNCHANGED csVars ELSE Dispatch(stream.out)
  /\ csChunk' = stream.cur
  /\ csIsBusy' = stream.busy
  /\ csSeqNum' = csSeqNum + Len(stream.out)

\* TrackBufferSequenceNumber, after the command has been emitted.
TrackedSeq(stream) == csSeqNum + Len(stream.out) + 1

Tracked == {b \in Buffers : usage[b] = "staging"}

GetSequenceNumber(b) == IF b \in Tracked THEN seqOf[b] ELSE All

-----------------------------------------------------------------------------
(* Use counts and slices.                                                  *)

Pending(q) == {q[i] : i \in DOMAIN q}

UsesOfLists == recording.uses \cup UNION {l.uses : l \in Pending(submitted)}

\* DxvkResource::isInUse
IsInUse(b, access) ==
  \E u \in UsesOfLists : u.buf = b /\ (access = "R" \/ u.access = "W")

\* D3D11Buffer::DiscardSlice
DiscardSlice(b, s) == [mapped EXCEPT ![b] = s]

AllocSlice(b, s) ==
  /\ s \in free[b]
  /\ free' = [free EXCEPT ![b] = @ \ {s}]

-----------------------------------------------------------------------------
(* Calls that do not block.                                                *)

MayEnter == ctxLock = Free

\* Bound of the model: no call begins once MaxChunks have been dispatched.
Enters(a) ==
  /\ app[a] = "ready"
  /\ MayEnter
  /\ ~closing
  /\ dispatched < MaxChunks

\* A draw or a copy that uses b.  Only copies, which track, use staging buffers.
Draw(a) ==
  /\ Enters(a)
  /\ \E b \in Buffers, acc \in Access :
       LET stream == EmitCs(Stream, Use(b, mapped[b], acc))
       IN /\ Commit(stream)
          /\ seqOf' = IF b \in Tracked THEN [seqOf EXCEPT ![b] = TrackedSeq(stream)]
                      ELSE seqOf
  /\ UNCHANGED <<callVars, sliceVars, listVars, deferred, closing, usage>>

\* Map with WRITE_DISCARD, also UpdateSubresource of a mapped buffer.
MapDiscard(a) ==
  /\ Enters(a)
  /\ \E b \in Buffers \ Tracked, s \in Slices :
       /\ AllocSlice(b, s)
       /\ mapped' = DiscardSlice(b, s)
       /\ Commit(EmitCs(Stream, Rename(b, s)))
  /\ UNCHANGED <<callVars, seqOf, phys, listVars, deferred, closing, usage>>

FlushContext(a) ==
  /\ Enters(a)
  /\ Flush(Stream) # Stream
  /\ Commit(Flush(Stream))
  /\ UNCHANGED <<callVars, seqOf, sliceVars, listVars, deferred, closing, usage>>

\* The chunks of a deferred command list of two commands.
DeferredList(c1, c2) ==
  FlushCsChunk(EmitCs(EmitCs([out |-> <<>>, cur |-> <<>>, busy |-> FALSE], c1), c2)).out

\* A deferred context records a discard and a use, or two uses, of one buffer.
RecordDeferred ==
  /\ DeferredContext
  /\ deferred = <<>>
  /\ ~closing
  /\ \E b \in Buffers :
       \/ /\ b \in Tracked
          /\ deferred' = DeferredList(Use(b, NoSlice, "R"), Use(b, NoSlice, "W"))
          /\ UNCHANGED free
       \/ \E s \in Slices :
            /\ usage[b] = "shared"
            /\ AllocSlice(b, s)
            /\ deferred' = DeferredList(Rename(b, s), Use(b, s, "R"))
  /\ UNCHANGED <<csVars, callVars, streamVars, seqOf, mapped, phys, listVars, closing, usage>>

\* The slice a deferred use means is the one mapped when the list is executed.
Resolved(cmd) ==
  IF cmd.op = "use" /\ cmd.slice = NoSlice THEN [cmd EXCEPT !.slice = mapped[cmd.buf]]
  ELSE cmd

ResolvedList ==
  [i \in DOMAIN deferred |-> [j \in DOMAIN deferred[i] |-> Resolved(deferred[i][j])]]

UsedByList == {cmd.buf : cmd \in UNION {Pending(deferred[i]) : i \in DOMAIN deferred}}

\* The chunks of the list are dispatched after those of the stream.
WithChunks(stream, chunks) == [stream EXCEPT !.out = @ \o chunks, !.busy = TRUE]

ExecuteCommandList(a) ==
  /\ Enters(a)
  /\ deferred # <<>>
  /\ \E stream \in FlushImplicit(FlushCsChunk(Stream)) :
       LET after == WithChunks(stream, ResolvedList)
       IN /\ Commit(after)
          /\ seqOf' = [b \in Buffers |->
                         IF b \in UsedByList \cap Tracked THEN csSeqNum + Len(after.out)
                         ELSE seqOf[b]]
  /\ deferred' = <<>>
  /\ UNCHANGED <<callVars, sliceVars, listVars, closing, usage>>

-----------------------------------------------------------------------------
(* SynchronizeCsThread(seq), called by a thread that holds the lock.       *)

CallSynchronize(a, then) ==
  /\ app' = [app EXCEPT ![a] = "flushChunk"]
  /\ ret' = [ret EXCEPT ![a] = then]

SyncTarget(a) == IF closing THEN All ELSE GetSequenceNumber(map[a].buf)

FlushForSync(a) ==
  /\ app[a] = "flushChunk"
  /\ Commit(IF Beyond(SyncTarget(a), csSeqNum) THEN FlushCsChunk(Stream) ELSE Stream)
  /\ app' = [app EXCEPT ![a] = "synchronize"]
  /\ UNCHANGED <<ctxLock, ret, map, seqOf, sliceVars, listVars, deferred, closing, usage>>

SynchronizeCsThread(a) ==
  /\ app[a] = "synchronize"
  /\ BeginSync(a, SyncTarget(a))
  /\ app' = [app EXCEPT ![a] = ret[a]]
  /\ UNCHANGED <<ctxLock, ret, map, streamVars, seqOf, sliceVars, listVars,
                 deferred, closing, usage>>

\* The thread is at a label and synchronize has returned.
Back(a, label) == app[a] = label /\ sync[a] = "idle"

WaitForCsThread(a) ==
  /\ SyncStep(a)
  /\ UNCHANGED <<callVars, streamVars, seqOf, sliceVars, listVars, deferred, closing, usage>>

-----------------------------------------------------------------------------
(* Map with READ or WRITE: MapBuffer and WaitForResource.                  *)

WaitAccess(a) == IF map[a].type = "READ" THEN "W" ELSE "R"

Leave(a) ==
  /\ app' = [app EXCEPT ![a] = "ready"]
  /\ ret' = [ret EXCEPT ![a] = "ready"]
  /\ map' = [map EXCEPT ![a] = NoMap]
  /\ ctxLock' = Free

Map(a) ==
  /\ Enters(a)
  /\ ctxLock' = a
  /\ \E b \in Buffers, type \in MapType, noWait \in BOOLEAN :
       /\ map' = [map EXCEPT ![a] = [buf |-> b, type |-> type, noWait |-> noWait]]
       /\ IF type = "WRITE" /\ ~noWait THEN CallSynchronize(a, "decide")
          ELSE app' = [app EXCEPT ![a] = "poll"] /\ UNCHANGED ret
  /\ UNCHANGED <<csVars, streamVars, seqOf, sliceVars, listVars, deferred, closing, usage>>

\* Only reads are pending: a new slice gets a copy of the old one, unless the
\* memory is not cached.
InvalidatePreserve(a) ==
  /\ Back(a, "decide")
  /\ IsInUse(map[a].buf, "R") /\ ~IsInUse(map[a].buf, "W")
  /\ \E s \in Slices, stream \in FlushImplicit(Stream) :
       /\ AllocSlice(map[a].buf, s)
       /\ mapped' = DiscardSlice(map[a].buf, s)
       /\ Commit(EmitCs(stream, Rename(map[a].buf, s)))
  /\ Leave(a)
  /\ UNCHANGED <<seqOf, phys, listVars, deferred, closing, usage>>

NoInvalidate(a) ==
  /\ Back(a, "decide")
  /\ app' = [app EXCEPT ![a] = "poll"]
  /\ UNCHANGED <<csVars, ctxLock, ret, map, streamVars, seqOf, sliceVars,
                 listVars, deferred, closing, usage>>

\* The first isInUse of WaitForResource, and the second after synchronizing.
PollIdle(a) ==
  /\ Back(a, "poll")
  /\ ~IsInUse(map[a].buf, WaitAccess(a))
  /\ CallSynchronize(a, "pollAgain")
  /\ UNCHANGED <<csVars, ctxLock, map, streamVars, seqOf, sliceVars, listVars,
                 deferred, closing, usage>>

MapIdle(a) ==
  /\ Back(a, "pollAgain")
  /\ ~IsInUse(map[a].buf, WaitAccess(a))
  /\ Leave(a)
  /\ UNCHANGED <<csVars, streamVars, seqOf, sliceVars, listVars, deferred, closing, usage>>

PollBusy(a) ==
  /\ Back(a, "poll") \/ Back(a, "pollAgain")
  /\ IsInUse(map[a].buf, WaitAccess(a))
  /\ IF map[a].noWait
     THEN (\E stream \in FlushImplicit(Stream) : Commit(stream)) /\ Leave(a)  \* STILL_DRAWING
     ELSE Commit(Flush(Stream)) /\ CallSynchronize(a, "wait") /\ UNCHANGED <<ctxLock, map>>
  /\ UNCHANGED <<seqOf, sliceVars, listVars, deferred, closing, usage>>

\* DxvkDevice::waitForResource
WaitForResource(a) ==
  /\ Back(a, "wait")
  /\ ~IsInUse(map[a].buf, WaitAccess(a))
  /\ Leave(a)
  /\ UNCHANGED <<csVars, streamVars, seqOf, sliceVars, listVars, deferred, closing, usage>>

-----------------------------------------------------------------------------
(* ~D3D11ImmediateContext and ~DxvkCsThread.  SynchronizeDevice delays the  *)
(* thread and changes nothing.                                             *)

AfterClose == "flushChunk"

Close(a) ==
  /\ app[a] = "ready"
  /\ \A c \in Callers : app[c] = "ready"
  /\ ~closing
  /\ closing' = TRUE
  /\ Commit(Flush(Stream))
  /\ app' = [app EXCEPT ![a] = AfterClose]
  /\ ret' = [ret EXCEPT ![a] = "stop"]
  /\ UNCHANGED <<ctxLock, map, seqOf, sliceVars, listVars, deferred, usage>>

Stop(a) ==
  /\ Back(a, "stop")
  /\ StopThread
  /\ app' = [app EXCEPT ![a] = "join"]
  /\ UNCHANGED <<ctxLock, ret, map, streamVars, seqOf, sliceVars, listVars,
                 deferred, closing, usage>>

Join(a) ==
  /\ app[a] = "join"
  /\ csPc = "exited"
  /\ app' = [app EXCEPT ![a] = "done"]
  /\ UNCHANGED <<csVars, ctxLock, ret, map, streamVars, seqOf, sliceVars,
                 listVars, deferred, closing, usage>>

-----------------------------------------------------------------------------
(* The CS thread executes commands on its DxvkContext.                     *)

Idles ==
  /\ Loop \/ Acknowledge \/ Wake \/ Finish
  /\ UNCHANGED <<callVars, streamVars, seqOf, sliceVars, listVars, deferred, closing, usage>>

\* trackResource
ExecuteUse(cmd) ==
  /\ cmd.op = "use"
  /\ recording' = [recording EXCEPT !.uses =
       @ \cup {[buf |-> cmd.buf, slice |-> phys[cmd.buf], access |-> cmd.access]}]
  /\ UNCHANGED <<phys, free, submitted>>

\* Where a replaced slice goes: it is kept until its last list is reset.
FreedBy(b, s) == free

RenamedTo(cmd) == [phys EXCEPT ![cmd.buf] = cmd.slice]

\* DxvkContext::invalidateBuffer
ExecuteRename(cmd) ==
  /\ cmd.op = "rename"
  /\ phys' = RenamedTo(cmd)
  /\ recording' = [recording EXCEPT !.retired =
       @ \cup {[buf |-> cmd.buf, slice |-> phys[cmd.buf]]}]
  /\ free' = FreedBy(cmd.buf, cmd.slice)
  /\ UNCHANGED submitted

\* DxvkContext::flushCommandList
ExecuteFlush(cmd) ==
  /\ cmd.op = "flush"
  /\ submitted' = Append(submitted, recording)
  /\ recording' = NewList
  /\ UNCHANGED <<phys, free>>

ExecuteCommand ==
  /\ Execute
  /\ ExecuteUse(Head(chunk)) \/ ExecuteRename(Head(chunk)) \/ ExecuteFlush(Head(chunk))
  /\ UNCHANGED <<callVars, streamVars, seqOf, mapped, deferred, closing, usage>>

-----------------------------------------------------------------------------
(* The finish worker, when the fence of the oldest list has signalled.     *)

Released(list) == [list EXCEPT !.uses = {}]

NotifyObjects ==
  /\ submitted # <<>>
  /\ Head(submitted).uses # {}
  /\ submitted' = [submitted EXCEPT ![1] = Released(@)]
  /\ UNCHANGED <<csVars, callVars, streamVars, seqOf, sliceVars, recording, deferred,
                 closing, usage>>

\* DxvkCommandList::reset returns the slices the list retired.
ResetList ==
  /\ submitted # <<>>
  /\ Head(submitted).uses = {}
  /\ submitted' = Tail(submitted)
  /\ free' = [b \in Buffers |->
                free[b] \cup {r.slice : r \in {x \in Head(submitted).retired : x.buf = b}}]
  /\ UNCHANGED <<csVars, callVars, streamVars, seqOf, mapped, phys, recording,
                 deferred, closing, usage>>

Done == (\E a \in Callers : app[a] = "done") /\ UNCHANGED vars

-----------------------------------------------------------------------------

\* What a thread inside a call does next.
CallStep(a) ==
  \/ FlushForSync(a) \/ SynchronizeCsThread(a) \/ WaitForCsThread(a)
  \/ InvalidatePreserve(a) \/ NoInvalidate(a)
  \/ PollIdle(a) \/ MapIdle(a) \/ PollBusy(a) \/ WaitForResource(a)
  \/ Stop(a) \/ Join(a)

CsStep == Idles \/ ExecuteCommand

GpuStep == NotifyObjects \/ ResetList

Next ==
  \/ \E a \in Callers :
       \/ Draw(a) \/ MapDiscard(a) \/ FlushContext(a) \/ ExecuteCommandList(a)
       \/ Map(a) \/ Close(a) \/ CallStep(a)
  \/ RecordDeferred
  \/ CsStep
  \/ GpuStep
  \/ Done

Spec == Init /\ [][Next]_vars

\* A call that has begun goes on, the CS thread runs and the GPU finishes what
\* is submitted.  Nobody is obliged to call.
FairSpec ==
  /\ Spec
  /\ \A a \in Callers : WF_vars(CallStep(a))
  /\ WF_vars(CsStep)
  /\ WF_vars(GpuStep)

-----------------------------------------------------------------------------
(* Properties.                                                             *)

ListType == [uses : SUBSET [buf : Buffers, slice : Slices, access : Access],
             retired : SUBSET [buf : Buffers, slice : Slices]]

Issued == {cmd \in Command : cmd.op = "use" => cmd.slice # NoSlice}

\* Every variable has the type of its declaration, and what is dispatched means
\* a slice.
TypeOK ==
  /\ CsTypeOK
  /\ queued \in Seq(Seq(Issued))
  /\ ctxLock \in Callers \cup {Free}
  /\ app \in [Callers -> {"ready", "flushChunk", "synchronize", "decide", "poll",
                          "pollAgain", "wait", "stop", "join", "done"}]
  /\ ret \in [Callers -> {"ready", "decide", "pollAgain", "wait", "stop"}]
  /\ map \in [Callers -> [buf : Buffers, type : MapType, noWait : BOOLEAN]]
  /\ csChunk \in Seq(Command)
  /\ csSeqNum \in Nat
  /\ csIsBusy \in BOOLEAN
  /\ seqOf \in [Buffers -> Nat]
  /\ mapped \in [Buffers -> Slices]
  /\ phys \in [Buffers -> Slices]
  /\ free \in [Buffers -> SUBSET Slices]
  /\ recording \in ListType
  /\ submitted \in Seq(ListType)
  /\ deferred \in Seq(Seq(Command))
  /\ closing \in BOOLEAN
  /\ usage \in [Buffers -> Usages]

\* Commands that are recorded and not executed, in the order of execution.
Unexecuted == chunk \o FlattenSeq(queued) \o csChunk

PendingUses ==
  UsesOfLists \cup {[buf |-> c.buf, slice |-> c.slice, access |-> c.access] :
                      c \in {x \in Pending(Unexecuted) : x.op = "use"}}

\* The slice Map returns is free of conflicting work: no pending or executing
\* command writes it when it is read, or touches it when it is written; nor does
\* any touch a slice a discard gives out.
MapReturnsIdle ==
  [][/\ \A a \in Callers :
          MapIdle(a) \/ WaitForResource(a)
          => \A u \in PendingUses :
               u.buf = map[a].buf /\ u.slice = mapped[u.buf] /\ usage[u.buf] # "shared"
               => map[a].type = "READ" /\ u.access = "R"
     /\ \A b \in Buffers :
          mapped'[b] # mapped[b] /\ usage[b] # "shared"
          => \A u \in PendingUses : ~(u.buf = b /\ u.slice = mapped'[b])]_vars

\* A command works on the slice that was mapped when the application issued it:
\* later discards, which the CS thread applies in order, do not reach it.
UsesIssuedSlice ==
  csPc = "execute" /\ chunk # <<>> /\ Head(chunk).op = "use"
  /\ usage[Head(chunk).buf] # "shared"
  => phys[Head(chunk).buf] = Head(chunk).slice

\* A slice that can be allocated is not bound, no command list in flight works
\* on it, and none will free it a second time; whatever deferred contexts do.
InFlightIsTaken ==
  \A b \in Buffers :
    /\ phys[b] \notin free[b]
    /\ \A u \in UsesOfLists : u.buf = b => u.slice \notin free[b]
    /\ \A l \in {recording} \cup Pending(submitted) :
         \A r \in l.retired : r.buf = b => r.slice \notin free[b]

\* Nor does anything recorded and not executed use it or bind it: what the
\* application writes after a discard is seen by no earlier command.
FreeSlicesAreIdle ==
  \A c \in Pending(Unexecuted) :
    c.op \in {"use", "rename"} /\ usage[c.buf] # "shared"
    => c.slice \notin free[c.buf]

\* The slice b will have when everything recorded has been executed.
FinalSlice(b) ==
  LET renames == {i \in DOMAIN Unexecuted :
                    Unexecuted[i].op = "rename" /\ Unexecuted[i].buf = b}
  IN IF renames = {} THEN phys[b]
     ELSE Unexecuted[CHOOSE i \in renames : \A j \in renames : j <= i].slice

\* A map that keeps the contents (NO_OVERWRITE, READ) sees the slice commands
\* will use, of every buffer that deferred contexts do not discard.
MappedIsFinal ==
  \A b \in Buffers : usage[b] # "shared" => mapped[b] = FinalSlice(b)

\* "This assumes that the only way to invalidate a buffer is by mapping it"
\* (d3d11_context_imm.cpp:394): the same of all buffers.
OnlyMapInvalidates == \A b \in Buffers : mapped[b] = FinalSlice(b)

\* Nothing that was recorded is lost when the context is destroyed.
NothingDropped ==
  csPc = "exited" => Unexecuted = <<>> /\ recording = NewList

\* Map returns, whatever is recorded, queued or executing.
MapReturns ==
  \A a \in Callers : app[a] \notin {"ready", "done"} ~> app[a] \in {"ready", "done"}

\* The slices a discard replaces become free again.
SlicesComeBack ==
  \A b \in Buffers, s \in Slices :
    (\E l \in Pending(submitted) : [buf |-> b, slice |-> s] \in l.retired)
    ~> s \in free[b]

-----------------------------------------------------------------------------
(* Why they hold: the parts of an inductive invariant.                     *)

\* Every chunk that is dispatched is counted on both sides, and commands are
\* left only while the thread executes.
StreamInv ==
  /\ CsInv
  /\ chunk \in Seq(Issued)
  /\ csChunk \in Seq(Issued)
  /\ csSeqNum = dispatched
  /\ chunk # <<>> => csPc = "execute"
  /\ csPc = "exited" => csStopped

\* In u the slice s replaces the one of b.
Renamed(u, b, s) == \E i \in DOMAIN u : u[i] = Rename(b, s)

RenamedOnce(u) ==
  \A i, j \in DOMAIN u : u[i].op = "rename" /\ u[i] = u[j] => i = j

\* The command lists in flight, oldest first.
Lists == Append(submitted, recording)

Retired(lists, b, s) ==
  \E k \in DOMAIN lists : [buf |-> b, slice |-> s] \in lists[k].retired

RetiredOnce(lists) ==
  \A k, m \in DOMAIN lists : lists[k].retired \cap lists[m].retired # {} => k = m

\* A slice a list uses is bound, or retired by this list or a later one.
UsesCovered(lists, bound) ==
  \A k \in DOMAIN lists : \A u \in lists[k].uses :
    \/ u.slice = bound[u.buf]
    \/ \E m \in DOMAIN lists :
         m >= k /\ [buf |-> u.buf, slice |-> u.slice] \in lists[m].retired

\* A slice is bound, or retired once, or free, ...
ListsOwn(lists, bound, avail) ==
  /\ \A b \in Buffers : bound[b] \notin avail[b]
  /\ \A b \in Buffers, s \in Slices :
       Retired(lists, b, s) => s # bound[b] /\ s \notin avail[b]
  /\ RetiredOnce(lists)
  /\ UsesCovered(lists, bound)

\* ... or s is to replace the one of b ...
Reserved(lists, bound, avail, b, s) ==
  s # bound[b] /\ s \notin avail[b] /\ ~Retired(lists, b, s)

\* ... by one command of u ...
CommandsOwn(u, lists, bound, avail) ==
  /\ \A b \in Buffers, s \in Slices :
       Renamed(u, b, s) => Reserved(lists, bound, avail, b, s)
  /\ RenamedOnce(u)

\* ... or of the deferred list.
DeferredOwns ==
  \/ deferred = <<>>
  \/ \E b \in Buffers :
       /\ usage[b] = "staging"
       /\ deferred = DeferredList(Use(b, NoSlice, "R"), Use(b, NoSlice, "W"))
  \/ \E b \in Buffers, s \in Slices :
       /\ usage[b] = "shared"
       /\ deferred = DeferredList(Rename(b, s), Use(b, s, "R"))
       /\ Reserved(Lists, phys, free, b, s)
       /\ ~Renamed(Unexecuted, b, s)

IsRename(c, b) == c.op = "rename" /\ c.buf = b

\* When the first p - 1 commands of u have been executed, b has the slice s, if
\* it has first now.
BoundAt(u, first, b, p, s) ==
  \/ s = first /\ \A i \in 1..(p - 1) : ~IsRename(u[i], b)
  \/ \E i \in 1..(p - 1) :
       /\ IsRename(u[i], b) /\ u[i].slice = s
       /\ \A j \in (i + 1)..(p - 1) : ~IsRename(u[j], b)

\* Every use of u finds its slice bound, and final has what is bound in the end.
Chained(u, bound, final) ==
  \A b \in Buffers :
    usage[b] # "shared" =>
      /\ \A p \in DOMAIN u :
           u[p].op = "use" /\ u[p].buf = b => BoundAt(u, bound[b], b, p, u[p].slice)
      /\ BoundAt(u, bound[b], b, Len(u) + 1, final[b])

SliceInv ==
  /\ ListsOwn(Lists, phys, free)
  /\ CommandsOwn(Unexecuted, Lists, phys, free)
  /\ DeferredOwns
  /\ Chained(Unexecuted, phys, mapped)

\* When nothing is recorded since the last flush, the flush is the last command.
EndsFlushed(u) ==
  IF u = <<>> THEN recording = NewList ELSE u[Len(u)] = FlushCommand

FlushInv == csChunk = <<>> /\ ~csIsBusy => EndsFlushed(Unexecuted)

\* The numbers of the chunks that use a tracked buffer do not exceed its own.
UsesTracked(u, b) == \E i \in DOMAIN u : u[i].op = "use" /\ u[i].buf = b

SeqInv ==
  \A b \in Tracked :
    /\ UsesTracked(chunk, b) => seqOf[b] > ran
    /\ \A i \in DOMAIN queued :
         UsesTracked(queued[i], b)
         => seqOf[b] >= i + ran + (IF csPc = "execute" THEN 1 ELSE 0)
    /\ UsesTracked(csChunk, b) => seqOf[b] > csSeqNum

\* One thread is in a call, or the context is being destroyed.
CallInv ==
  /\ \A a \in Callers :
       /\ ~closing => (app[a] # "ready" <=> ctxLock = a)
       /\ ~closing => app[a] \notin {"stop", "join", "done"}
       /\ ~closing /\ app[a] \in {"flushChunk", "synchronize"} => ret[a] \in {"decide", "pollAgain", "wait"}
       /\ closing => app[a] \in {"ready", "flushChunk", "synchronize", "stop", "join", "done"}
       /\ closing /\ app[a] \in {"flushChunk", "synchronize"} => ret[a] = "stop"
       /\ sync[a] # "idle" => app[a] \in {"decide", "pollAgain", "wait", "stop"}
  /\ closing => ctxLock = Free /\ csChunk = <<>> /\ ~csIsBusy

\* What a call waits for.
SyncGoal(a) == IF SyncTarget(a) = All THEN dispatched ELSE SyncTarget(a)

SyncInv ==
  /\ \A a \in Callers :
       /\ app[a] \in {"synchronize", "decide", "pollAgain", "wait", "stop"}
            /\ SyncTarget(a) = All
          => csChunk = <<>>
       /\ sync[a] = "lock" => seqArg[a] = SyncTarget(a)
       /\ sync[a] = "wait" => seqArg[a] = SyncGoal(a)
       /\ app[a] \in {"decide", "pollAgain", "wait", "stop"} /\ sync[a] = "idle"
          => executed >= SyncGoal(a)
  /\ csStopped => closing /\ executed = dispatched

ContextInv ==
  /\ TypeOK
  /\ StreamInv
  /\ SliceInv
  /\ FlushInv
  /\ SeqInv
  /\ CallInv
  /\ SyncInv
=============================================================================
