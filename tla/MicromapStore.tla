---------------------------- MODULE MicromapStore ----------------------------
(***************************************************************************)
(* The portable opacity micromap cache (rtx_omm_cache.h): the Store with   *)
(* its records, job queue and worker thread, the files it keeps, and the   *)
(* items of OpacityMicromapManager that request, bake and publish arrays.  *)
(* A process may crash between any two steps, and the machine may lose     *)
(* power; the files outlive both.                                          *)
(*                                                                         *)
(* Sizes are in units of which the store may keep MaxBytes.  The bytes of  *)
(* a key are determined by the key (it hashes all the bake depends on), so *)
(* a file or a record holds the whole array or something else, Damaged.    *)
(***************************************************************************)
EXTENDS Integers, Sequences, FiniteSets, FiniteSetsExt, SequencesExt

CONSTANTS Keys,
          KeyOrder,    \* the order in which m_records is iterated
          Size,        \* expectedBytes of a key
          MaxBytes,    \* kMaxBytes
          MaxRecords,  \* the 128
          MaxJobs,     \* the 8
          Records,     \* bound: Record objects alive at a time
          MaxItems     \* bound: items of a key that get a record in a process

ASSUME StoreAssumption ==
    /\ IsFiniteSet(Keys) /\ Keys # {}
    /\ KeyOrder \in [1 .. Cardinality(Keys) -> Keys]
    /\ \A k \in Keys : \E i \in DOMAIN KeyOrder : KeyOrder[i] = k
    /\ Size \in [Keys -> 1 .. MaxBytes]
    /\ {MaxBytes, MaxRecords, MaxJobs} \subseteq Nat \ {0}
    /\ MaxItems \in [Keys -> Nat]

None    == 0      \* no record
Whole   == "whole"
Damaged == "damaged"
Absent  == "absent"

ASSUME RecordsAssumption == None \notin Records

VARIABLES
    (* guarded by m_mutex *)
    records,          \* m_records: record of each key, or None
    reservedBytes, queuedWriteBytes, stop,
    jobs,             \* m_jobs
    rec,              \* the Record objects
    (* the worker *)
    wpc, job,
    (* the folder *)
    file,             \* the file of each key
    tmp,              \* the temporary file of the write under way
    (* the manager *)
    item, held,       \* the item of each key and its reuse.record
    readbacks,        \* keys of m_ommReadbacks
    created           \* counter for the bound

store   == <<records, reservedBytes, queuedWriteBytes, stop, jobs>>
folder  == <<file, tmp>>
manager == <<item, held, readbacks, created>>
vars == <<store, rec, wpc, job, folder, manager>>

(* An item without a record: not created, done, or waiting to ask.         *)
Idle == "none"

NoJob == [key |-> CHOOSE k \in Keys : TRUE, record |-> None, save |-> FALSE]

Free == [key |-> CHOOSE k \in Keys : TRUE, state |-> "Miss", bytes |-> Absent, reserved |-> 0]

(* Files of an earlier version of the program may be there already.        *)
Init ==
    /\ records = [k \in Keys |-> None]
    /\ reservedBytes = 0 /\ queuedWriteBytes = 0 /\ stop = FALSE
    /\ jobs = <<>>
    /\ rec = [r \in Records |-> Free]
    /\ wpc = "wait" /\ job = NoJob
    /\ item = [k \in Keys |-> Idle] /\ held = [k \in Keys |-> None]
    /\ readbacks = {} /\ created = [k \in Keys |-> 0]
    /\ file \in [Keys -> {Absent, Whole, Damaged}]
    /\ tmp = Absent

-----------------------------------------------------------------------------
(* Shared pointers.                                                        *)

References(r) == Cardinality({k \in Keys : records[k] = r})
                 + Cardinality({k \in Keys : held[k] = r})
                 + Cardinality({i \in DOMAIN jobs : jobs[i].record = r})
                 + (IF job.record = r THEN 1 ELSE 0)

Unused == {r \in Records : References(r) = 0}

(* The object the next allocation returns.                                 *)
Unallocated == CHOOSE r \in Unused : TRUE

(* The objects after a step; one no pointer refers to is given back.       *)
Objects(recs) ==
    rec' = [r \in Records |-> IF References(r)' = 0 THEN Free ELSE recs[r]]

-----------------------------------------------------------------------------
(* Store.                                                                  *)

(* Mutant: a record is evicted although an item still uses its bytes.      *)
AnyDecided(r) == rec[r].state # "Pending"

(* trim never evicts a read in flight, nor an array somebody refers to.    *)
Evictable(r) == rec[r].state = "Miss" \/ (References(r) = 1 /\ rec[r].state # "Pending")

Count(recs) == Cardinality({k \in Keys : recs[k] # None})

Over(s, incoming) == s.reserved + incoming > MaxBytes \/ Count(s.records) >= MaxRecords

EvictNext(s, k, incoming) ==
    IF Over(s, incoming) /\ s.records[k] # None /\ Evictable(s.records[k])
    THEN [records |-> [s.records EXCEPT ![k] = None],
          reserved |-> s.reserved - rec[s.records[k]].reserved]
    ELSE s

Trimmed(s, incoming) ==
    FoldLeft(LAMBDA acc, k : EvictNext(acc, k, incoming), s, KeyOrder)

Room(s, incoming) == s.reserved + incoming <= MaxBytes /\ Count(s.records) < MaxRecords

(* Warm reads do not sit behind queued writes: i is the position of the    *)
(* first of them, or the end.                                              *)
BeforeWrites(i) ==
    /\ i <= Len(jobs) => jobs[i].save
    /\ \A n \in 1 .. i - 1 : ~jobs[n].save

NewRecord(k, state, bytes) ==
    [key |-> k, state |-> state, bytes |-> bytes, reserved |-> Size[k]]

(* The three ways out of request, which asks for the record r of k or a   *)
(* new one.  A refused item asks again in a later frame.                   *)
Refers(k, r) ==
    /\ held' = [held EXCEPT ![k] = r]
    /\ item' = [item EXCEPT ![k] = "waits"]
    /\ created' = [created EXCEPT ![k] = @ + 1]

Found(k) ==
    /\ records[k] # None
    /\ Refers(k, records[k])
    /\ UNCHANGED <<store, rec>>

Refused(k, s) ==
    /\ records[k] = None
    /\ Len(jobs) >= MaxJobs \/ ~Room(s, Size[k])
    /\ records' = s.records /\ reservedBytes' = s.reserved
    /\ UNCHANGED <<queuedWriteBytes, stop, jobs, item, held, created>>
    /\ Objects(rec)

Queued(k, s) ==
    /\ records[k] = None
    /\ Len(jobs) < MaxJobs /\ Room(s, Size[k])
    /\ records' = [s.records EXCEPT ![k] = Unallocated]
    /\ reservedBytes' = s.reserved + Size[k]
    /\ \E i \in 1 .. Len(jobs) + 1 :
          /\ BeforeWrites(i)
          /\ jobs' = InsertAt(jobs, i, [key |-> k, record |-> Unallocated, save |-> FALSE])
    /\ Refers(k, Unallocated)
    /\ UNCHANGED <<queuedWriteBytes, stop>>
    /\ Objects([rec EXCEPT ![Unallocated] = NewRecord(k, "Pending", Absent)])

Request(k) ==
    /\ item[k] = Idle /\ created[k] < MaxItems[k] /\ ~stop /\ Unused # {}
    /\ UNCHANGED <<wpc, job, folder, readbacks>>
    /\ LET s == Trimmed([records |-> records, reserved |-> reservedBytes], Size[k])
       IN Found(k) \/ Refused(k, s) \/ Queued(k, s)

(* A baked array comes back from the GPU.                                  *)
Publish(k) ==
    /\ k \in readbacks /\ ~stop /\ Unused # {}
    /\ UNCHANGED <<stop, wpc, job, folder, item, held, created>>
    /\ readbacks' = readbacks \ {k}
    /\ LET r   == Unallocated
           old == records[k]
           s   == Trimmed([records  |-> [records EXCEPT ![k] = None],
                           reserved |-> reservedBytes -
                                        (IF old = None THEN 0 ELSE rec[old].reserved)],
                          Size[k])
           keeps == Room(s, Size[k])
           saves == Len(jobs) < MaxJobs /\ queuedWriteBytes + Size[k] <= MaxBytes
       IN /\ records' = IF keeps THEN [s.records EXCEPT ![k] = r] ELSE s.records
          /\ reservedBytes' = s.reserved + (IF keeps THEN Size[k] ELSE 0)
          /\ jobs' = IF saves THEN Append(jobs, [key |-> k, record |-> r, save |-> TRUE])
                     ELSE jobs
          /\ queuedWriteBytes' = queuedWriteBytes + (IF saves THEN Size[k] ELSE 0)
          /\ Objects([rec EXCEPT ![r] = NewRecord(k, "Hit", Whole)])

(* The destructor; it joins the worker.                                    *)
Stop ==
    /\ ~stop /\ stop' = TRUE
    /\ UNCHANGED <<records, reservedBytes, queuedWriteBytes, jobs, rec, wpc, job, folder,
                   manager>>

-----------------------------------------------------------------------------
(* The worker.                                                             *)

TakeJob ==
    /\ wpc = "wait" /\ jobs # <<>>
    /\ job' = Head(jobs) /\ jobs' = Tail(jobs)
    /\ wpc' = IF Head(jobs).save THEN "write" ELSE "read"
    /\ UNCHANGED <<records, reservedBytes, queuedWriteBytes, stop, rec, folder, manager>>

(* Mutant: the stop is looked at before the queue.                         *)
AtOnce == stop

MayExit == stop /\ jobs = <<>>

Exit ==
    /\ wpc = "wait" /\ MayExit
    /\ wpc' = "exited"
    /\ UNCHANGED <<store, rec, job, folder, manager>>

(* Mutant: the checksum is not compared.                                   *)
Exists(f) == f # Absent

(* The length, the key and the checksum of the file are right.             *)
Valid(f) == f = Whole

(* Mutant: the exception handler leaves the record as it is.               *)
LeftPending == "Pending"

FailedRead == "Miss"

(* read fills the bytes before the state says so; it may also fail, or     *)
(* throw, on a good file.                                                  *)
ReadFile ==
    /\ wpc = "read"
    /\ UNCHANGED <<store, job, folder, manager>>
    /\ \/ /\ Valid(file[job.key])
          /\ Objects([rec EXCEPT ![job.record].bytes = file[job.key]])
          /\ wpc' = "hit"
       \/ /\ Objects([rec EXCEPT ![job.record].state = FailedRead])
          /\ wpc' = "release"

DecideHit ==
    /\ wpc = "hit"
    /\ UNCHANGED <<store, folder, manager>>
    /\ job' = NoJob
    /\ Objects([rec EXCEPT ![job.record].state = "Hit"])
    /\ wpc' = "wait"

(* Mutant: the bytes of a record no longer in the map are given back too.  *)
AnyRecord == TRUE

IsCurrent == records[job.key] = job.record

(* A miss does not reserve the bytes other reads need.                     *)
ReleaseMiss ==
    /\ wpc = "release"
    /\ UNCHANGED <<records, queuedWriteBytes, stop, jobs, folder, manager>>
    /\ job' = NoJob
    /\ IF IsCurrent
       THEN /\ reservedBytes' = reservedBytes - rec[job.record].reserved
            /\ Objects([rec EXCEPT ![job.record].reserved = 0])
       ELSE /\ UNCHANGED reservedBytes
            /\ Objects(rec)
    /\ wpc' = "wait"

(* Mutant: the stream is not tested after the flush.                       *)
Untested == "rename"

FailedWrite == "saved"

(* write: the temporary file is opened, written and flushed; each may fail *)
(* and leave part of it, to be overwritten by the next write of the key.   *)
WriteTemporary ==
    /\ wpc = "write"
    /\ \/ tmp' = rec[job.record].bytes /\ wpc' = "rename"
       \/ tmp' = Damaged /\ wpc' = FailedWrite
    /\ UNCHANGED <<store, rec, job, file, manager>>

(* A rename that fails is tried once more, with the old file removed.      *)
Rename ==
    /\ wpc \in {"rename", "retry"}
    /\ \/ /\ file' = [file EXCEPT ![job.key] = tmp]
          /\ wpc' = "saved"
       \/ /\ wpc = "rename"
          /\ \/ UNCHANGED file
             \/ file' = [file EXCEPT ![job.key] = Absent]
          /\ wpc' = "retry"
       \/ /\ wpc = "retry"
          /\ UNCHANGED file
          /\ wpc' = "saved"
    /\ UNCHANGED <<store, rec, job, tmp, manager>>

AfterWrite == queuedWriteBytes - Size[job.key]

Saved ==
    /\ wpc = "saved"
    /\ UNCHANGED <<records, reservedBytes, stop, jobs, file, manager>>
    /\ queuedWriteBytes' = AfterWrite
    /\ job' = NoJob
    /\ tmp' = Absent
    /\ wpc' = "wait"
    /\ Objects(rec)

-----------------------------------------------------------------------------
(* OpacityMicromapManager.                                                 *)

(* A hit is uploaded, and writeToBuffer copies the bytes; a baked item is  *)
(* built; or the item is destroyed, at any time.                           *)
Drop(k) ==
    /\ item[k] # Idle /\ ~stop
    /\ UNCHANGED <<store, wpc, job, folder, readbacks, created>>
    /\ item' = [item EXCEPT ![k] = Idle]
    /\ held' = [held EXCEPT ![k] = None]
    /\ Objects(rec)

(* A miss is baked, over many frames, with the record still referred to.   *)
(* saveBakedArray gives up when there is no room for one more readback.    *)
FinishBake(k) ==
    /\ item[k] = "waits" /\ ~stop /\ rec[held[k]].state = "Miss"
    /\ item' = [item EXCEPT ![k] = "baked"]
    /\ readbacks' \in {readbacks, readbacks \cup {k}}
    /\ UNCHANGED <<store, rec, wpc, job, folder, held, created>>

-----------------------------------------------------------------------------
(* The process ends, in an orderly way or not, and another one starts.  A  *)
(* power failure tears what was not written through to the disk.           *)
Restart ==
    /\ \E torn \in SUBSET {k \in Keys : file[k] # Absent} :
          file' = [k \in Keys |-> IF k \in torn THEN Damaged ELSE file[k]]
    /\ tmp' = Absent
    /\ records' = [k \in Keys |-> None]
    /\ reservedBytes' = 0 /\ queuedWriteBytes' = 0 /\ stop' = FALSE
    /\ jobs' = <<>>
    /\ rec' = [r \in Records |-> Free]
    /\ wpc' = "wait" /\ job' = NoJob
    /\ item' = [k \in Keys |-> Idle] /\ held' = [k \in Keys |-> None]
    /\ readbacks' = {} /\ created' = [k \in Keys |-> 0]

Worker ==
    \/ TakeJob \/ Exit
    \/ ReadFile \/ DecideHit \/ ReleaseMiss
    \/ WriteTemporary \/ Rename \/ Saved

Next ==
    \/ Worker
    \/ \E k \in Keys :
          \/ Request(k) \/ Publish(k)
          \/ FinishBake(k) \/ Drop(k)
    \/ Stop
    \/ Restart

(* The worker is a thread of its own that waits for nothing but its queue. *)
Spec == Init /\ [][Next]_vars /\ WF_vars(Worker)

-----------------------------------------------------------------------------
(* Properties.                                                             *)

Contents == {Absent, Whole, Damaged}

Jobs == [key : Keys, record : Records \cup {None}, save : BOOLEAN]

(* The queue never exceeds its limit, and every pointer refers to an       *)
(* object of its own key, however request, publish, trim and the worker    *)
(* interleave.                                                             *)
TypeOK ==
    /\ records \in [Keys -> Records \cup {None}] /\ held \in [Keys -> Records \cup {None}]
    /\ reservedBytes \in 0 .. MaxBytes /\ queuedWriteBytes \in 0 .. MaxBytes
    /\ stop \in BOOLEAN
    /\ jobs \in Seq(Jobs) /\ Len(jobs) <= MaxJobs /\ job \in Jobs
    /\ rec \in [Records -> [key : Keys, state : {"Pending", "Hit", "Miss"},
                            bytes : Contents, reserved : 0 .. MaxBytes]]
    /\ wpc \in {"wait", "exited", "read", "hit", "release", "write", "rename", "retry", "saved"}
    /\ file \in [Keys -> Contents] /\ tmp \in Contents
    /\ item \in [Keys -> {Idle, "waits", "baked"}]
    /\ readbacks \subseteq Keys
    /\ \A k \in Keys : created[k] \in 0 .. MaxItems[k]
    /\ \A k \in Keys : \A r \in {records[k], held[k]} \ {None} : rec[r].key = k

Total(keys, value(_)) == MapThenSumSet(value, keys)

(* m_reservedBytes is the sum of what the records in the map reserve, so   *)
(* a miss is paid back once, by the worker or by whoever removed it, and   *)
(* never both; else the store refuses reads for ever or keeps too much.    *)
ReservedExact ==
    reservedBytes = Total({k \in Keys : records[k] # None},
                          LAMBDA k : rec[records[k]].reserved)

(* m_queuedWriteBytes is the size of the arrays that wait for the worker   *)
(* or are being written, through failed opens, writes and renames.         *)
QueuedWritesExact ==
    queuedWriteBytes = Total({i \in DOMAIN jobs : jobs[i].save},
                             LAMBDA i : Size[jobs[i].key])
                       + (IF job.save THEN Size[job.key] ELSE 0)

AccountsExact == ReservedExact /\ QueuedWritesExact

(* Whoever sees Hit sees the whole array: neither a damaged file of an     *)
(* earlier process, nor a power failure, nor a read under way gives an     *)
(* item other bytes to upload.                                             *)
HitIsComplete == \A r \in Records : References(r) > 0 /\ rec[r].state = "Hit"
                                    => rec[r].bytes = Whole

(* Room made by trim is room: a Hit it removes from the map is freed.      *)
(* Only a published array takes the place of one still in use.             *)
EvictionFrees ==
    [][\A k \in Keys :
          LET r == records[k]
          IN /\ r # None /\ records'[k] # r
             /\ rec[r].state = "Hit"
             /\ ~ (k \in readbacks /\ k \notin readbacks')
             => rec'[r] = Free]_vars

(* "partially written data is never used": as long as the power stays on,  *)
(* no step of a writer, and no crash, leaves part of an array as the file. *)
FileIsReplacedWhole ==
    [][Restart \/ \A k \in Keys : file'[k] = Damaged => file[k] = Damaged]_vars

(* Items that wait for a record learn whether it is a hit, also if the     *)
(* file is damaged, the read throws or the program ends meanwhile.         *)
SomePending == \E k \in Keys : records[k] # None /\ rec[records[k]].state = "Pending"

PendingIsDecided == SomePending ~> ~SomePending

(* A save that was accepted is taken up, also when the store is being      *)
(* destroyed: the destructor joins a worker that drains the queue.  Only   *)
(* the end of the process can take it away.                                *)
SomeSave == \E i \in DOMAIN jobs : jobs[i].save

AcceptedIsSaved == SomeSave ~> ~SomeSave

=============================================================================
