------------------------- MODULE MicromapStoreProofs -------------------------
(***************************************************************************)
(* Proofs about MicromapStore, for any keys, sizes and limits: nobody sees *)
(* part of an array as a hit, no file becomes part of an array, both byte  *)
(* counters are exact and in the budget, and what trim evicts is freed.    *)
(***************************************************************************)
EXTENDS MicromapStore, DataInduction

Object == [key : Keys, state : {"Pending", "Hit", "Miss"}, bytes : Contents, reserved : Nat]

StoreType ==
    /\ rec \in [Records -> Object]
    /\ jobs \in Seq(Jobs) /\ job \in Jobs
    /\ file \in [Keys -> Contents] /\ tmp \in Contents

HitsAreWhole == \A r \in Records : rec[r].state = "Hit" => rec[r].bytes = Whole

(* A queued job keeps its record alive, and a queued save has the array.   *)
QueuedRecords ==
    \A i \in DOMAIN jobs :
        /\ jobs[i].record \in Records
        /\ jobs[i].save => rec[jobs[i].record].bytes = Whole

(* So does the worker with its job, between the steps of a read: the bytes *)
(* are there before the state says so; and of a write: the temporary file  *)
(* is whole before it is renamed.                                          *)
WorkersRecord ==
    /\ wpc \in {"read", "hit", "release", "write"} => job.record \in Records
    /\ wpc \in {"hit", "write"} => rec[job.record].bytes = Whole
    /\ wpc \in {"rename", "retry"} => tmp = Whole

StoreInv == StoreType /\ HitsAreWhole /\ QueuedRecords /\ WorkersRecord

-----------------------------------------------------------------------------
(* The pointers of one kind: their number is zero when there are none.     *)
LEMMA KeyCount ==
    ASSUME NEW A \in SUBSET Keys
    PROVE  Cardinality(A) \in Nat /\ (Cardinality(A) = 0 <=> A = {})
  BY FS_Subset, FS_CardinalityType, FS_EmptySet, StoreAssumption

LEMMA IndexCount ==
    ASSUME NEW n \in Nat, NEW C \in SUBSET (1 .. n)
    PROVE  Cardinality(C) \in Nat /\ (Cardinality(C) = 0 <=> C = {})
  <1>1. IsFiniteSet(1 .. n)
    BY FS_Interval
  <1> QED
    BY <1>1, FS_Subset, FS_CardinalityType, FS_EmptySet

(* Their sum is zero when there are none, and may be one of the first kind. *)
LEMMA PointerCount ==
    ASSUME NEW a \in Nat, NEW b \in Nat, NEW c \in Nat, NEW d \in {0, 1}
    PROVE  /\ a + b + c + d = 0 <=> a = 0 /\ b = 0 /\ c = 0 /\ d = 0
           /\ a + b + c + d = 1 /\ a # 0 => b = 0 /\ c = 0 /\ d = 0
  OBVIOUS

LEMMA ReferredTo ==
    ASSUME jobs \in Seq(Jobs), NEW r
    PROVE  /\ job.record = r => References(r) # 0
           /\ (\E i \in DOMAIN jobs : jobs[i].record = r) => References(r) # 0
           /\ (\E k \in Keys : records[k] = r \/ held[k] = r) => References(r) # 0
           /\ References(r) = 1 /\ (\E k \in Keys : records[k] = r)
                => /\ \A k \in Keys : held[k] # r
                   /\ \A i \in DOMAIN jobs : jobs[i].record # r
                   /\ job.record # r
  <1> DEFINE A == {k \in Keys : records[k] = r}
             B == {k \in Keys : held[k] = r}
             C == {i \in DOMAIN jobs : jobs[i].record = r}
             d == IF job.record = r THEN 1 ELSE 0
  <1>1. A \in SUBSET Keys /\ B \in SUBSET Keys /\ d \in {0, 1}
    OBVIOUS
  <1>2. Len(jobs) \in Nat /\ C \in SUBSET (1 .. Len(jobs))
    OBVIOUS
  <1>3. /\ job.record = r <=> d = 1
        /\ (\E i \in DOMAIN jobs : jobs[i].record = r) <=> C # {}
        /\ (\E k \in Keys : records[k] = r) <=> A # {}
        /\ (\E k \in Keys : held[k] = r) <=> B # {}
    OBVIOUS
  <1> DEFINE t == References(r)
  <1>4. t = Cardinality(A) + Cardinality(B) + Cardinality(C) + d
    BY DEF References
  <1> HIDE DEF A, B, C, d, t
  <1>5. PICK a \in Nat, b \in Nat, c \in Nat :
           /\ t = a + b + c + d
           /\ a = 0 <=> A = {}
           /\ b = 0 <=> B = {}
           /\ c = 0 <=> C = {}
    <2>1. Cardinality(A) \in Nat /\ (Cardinality(A) = 0 <=> A = {})
      BY <1>1, KeyCount
    <2>2. Cardinality(B) \in Nat /\ (Cardinality(B) = 0 <=> B = {})
      BY <1>1, KeyCount
    <2>3. Cardinality(C) \in Nat /\ (Cardinality(C) = 0 <=> C = {})
      BY <1>2, IndexCount
    <2> QED
      BY <1>4, <2>1, <2>2, <2>3
  <1>6. /\ t = 0 <=> A = {} /\ B = {} /\ C = {} /\ d = 0
        /\ t = 1 /\ A # {} => B = {} /\ C = {} /\ d = 0
    BY <1>1, <1>5, PointerCount
  <1> QED
    BY <1>1, <1>3, <1>6 DEF t

LEMMA ReferredToNext ==
    ASSUME jobs' \in Seq(Jobs), NEW r
    PROVE  /\ job'.record = r => References(r)' # 0
           /\ (\E i \in DOMAIN jobs' : jobs'[i].record = r) => References(r)' # 0
           /\ (\E k \in Keys : records'[k] = r \/ held'[k] = r) => References(r)' # 0
           /\ /\ \A k \in Keys : records'[k] # r /\ held'[k] # r
              /\ \A i \in DOMAIN jobs' : jobs'[i].record # r
              /\ job'.record # r
              => References(r)' = 0
  <1> DEFINE A == {k \in Keys : records'[k] = r}
             B == {k \in Keys : held'[k] = r}
             C == {i \in DOMAIN jobs' : jobs'[i].record = r}
             d == IF job'.record = r THEN 1 ELSE 0
  <1>1. A \in SUBSET Keys /\ B \in SUBSET Keys /\ d \in {0, 1}
    OBVIOUS
  <1>2. Len(jobs') \in Nat /\ C \in SUBSET (1 .. Len(jobs'))
    OBVIOUS
  <1>3. /\ job'.record = r <=> d = 1
        /\ (\E i \in DOMAIN jobs' : jobs'[i].record = r) <=> C # {}
        /\ (\E k \in Keys : records'[k] = r) <=> A # {}
        /\ (\E k \in Keys : held'[k] = r) <=> B # {}
    OBVIOUS
  <1> DEFINE t == References(r)'
  <1>4. t = Cardinality(A) + Cardinality(B) + Cardinality(C) + d
    BY DEF References
  <1> HIDE DEF A, B, C, d, t
  <1>5. PICK a \in Nat, b \in Nat, c \in Nat :
           /\ t = a + b + c + d
           /\ a = 0 <=> A = {}
           /\ b = 0 <=> B = {}
           /\ c = 0 <=> C = {}
    <2>1. Cardinality(A) \in Nat /\ (Cardinality(A) = 0 <=> A = {})
      BY <1>1, KeyCount
    <2>2. Cardinality(B) \in Nat /\ (Cardinality(B) = 0 <=> B = {})
      BY <1>1, KeyCount
    <2>3. Cardinality(C) \in Nat /\ (Cardinality(C) = 0 <=> C = {})
      BY <1>2, IndexCount
    <2> QED
      BY <1>4, <2>1, <2>2, <2>3
  <1>6. /\ t = 0 <=> A = {} /\ B = {} /\ C = {} /\ d = 0
        /\ t = 1 /\ A # {} => B = {} /\ C = {} /\ d = 0
    BY <1>1, <1>5, PointerCount
  <1> QED
    BY <1>1, <1>3, <1>6 DEF t

(* A step changes the objects as it says, or frees them; a freed object is *)
(* one that no pointer refers to.                                          *)
LEMMA ObjectsFacts ==
    ASSUME NEW recs \in [Records -> Object], Objects(recs)
    PROVE  /\ rec' \in [Records -> Object]
           /\ \A r \in Records : rec'[r] = recs[r] \/ rec'[r] = Free
           /\ \A r \in Records : References(r)' # 0 => rec'[r] = recs[r]
  <1>1. Free \in Object
    BY StoreAssumption DEF Free, Object, Contents
  <1> QED
    BY <1>1 DEF Objects

(* What is allocated is referred to by nobody before.                      *)
LEMMA AllocationFacts ==
    ASSUME StoreInv, Unused # {}
    PROVE  /\ Unallocated \in Records
           /\ job.record # Unallocated
           /\ \A i \in DOMAIN jobs : jobs[i].record # Unallocated
           /\ \A k \in Keys : records[k] # Unallocated /\ held[k] # Unallocated
  <1>1. Unallocated \in Unused
    BY DEF Unallocated
  <1> QED
    BY <1>1, ReferredTo DEF Unused, StoreInv, StoreType

LEMMA InsertFacts ==
    ASSUME NEW S, NEW s \in Seq(S), NEW e \in S, NEW i \in 1 .. Len(s) + 1
    PROVE  /\ InsertAt(s, i, e) \in Seq(S)
           /\ \A n \in DOMAIN InsertAt(s, i, e) :
                 \/ InsertAt(s, i, e)[n] = e
                 \/ \E m \in DOMAIN s : InsertAt(s, i, e)[n] = s[m]
           /\ Len(InsertAt(s, i, e)) = Len(s) + 1 /\ InsertAt(s, i, e)[i] = e
           /\ \A n \in 1 .. i - 1 : InsertAt(s, i, e)[n] = s[n]
           /\ \A n \in i + 1 .. Len(s) + 1 : InsertAt(s, i, e)[n] = s[n - 1]
  <1> DEFINE a == SubSeq(s, 1, i - 1)
             b == SubSeq(s, i, Len(s))
  <1>1. /\ a \in Seq(S) /\ Len(a) = i - 1
        /\ \A n \in 1 .. i - 1 : a[n] = s[n]
    OBVIOUS
  <1>2. /\ b \in Seq(S) /\ Len(b) = Len(s) - i + 1
        /\ \A n \in 1 .. Len(s) - i + 1 : b[n] = s[i + n - 1]
    OBVIOUS
  <1> DEFINE c == a \o <<e>>
             t == c \o b
  <1> HIDE DEF a, b
  <1>3. InsertAt(s, i, e) = t
    BY DEF InsertAt, a, b
  <1>4. /\ c \in Seq(S) /\ Len(c) = i
        /\ c[i] = e
        /\ \A n \in 1 .. i - 1 : c[n] = s[n]
    BY <1>1
  <1> HIDE DEF c
  <1>5. /\ t \in Seq(S) /\ Len(t) = Len(s) + 1
        /\ \A n \in 1 .. i : t[n] = c[n]
        /\ \A n \in i + 1 .. Len(s) + 1 : t[n] = b[n - i]
    <2>1. /\ t \in Seq(S) /\ Len(t) = Len(c) + Len(b)
          /\ \A n \in 1 .. Len(c) + Len(b) :
                t[n] = IF n <= Len(c) THEN c[n] ELSE b[n - Len(c)]
      BY <1>2, <1>4, ConcatProperties
    <2>2. Len(c) = i /\ Len(c) + Len(b) = Len(s) + 1
      BY <1>2, <1>4
    <2> QED
      BY <2>1, <2>2
  <1> HIDE DEF t
  <1>6. ASSUME NEW n \in DOMAIN t
        PROVE  t[n] = e \/ \E m \in DOMAIN s : t[n] = s[m]
    <2>0. n \in 1 .. Len(s) + 1 /\ Len(s) \in Nat /\ DOMAIN s = 1 .. Len(s)
      BY <1>5
    <2>1. CASE n < i
      BY <2>0, <2>1, <1>4, <1>5
    <2>2. CASE n = i
      BY <2>2, <1>4, <1>5
    <2>3. CASE n > i
      <3>1. t[n] = b[n - i] /\ n - i \in 1 .. Len(s) - i + 1
        BY <2>0, <2>3, <1>5
      <3>2. t[n] = s[n - 1] /\ n - 1 \in DOMAIN s
        BY <3>1, <2>0, <2>3, <1>2
      <3> QED
        BY <3>2
    <2> QED
      BY <2>0, <2>1, <2>2, <2>3
  <1>7. t[i] = e /\ \A n \in 1 .. i - 1 : t[n] = s[n]
    BY <1>4, <1>5
  <1>8. ASSUME NEW n \in i + 1 .. Len(s) + 1
        PROVE  t[n] = s[n - 1]
    <2>1. n - i \in 1 .. Len(s) - i + 1 /\ i + (n - i) - 1 = n - 1
      OBVIOUS
    <2> QED
      BY <2>1, <1>2, <1>5
  <1> QED
    BY <1>3, <1>5, <1>6, <1>7, <1>8

-----------------------------------------------------------------------------
LEMMA NoJobIsJob == NoJob \in Jobs
  BY StoreAssumption DEF NoJob, Jobs

LEMMA StoreInit == Init => StoreInv
  <1> SUFFICES ASSUME Init PROVE StoreInv
    OBVIOUS
  <1>1. Free \in Object /\ Free.state # "Hit"
    BY StoreAssumption DEF Free, Object, Contents
  <1>2. jobs \in Seq(Jobs) /\ DOMAIN jobs = {}
    BY DEF Init
  <1>3. StoreType
    BY <1>1, <1>2, NoJobIsJob DEF Init, StoreType, Contents
  <1> QED
    BY <1>1, <1>2, <1>3 DEF Init, StoreInv, HitsAreWhole, QueuedRecords, WorkersRecord

(* A step that allocates at most one object, queues at most one job for it *)
(* and leaves the worker and the files alone.                              *)
LEMMA AllocatingStep ==
    ASSUME StoreInv, Unused # {},
           UNCHANGED <<wpc, job, folder>>,
           NEW k \in Keys, NEW state \in {"Pending", "Hit"}, NEW bytes \in Contents,
           state = "Hit" => bytes = Whole,
           Objects([rec EXCEPT ![Unallocated] = NewRecord(k, state, bytes)]),
           jobs' \in Seq(Jobs),
           \A i \in DOMAIN jobs' :
              \/ \E m \in DOMAIN jobs : jobs'[i] = jobs[m]
              \/ /\ jobs'[i].record = Unallocated
                 /\ jobs'[i].save => state = "Hit"
    PROVE  StoreInv'
  <1> DEFINE recs == [rec EXCEPT ![Unallocated] = NewRecord(k, state, bytes)]
  <1>1. NewRecord(k, state, bytes) \in Object
    BY StoreAssumption DEF NewRecord, Object
  <1>2. /\ recs \in [Records -> Object]
        /\ \A r \in Records \ {Unallocated} : recs[r] = rec[r]
        /\ recs[Unallocated] = NewRecord(k, state, bytes)
    BY <1>1, AllocationFacts DEF StoreInv, StoreType
  <1>3. /\ recs[Unallocated].state = state
        /\ recs[Unallocated].bytes = bytes
    BY <1>2 DEF NewRecord
  <1> HIDE DEF recs
  <1>4. /\ rec' \in [Records -> Object]
        /\ \A r \in Records : rec'[r] = recs[r] \/ rec'[r] = Free
        /\ \A r \in Records : References(r)' # 0 => rec'[r] = recs[r]
    <2>1. Objects(recs)
      BY DEF recs
    <2> QED
      BY <1>2, <2>1, ObjectsFacts
  <1>5. StoreType'
    BY <1>4 DEF StoreInv, StoreType, folder
  <1>6. HitsAreWhole'
    <2> SUFFICES ASSUME NEW r \in Records, rec'[r].state = "Hit"
                 PROVE  rec'[r].bytes = Whole
      BY DEF HitsAreWhole
    <2>1. rec'[r] = recs[r]
      BY <1>4 DEF Free
    <2> QED
      BY <2>1, <1>2, <1>3 DEF StoreInv, HitsAreWhole
  <1>7. QueuedRecords'
    <2> SUFFICES ASSUME NEW i \in DOMAIN jobs'
                 PROVE  /\ jobs'[i].record \in Records
                        /\ jobs'[i].save => rec'[jobs'[i].record].bytes = Whole
      BY DEF QueuedRecords
    <2>1. \A r : jobs'[i].record = r => References(r)' # 0
      BY ReferredToNext
    <2>2. \A r \in Records : jobs'[i].record = r => rec'[r] = recs[r]
      BY <2>1, <1>4
    <2>3. CASE \E m \in DOMAIN jobs : jobs'[i] = jobs[m]
      BY <2>2, <2>3, <1>2, AllocationFacts DEF StoreInv, QueuedRecords
    <2>4. CASE jobs'[i].record = Unallocated /\ (jobs'[i].save => state = "Hit")
      BY <2>2, <2>4, <1>3, AllocationFacts
    <2> QED
      BY <2>3, <2>4
  <1>8. WorkersRecord'
    <2>1. job.record # Unallocated /\ References(job.record)' # 0
      BY AllocationFacts, ReferredToNext
    <2> QED
      BY <2>1, <1>2, <1>4 DEF StoreInv, WorkersRecord, folder
  <1> QED
    BY <1>5, <1>6, <1>7, <1>8 DEF StoreInv

(* A step that only drops pointers, or adds some to objects that are there. *)
LEMMA ReleasingStep ==
    ASSUME StoreInv, UNCHANGED <<wpc, job, jobs, folder>>,
           Objects(rec) \/ UNCHANGED rec
    PROVE  StoreInv'
  <1>1. /\ rec' \in [Records -> Object]
        /\ \A r \in Records : rec'[r] = rec[r] \/ rec'[r] = Free
        /\ \A r \in Records : References(r)' # 0 => rec'[r] = rec[r]
    BY ObjectsFacts DEF StoreInv, StoreType
  <1>2. jobs' \in Seq(Jobs)
    BY DEF StoreInv, StoreType
  <1>3. StoreType'
    BY <1>1 DEF StoreInv, StoreType, folder
  <1>4. HitsAreWhole'
    BY <1>1 DEF StoreInv, HitsAreWhole, Free
  <1>5. QueuedRecords'
    BY <1>1, <1>2, ReferredToNext DEF StoreInv, QueuedRecords
  <1>6. WorkersRecord'
    <2>1. References(job.record)' # 0
      BY <1>2, ReferredToNext
    <2> QED
      BY <1>1, <2>1 DEF StoreInv, WorkersRecord, folder
  <1> QED
    BY <1>3, <1>4, <1>5, <1>6 DEF StoreInv

LEMMA RequestStep ==
    ASSUME StoreInv, NEW k \in Keys, Request(k)
    PROVE  StoreInv'
  <1> DEFINE s == Trimmed([records |-> records, reserved |-> reservedBytes], Size[k])
  <1>1. UNCHANGED <<wpc, job, folder>> /\ Unused # {}
    BY DEF Request
  <1>2. CASE Found(k)
    BY <1>1, <1>2, ReleasingStep DEF Found, store
  <1>3. CASE Refused(k, s)
    BY <1>1, <1>3, ReleasingStep DEF Refused
  <1>4. CASE Queued(k, s)
    <2> DEFINE j == [key |-> k, record |-> Unallocated, save |-> FALSE]
    <2>1. PICK i \in 1 .. Len(jobs) + 1 : jobs' = InsertAt(jobs, i, j)
      BY <1>4 DEF Queued
    <2>2. j \in Jobs
      BY <1>1, AllocationFacts DEF Jobs
    <2>3. /\ jobs' \in Seq(Jobs)
          /\ \A n \in DOMAIN jobs' : jobs'[n] = j \/ \E m \in DOMAIN jobs : jobs'[n] = jobs[m]
      <3>1. jobs \in Seq(Jobs)
        BY DEF StoreInv, StoreType
      <3> HIDE DEF j
      <3> QED
        BY <2>1, <2>2, <3>1, InsertFacts
    <2>4. Objects([rec EXCEPT ![Unallocated] = NewRecord(k, "Pending", Absent)])
      BY <1>4 DEF Queued
    <2>5. Absent \in Contents
      BY DEF Contents
    <2> QED
      BY <1>1, <2>3, <2>4, <2>5, AllocatingStep
  <1> QED
    BY <1>2, <1>3, <1>4 DEF Request

LEMMA PublishStep ==
    ASSUME StoreInv, NEW k \in Keys, Publish(k)
    PROVE  StoreInv'
  <1> DEFINE j == [key |-> k, record |-> Unallocated, save |-> TRUE]
  <1>1. /\ UNCHANGED <<wpc, job, folder>> /\ Unused # {}
        /\ jobs' = jobs \/ jobs' = Append(jobs, j)
        /\ Objects([rec EXCEPT ![Unallocated] = NewRecord(k, "Hit", Whole)])
    BY DEF Publish
  <1>2. j \in Jobs
    BY <1>1, AllocationFacts DEF Jobs
  <1>3. jobs \in Seq(Jobs)
    BY DEF StoreInv, StoreType
  <1> HIDE DEF j
  <1>4. /\ jobs' \in Seq(Jobs)
        /\ \A n \in DOMAIN jobs' : jobs'[n] = j \/ \E m \in DOMAIN jobs : jobs'[n] = jobs[m]
    BY <1>1, <1>2, <1>3
  <1>5. j.record = Unallocated /\ Whole \in Contents
    BY DEF j, Contents
  <1> QED
    BY <1>1, <1>4, <1>5, AllocatingStep

(* A step of the worker that changes its record, as in recs.               *)
LEMMA WorkingStep ==
    ASSUME StoreInv, NEW recs \in [Records -> Object], Objects(recs),
           \A r \in Records :
              /\ rec[r].bytes = Whole => recs[r].bytes = Whole
              /\ recs[r].state = "Hit" => recs[r].bytes = Whole,
           UNCHANGED jobs, StoreType'
    PROVE  HitsAreWhole' /\ QueuedRecords'
  <1>1. /\ \A r \in Records : rec'[r] = recs[r] \/ rec'[r] = Free
        /\ \A r \in Records : References(r)' # 0 => rec'[r] = recs[r]
    BY ObjectsFacts
  <1>2. HitsAreWhole'
    <2> SUFFICES ASSUME NEW r \in Records, rec'[r].state = "Hit"
                 PROVE  rec'[r].bytes = Whole
      BY DEF HitsAreWhole
    <2>1. rec'[r] = recs[r]
      <3>1. rec'[r] # Free
        BY DEF Free
      <3> QED
        BY <1>1, <3>1
    <2> QED
      BY <2>1
  <1>3. QueuedRecords'
    <2> SUFFICES ASSUME NEW i \in DOMAIN jobs
                 PROVE  /\ jobs[i].record \in Records
                        /\ jobs[i].save => rec'[jobs[i].record].bytes = Whole
      BY DEF QueuedRecords
    <2>1. jobs[i].record \in Records /\ (jobs[i].save => rec[jobs[i].record].bytes = Whole)
      BY DEF StoreInv, QueuedRecords
    <2>2. References(jobs[i].record)' # 0
      BY ReferredToNext DEF StoreType
    <2> QED
      BY <1>1, <2>1, <2>2
  <1> QED
    BY <1>2, <1>3

LEMMA ReadStep ==
    ASSUME StoreInv, ReadFile
    PROVE  StoreInv'
  <1>1. /\ job.record \in Records /\ wpc = "read" /\ job.key \in Keys
        /\ UNCHANGED <<jobs, job, file, tmp>>
    BY DEF ReadFile, StoreInv, StoreType, WorkersRecord, store, folder, Jobs
  <1>2. CASE /\ Valid(file[job.key])
             /\ Objects([rec EXCEPT ![job.record].bytes = file[job.key]])
             /\ wpc' = "hit"
    <2> DEFINE recs == [rec EXCEPT ![job.record].bytes = file[job.key]]
    <2>1. /\ recs \in [Records -> Object]
          /\ recs[job.record].bytes = Whole
          /\ \A r \in Records \ {job.record} : recs[r] = rec[r]
      BY <1>1, <1>2 DEF StoreInv, StoreType, Object, Valid, Contents
    <2>2. Objects(recs)
      BY <1>2
    <2> HIDE DEF recs
    <2>3. StoreType'
      BY <1>1, <2>1, <2>2, ObjectsFacts DEF StoreInv, StoreType
    <2>4. HitsAreWhole' /\ QueuedRecords'
      BY <1>1, <2>1, <2>2, <2>3, WorkingStep DEF StoreInv, HitsAreWhole
    <2>5. References(job.record)' # 0
      BY <1>1, <2>3, ReferredToNext DEF StoreType
    <2>6. rec'[job.record].bytes = Whole
      BY <1>1, <2>1, <2>2, <2>5, ObjectsFacts
    <2>7. WorkersRecord'
      BY <1>1, <1>2, <2>6 DEF WorkersRecord
    <2> QED
      BY <2>3, <2>4, <2>7 DEF StoreInv
  <1>3. CASE /\ Objects([rec EXCEPT ![job.record].state = FailedRead])
             /\ wpc' = "release"
    <2> DEFINE recs == [rec EXCEPT ![job.record].state = FailedRead]
    <2>1. /\ recs \in [Records -> Object]
          /\ recs[job.record].state # "Hit"
          /\ \A r \in Records : recs[r].bytes = rec[r].bytes
          /\ \A r \in Records \ {job.record} : recs[r] = rec[r]
      BY <1>1 DEF StoreInv, StoreType, Object, FailedRead
    <2>2. Objects(recs)
      BY <1>3
    <2> HIDE DEF recs
    <2>3. StoreType'
      BY <1>1, <2>1, <2>2, ObjectsFacts DEF StoreInv, StoreType
    <2>4. HitsAreWhole' /\ QueuedRecords'
      BY <1>1, <2>1, <2>2, <2>3, WorkingStep DEF StoreInv, HitsAreWhole
    <2>5. WorkersRecord'
      BY <1>1, <1>3 DEF WorkersRecord
    <2> QED
      BY <2>3, <2>4, <2>5 DEF StoreInv
  <1> QED
    BY <1>2, <1>3 DEF ReadFile

LEMMA DecideStep ==
    ASSUME StoreInv, DecideHit
    PROVE  StoreInv'
  <1> DEFINE recs == [rec EXCEPT ![job.record].state = "Hit"]
  <1>1. /\ job.record \in Records /\ rec[job.record].bytes = Whole
        /\ UNCHANGED <<jobs, file, tmp>> /\ job' = NoJob /\ wpc' = "wait"
        /\ Objects(recs)
    BY DEF DecideHit, StoreInv, WorkersRecord, store, folder
  <1>2. /\ recs \in [Records -> Object]
        /\ \A r \in Records : recs[r].bytes = rec[r].bytes
        /\ \A r \in Records \ {job.record} : recs[r] = rec[r]
    BY <1>1 DEF StoreInv, StoreType, Object
  <1> HIDE DEF recs
  <1>3. StoreType'
    BY <1>1, <1>2, NoJobIsJob, ObjectsFacts DEF StoreInv, StoreType
  <1>4. HitsAreWhole' /\ QueuedRecords'
    BY <1>1, <1>2, <1>3, WorkingStep DEF StoreInv, HitsAreWhole
  <1>5. WorkersRecord'
    BY <1>1 DEF WorkersRecord
  <1> QED
    BY <1>3, <1>4, <1>5 DEF StoreInv

LEMMA ReleaseStep ==
    ASSUME StoreInv, ReleaseMiss
    PROVE  StoreInv'
  <1>1. /\ job.record \in Records
        /\ UNCHANGED <<jobs, file, tmp>> /\ job' = NoJob /\ wpc' = "wait"
    BY DEF ReleaseMiss, StoreInv, WorkersRecord, folder
  <1>2. PICK recs \in [Records -> Object] :
           /\ Objects(recs)
           /\ \A r \in Records : recs[r].state = rec[r].state /\ recs[r].bytes = rec[r].bytes
    <2>1. CASE IsCurrent
      <3> DEFINE recs == [rec EXCEPT ![job.record].reserved = 0]
      <3>1. /\ recs \in [Records -> Object]
            /\ \A r \in Records : recs[r].state = rec[r].state /\ recs[r].bytes = rec[r].bytes
        BY <1>1 DEF StoreInv, StoreType, Object
      <3>2. Objects(recs)
        BY <2>1 DEF ReleaseMiss
      <3> QED
        BY <3>1, <3>2
    <2>2. CASE ~IsCurrent
      BY <2>2 DEF ReleaseMiss, StoreInv, StoreType
    <2> QED
      BY <2>1, <2>2
  <1>3. StoreType'
    BY <1>1, <1>2, NoJobIsJob, ObjectsFacts DEF StoreInv, StoreType
  <1>4. HitsAreWhole' /\ QueuedRecords'
    BY <1>1, <1>2, <1>3, WorkingStep DEF StoreInv, HitsAreWhole
  <1>5. WorkersRecord'
    BY <1>1 DEF WorkersRecord
  <1> QED
    BY <1>3, <1>4, <1>5 DEF StoreInv

LEMMA SavedStep ==
    ASSUME StoreInv, Saved
    PROVE  StoreInv'
  <1>1. /\ UNCHANGED <<jobs, file>> /\ job' = NoJob /\ wpc' = "wait" /\ tmp' = Absent
        /\ Objects(rec)
    BY DEF Saved
  <1>2. rec \in [Records -> Object]
    BY DEF StoreInv, StoreType
  <1>3. StoreType'
    BY <1>1, <1>2, NoJobIsJob, ObjectsFacts DEF StoreInv, StoreType, Contents
  <1>4. HitsAreWhole' /\ QueuedRecords'
    BY <1>1, <1>2, <1>3, WorkingStep DEF StoreInv, HitsAreWhole
  <1>5. WorkersRecord'
    BY <1>1 DEF WorkersRecord
  <1> QED
    BY <1>3, <1>4, <1>5 DEF StoreInv

LEMMA TakeStep ==
    ASSUME StoreInv, TakeJob
    PROVE  StoreInv'
  <1>1. /\ jobs \in Seq(Jobs) /\ jobs # <<>>
        /\ UNCHANGED <<rec, file, tmp>>
        /\ job' = Head(jobs) /\ jobs' = Tail(jobs)
        /\ wpc' = IF Head(jobs).save THEN "write" ELSE "read"
    BY DEF TakeJob, StoreInv, StoreType, folder
  <1>2. /\ Head(jobs) = jobs[1] /\ 1 \in DOMAIN jobs /\ Head(jobs) \in Jobs
        /\ Tail(jobs) \in Seq(Jobs)
        /\ \A i \in DOMAIN Tail(jobs) : Tail(jobs)[i] = jobs[i + 1] /\ i + 1 \in DOMAIN jobs
    BY <1>1
  <1>3. StoreType'
    BY <1>1, <1>2 DEF StoreInv, StoreType
  <1>4. HitsAreWhole'
    BY <1>1 DEF StoreInv, HitsAreWhole
  <1>5. QueuedRecords'
    BY <1>1, <1>2 DEF StoreInv, QueuedRecords
  <1>6. WorkersRecord'
    <2>1. jobs[1].record \in Records /\ (jobs[1].save => rec[jobs[1].record].bytes = Whole)
      BY <1>2 DEF StoreInv, QueuedRecords
    <2> QED
      BY <1>1, <1>2, <2>1 DEF WorkersRecord
  <1> QED
    BY <1>3, <1>4, <1>5, <1>6 DEF StoreInv

LEMMA WriteStep ==
    ASSUME StoreInv, WriteTemporary \/ Rename
    PROVE  StoreInv'
  <1>1. /\ UNCHANGED <<rec, jobs, job>>
        /\ job.key \in Keys
    BY DEF WriteTemporary, Rename, store, StoreInv, StoreType, Jobs
  <1>2. StoreType'
    <2>1. CASE WriteTemporary
      <3>1. job.record \in Records => rec[job.record].bytes \in Contents
        BY DEF StoreInv, StoreType, Object
      <3> QED
        BY <1>1, <2>1, <3>1 DEF WriteTemporary, StoreInv, StoreType, WorkersRecord, Contents
    <2>2. CASE Rename
      BY <1>1, <2>2 DEF Rename, StoreInv, StoreType, Contents
    <2> QED
      BY <2>1, <2>2
  <1>3. HitsAreWhole' /\ QueuedRecords'
    BY <1>1 DEF StoreInv, HitsAreWhole, QueuedRecords
  <1>4. WorkersRecord'
    BY <1>1 DEF WriteTemporary, Rename, StoreInv, WorkersRecord, FailedWrite
  <1> QED
    BY <1>2, <1>3, <1>4 DEF StoreInv

LEMMA RestartStep ==
    ASSUME StoreInv, Restart
    PROVE  StoreInv'
  <1>1. Free \in Object /\ Free.state # "Hit"
    BY StoreAssumption DEF Free, Object, Contents
  <1>2. jobs' \in Seq(Jobs) /\ DOMAIN jobs' = {}
    BY DEF Restart
  <1>3. file' \in [Keys -> Contents]
    BY DEF Restart, StoreInv, StoreType, Contents
  <1>4. StoreType'
    BY <1>1, <1>2, <1>3, NoJobIsJob DEF Restart, StoreType, Contents
  <1> QED
    BY <1>1, <1>2, <1>4 DEF Restart, StoreInv, HitsAreWhole, QueuedRecords, WorkersRecord

LEMMA StoreStep == StoreInv /\ [Next]_vars => StoreInv'
  <1> SUFFICES ASSUME StoreInv, [Next]_vars PROVE StoreInv'
    OBVIOUS
  <1>1. CASE Worker
    <2>1. CASE Exit
      BY <2>1 DEF Exit, store, folder, StoreInv, StoreType, HitsAreWhole, QueuedRecords,
                  WorkersRecord
    <2> QED
      BY <1>1, <2>1, TakeStep, ReadStep, DecideStep, ReleaseStep, WriteStep, SavedStep
         DEF Worker
  <1>2. ASSUME NEW k \in Keys, Drop(k) \/ FinishBake(k)
        PROVE  StoreInv'
    <2>1. UNCHANGED <<wpc, job, jobs, folder>> /\ (Objects(rec) \/ UNCHANGED rec)
      BY <1>2 DEF Drop, FinishBake, store
    <2> QED
      BY <2>1, ReleasingStep
  <1>3. CASE Stop \/ UNCHANGED vars
    <2>1. UNCHANGED <<wpc, job, jobs, folder, rec>>
      BY <1>3 DEF Stop, vars, store
    <2> QED
      BY <2>1, ReleasingStep
  <1> QED
    BY <1>1, <1>2, <1>3, RequestStep, PublishStep, RestartStep DEF Next

-----------------------------------------------------------------------------
LEMMA StoreInvariant == Spec => []StoreInv
  BY StoreInit, StoreStep, PTL DEF Spec

(* Whoever sees a record that says Hit sees the whole array in it, with    *)
(* the worker filling the bytes of others, reads and writes failing, and   *)
(* whatever the files of earlier processes hold.                           *)
THEOREM HitsComplete == Spec => []HitIsComplete
  <1>1. StoreInv => HitIsComplete
    BY DEF StoreInv, HitsAreWhole, HitIsComplete
  <1> QED
    BY <1>1, StoreInvariant, PTL

(* A file of the cache is replaced by a whole array or removed: no step of *)
(* write, no failure in it and no end of the process leaves a part of one. *)
THEOREM FilesReplacedWhole == Spec => FileIsReplacedWhole
  <1> DEFINE WholeStep == Restart \/ \A k \in Keys : file'[k] = Damaged => file[k] = Damaged
  <1>1. StoreInv /\ [Next]_vars => [WholeStep]_vars
    <2> SUFFICES ASSUME StoreInv, Next
                 PROVE  WholeStep
      OBVIOUS
    <2>1. CASE Rename
      <3>1. tmp = Whole /\ job.key \in Keys
        BY <2>1 DEF Rename, StoreInv, StoreType, WorkersRecord, Jobs
      <3> QED
        BY <2>1, <3>1 DEF Rename, StoreInv, StoreType, Whole, Damaged, Absent
    <2>2. CASE Worker /\ ~Rename
      BY <2>2 DEF Worker, TakeJob, Exit, ReadFile, DecideHit, ReleaseMiss, WriteTemporary,
                  Saved, folder
    <2>3. ASSUME NEW k \in Keys, Request(k) \/ Publish(k) \/ FinishBake(k) \/ Drop(k)
          PROVE  WholeStep
      BY <2>3 DEF Request, Publish, FinishBake, Drop, folder
    <2>4. CASE Stop
      BY <2>4 DEF Stop, folder
    <2> QED
      BY <2>1, <2>2, <2>3, <2>4 DEF Next
  <1> QED
    BY <1>1, StoreInvariant, PTL DEF Spec, FileIsReplacedWhole

-----------------------------------------------------------------------------
(* The accounts.                                                           *)

(* What the records in the map reserve, and the jobs that are saves.       *)
Occupied(recs) == {k \in Keys : recs[k] # None}

Reserves(recs, objs) == [k \in Keys |-> objs[recs[k]].reserved]

Reserved(recs, objs, t) == IsSum(t, Reserves(recs, objs), Occupied(recs))

Saves(js) == {i \in DOMAIN js : js[i].save}

SaveSizes(js) == [i \in DOMAIN js |-> Size[js[i].key]]

Waiting(js, t) == IsSum(t, SaveSizes(js), Saves(js))

-----------------------------------------------------------------------------
LEMMA ReservesFacts ==
    ASSUME NEW recs \in [Keys -> Records \cup {None}], NEW objs \in [Records -> Object]
    PROVE  /\ IsFiniteSet(Occupied(recs))
           /\ NatValued(Reserves(recs, objs), Occupied(recs))
           /\ \A k \in Keys : Reserves(recs, objs)[k] = objs[recs[k]].reserved
  <1>1. IsFiniteSet(Occupied(recs))
    BY FS_Subset, StoreAssumption DEF Occupied
  <1>2. \A k \in Keys : Reserves(recs, objs)[k] = objs[recs[k]].reserved
    BY DEF Reserves
  <1>3. ASSUME NEW k \in Occupied(recs)
        PROVE  Reserves(recs, objs)[k] \in Nat
    <2>1. k \in Keys /\ recs[k] \in Records
      BY DEF Occupied
    <2>2. objs[recs[k]].reserved \in Nat
      BY <2>1 DEF Object
    <2> QED
      BY <1>2, <2>1, <2>2
  <1> QED
    BY <1>1, <1>2, <1>3 DEF NatValued

LEMMA SavesFacts ==
    ASSUME NEW js \in Seq(Jobs)
    PROVE  /\ IsFiniteSet(Saves(js))
           /\ NatValued(SaveSizes(js), Saves(js))
           /\ \A i \in DOMAIN js : SaveSizes(js)[i] = Size[js[i].key] /\ Size[js[i].key] \in Nat
  <1>1. IsFiniteSet(1 .. Len(js)) /\ Saves(js) \in SUBSET (1 .. Len(js)) /\ Len(js) \in Nat
    BY FS_Interval DEF Saves
  <1>2. IsFiniteSet(Saves(js))
    BY <1>1, FS_Subset
  <1>3. ASSUME NEW i \in DOMAIN js
        PROVE  SaveSizes(js)[i] = Size[js[i].key] /\ Size[js[i].key] \in Nat
    <2>1. js[i] \in Jobs /\ js[i].key \in Keys
      <3>1. js[i] \in Jobs
        OBVIOUS
      <3> QED
        BY <3>1 DEF Jobs
    <2> QED
      BY <2>1, StoreAssumption DEF SaveSizes
  <1> QED
    BY <1>2, <1>3 DEF NatValued, Saves

(* A record taken out of the map, ...                                      *)
LEMMA ReservedRemoved ==
    ASSUME NEW recs \in [Keys -> Records \cup {None}], NEW objs \in [Records -> Object],
           NEW t, Reserved(recs, objs, t), NEW k \in Keys, recs[k] # None
    PROVE  /\ Reserved([recs EXCEPT ![k] = None], objs, t - objs[recs[k]].reserved)
           /\ t \in Nat /\ t - objs[recs[k]].reserved \in Nat
           /\ objs[recs[k]].reserved \in Nat
  <1> DEFINE new == [recs EXCEPT ![k] = None]
             v == Reserves(recs, objs)
             w == Reserves(new, objs)
             A == Occupied(recs)
             B == Occupied(new)
  <1>1. /\ new \in [Keys -> Records \cup {None}]
        /\ B = A \ {k} /\ k \in A /\ B \subseteq Keys
        /\ \A x \in B : new[x] = recs[x]
    BY DEF Occupied
  <1>3. IsSum(t, v, A)
    BY DEF Reserved
  <1> HIDE DEF new
  <1>2. /\ IsFiniteSet(A) /\ NatValued(v, A) /\ IsFiniteSet(B) /\ NatValued(w, B)
        /\ \A x \in Keys : v[x] = objs[recs[x]].reserved /\ w[x] = objs[new[x]].reserved
    BY <1>1, ReservesFacts
  <1> HIDE DEF v, w, A, B
  <1>4. IsSum(t - v[k], v, B) /\ t \in Nat /\ v[k] \in Nat /\ t - v[k] \in Nat
    BY <1>1, <1>2, <1>3, SumRemoved
  <1>5. \A x \in B : w[x] = v[x]
    BY <1>1, <1>2
  <1>6. NatValued(v, B)
    BY <1>1, <1>2 DEF NatValued
  <1>7. IsSum(t - v[k], w, B)
    BY <1>2, <1>4, <1>5, <1>6, SumSame
  <1>8. v[k] = objs[recs[k]].reserved
    BY <1>2
  <1> QED
    BY <1>4, <1>7, <1>8 DEF Reserved, w, B, new

(* ... and one put in.                                                     *)
LEMMA ReservedAdded ==
    ASSUME NEW recs \in [Keys -> Records \cup {None}], NEW objs \in [Records -> Object],
           NEW t, Reserved(recs, objs, t), NEW k \in Keys, recs[k] = None, NEW r \in Records
    PROVE  Reserved([recs EXCEPT ![k] = r], objs, t + objs[r].reserved)
  <1> DEFINE new == [recs EXCEPT ![k] = r]
             v == Reserves(recs, objs)
             w == Reserves(new, objs)
             A == Occupied(recs)
             B == Occupied(new)
  <1>1. /\ new \in [Keys -> Records \cup {None}]
        /\ B = A \cup {k} /\ k \notin A /\ A \subseteq Keys
        /\ \A x \in A : new[x] = recs[x]
        /\ new[k] = r
    BY RecordsAssumption DEF Occupied
  <1>3. IsSum(t, v, A)
    BY DEF Reserved
  <1> HIDE DEF new
  <1>2. /\ IsFiniteSet(A) /\ NatValued(v, A) /\ IsFiniteSet(B) /\ NatValued(w, B)
        /\ \A x \in Keys : v[x] = objs[recs[x]].reserved /\ w[x] = objs[new[x]].reserved
    BY <1>1, ReservesFacts
  <1> HIDE DEF v, w, A, B
  <1>4. \A x \in A : w[x] = v[x]
    BY <1>1, <1>2
  <1>5. IsSum(t, w, A)
    BY <1>2, <1>3, <1>4, SumSame
  <1>6. IsSum(t + w[k], w, B)
    <2>1. NatValued(w, A \cup {k})
      BY <1>1, <1>2
    <2>2. IsSum(t + w[k], w, A \cup {k})
      BY <1>1, <1>2, <1>5, <2>1, SumAdded
    <2> QED
      BY <1>1, <2>2
  <1>7. w[k] = objs[r].reserved
    BY <1>1, <1>2
  <1> QED
    BY <1>6, <1>7 DEF Reserved, w, B, new

(* Objects that reserve the same.                                          *)
LEMMA ReservedSame ==
    ASSUME NEW recs \in [Keys -> Records \cup {None}], NEW objs \in [Records -> Object],
           NEW t, Reserved(recs, objs, t), NEW new \in [Records -> Object],
           \A k \in Keys : recs[k] # None => new[recs[k]].reserved = objs[recs[k]].reserved
    PROVE  Reserved(recs, new, t)
  <1>1. /\ IsFiniteSet(Occupied(recs))
        /\ NatValued(Reserves(recs, objs), Occupied(recs))
        /\ \A k \in Keys : Reserves(recs, objs)[k] = objs[recs[k]].reserved
        /\ \A k \in Keys : Reserves(recs, new)[k] = new[recs[k]].reserved
    BY ReservesFacts
  <1>2. \A k \in Occupied(recs) : Reserves(recs, new)[k] = Reserves(recs, objs)[k]
    BY <1>1 DEF Occupied
  <1> QED
    BY <1>1, <1>2, SumSame DEF Reserved

(* An empty map reserves nothing, and no jobs save nothing.                *)
LEMMA ReservedEmpty ==
    ASSUME NEW objs PROVE Reserved([k \in Keys |-> None], objs, 0)
  <1>1. Occupied([k \in Keys |-> None]) = {}
    BY DEF Occupied
  <1> QED
    BY <1>1, SumEmpty DEF Reserved

LEMMA WaitingEmpty == Waiting(<<>>, 0)
  <1>1. Saves(<<>>) = {}
    BY DEF Saves
  <1> QED
    BY <1>1, SumEmpty DEF Waiting

(* The sums of the properties are these.                                   *)
LEMMA ReservedIsSum ==
    ASSUME NEW t, Reserved(records, rec, t), rec \in [Records -> Object],
           records \in [Keys -> Records \cup {None}]
    PROVE  t = Total({k \in Keys : records[k] # None},
                     LAMBDA k : rec[records[k]].reserved)
  <1> DEFINE S == Occupied(records)
             g == CHOOSE g : g = [s \in SUBSET S |->
                     IF s = {} THEN 0
                     ELSE rec[records[CHOOSE x \in s : TRUE]].reserved
                            + g[s \ {CHOOSE x \in s : TRUE}]]
  <1>1. Total({k \in Keys : records[k] # None}, LAMBDA k : rec[records[k]].reserved) = g[S]
    BY DEF Total, MapThenSumSet, MapThenFoldSet, Occupied
  <1>2. PICK f : SumsOf(Reserves(records, rec), S, f) /\ t = f[S]
    BY DEF Reserved, IsSum
  <1>3. f = [s \in SUBSET S |->
               IF s = {} THEN 0
               ELSE Reserves(records, rec)[PickOf(s)] + f[s \ {PickOf(s)}]]
    BY <1>2 DEF SumsOf
  <1>4. \A s \in SUBSET S : s # {} =>
           Reserves(records, rec)[PickOf(s)] = rec[records[CHOOSE x \in s : TRUE]].reserved
    BY DEF Reserves, Occupied, PickOf
  <1>5. f = [s \in SUBSET S |->
               IF s = {} THEN 0
               ELSE rec[records[CHOOSE x \in s : TRUE]].reserved
                      + f[s \ {CHOOSE x \in s : TRUE}]]
    BY <1>3, <1>4 DEF PickOf
  <1>6. g = [s \in SUBSET S |->
               IF s = {} THEN 0
               ELSE rec[records[CHOOSE x \in s : TRUE]].reserved
                      + g[s \ {CHOOSE x \in s : TRUE}]]
    BY <1>5
  <1> HIDE DEF g
  <1>7. g = [s \in SUBSET S |->
               IF s = {} THEN 0
               ELSE Reserves(records, rec)[PickOf(s)] + g[s \ {PickOf(s)}]]
    BY <1>4, <1>6 DEF PickOf
  <1>8. SumsOf(Reserves(records, rec), S, g)
    BY <1>7 DEF SumsOf
  <1>9. IsSum(g[S], Reserves(records, rec), S) /\ IsSum(t, Reserves(records, rec), S)
    BY <1>8 DEF IsSum, Reserved
  <1>10. g[S] = t
    BY <1>9, ReservesFacts, SumUnique
  <1> QED
    BY <1>1, <1>10

LEMMA WaitingIsSum ==
    ASSUME NEW t, Waiting(jobs, t), jobs \in Seq(Jobs)
    PROVE  t = Total({i \in DOMAIN jobs : jobs[i].save}, LAMBDA i : Size[jobs[i].key])
  <1> DEFINE S == Saves(jobs)
             v == SaveSizes(jobs)
             g == CHOOSE g : g = [s \in SUBSET S |->
                     IF s = {} THEN 0
                     ELSE Size[jobs[CHOOSE x \in s : TRUE].key]
                            + g[s \ {CHOOSE x \in s : TRUE}]]
  <1>1. Total({i \in DOMAIN jobs : jobs[i].save}, LAMBDA i : Size[jobs[i].key]) = g[S]
    BY DEF Total, MapThenSumSet, MapThenFoldSet, Saves
  <1>2. PICK f : SumsOf(v, S, f)
    BY SavesFacts, SumsExist
  <1>3. f = [s \in SUBSET S |-> IF s = {} THEN 0 ELSE v[PickOf(s)] + f[s \ {PickOf(s)}]]
    BY <1>2 DEF SumsOf
  <1>4. \A s \in SUBSET S : s # {} =>
           v[PickOf(s)] = Size[jobs[CHOOSE x \in s : TRUE].key]
    BY DEF SaveSizes, Saves, PickOf
  <1>5. f = [s \in SUBSET S |->
               IF s = {} THEN 0
               ELSE Size[jobs[CHOOSE x \in s : TRUE].key] + f[s \ {CHOOSE x \in s : TRUE}]]
    <2> HIDE DEF S, v, g
    <2>1. \A s \in SUBSET S :
             f[s] = IF s = {} THEN 0
                    ELSE Size[jobs[CHOOSE x \in s : TRUE].key] + f[s \ {CHOOSE x \in s : TRUE}]
      <3>1. \A s \in SUBSET S : f[s] = IF s = {} THEN 0 ELSE v[PickOf(s)] + f[s \ {PickOf(s)}]
        BY <1>3
      <3> QED
        BY <1>4, <3>1 DEF PickOf
    <2>2. f = [s \in SUBSET S |-> f[s]]
      BY <1>3
    <2> QED
      BY <2>1, <2>2
  <1>6. g = [s \in SUBSET S |->
               IF s = {} THEN 0
               ELSE Size[jobs[CHOOSE x \in s : TRUE].key] + g[s \ {CHOOSE x \in s : TRUE}]]
    BY <1>5
  <1> HIDE DEF g
  <1>7. g = [s \in SUBSET S |-> IF s = {} THEN 0 ELSE v[PickOf(s)] + g[s \ {PickOf(s)}]]
    <2> HIDE DEF S, v
    <2>1. \A s \in SUBSET S : g[s] = IF s = {} THEN 0 ELSE v[PickOf(s)] + g[s \ {PickOf(s)}]
      <3>1. \A s \in SUBSET S :
               g[s] = IF s = {} THEN 0
                      ELSE Size[jobs[CHOOSE x \in s : TRUE].key] + g[s \ {CHOOSE x \in s : TRUE}]
        BY <1>6
      <3> QED
        BY <1>4, <3>1 DEF PickOf
    <2>2. g = [s \in SUBSET S |-> g[s]]
      BY <1>6
    <2> QED
      BY <2>1, <2>2
  <1>8. SumsOf(v, S, g)
    BY <1>7 DEF SumsOf
  <1>9. IsSum(g[S], v, S) /\ IsSum(t, v, S)
    BY <1>8 DEF IsSum, Waiting, v, S
  <1>10. g[S] = t
    BY <1>9, SavesFacts, SumUnique DEF v, S
  <1> QED
    BY <1>1, <1>10 DEF S

(* The job in front of the queue is taken.                                 *)
LEMMA WaitingTail ==
    ASSUME NEW js \in Seq(Jobs), js # <<>>, NEW t, Waiting(js, t)
    PROVE  /\ Head(js).save => /\ Waiting(Tail(js), t - Size[Head(js).key])
           /\ ~Head(js).save => Waiting(Tail(js), t)
           /\ t \in Nat
  <1> DEFINE A == Saves(js)
             v == SaveSizes(js)
             B == Saves(Tail(js))
             w == SaveSizes(Tail(js))
             R == A \ {1}
             h == [i \in A |-> i - 1]
  <1>1. /\ Tail(js) \in Seq(Jobs) /\ Len(js) \in Nat \ {0}
        /\ DOMAIN js = 1 .. Len(js) /\ DOMAIN Tail(js) = 1 .. Len(js) - 1
        /\ \A i \in 1 .. Len(js) - 1 : Tail(js)[i] = js[i + 1]
        /\ Head(js) = js[1]
    OBVIOUS
  <1>2. /\ IsFiniteSet(A) /\ NatValued(v, A)
        /\ \A i \in DOMAIN js : v[i] = Size[js[i].key]
    BY SavesFacts
  <1>3. /\ IsFiniteSet(B) /\ NatValued(w, B)
        /\ \A i \in DOMAIN Tail(js) : w[i] = Size[Tail(js)[i].key]
    BY <1>1, SavesFacts
  <1>4. /\ \A i \in R : i \in 2 .. Len(js) /\ js[i].save
        /\ \A i \in 2 .. Len(js) : js[i].save => i \in R
        /\ \A i \in B : i \in 1 .. Len(js) - 1 /\ Tail(js)[i].save
        /\ \A i \in 1 .. Len(js) - 1 : Tail(js)[i].save => i \in B
        /\ 1 \in A <=> js[1].save
    BY <1>1 DEF Saves
  <1>5. IsSum(t, v, A)
    BY DEF Waiting
  <1>6. IsFiniteSet(R) /\ NatValued(v, R)
    BY <1>2, FS_Subset DEF NatValued
  <1>7. PICK u : /\ IsSum(u, v, R)
                 /\ js[1].save => u = t - v[1]
                 /\ ~js[1].save => u = t
    <2>1. CASE js[1].save
      BY <1>2, <1>4, <1>5, <2>1, SumRemoved
    <2>2. CASE ~js[1].save
      <3>1. R = A
        BY <1>4, <2>2
      <3> QED
        BY <1>5, <2>2, <3>1
    <2> QED
      BY <2>1, <2>2
  <1>8. /\ \A i \in R : h[i] = i - 1
        /\ \A i, j \in R : h[i] = h[j] => i = j
    BY <1>4
  <1> HIDE DEF h
  <1>9. ASSUME NEW i \in R
        PROVE  h[i] \in B /\ w[h[i]] = v[i]
    <2>1. i \in 2 .. Len(js) /\ h[i] = i - 1 /\ i - 1 \in 1 .. Len(js) - 1
          /\ Tail(js)[i - 1] = js[i] /\ js[i].save
      <3>1. i \in 2 .. Len(js) /\ h[i] = i - 1 /\ js[i].save
        BY <1>4, <1>8
      <3>2. i - 1 \in 1 .. Len(js) - 1 /\ (i - 1) + 1 = i
        BY <1>1, <3>1
      <3>3. Tail(js)[i - 1] = js[(i - 1) + 1]
        BY <1>1, <3>2
      <3> QED
        BY <3>1, <3>2, <3>3
    <2> HIDE DEF B, v, w, R
    <2> QED
      BY <1>1, <1>2, <1>3, <1>4, <2>1
  <1>10. ASSUME NEW i \in B
         PROVE  \E x \in R : i = h[x]
    <2>1. i \in 1 .. Len(js) - 1 /\ Tail(js)[i].save /\ Tail(js)[i] = js[i + 1]
      BY <1>1, <1>4
    <2>2. i + 1 \in 2 .. Len(js) /\ (i + 1) - 1 = i
      BY <1>1, <2>1
    <2>3. i + 1 \in R
      BY <1>4, <2>1, <2>2
    <2> QED
      BY <1>8, <2>2, <2>3
  <1> HIDE DEF A, B, v, w, R
  <1>11. IsSum(u, w, B)
    BY <1>3, <1>6, <1>7, <1>8, <1>9, <1>10, SumRenamed
  <1>12. t \in Nat
    BY <1>2, <1>5, SumUnique
  <1>13. v[1] = Size[Head(js).key]
    BY <1>1, <1>2
  <1> QED
    BY <1>1, <1>7, <1>11, <1>12, <1>13 DEF Waiting, B, w

(* A save is queued behind the others.                                     *)
LEMMA WaitingAppend ==
    ASSUME NEW js \in Seq(Jobs), NEW e \in Jobs, e.save, NEW t, Waiting(js, t)
    PROVE  Waiting(Append(js, e), t + Size[e.key])
  <1> DEFINE A == Saves(js)
             v == SaveSizes(js)
             new == Append(js, e)
             B == Saves(new)
             w == SaveSizes(new)
             n == Len(js) + 1
  <1>1. /\ new \in Seq(Jobs) /\ Len(js) \in Nat
        /\ DOMAIN js = 1 .. Len(js) /\ DOMAIN new = 1 .. n
        /\ \A i \in 1 .. Len(js) : new[i] = js[i]
        /\ new[n] = e
    OBVIOUS
  <1>2. /\ IsFiniteSet(A) /\ NatValued(v, A)
        /\ \A i \in DOMAIN js : v[i] = Size[js[i].key]
    BY SavesFacts
  <1> HIDE DEF new
  <1>3. /\ IsFiniteSet(B) /\ NatValued(w, B)
        /\ \A i \in DOMAIN new : w[i] = Size[new[i].key]
    BY <1>1, SavesFacts
  <1>4. B = A \cup {n} /\ n \notin A
    BY <1>1 DEF Saves
  <1>5. IsSum(t, v, A)
    BY DEF Waiting
  <1>6. \A i \in A : w[i] = v[i]
    <2> SUFFICES ASSUME NEW i \in A PROVE w[i] = v[i]
      OBVIOUS
    <2>1. i \in 1 .. Len(js) /\ i \in 1 .. n
      BY <1>1 DEF Saves
    <2> HIDE DEF A, v, w, n
    <2> QED
      BY <1>1, <1>2, <1>3, <2>1
  <1>7. w[n] = Size[e.key]
    <2>1. n \in 1 .. n
      BY <1>1
    <2> QED
      BY <1>1, <1>3, <2>1
  <1> HIDE DEF A, B, v, w, n
  <1>8. IsSum(t, w, A)
    BY <1>2, <1>5, <1>6, SumSame
  <1>9. IsSum(t + w[n], w, B)
    BY <1>2, <1>3, <1>4, <1>8, SumAdded
  <1> QED
    BY <1>7, <1>9 DEF Waiting, B, w, new

(* A read is queued before them.                                           *)
LEMMA WaitingInsert ==
    ASSUME NEW js \in Seq(Jobs), NEW e \in Jobs, ~e.save, NEW t, Waiting(js, t),
           NEW p \in 1 .. Len(js) + 1
    PROVE  Waiting(InsertAt(js, p, e), t)
  <1> DEFINE A == Saves(js)
             v == SaveSizes(js)
             new == InsertAt(js, p, e)
             B == Saves(new)
             w == SaveSizes(new)
             h == [i \in A |-> IF i < p THEN i ELSE i + 1]
  <1>1. /\ new \in Seq(Jobs) /\ Len(js) \in Nat
        /\ DOMAIN js = 1 .. Len(js) /\ DOMAIN new = 1 .. Len(js) + 1
        /\ \A i \in 1 .. p - 1 : new[i] = js[i]
        /\ \A i \in p + 1 .. Len(js) + 1 : new[i] = js[i - 1]
        /\ new[p] = e
    BY InsertFacts
  <1>2. /\ IsFiniteSet(A) /\ NatValued(v, A)
        /\ \A i \in DOMAIN js : v[i] = Size[js[i].key]
    BY SavesFacts
  <1> HIDE DEF new
  <1>3. /\ IsFiniteSet(B) /\ NatValued(w, B)
        /\ \A i \in DOMAIN new : w[i] = Size[new[i].key]
    BY <1>1, SavesFacts
  <1>4. /\ \A i \in A : i \in 1 .. Len(js) /\ js[i].save
        /\ \A i \in B : i \in 1 .. Len(js) + 1 /\ new[i].save
        /\ \A i \in 1 .. Len(js) : js[i].save => i \in A
        /\ \A i \in 1 .. Len(js) + 1 : new[i].save => i \in B
    BY <1>1 DEF Saves
  <1>5. /\ \A i \in A : h[i] = IF i < p THEN i ELSE i + 1
        /\ \A i, j \in A : h[i] = h[j] => i = j
    BY <1>4
  <1> HIDE DEF A, B, v, w, h
  <1>6. ASSUME NEW i \in A
        PROVE  h[i] \in B /\ w[h[i]] = v[i]
    <2>1. i \in 1 .. Len(js) /\ js[i].save
      BY <1>4
    <2>2. h[i] \in 1 .. Len(js) + 1 /\ new[h[i]] = js[i]
      <3>1. CASE i < p
        BY <1>1, <1>5, <2>1, <3>1
      <3>2. CASE ~(i < p)
        <4>1. h[i] = i + 1 /\ i + 1 \in p + 1 .. Len(js) + 1 /\ (i + 1) - 1 = i
          BY <1>1, <1>5, <2>1, <3>2
        <4>2. new[i + 1] = js[(i + 1) - 1]
          BY <1>1, <4>1
        <4> QED
          BY <4>1, <4>2
      <3> QED
        BY <3>1, <3>2
    <2> QED
      BY <1>1, <1>2, <1>3, <1>4, <2>1, <2>2
  <1>7. ASSUME NEW i \in B
        PROVE  \E x \in A : i = h[x]
    <2>1. i \in 1 .. Len(js) + 1 /\ new[i].save /\ i # p
      BY <1>1, <1>4
    <2>2. CASE i < p
      <3>1. i \in A
        BY <1>1, <1>4, <2>1, <2>2
      <3> QED
        BY <1>5, <2>2, <3>1
    <2>3. CASE ~(i < p)
      <3>1. i \in p + 1 .. Len(js) + 1 /\ i - 1 \in 1 .. Len(js) /\ ~(i - 1 < p)
            /\ (i - 1) + 1 = i
        BY <1>1, <2>1, <2>3
      <3>2. i - 1 \in A
        BY <1>1, <1>4, <2>1, <3>1
      <3> QED
        BY <1>5, <3>1, <3>2
    <2> QED
      BY <2>2, <2>3
  <1>8. IsSum(t, v, A)
    BY DEF Waiting, v, A
  <1>9. IsSum(t, w, B)
    BY <1>2, <1>3, <1>5, <1>6, <1>7, <1>8, SumRenamed
  <1> QED
    BY <1>9 DEF Waiting, B, w, new

LEMMA MaxIsMember ==
    ASSUME NEW n \in Nat, NEW s \in SUBSET (1 .. n), s # {}
    PROVE  Max(s) \in s
  <1> DEFINE N == {m \in Nat : \A u \in SUBSET (1 .. m) : u # {} =>
                                  \E x \in u : \A y \in u : x >= y}
  <1>1. 0 \in N
    <2>1. \A u \in SUBSET (1 .. 0) : u = {}
      OBVIOUS
    <2> QED
      BY <2>1
  <1>2. ASSUME NEW m \in Nat, m \in N
        PROVE  m + 1 \in N
    <2> SUFFICES ASSUME NEW u \in SUBSET (1 .. m + 1), u # {}
                 PROVE  \E x \in u : \A y \in u : x >= y
      OBVIOUS
    <2>1. CASE m + 1 \in u
      BY <2>1
    <2>2. CASE m + 1 \notin u
      <3>1. u \in SUBSET (1 .. m)
        BY <2>2
      <3> QED
        BY <1>2, <3>1
    <2> QED
      BY <2>1, <2>2
  <1> HIDE DEF N
  <1>3. Nat \subseteq N
    BY <1>1, <1>2, SetInduction
  <1>4. \E x \in s : \A y \in s : x >= y
    BY <1>3 DEF N
  <1> QED
    BY <1>4 DEF Max

(* What trim makes of the map recs, in which t is reserved: records that   *)
(* may be evicted are taken out, with what they reserve.                   *)
Stages(recs, t) ==
    {s \in [records : [Keys -> Records \cup {None}], reserved : Nat] :
        /\ s.reserved <= t
        /\ Reserved(s.records, rec, s.reserved)
        /\ \A k \in Keys : s.records[k] # recs[k] => s.records[k] = None /\ Evictable(recs[k])}

LEMMA EvictNextStage ==
    ASSUME rec \in [Records -> Object], NEW recs \in [Keys -> Records \cup {None}],
           NEW t \in Nat, NEW s \in Stages(recs, t), NEW k \in Keys, NEW incoming
    PROVE  EvictNext(s, k, incoming) \in Stages(recs, t)
  <1>1. CASE ~ (Over(s, incoming) /\ s.records[k] # None /\ Evictable(s.records[k]))
    BY <1>1 DEF EvictNext
  <1>2. CASE Over(s, incoming) /\ s.records[k] # None /\ Evictable(s.records[k])
    <2> DEFINE new == [s.records EXCEPT ![k] = None]
               left == s.reserved - rec[s.records[k]].reserved
               e == [records |-> new, reserved |-> left]
    <2>1. /\ s.records \in [Keys -> Records \cup {None}] /\ s.reserved \in Nat
          /\ s.reserved <= t
          /\ Reserved(s.records, rec, s.reserved)
          /\ \A x \in Keys : s.records[x] # recs[x]
                                => s.records[x] = None /\ Evictable(recs[x])
      BY DEF Stages
    <2>2. Reserved(new, rec, left) /\ left \in Nat /\ rec[s.records[k]].reserved \in Nat
      BY <1>2, <2>1, ReservedRemoved
    <2>3. left <= t
      BY <2>1, <2>2
    <2>4. \A x \in Keys : new[x] # recs[x] => new[x] = None /\ Evictable(recs[x])
      BY <1>2, <2>1
    <2>5. new \in [Keys -> Records \cup {None}]
      BY <2>1
    <2>6. EvictNext(s, k, incoming) = e
      BY <1>2 DEF EvictNext
    <2> HIDE DEF new, left
    <2>7. /\ e \in [records : [Keys -> Records \cup {None}], reserved : Nat]
          /\ e.records = new /\ e.reserved = left
      BY <2>2, <2>5
    <2> HIDE DEF e
    <2>8. e \in Stages(recs, t)
      BY <2>2, <2>3, <2>4, <2>7 DEF Stages
    <2> QED
      BY <2>6, <2>8
  <1> QED
    BY <1>1, <1>2

LEMMA TrimmedStage ==
    ASSUME rec \in [Records -> Object], NEW recs \in [Keys -> Records \cup {None}],
           NEW t \in Nat, Reserved(recs, rec, t), NEW incoming
    PROVE  Trimmed([records |-> recs, reserved |-> t], incoming) \in Stages(recs, t)
  <1> DEFINE base == [records |-> recs, reserved |-> t]
             V == Stages(recs, t)
             S == DOMAIN KeyOrder
             g == CHOOSE g : g = [s \in SUBSET S |->
                     IF s = {} THEN base
                     ELSE EvictNext(g[s \ {Max(s)}], KeyOrder[Max(s)], incoming)]
  <1>1. Trimmed(base, incoming) = g[S]
    BY DEF Trimmed, FoldLeft, MapThenFoldSet
  <1>2. base \in V
    BY DEF Stages
  <1>3. /\ S = 1 .. Cardinality(Keys) /\ Cardinality(Keys) \in Nat
        /\ \A i \in S : KeyOrder[i] \in Keys
    <2>1. IsFiniteSet(Keys) /\ KeyOrder \in [1 .. Cardinality(Keys) -> Keys]
      BY StoreAssumption
    <2>2. Cardinality(Keys) \in Nat
      BY <2>1, FS_CardinalityType
    <2> QED
      BY <2>1, <2>2
  <1>15. IsFiniteSet(S)
    <2>1. IsFiniteSet(1 .. Cardinality(Keys))
      BY <1>3, FS_Interval
    <2> QED
      BY <1>3, <2>1
  <1>4. ASSUME NEW i \in S, NEW y \in V
        PROVE  EvictNext(y, KeyOrder[i], incoming) \in V
    BY <1>3, EvictNextStage
  <1>5. \A s \in SUBSET S : s # {} => Max(s) \in s
    BY <1>3, MaxIsMember
  <1> DEFINE ch == [s \in SUBSET S |-> Max(s)]
             st == [i \in S |-> [y \in V |-> EvictNext(y, KeyOrder[i], incoming)]]
  <1> HIDE DEF V, base, S, g
  <1>6. /\ \A s \in SUBSET S : ch[s] = Max(s)
        /\ \A i \in S, y \in V : st[i][y] = EvictNext(y, KeyOrder[i], incoming)
    OBVIOUS
  <1> HIDE DEF ch, st
  <1>7. PICK f \in [SUBSET S -> V] : FoldsOf(S, base, ch, st, f)
    <2>1. \A i \in S, y \in V : st[i][y] \in V
      BY <1>4, <1>6
    <2>2. \A s \in SUBSET S : s # {} => ch[s] \in s
      BY <1>5, <1>6
    <2> QED
      BY <1>2, <1>15, <2>1, <2>2, FoldsExist
  <1>8. \A s \in SUBSET S :
           f[s] = IF s = {} THEN base
                  ELSE EvictNext(f[s \ {Max(s)}], KeyOrder[Max(s)], incoming)
    <2> SUFFICES ASSUME NEW s \in SUBSET S, s # {}
                 PROVE  f[s] = EvictNext(f[s \ {Max(s)}], KeyOrder[Max(s)], incoming)
      BY <1>7 DEF FoldsOf
    <2>1. f[s] = st[ch[s]][f[s \ {ch[s]}]]
      BY <1>7 DEF FoldsOf
    <2>2. Max(s) \in S /\ f[s \ {Max(s)}] \in V /\ ch[s] = Max(s)
      BY <1>5, <1>6, <1>7
    <2> QED
      BY <1>6, <2>1, <2>2
  <1>9. f = [s \in SUBSET S |->
               IF s = {} THEN base
               ELSE EvictNext(f[s \ {Max(s)}], KeyOrder[Max(s)], incoming)]
    <2>1. f = [s \in SUBSET S |-> f[s]]
      BY <1>7
    <2> QED
      BY <1>8, <2>1
  <1>10. g = [s \in SUBSET S |->
                IF s = {} THEN base
                ELSE EvictNext(g[s \ {Max(s)}], KeyOrder[Max(s)], incoming)]
    BY <1>9 DEF g
  <1> DEFINE N == {n \in Nat : \A s \in SUBSET S : Cardinality(s) = n => g[s] \in V}
  <1>11. 0 \in N
    <2>1. \A s \in SUBSET S : Cardinality(s) = 0 => s = {}
      BY <1>15, PartCardinality
    <2>2. g[{}] = base
      BY <1>10
    <2> QED
      BY <1>2, <2>1, <2>2
  <1>12. ASSUME NEW n \in Nat, n \in N
         PROVE  n + 1 \in N
    <2> SUFFICES ASSUME NEW s \in SUBSET S, Cardinality(s) = n + 1
                 PROVE  g[s] \in V
      OBVIOUS
    <2>1. s # {} /\ Max(s) \in s
      BY <1>15, <1>5, PartCardinality
    <2>2. s \ {Max(s)} \in SUBSET S /\ Cardinality(s \ {Max(s)}) = n
      <3>1. Cardinality(s \ {Max(s)}) = Cardinality(s) - 1
        BY <1>15, <2>1, PartCardinality
      <3> QED
        BY <3>1
    <2>3. g[s \ {Max(s)}] \in V
      BY <1>12, <2>2
    <2>4. g[s] = EvictNext(g[s \ {Max(s)}], KeyOrder[Max(s)], incoming)
      BY <1>10, <2>1
    <2> QED
      BY <1>4, <2>1, <2>3, <2>4
  <1> HIDE DEF N
  <1>13. Nat \subseteq N
    BY <1>11, <1>12, SetInduction
  <1>14. g[S] \in V
    <2>1. Cardinality(S) \in Nat
      BY <1>15, FS_CardinalityType
    <2> QED
      BY <1>13, <2>1 DEF N
  <1> QED
    BY <1>1, <1>14 DEF base, V

(* The records in the map and those the items hold are of their keys, and  *)
(* what is reserved is what the map's records reserve, within the limits.  *)
PointersAgree(recs, hs, objs) ==
    /\ recs \in [Keys -> Records \cup {None}] /\ hs \in [Keys -> Records \cup {None}]
    /\ \A k \in Keys : /\ recs[k] # None => objs[recs[k]].key = k
                       /\ hs[k] # None => objs[hs[k]].key = k

Within(recs, objs, t) ==
    /\ Reserved(recs, objs, t) /\ t \in 0 .. MaxBytes
    /\ Count(recs) <= MaxRecords
    /\ \A r \in Records : objs[r].reserved <= MaxBytes

Ledger == PointersAgree(records, held, rec) /\ Within(records, rec, reservedBytes)

(* The bytes that wait to be written are those of the queued saves and of  *)
(* the one the worker has; no other step of the worker is part of a save.  *)
Writing == IF job.save THEN Size[job.key] ELSE 0

WriteLedger ==
    /\ Len(jobs) <= MaxJobs
    /\ job.save <=> wpc \in {"write", "rename", "retry", "saved"}
    /\ queuedWriteBytes <= MaxBytes
    /\ \E t : Waiting(jobs, t) /\ queuedWriteBytes = t + Writing

ManagerType ==
    /\ stop \in BOOLEAN
    /\ wpc \in {"wait", "exited", "read", "hit", "release", "write", "rename", "retry", "saved"}
    /\ item \in [Keys -> {Idle, "waits", "baked"}]
    /\ readbacks \subseteq Keys
    /\ created \in [Keys -> Nat] /\ \A k \in Keys : created[k] <= MaxItems[k]

AccountsInv == StoreInv /\ Ledger /\ WriteLedger /\ ManagerType

-----------------------------------------------------------------------------
(* The step that gives back the objects nobody refers to keeps the ledger. *)
LEMMA LedgerKept ==
    ASSUME NEW recs \in [Records -> Object], Objects(recs) \/ rec' = recs,
           jobs' \in Seq(Jobs),
           PointersAgree(records', held', recs), Within(records', recs, reservedBytes')
    PROVE  Ledger'
  <1>1. /\ rec' \in [Records -> Object]
        /\ \A r \in Records : rec'[r] = recs[r] \/ rec'[r] = Free
        /\ \A r \in Records : References(r)' # 0 => rec'[r] = recs[r]
    BY ObjectsFacts
  <1>2. ASSUME NEW k \in Keys
        PROVE  /\ records'[k] # None => rec'[records'[k]] = recs[records'[k]]
               /\ held'[k] # None => rec'[held'[k]] = recs[held'[k]]
    <2>1. records'[k] \in Records \cup {None} /\ held'[k] \in Records \cup {None}
      BY DEF PointersAgree
    <2>2. ASSUME NEW r \in Records, records'[k] = r \/ held'[k] = r
          PROVE  rec'[r] = recs[r]
      BY <1>1, <2>2, ReferredToNext
    <2> QED
      BY <2>1, <2>2
  <1>3. PointersAgree(records', held', rec')
    BY <1>2 DEF PointersAgree
  <1>4. Within(records', rec', reservedBytes')
    <2>1. Reserved(records', rec', reservedBytes')
      BY <1>1, <1>2, ReservedSame DEF PointersAgree, Within
    <2>2. Free.reserved <= MaxBytes
      BY StoreAssumption DEF Free
    <2> QED
      BY <1>1, <2>1, <2>2 DEF Within
  <1> QED
    BY <1>3, <1>4 DEF Ledger

(* Maps that have fewer records, and one more.                             *)
LEMMA CountFewer ==
    ASSUME NEW recs, NEW new, \A k \in Keys : new[k] # None => recs[k] # None
    PROVE  Count(new) <= Count(recs) /\ Count(new) \in Nat /\ Count(recs) \in Nat
  <1>1. {k \in Keys : new[k] # None} \in SUBSET {k \in Keys : recs[k] # None}
    OBVIOUS
  <1>2. IsFiniteSet({k \in Keys : recs[k] # None})
    BY FS_Subset, StoreAssumption
  <1> QED
    BY <1>1, <1>2, FS_Subset, FS_CardinalityType DEF Count

LEMMA CountOneMore ==
    ASSUME NEW recs \in [Keys -> Records \cup {None}], NEW k \in Keys, recs[k] = None,
           NEW r \in Records
    PROVE  Count([recs EXCEPT ![k] = r]) = Count(recs) + 1
  <1> DEFINE A == {x \in Keys : recs[x] # None}
             B == {x \in Keys : [recs EXCEPT ![k] = r][x] # None}
  <1>1. B = A \cup {k} /\ k \notin A
    BY RecordsAssumption
  <1>2. IsFiniteSet(A)
    BY FS_Subset, StoreAssumption
  <1> HIDE DEF A, B
  <1>3. Cardinality(B) = Cardinality(A) + 1
    BY <1>1, <1>2, FS_AddElement
  <1> QED
    BY <1>3 DEF Count, A, B

(* trim leaves a map that is still in order, ...                           *)
LEMMA TrimmedKept ==
    ASSUME StoreInv, Ledger, NEW recs, NEW t, recs \in [Keys -> Records \cup {None}],
           \A k \in Keys : recs[k] \in {records[k], None},
           Within(recs, rec, t), NEW s \in Stages(recs, t)
    PROVE  /\ s.records \in [Keys -> Records \cup {None}] /\ s.reserved \in Nat
           /\ \A k \in Keys : s.records[k] \in {records[k], None}
           /\ \A k \in Keys : recs[k] = None => s.records[k] = None
           /\ Within(s.records, rec, s.reserved)
  <1>1. /\ s.records \in [Keys -> Records \cup {None}] /\ s.reserved \in Nat
        /\ s.reserved <= t /\ Reserved(s.records, rec, s.reserved)
        /\ \A k \in Keys : s.records[k] # recs[k] => s.records[k] = None
    BY DEF Stages
  <1>2. Count(s.records) <= MaxRecords
    <2>1. Count(s.records) <= Count(recs) /\ Count(s.records) \in Nat /\ Count(recs) \in Nat
      BY <1>1, CountFewer
    <2>2. MaxRecords \in Nat
      BY StoreAssumption
    <2> QED
      BY <2>1, <2>2 DEF Within
  <1>3. s.reserved \in 0 .. MaxBytes
    <2>1. t \in Nat /\ MaxBytes \in Nat /\ t <= MaxBytes
      BY StoreAssumption DEF Within
    <2> QED
      BY <1>1, <2>1
  <1> QED
    BY <1>1, <1>2, <1>3 DEF Within

(* ... in which there is then room for the record the step makes.          *)
Made(objs, k) ==
    /\ objs \in [Records -> Object] /\ Unallocated \in Records
    /\ objs[Unallocated].key = k /\ objs[Unallocated].reserved = Size[k]
    /\ \A r \in Records \ {Unallocated} : objs[r] = rec[r]

LEMMA MadeFacts ==
    ASSUME StoreInv, Unused # {}, NEW k \in Keys, NEW state \in {"Pending", "Hit"},
           NEW bytes \in Contents
    PROVE  Made([rec EXCEPT ![Unallocated] = NewRecord(k, state, bytes)], k)
  <1>1. NewRecord(k, state, bytes) \in Object
    BY StoreAssumption DEF NewRecord, Object
  <1>2. /\ NewRecord(k, state, bytes).key = k /\ NewRecord(k, state, bytes).reserved = Size[k]
    BY DEF NewRecord
  <1>3. rec \in [Records -> Object] /\ Unallocated \in Records
    BY AllocationFacts DEF StoreInv, StoreType
  <1> QED
    BY <1>1, <1>2, <1>3 DEF Made

LEMMA RoomForOne ==
    ASSUME StoreInv, Unused # {},
           NEW m \in [Keys -> Records \cup {None}], NEW q \in Nat, NEW k \in Keys, NEW objs,
           \A x \in Keys : m[x] \in {records[x], None}, Within(m, rec, q), Made(objs, k)
    PROVE  /\ Within(m, objs, q)
           /\ m[k] = None /\ q + Size[k] <= MaxBytes /\ Count(m) < MaxRecords
                => Within([m EXCEPT ![k] = Unallocated], objs, q + Size[k])
  <1>1. Size[k] \in Nat /\ Size[k] <= MaxBytes /\ MaxBytes \in Nat /\ MaxRecords \in Nat
    BY StoreAssumption
  <1>2. rec \in [Records -> Object] /\ Unallocated \in Records
        /\ \A x \in Keys : records[x] # Unallocated
    BY AllocationFacts DEF StoreInv, StoreType
  <1>3. /\ objs \in [Records -> Object]
        /\ objs[Unallocated].key = k /\ objs[Unallocated].reserved = Size[k]
        /\ \A r \in Records \ {Unallocated} : objs[r] = rec[r]
    BY DEF Made
  <1>4. Reserved(m, objs, q)
    <2>1. \A x \in Keys : m[x] # None => objs[m[x]].reserved = rec[m[x]].reserved
      BY <1>2, <1>3
    <2>2. Reserved(m, rec, q)
      BY DEF Within
    <2> QED
      BY <1>2, <1>3, <2>1, <2>2, ReservedSame
  <1>5. \A r \in Records : objs[r].reserved <= MaxBytes
    BY <1>1, <1>3 DEF Within
  <1>6. ASSUME m[k] = None, q + Size[k] <= MaxBytes, Count(m) < MaxRecords
        PROVE  Within([m EXCEPT ![k] = Unallocated], objs, q + Size[k])
    <2>1. Reserved([m EXCEPT ![k] = Unallocated], objs, q + Size[k])
      BY <1>2, <1>3, <1>4, <1>6, ReservedAdded
    <2>2. q + Size[k] \in 0 .. MaxBytes
      BY <1>1, <1>6
    <2>3. Count([m EXCEPT ![k] = Unallocated]) = Count(m) + 1
      BY <1>2, <1>6, CountOneMore
    <2>4. Count(m) \in Nat
      BY CountFewer
    <2>5. Count([m EXCEPT ![k] = Unallocated]) <= MaxRecords
      BY <1>1, <1>6, <2>3, <2>4
    <2> QED
      BY <1>5, <2>1, <2>2, <2>5 DEF Within
  <1> QED
    BY <1>4, <1>5, <1>6 DEF Within

LEMMA AccountsType ==
    ASSUME AccountsInv
    PROVE  /\ rec \in [Records -> Object] /\ jobs \in Seq(Jobs) /\ job \in Jobs /\ job.key \in Keys
           /\ PointersAgree(records, held, rec) /\ Within(records, rec, reservedBytes)
           /\ Reserved(records, rec, reservedBytes)
           /\ records \in [Keys -> Records \cup {None}] /\ held \in [Keys -> Records \cup {None}]
           /\ reservedBytes \in Nat
           /\ MaxBytes \in Nat /\ \A k \in Keys : Size[k] \in Nat /\ Size[k] <= MaxBytes
  <1>1. /\ rec \in [Records -> Object] /\ jobs \in Seq(Jobs) /\ job \in Jobs
    BY DEF AccountsInv, StoreInv, StoreType
  <1>2. PointersAgree(records, held, rec) /\ Within(records, rec, reservedBytes)
    BY DEF AccountsInv, Ledger
  <1>3. reservedBytes \in 0 .. MaxBytes /\ Reserved(records, rec, reservedBytes)
    BY <1>2 DEF Within
  <1>4. MaxBytes \in Nat /\ \A k \in Keys : Size[k] \in Nat /\ Size[k] <= MaxBytes
    BY StoreAssumption
  <1> QED
    BY <1>1, <1>2, <1>3, <1>4 DEF PointersAgree, Jobs

LEMMA RequestLedger ==
    ASSUME AccountsInv, NEW k \in Keys, Request(k), jobs' \in Seq(Jobs)
    PROVE  Ledger'
  <1> DEFINE s == Trimmed([records |-> records, reserved |-> reservedBytes], Size[k])
             U == Unallocated
  <1>1. s \in Stages(records, reservedBytes)
    BY AccountsType, TrimmedStage
  <1> HIDE DEF s
  <1>2. /\ s.records \in [Keys -> Records \cup {None}] /\ s.reserved \in Nat
        /\ \A x \in Keys : s.records[x] \in {records[x], None}
        /\ Within(s.records, rec, s.reserved)
    BY <1>1, AccountsType, TrimmedKept DEF AccountsInv
  <1>3. Unused # {} /\ StoreInv
    BY DEF Request, AccountsInv
  <1>4. CASE Found(k)
    <2>1. /\ UNCHANGED <<records, reservedBytes, rec>>
          /\ held' = [held EXCEPT ![k] = records[k]] /\ records[k] # None
      BY <1>4 DEF Found, Refers, store
    <2>2. PointersAgree(records', held', rec)
      BY <2>1, AccountsType DEF PointersAgree
    <2> QED
      BY <2>1, <2>2, AccountsType, LedgerKept
  <1>5. CASE Refused(k, s)
    <2>1. /\ records' = s.records /\ reservedBytes' = s.reserved
          /\ Objects(rec) /\ held' = held
      BY <1>5 DEF Refused
    <2>2. PointersAgree(records', held', rec)
      BY <1>2, <2>1, AccountsType DEF PointersAgree
    <2>3. Within(records', rec, reservedBytes')
      BY <1>2, <2>1
    <2> QED
      BY <2>1, <2>2, <2>3, AccountsType, LedgerKept
  <1>6. CASE Queued(k, s)
    <2> DEFINE recs == [rec EXCEPT ![U] = NewRecord(k, "Pending", Absent)]
    <2>1. /\ records' = [s.records EXCEPT ![k] = U] /\ reservedBytes' = s.reserved + Size[k]
          /\ held' = [held EXCEPT ![k] = U]
          /\ records[k] = None /\ Room(s, Size[k]) /\ Objects(recs)
      BY <1>6 DEF Queued, Refers
    <2>2. Absent \in Contents
      BY DEF Contents
    <2>3. Made(recs, k)
      BY <1>3, <2>2, MadeFacts
    <2> HIDE DEF recs
    <2>7. s.records[k] = None /\ Room(s, Size[k])
             => Within([s.records EXCEPT ![k] = U], recs, s.reserved + Size[k])
      BY <1>2, <1>3, <2>3, RoomForOne DEF Room
    <2>4. U \in Records /\ \A x \in Keys : records[x] # U /\ held[x] # U
      BY <1>3, AllocationFacts
    <2> HIDE DEF U
    <2>5. PointersAgree(records', held', recs)
      BY <1>2, <2>1, <2>3, <2>4, AccountsType DEF PointersAgree, Made, U
    <2>6. Within(records', recs, reservedBytes')
      <3>1. s.records[k] = None
        BY <1>2, <2>1
      <3> QED
        BY <2>1, <2>7, <3>1
    <2> QED
      BY <2>1, <2>3, <2>5, <2>6, LedgerKept DEF Made
  <1> QED
    BY <1>4, <1>5, <1>6 DEF Request, s

(* What publish hands to trim: the map without its key, and what is        *)
(* reserved then.                                                          *)
Without(k) == [records EXCEPT ![k] = None]

LeftWithout(k) == reservedBytes - (IF records[k] = None THEN 0 ELSE rec[records[k]].reserved)

LEMMA WithoutKept ==
    ASSUME AccountsInv, NEW k \in Keys
    PROVE  /\ Without(k) \in [Keys -> Records \cup {None}]
           /\ Without(k)[k] = None /\ \A x \in Keys \ {k} : Without(k)[x] = records[x]
           /\ LeftWithout(k) \in Nat /\ LeftWithout(k) <= reservedBytes
           /\ Reserved(Without(k), rec, LeftWithout(k))
  <1>1. /\ Without(k) \in [Keys -> Records \cup {None}]
        /\ Without(k)[k] = None /\ \A x \in Keys \ {k} : Without(k)[x] = records[x]
    BY AccountsType DEF Without
  <1>2. CASE records[k] = None
    <2>1. Without(k) = records /\ LeftWithout(k) = reservedBytes
      BY <1>2, AccountsType DEF Without, LeftWithout
    <2> QED
      BY <1>1, <2>1, AccountsType
  <1>3. CASE records[k] # None
    <2>1. /\ Reserved(Without(k), rec, reservedBytes - rec[records[k]].reserved)
          /\ reservedBytes - rec[records[k]].reserved \in Nat
          /\ rec[records[k]].reserved \in Nat
      BY <1>3, AccountsType, ReservedRemoved DEF Without
    <2>2. LeftWithout(k) = reservedBytes - rec[records[k]].reserved
      BY <1>3 DEF LeftWithout
    <2>3. LeftWithout(k) <= reservedBytes
      BY <2>1, <2>2, AccountsType
    <2> QED
      BY <1>1, <2>1, <2>2, <2>3
  <1> QED
    BY <1>2, <1>3

LEMMA PublishLedger ==
    ASSUME AccountsInv, NEW k \in Keys, Publish(k), jobs' \in Seq(Jobs)
    PROVE  Ledger'
  <1> DEFINE U == Unallocated
             base == Without(k)
             left == LeftWithout(k)
             s == Trimmed([records |-> base, reserved |-> left], Size[k])
             recs == [rec EXCEPT ![U] = NewRecord(k, "Hit", Whole)]
  <1>1. /\ records' = IF Room(s, Size[k]) THEN [s.records EXCEPT ![k] = U] ELSE s.records
        /\ reservedBytes' = s.reserved + (IF Room(s, Size[k]) THEN Size[k] ELSE 0)
        /\ held' = held /\ Objects(recs) /\ Unused # {}
    BY DEF Publish, Without, LeftWithout
  <1>2. StoreInv /\ Whole \in Contents
    BY DEF AccountsInv, Contents
  <1> HIDE DEF s
  <1>3. /\ base \in [Keys -> Records \cup {None}]
        /\ \A x \in Keys : base[x] \in {records[x], None}
        /\ base[k] = None
    BY WithoutKept
  <1>4. Reserved(base, rec, left) /\ left \in Nat /\ left <= reservedBytes
    BY WithoutKept
  <1> HIDE DEF left
  <1>5. Within(base, rec, left)
    <2>1. Count(base) <= Count(records) /\ Count(base) \in Nat /\ Count(records) \in Nat
      <3>1. \A x \in Keys : base[x] # None => records[x] # None
        BY <1>3
      <3> QED
        BY <3>1, CountFewer
    <2>2. Count(records) <= MaxRecords /\ reservedBytes \in 0 .. MaxBytes
          /\ \A r \in Records : rec[r].reserved <= MaxBytes
      BY AccountsType DEF Within
    <2>3. MaxRecords \in Nat
      BY StoreAssumption
    <2>4. Count(base) <= MaxRecords
      BY <2>1, <2>2, <2>3
    <2>5. left \in 0 .. MaxBytes
      BY <1>4, <2>2, AccountsType
    <2> QED
      BY <1>4, <2>2, <2>4, <2>5 DEF Within
  <1>6. s \in Stages(base, left)
    BY <1>3, <1>4, AccountsType, TrimmedStage DEF s
  <1> HIDE DEF base
  <1>7. /\ s.records \in [Keys -> Records \cup {None}] /\ s.reserved \in Nat
        /\ \A x \in Keys : s.records[x] \in {records[x], None}
        /\ s.records[k] = None
        /\ Within(s.records, rec, s.reserved)
    BY <1>3, <1>5, <1>6, AccountsType, TrimmedKept DEF AccountsInv
  <1>8. Made(recs, k)
    BY <1>1, <1>2, MadeFacts
  <1> HIDE DEF recs
  <1>12. /\ Within(s.records, recs, s.reserved)
         /\ s.records[k] = None /\ Room(s, Size[k])
               => Within([s.records EXCEPT ![k] = U], recs, s.reserved + Size[k])
    BY <1>1, <1>2, <1>7, <1>8, RoomForOne DEF Room
  <1>9. U \in Records /\ \A x \in Keys : records[x] # U /\ held[x] # U
    BY <1>1, <1>2, AllocationFacts
  <1> HIDE DEF U
  <1>10. PointersAgree(records', held', recs)
    BY <1>1, <1>7, <1>8, <1>9, AccountsType DEF PointersAgree, Made, U
  <1>11. Within(records', recs, reservedBytes')
    <2>1. CASE Room(s, Size[k])
      BY <1>1, <1>7, <1>12, <2>1
    <2>2. CASE ~Room(s, Size[k])
      <3>1. reservedBytes' = s.reserved
        BY <1>1, <1>7, <2>2
      <3> QED
        BY <1>1, <1>12, <2>2, <3>1
    <2> QED
      BY <2>1, <2>2
  <1> QED
    BY <1>1, <1>8, <1>10, <1>11, LedgerKept DEF Made

(* The worker changes no key, and what its record reserves only when it    *)
(* gives it back.                                                          *)
LEMMA SameReservesLedger ==
    ASSUME AccountsInv, NEW recs \in [Records -> Object], Objects(recs) \/ rec' = recs,
           \A r \in Records : recs[r].key = rec[r].key /\ recs[r].reserved = rec[r].reserved,
           UNCHANGED <<records, reservedBytes>>, jobs' \in Seq(Jobs),
           held' \in [Keys -> Records \cup {None}],
           \A k \in Keys : held'[k] \in {held[k], None}
    PROVE  Ledger'
  <1>1. \A k \in Keys : records[k] \in Records \cup {None} /\ held[k] \in Records \cup {None}
    BY AccountsType
  <1>2. PointersAgree(records', held', recs)
    BY <1>1, AccountsType DEF PointersAgree
  <1>3. Reserved(records, recs, reservedBytes)
    <2>1. \A k \in Keys : records[k] # None =>
             recs[records[k]].reserved = rec[records[k]].reserved
      BY <1>1
    <2> QED
      BY <2>1, AccountsType, ReservedSame
  <1>4. Within(records', recs, reservedBytes')
    BY <1>3, AccountsType DEF Within
  <1> QED
    BY <1>2, <1>4, LedgerKept

LEMMA ReadLedger ==
    ASSUME AccountsInv, ReadFile \/ DecideHit, jobs' \in Seq(Jobs)
    PROVE  Ledger'
  <1>1. job.record \in Records /\ UNCHANGED <<records, reservedBytes, held>>
    BY DEF ReadFile, DecideHit, store, manager, AccountsInv, StoreInv, WorkersRecord
  <1>2. PICK recs \in [Records -> Object] :
           /\ Objects(recs)
           /\ \A r \in Records : recs[r].key = rec[r].key /\ recs[r].reserved = rec[r].reserved
    <2>1. CASE ReadFile
      <3>1. file[job.key] \in Contents
        BY AccountsType DEF AccountsInv, StoreInv, StoreType
      <3>2. \/ Objects([rec EXCEPT ![job.record].bytes = file[job.key]])
            \/ Objects([rec EXCEPT ![job.record].state = FailedRead])
        BY <2>1 DEF ReadFile
      <3> DEFINE a == [rec EXCEPT ![job.record].bytes = file[job.key]]
                 b == [rec EXCEPT ![job.record].state = FailedRead]
      <3>3. /\ a \in [Records -> Object]
            /\ \A r \in Records : a[r].key = rec[r].key /\ a[r].reserved = rec[r].reserved
        BY <1>1, <3>1, AccountsType DEF Object
      <3>4. /\ b \in [Records -> Object]
            /\ \A r \in Records : b[r].key = rec[r].key /\ b[r].reserved = rec[r].reserved
        BY <1>1, AccountsType DEF Object, FailedRead
      <3> HIDE DEF a, b
      <3>5. Objects(a) \/ Objects(b)
        BY <3>2 DEF a, b
      <3> QED
        BY <3>3, <3>4, <3>5
    <2>2. CASE DecideHit
      <3> DEFINE a == [rec EXCEPT ![job.record].state = "Hit"]
      <3>1. Objects(a)
        BY <2>2 DEF DecideHit
      <3>2. /\ a \in [Records -> Object]
            /\ \A r \in Records : a[r].key = rec[r].key /\ a[r].reserved = rec[r].reserved
        BY <1>1, AccountsType DEF Object
      <3> HIDE DEF a
      <3> QED
        BY <3>1, <3>2
    <2> QED
      BY <2>1, <2>2
  <1> QED
    BY <1>1, <1>2, AccountsType, SameReservesLedger

(* A miss gives back its bytes, if its key has not got another record.     *)
LEMMA ReleaseLedger ==
    ASSUME AccountsInv, ReleaseMiss, jobs' \in Seq(Jobs)
    PROVE  Ledger'
  <1>1. job.record \in Records /\ job.key \in Keys /\ UNCHANGED <<records, held>>
    BY AccountsType DEF ReleaseMiss, manager, AccountsInv, StoreInv, WorkersRecord
  <1>2. CASE ~IsCurrent
    BY <1>1, <1>2, AccountsType, SameReservesLedger DEF ReleaseMiss
  <1>3. CASE IsCurrent
    <2> DEFINE R == job.record
               K == job.key
               recs == [rec EXCEPT ![R].reserved = 0]
               out == [records EXCEPT ![K] = None]
               left == reservedBytes - rec[R].reserved
    <2>1. reservedBytes' = left /\ Objects(recs) /\ records[K] = R
      BY <1>3 DEF ReleaseMiss, IsCurrent
    <2>2. /\ recs \in [Records -> Object]
          /\ recs[R].reserved = 0 /\ recs[R].key = rec[R].key
          /\ \A r \in Records \ {R} : recs[r] = rec[r]
      BY <1>1, AccountsType DEF Object
    <2>3. /\ out \in [Keys -> Records \cup {None}]
          /\ out[K] = None /\ \A k \in Keys \ {K} : out[k] = records[k]
          /\ records = [out EXCEPT ![K] = R]
      BY <1>1, <2>1, AccountsType
    <2>4. R # None
      BY <1>1, RecordsAssumption
    <2>5. Reserved(out, rec, left) /\ left \in Nat /\ left <= reservedBytes
      <3>1. /\ Reserved(out, rec, reservedBytes - rec[records[K]].reserved)
            /\ reservedBytes - rec[records[K]].reserved \in Nat
            /\ rec[records[K]].reserved \in Nat
        BY <1>1, <2>1, <2>4, AccountsType, ReservedRemoved
      <3> QED
        BY <2>1, <3>1, AccountsType
    <2> HIDE DEF recs, out, left
    <2>6. \A k \in Keys : out[k] # None => out[k] \in Records \ {R}
      <3> SUFFICES ASSUME NEW k \in Keys, out[k] # None
                   PROVE  out[k] \in Records \ {R}
        OBVIOUS
      <3>1. k # K /\ out[k] = records[k] /\ records[k] \in Records
        BY <2>3, AccountsType
      <3>2. rec[records[k]].key = k /\ rec[records[K]].key = K
        BY <1>1, <2>1, <2>4, <3>1, AccountsType DEF PointersAgree
      <3> QED
        BY <2>1, <3>1, <3>2
    <2>7. Reserved(out, recs, left)
      <3>1. \A k \in Keys : out[k] # None => recs[out[k]].reserved = rec[out[k]].reserved
        BY <2>2, <2>6
      <3> QED
        BY <2>2, <2>3, <2>5, <3>1, AccountsType, ReservedSame
    <2>8. Reserved(records, recs, left)
      <3>1. Reserved([out EXCEPT ![K] = R], recs, left + recs[R].reserved)
        BY <1>1, <2>2, <2>3, <2>7, ReservedAdded
      <3>2. left + recs[R].reserved = left
        BY <2>2, <2>5
      <3> QED
        BY <2>3, <3>1, <3>2
    <2>9. Within(records', recs, reservedBytes')
      <3>1. left \in 0 .. MaxBytes
        BY <2>5, AccountsType DEF Within
      <3>2. \A r \in Records : recs[r].reserved <= MaxBytes
        BY <2>2, AccountsType DEF Within
      <3>3. Count(records) <= MaxRecords
        BY AccountsType DEF Within
      <3> QED
        BY <1>1, <2>1, <2>8, <3>1, <3>2, <3>3 DEF Within
    <2>10. PointersAgree(records', held', recs)
      <3>1. \A r \in Records : recs[r].key = rec[r].key
        BY <2>2
      <3> QED
        BY <1>1, <3>1, AccountsType DEF PointersAgree
    <2> QED
      BY <2>1, <2>2, <2>9, <2>10, LedgerKept
  <1> QED
    BY <1>2, <1>3

(* A process that has just started.                                        *)
LEMMA EmptyLedger ==
    /\ PointersAgree([k \in Keys |-> None], [k \in Keys |-> None], [r \in Records |-> Free])
    /\ Within([k \in Keys |-> None], [r \in Records |-> Free], 0)
  <1> DEFINE m == [k \in Keys |-> None]
             objs == [r \in Records |-> Free]
  <1>1. m \in [Keys -> Records \cup {None}] /\ \A k \in Keys : m[k] = None
    OBVIOUS
  <1>2. Count(m) = 0
    <2>1. {k \in Keys : m[k] # None} = {}
      OBVIOUS
    <2> QED
      BY <2>1, FS_EmptySet DEF Count
  <1>3. Reserved(m, objs, 0)
    BY ReservedEmpty
  <1>4. MaxBytes \in Nat /\ MaxRecords \in Nat
    BY StoreAssumption
  <1>5. \A r \in Records : objs[r].reserved = 0
    BY DEF Free
  <1> HIDE DEF m, objs
  <1>6. Within(m, objs, 0)
    BY <1>2, <1>3, <1>4, <1>5 DEF Within
  <1>7. PointersAgree(m, m, objs)
    BY <1>1 DEF PointersAgree
  <1> QED
    BY <1>6, <1>7 DEF m, objs

LEMMA LedgerStep == AccountsInv /\ StoreInv' /\ [Next]_vars => Ledger'
  <1> SUFFICES ASSUME AccountsInv, StoreInv', [Next]_vars PROVE Ledger'
    OBVIOUS
  <1>1. jobs' \in Seq(Jobs)
    BY DEF StoreInv, StoreType
  <1>2. ASSUME UNCHANGED <<records, reservedBytes, rec, held>>
        PROVE  Ledger'
    BY <1>2 DEF Ledger, AccountsInv
  <1>3. CASE ReadFile \/ DecideHit \/ ReleaseMiss
    BY <1>1, <1>3, ReadLedger, ReleaseLedger
  <1>4. CASE Saved
    <2>1. Objects(rec) /\ UNCHANGED <<records, reservedBytes, held>>
      BY <1>4 DEF Saved, manager
    <2> QED
      BY <1>1, <2>1, AccountsType, SameReservesLedger
  <1>5. CASE TakeJob \/ Exit \/ WriteTemporary \/ Rename \/ Stop \/ UNCHANGED vars
    BY <1>2, <1>5 DEF TakeJob, Exit, WriteTemporary, Rename, Stop, vars, store, manager
  <1>6. ASSUME NEW k \in Keys, Drop(k)
        PROVE  Ledger'
    <2>1. /\ Objects(rec) /\ UNCHANGED <<records, reservedBytes>>
          /\ held' = [held EXCEPT ![k] = None]
      BY <1>6 DEF Drop, store
    <2>2. /\ held' \in [Keys -> Records \cup {None}]
          /\ \A x \in Keys : held'[x] \in {held[x], None}
      BY <2>1, AccountsType
    <2> QED
      BY <1>1, <2>1, <2>2, AccountsType, SameReservesLedger
  <1>7. ASSUME NEW k \in Keys, FinishBake(k)
        PROVE  Ledger'
    BY <1>2, <1>7 DEF FinishBake, store
  <1>8. CASE Restart
    BY <1>8, EmptyLedger DEF Restart, Ledger
  <1> QED
    BY <1>1, <1>3, <1>4, <1>5, <1>6, <1>7, <1>8, RequestLedger, PublishLedger
       DEF Next, Worker

LEMMA WriteLedgerFacts ==
    ASSUME AccountsInv
    PROVE  /\ jobs \in Seq(Jobs) /\ job \in Jobs /\ Len(jobs) <= MaxJobs
           /\ job.save <=> wpc \in {"write", "rename", "retry", "saved"}
           /\ MaxJobs \in Nat /\ MaxBytes \in Nat /\ Size[job.key] \in Nat
           /\ \E t \in Nat : Waiting(jobs, t) /\ queuedWriteBytes = t + Writing
           /\ queuedWriteBytes \in Nat /\ queuedWriteBytes <= MaxBytes
  <1>1. jobs \in Seq(Jobs) /\ job \in Jobs /\ Size[job.key] \in Nat
    BY AccountsType
  <1>2. PICK t : Waiting(jobs, t) /\ queuedWriteBytes = t + Writing
    BY DEF AccountsInv, WriteLedger
  <1>3. t \in Nat
    BY <1>1, <1>2, SavesFacts, SumUnique DEF Waiting
  <1>4. Writing \in Nat
    BY <1>1 DEF Writing
  <1>5. queuedWriteBytes \in Nat
    BY <1>2, <1>3, <1>4
  <1>6. MaxJobs \in Nat /\ MaxBytes \in Nat
    BY StoreAssumption
  <1>7. WriteLedger
    BY DEF AccountsInv
  <1> QED
    BY <1>1, <1>2, <1>3, <1>5, <1>6, <1>7 DEF WriteLedger

(* The steps of the worker with the job it has.                            *)
LEMMA WorkerWrites ==
    ASSUME AccountsInv, Worker, ~TakeJob
    PROVE  WriteLedger'
  <1>1. ~NoJob.save
    BY DEF NoJob
  <1>2. jobs' = jobs
    BY DEF Worker, Exit, ReadFile, DecideHit, ReleaseMiss, WriteTemporary, Rename, Saved, store
  <1>3. PICK t \in Nat : Waiting(jobs, t) /\ queuedWriteBytes = t + Writing
    BY WriteLedgerFacts
  <1>4. CASE Saved
    <2>1. /\ wpc = "saved" /\ wpc' = "wait" /\ job' = NoJob
          /\ queuedWriteBytes' = queuedWriteBytes - Size[job.key]
      BY <1>4 DEF Saved, AfterWrite
    <2>2. job.save /\ Size[job.key] \in Nat /\ MaxBytes \in Nat
          /\ queuedWriteBytes \in Nat /\ queuedWriteBytes <= MaxBytes
      BY <2>1, WriteLedgerFacts
    <2>3. Writing = Size[job.key] /\ Writing' = 0
      BY <1>1, <2>1, <2>2 DEF Writing
    <2>4. queuedWriteBytes' = t /\ t <= MaxBytes
      BY <1>3, <2>1, <2>2, <2>3
    <2>5. queuedWriteBytes' = t + Writing'
      BY <2>3, <2>4
    <2> QED
      BY <1>1, <1>2, <1>3, <2>1, <2>4, <2>5, WriteLedgerFacts DEF WriteLedger
  <1>5. CASE ~Saved
    <2>1. queuedWriteBytes' = queuedWriteBytes
      BY <1>5 DEF Worker, Exit, ReadFile, DecideHit, ReleaseMiss, WriteTemporary, Rename, store
    <2>2. /\ job'.save <=> wpc' \in {"write", "rename", "retry", "saved"}
          /\ Writing' = Writing
      <3>1. CASE DecideHit \/ ReleaseMiss
        <4>1. ~job.save /\ job' = NoJob /\ wpc' = "wait"
          BY <3>1, WriteLedgerFacts DEF DecideHit, ReleaseMiss
        <4> QED
          BY <1>1, <4>1 DEF Writing
      <3>2. CASE Exit \/ ReadFile \/ WriteTemporary \/ Rename
        <4>1. job' = job
          BY <3>2 DEF Exit, ReadFile, WriteTemporary, Rename
        <4>2. wpc \in {"write", "rename", "retry", "saved"}
                 <=> wpc' \in {"write", "rename", "retry", "saved"}
          BY <3>2 DEF Exit, ReadFile, WriteTemporary, Rename, FailedWrite
        <4> QED
          BY <4>1, <4>2, WriteLedgerFacts DEF Writing
      <3> QED
        BY <1>5, <3>1, <3>2 DEF Worker
    <2> QED
      BY <1>2, <1>3, <2>1, <2>2, WriteLedgerFacts DEF WriteLedger
  <1> QED
    BY <1>4, <1>5

LEMMA TakeWrites ==
    ASSUME AccountsInv, TakeJob
    PROVE  WriteLedger'
  <1>1. /\ jobs # <<>> /\ job' = Head(jobs) /\ jobs' = Tail(jobs) /\ wpc = "wait"
        /\ wpc' = IF Head(jobs).save THEN "write" ELSE "read"
        /\ queuedWriteBytes' = queuedWriteBytes
    BY DEF TakeJob
  <1>2. PICK t \in Nat : Waiting(jobs, t) /\ queuedWriteBytes = t + Writing
    BY WriteLedgerFacts
  <1>3. Writing = 0 /\ queuedWriteBytes = t
    <2>1. Writing = 0
      BY <1>1, WriteLedgerFacts DEF Writing
    <2> QED
      BY <1>2, <2>1
  <1>4. Size[Head(jobs).key] \in Nat /\ Len(Tail(jobs)) <= MaxJobs
    <2>1. Head(jobs) \in Jobs /\ Len(Tail(jobs)) = Len(jobs) - 1 /\ Len(jobs) \in Nat
      BY <1>1, WriteLedgerFacts
    <2>2. Len(Tail(jobs)) <= MaxJobs
      BY <2>1, WriteLedgerFacts
    <2> QED
      BY <2>1, <2>2, AccountsType DEF Jobs
  <1>5. \E u : Waiting(jobs', u) /\ queuedWriteBytes' = u + Writing'
    <2>1. /\ Head(jobs).save => Waiting(Tail(jobs), t - Size[Head(jobs).key])
          /\ ~Head(jobs).save => Waiting(Tail(jobs), t)
      BY <1>1, <1>2, WriteLedgerFacts, WaitingTail
    <2>2. CASE Head(jobs).save
      <3>1. Writing' = Size[Head(jobs).key]
        BY <1>1, <2>2 DEF Writing
      <3>2. t = (t - Size[Head(jobs).key]) + Size[Head(jobs).key]
        BY <1>4
      <3> QED
        BY <1>1, <1>3, <2>1, <2>2, <3>1, <3>2
    <2>3. CASE ~Head(jobs).save
      <3>1. Writing' = 0 /\ t = t + 0
        BY <1>1, <2>3 DEF Writing
      <3> QED
        BY <1>1, <1>3, <2>1, <2>3, <3>1
    <2> QED
      BY <2>2, <2>3
  <1>6. job'.save <=> wpc' \in {"write", "rename", "retry", "saved"}
    BY <1>1
  <1> QED
    BY <1>1, <1>4, <1>5, <1>6, WriteLedgerFacts DEF WriteLedger

(* The steps of the threads that use the store.                            *)
LEMMA QueueWrites ==
    ASSUME AccountsInv, NEW k \in Keys, Request(k) \/ Publish(k)
    PROVE  WriteLedger'
  <1>1. UNCHANGED <<wpc, job>> /\ Unused # {}
    BY DEF Request, Publish
  <1>2. PICK t \in Nat : Waiting(jobs, t) /\ queuedWriteBytes = t + Writing
    BY WriteLedgerFacts
  <1>3. Writing' = Writing /\ Writing \in Nat
    BY <1>1, WriteLedgerFacts DEF Writing
  <1>4. Unallocated \in Records /\ Size[k] \in Nat
    BY <1>1, AllocationFacts, AccountsType DEF AccountsInv
  <1>5. CASE UNCHANGED <<jobs, queuedWriteBytes>>
    BY <1>1, <1>2, <1>3, <1>5, WriteLedgerFacts DEF WriteLedger
  <1>6. CASE Request(k) /\ ~UNCHANGED <<jobs, queuedWriteBytes>>
    <2> DEFINE j == [key |-> k, record |-> Unallocated, save |-> FALSE]
    <2>1. PICK i \in 1 .. Len(jobs) + 1 :
             /\ jobs' = InsertAt(jobs, i, j) /\ Len(jobs) < MaxJobs
             /\ queuedWriteBytes' = queuedWriteBytes
      BY <1>6 DEF Request, Found, Refused, Queued, store
    <2>2. j \in Jobs /\ ~j.save
      BY <1>4 DEF Jobs
    <2> HIDE DEF j
    <2>3. Waiting(jobs', t) /\ Len(jobs') = Len(jobs) + 1
      BY <1>2, <2>1, <2>2, WriteLedgerFacts, WaitingInsert, InsertFacts
    <2>4. Len(jobs') <= MaxJobs
      BY <2>1, <2>3, WriteLedgerFacts
    <2> QED
      BY <1>1, <1>2, <1>3, <2>1, <2>3, <2>4, WriteLedgerFacts DEF WriteLedger
  <1>7. CASE Publish(k) /\ ~UNCHANGED <<jobs, queuedWriteBytes>>
    <2> DEFINE j == [key |-> k, record |-> Unallocated, save |-> TRUE]
    <2>1. /\ jobs' = Append(jobs, j) /\ Len(jobs) < MaxJobs
          /\ queuedWriteBytes' = queuedWriteBytes + Size[k]
          /\ queuedWriteBytes + Size[k] <= MaxBytes
      <3> DEFINE saves == Len(jobs) < MaxJobs /\ queuedWriteBytes + Size[k] <= MaxBytes
      <3>1. /\ jobs' = IF saves THEN Append(jobs, j) ELSE jobs
            /\ queuedWriteBytes' = queuedWriteBytes + (IF saves THEN Size[k] ELSE 0)
        BY <1>7 DEF Publish
      <3> HIDE DEF j
      <3>2. saves
        BY <1>7, <3>1, WriteLedgerFacts
      <3> QED
        BY <3>1, <3>2
    <2>2. j \in Jobs /\ j.save /\ j.key = k
      BY <1>4 DEF Jobs
    <2> HIDE DEF j
    <2>3. Waiting(jobs', t + Size[k]) /\ Len(jobs') = Len(jobs) + 1
      BY <1>2, <2>1, <2>2, WriteLedgerFacts, WaitingAppend
    <2>4. Len(jobs') <= MaxJobs
      BY <2>1, <2>3, WriteLedgerFacts
    <2>5. queuedWriteBytes' = (t + Size[k]) + Writing'
      BY <1>2, <1>3, <1>4, <2>1
    <2>6. queuedWriteBytes' <= MaxBytes
      BY <2>1
    <2> QED
      BY <1>1, <2>3, <2>4, <2>5, <2>6, WriteLedgerFacts DEF WriteLedger
  <1> QED
    BY <1>5, <1>6, <1>7

LEMMA EmptyWrites ==
    ASSUME jobs' = <<>>, job' = NoJob, wpc' = "wait", queuedWriteBytes' = 0
    PROVE  WriteLedger'
  <1>1. ~NoJob.save /\ MaxJobs \in Nat /\ MaxBytes \in Nat
    BY StoreAssumption DEF NoJob
  <1>2. Writing' = 0
    BY <1>1 DEF Writing
  <1>3. Waiting(jobs', 0) /\ queuedWriteBytes' = 0 + Writing'
    BY <1>2, WaitingEmpty
  <1>4. Len(jobs') = 0
    OBVIOUS
  <1> QED
    BY <1>1, <1>3, <1>4 DEF WriteLedger

LEMMA WriteLedgerStep == AccountsInv /\ [Next]_vars => WriteLedger'
  <1> SUFFICES ASSUME AccountsInv, [Next]_vars PROVE WriteLedger'
    OBVIOUS
  <1>1. ASSUME UNCHANGED <<jobs, queuedWriteBytes, job, wpc>>
        PROVE  WriteLedger'
    BY <1>1 DEF AccountsInv, WriteLedger, Writing
  <1>2. ASSUME NEW k \in Keys, Drop(k) \/ FinishBake(k)
        PROVE  WriteLedger'
    BY <1>1, <1>2 DEF Drop, FinishBake, store
  <1>3. CASE Stop \/ UNCHANGED vars
    BY <1>1, <1>3 DEF Stop, vars, store
  <1>4. CASE Restart
    BY <1>4, EmptyWrites DEF Restart
  <1> QED
    BY <1>2, <1>3, <1>4, TakeWrites, WorkerWrites, QueueWrites DEF Next

LEMMA ManagerStep == AccountsInv /\ [Next]_vars => ManagerType'
  <1> SUFFICES ASSUME AccountsInv, [Next]_vars PROVE ManagerType'
    OBVIOUS
  <1>1. ManagerType
    BY DEF AccountsInv
  <1>2. CASE Worker
    BY <1>1, <1>2 DEF ManagerType, Worker, TakeJob, Exit, ReadFile, DecideHit, ReleaseMiss,
                      WriteTemporary, Rename, Saved, FailedWrite, store, manager
  <1>3. ASSUME NEW k \in Keys, Request(k)
        PROVE  ManagerType'
    <2>1. UNCHANGED <<stop, wpc, readbacks>> /\ created[k] < MaxItems[k]
      BY <1>3 DEF Request, Found, Refused, Queued, store
    <2>2. \/ UNCHANGED <<item, created>>
          \/ /\ item' = [item EXCEPT ![k] = "waits"]
             /\ created' = [created EXCEPT ![k] = @ + 1]
      BY <1>3 DEF Request, Found, Refused, Queued, Refers
    <2>3. MaxItems \in [Keys -> Nat]
      BY StoreAssumption
    <2>4. item' \in [Keys -> {Idle, "waits", "baked"}]
      BY <1>1, <2>2 DEF ManagerType
    <2>5. created' \in [Keys -> Nat] /\ \A x \in Keys : created'[x] <= MaxItems[x]
      BY <1>1, <2>1, <2>2, <2>3 DEF ManagerType
    <2> QED
      BY <1>1, <2>1, <2>4, <2>5 DEF ManagerType
  <1>4. ASSUME NEW k \in Keys, Publish(k) \/ Drop(k) \/ FinishBake(k)
        PROVE  ManagerType'
    BY <1>1, <1>4 DEF ManagerType, Publish, Drop, FinishBake, store
  <1>5. CASE Stop \/ UNCHANGED vars
    BY <1>1, <1>5 DEF ManagerType, Stop, vars, store, manager
  <1>6. CASE Restart
    <2>1. created' = [k \in Keys |-> 0] /\ item' = [k \in Keys |-> Idle]
          /\ stop' = FALSE /\ wpc' = "wait" /\ readbacks' = {}
      BY <1>6 DEF Restart
    <2>2. \A k \in Keys : 0 <= MaxItems[k]
      BY StoreAssumption
    <2> QED
      BY <2>1, <2>2 DEF ManagerType
  <1> QED
    BY <1>2, <1>3, <1>4, <1>5, <1>6 DEF Next

-----------------------------------------------------------------------------
LEMMA AccountsInit == Init => AccountsInv
  <1> SUFFICES ASSUME Init PROVE AccountsInv
    OBVIOUS
  <1>1. Ledger
    BY EmptyLedger DEF Init, Ledger
  <1>2. WriteLedger
    <2>1. ~NoJob.save /\ MaxJobs \in Nat /\ MaxBytes \in Nat
      BY StoreAssumption DEF NoJob
    <2>2. Writing = 0
      BY <2>1 DEF Init, Writing
    <2>3. Waiting(jobs, 0) /\ queuedWriteBytes = 0 + Writing
      BY <2>2, WaitingEmpty DEF Init
    <2>4. Len(jobs) = 0
      BY DEF Init
    <2> QED
      BY <2>1, <2>3, <2>4 DEF Init, WriteLedger
  <1>3. ManagerType
    <2>1. \A k \in Keys : 0 <= MaxItems[k]
      BY StoreAssumption
    <2> QED
      BY <2>1 DEF Init, ManagerType
  <1> QED
    BY <1>1, <1>2, <1>3, StoreInit DEF AccountsInv

LEMMA AccountsStep == AccountsInv /\ [Next]_vars => AccountsInv'
  <1>1. AccountsInv /\ [Next]_vars => StoreInv'
    BY StoreStep DEF AccountsInv
  <1> QED
    BY <1>1, LedgerStep, WriteLedgerStep, ManagerStep DEF AccountsInv

LEMMA AccountsInvariant == Spec => []AccountsInv
  BY AccountsInit, AccountsStep, PTL DEF Spec

(* The bytes counted as reserved are those of the records in the map, and  *)
(* the bytes counted as queued those of the saves that wait or are being   *)
(* written: request, trim, publish, a miss paid back by the worker, failed *)
(* writes and the restart all keep both counters exact.                    *)
THEOREM AccountsAreExact == Spec => []AccountsExact
  <1>1. AccountsInv => AccountsExact
    <2> SUFFICES ASSUME AccountsInv PROVE AccountsExact
      OBVIOUS
    <2>1. ReservedExact
      BY AccountsType, ReservedIsSum DEF ReservedExact
    <2>2. QueuedWritesExact
      <3>1. PICK t \in Nat : Waiting(jobs, t) /\ queuedWriteBytes = t + Writing
        BY WriteLedgerFacts
      <3>2. t = Total({i \in DOMAIN jobs : jobs[i].save}, LAMBDA i : Size[jobs[i].key])
        BY <3>1, WriteLedgerFacts, WaitingIsSum
      <3> QED
        BY <3>1, <3>2 DEF QueuedWritesExact, Writing
    <2> QED
      BY <2>1, <2>2 DEF AccountsExact
  <1> QED
    BY <1>1, AccountsInvariant, PTL

(* All three limits of the store.                                          *)
WithinBudget ==
    /\ reservedBytes <= MaxBytes /\ Count(records) <= MaxRecords
    /\ Len(jobs) <= MaxJobs /\ queuedWriteBytes <= MaxBytes

(* Bytes in memory, records, jobs and bytes to be written stay within the  *)
(* limits of the store, and no counter becomes negative; every pointer is  *)
(* to an object of its own key.                                            *)
THEOREM StoreWithinBudget == Spec => [](TypeOK /\ WithinBudget)
  <1>1. AccountsInv => TypeOK /\ WithinBudget
    <2> SUFFICES ASSUME AccountsInv PROVE TypeOK /\ WithinBudget
      OBVIOUS
    <2>1. WithinBudget
      BY AccountsType, WriteLedgerFacts DEF WithinBudget, Within
    <2>2. queuedWriteBytes \in 0 .. MaxBytes /\ reservedBytes \in 0 .. MaxBytes
      BY <2>1, AccountsType, WriteLedgerFacts DEF WithinBudget
    <2>3. rec \in [Records -> [key : Keys, state : {"Pending", "Hit", "Miss"},
                               bytes : Contents, reserved : 0 .. MaxBytes]]
      <3> SUFFICES ASSUME NEW r \in Records
                   PROVE  rec[r] \in [key : Keys, state : {"Pending", "Hit", "Miss"},
                                      bytes : Contents, reserved : 0 .. MaxBytes]
        BY AccountsType
      <3>1. rec[r] \in Object /\ rec[r].reserved <= MaxBytes
        BY AccountsType DEF Within
      <3>2. rec[r].reserved \in 0 .. MaxBytes
        BY <3>1, AccountsType DEF Object
      <3> QED
        BY <3>1, <3>2 DEF Object
    <2>4. \A k \in Keys : \A r \in {records[k], held[k]} \ {None} : rec[r].key = k
      BY AccountsType DEF PointersAgree
    <2>5. \A k \in Keys : created[k] \in 0 .. MaxItems[k]
      BY StoreAssumption DEF AccountsInv, ManagerType
    <2>6. file \in [Keys -> Contents] /\ tmp \in Contents
      BY DEF AccountsInv, StoreInv, StoreType
    <2>7. ManagerType
      BY DEF AccountsInv
    <2> QED
      BY <2>1, <2>2, <2>3, <2>4, <2>5, <2>6, <2>7, AccountsType, WriteLedgerFacts
         DEF TypeOK, ManagerType
  <1> QED
    BY <1>1, AccountsInvariant, PTL
(* A record trim may evict that is a hit has only the map's pointer.       *)
LEMMA EvictedIsFreed ==
    ASSUME AccountsInv, jobs' \in Seq(Jobs), NEW r \in Records, NEW k \in Keys,
           records[k] = r, Evictable(r), rec[r].state = "Hit",
           NEW recs, Objects(recs), records'[k] # r,
           \A x \in Keys : records'[x] = r => records[x] = r,
           \A x \in Keys : held'[x] = r => held[x] = r,
           \A i \in DOMAIN jobs' : jobs'[i].record = r => \E n \in DOMAIN jobs : jobs[n].record = r,
           job' = job
    PROVE  rec'[r] = Free
  <1>1. r # None /\ References(r) = 1
    BY RecordsAssumption DEF Evictable
  <1>2. /\ \A x \in Keys : held[x] # r
        /\ \A i \in DOMAIN jobs : jobs[i].record # r
        /\ job.record # r
    BY <1>1, AccountsType, ReferredTo
  <1>3. \A x \in Keys : records[x] = r => x = k
    BY <1>1, AccountsType DEF PointersAgree
  <1>4. References(r)' = 0
    BY <1>2, <1>3, ReferredToNext
  <1> QED
    BY <1>4 DEF Objects

(* A hit that trim takes out of the map is freed in that step: nobody else *)
(* has a pointer to it, so the room trim counts is room.                   *)
THEOREM EvictionsFree == Spec => EvictionFrees
  <1> DEFINE Freed(k) == /\ records[k] # None /\ records'[k] # records[k]
                         /\ rec[records[k]].state = "Hit"
                         /\ ~ (k \in readbacks /\ k \notin readbacks')
                         => rec'[records[k]] = Free
  <1>1. AccountsInv /\ StoreInv' /\ [Next]_vars => [\A k \in Keys : Freed(k)]_vars
    <2> SUFFICES ASSUME AccountsInv, StoreInv', Next, NEW k \in Keys,
                        records[k] # None, records'[k] # records[k],
                        rec[records[k]].state = "Hit",
                        ~ (k \in readbacks /\ k \notin readbacks')
                 PROVE  rec'[records[k]] = Free
      OBVIOUS
    <2> DEFINE r == records[k]
    <2>1. r \in Records /\ jobs' \in Seq(Jobs)
      BY AccountsType DEF StoreInv, StoreType
    <2>2. ASSUME NEW y \in Keys, Request(y)
          PROVE  rec'[r] = Free
      <3> DEFINE s == Trimmed([records |-> records, reserved |-> reservedBytes], Size[y])
                 U == Unallocated
                 j == [key |-> y, record |-> U, save |-> FALSE]
      <3>1. s \in Stages(records, reservedBytes)
        BY AccountsType, TrimmedStage
      <3>2. Found(y) \/ Refused(y, s) \/ Queued(y, s)
        BY <2>2 DEF Request
      <3>3. \A x \in Keys : s.records[x] # records[x]
                               => s.records[x] = None /\ Evictable(records[x])
        BY <3>1 DEF Stages
      <3>4. /\ U # r /\ job' = job /\ s.records \in [Keys -> Records \cup {None}]
            /\ \A i \in DOMAIN jobs' : jobs'[i].record = r => \E n \in DOMAIN jobs : jobs[n].record = r
        <4>1. Unused # {} /\ job' = job /\ StoreInv
          BY <2>2 DEF Request, AccountsInv
        <4>2. U # r /\ U \in Records
          BY <4>1, AllocationFacts
        <4>3. CASE jobs' = jobs
          BY <3>1, <4>1, <4>2, <4>3 DEF Stages
        <4>4. CASE jobs' # jobs
          <5>1. PICK i \in 1 .. Len(jobs) + 1 : jobs' = InsertAt(jobs, i, j)
            BY <3>2, <4>4 DEF Found, Refused, Queued, store
          <5>2. j \in Jobs /\ j.record # r
            BY <4>2 DEF Jobs
          <5> HIDE DEF j
          <5>3. \A n \in DOMAIN jobs' : jobs'[n] = j \/ \E m \in DOMAIN jobs : jobs'[n] = jobs[m]
            BY <5>1, <5>2, AccountsType, InsertFacts
          <5> QED
            BY <3>1, <4>1, <4>2, <5>2, <5>3 DEF Stages
        <4> QED
          BY <4>3, <4>4
      <3> HIDE DEF s
      <3>5. CASE Found(y)
        BY <3>5 DEF Found, store
      <3>6. ASSUME NEW recs, Objects(recs),
                   \A x \in Keys : records'[x] = s.records[x] \/ records'[x] = U,
                   records'[k] = s.records[k] \/ records[k] = None,
                   \A x \in Keys : held'[x] = held[x] \/ held'[x] = U
            PROVE  rec'[r] = Free
        <4>1. Evictable(r)
          BY <3>3, <3>6
        <4>2. \A x \in Keys : records'[x] = r => records[x] = r
          <5>1. r # None
            BY <2>1, RecordsAssumption
          <5> QED
            BY <3>3, <3>4, <3>6, <5>1
        <4>3. \A x \in Keys : held'[x] = r => held[x] = r
          BY <3>4, <3>6
        <4> QED
          BY <2>1, <3>4, <3>6, <4>1, <4>2, <4>3, EvictedIsFreed
      <3>7. CASE Refused(y, s)
        BY <3>6, <3>7 DEF Refused
      <3>8. CASE Queued(y, s)
        <4>1. /\ records' = [s.records EXCEPT ![y] = U] /\ held' = [held EXCEPT ![y] = U]
              /\ records[y] = None
              /\ Objects([rec EXCEPT ![U] = NewRecord(y, "Pending", Absent)])
          BY <3>8 DEF Queued, Refers
        <4> QED
          BY <3>4, <3>6, <4>1, AccountsType
      <3> QED
        BY <3>2, <3>5, <3>7, <3>8
    <2>3. ASSUME NEW y \in Keys, Publish(y)
          PROVE  rec'[r] = Free
      <3> DEFINE U == Unallocated
                 base == Without(y)
                 left == LeftWithout(y)
                 s == Trimmed([records |-> base, reserved |-> left], Size[y])
                 recs == [rec EXCEPT ![U] = NewRecord(y, "Hit", Whole)]
                 j == [key |-> y, record |-> U, save |-> TRUE]
      <3>1. /\ records' = IF Room(s, Size[y]) THEN [s.records EXCEPT ![y] = U] ELSE s.records
            /\ held' = held /\ job' = job /\ Objects(recs) /\ Unused # {}
            /\ jobs' = jobs \/ jobs' = Append(jobs, j)
            /\ y \in readbacks /\ readbacks' = readbacks \ {y}
        BY <2>3 DEF Publish, Without, LeftWithout
      <3>2. k # y
        BY <3>1
      <3> HIDE DEF s, recs
      <3>3. /\ base \in [Keys -> Records \cup {None}]
            /\ \A x \in Keys : base[x] \in {records[x], None}
            /\ base[k] = records[k]
        BY <3>2, WithoutKept
      <3>4. Reserved(base, rec, left) /\ left \in Nat
        BY WithoutKept
      <3>5. s \in Stages(base, left)
        BY <3>3, <3>4, AccountsType, TrimmedStage DEF s
      <3> HIDE DEF base, left
      <3>6. /\ s.records \in [Keys -> Records \cup {None}]
            /\ \A x \in Keys : s.records[x] # base[x]
                                  => s.records[x] = None /\ Evictable(base[x])
        BY <3>5 DEF Stages
      <3>7. U # r /\ U \in Records /\ r # None
        <4>1. StoreInv
          BY DEF AccountsInv
        <4> QED
          BY <2>1, <3>1, <4>1, AllocationFacts, RecordsAssumption
      <3>8. /\ records'[k] = s.records[k]
            /\ \A x \in Keys : records'[x] = s.records[x] \/ records'[x] = U
        BY <3>1, <3>2, <3>6
      <3>9. Evictable(r)
        BY <3>3, <3>6, <3>8
      <3>10. \A x \in Keys : records'[x] = r => records[x] = r
        BY <3>3, <3>6, <3>7, <3>8
      <3>11. \A i \in DOMAIN jobs' : jobs'[i].record = r => \E n \in DOMAIN jobs : jobs[n].record = r
        <4>1. CASE jobs' = jobs
          BY <4>1
        <4>2. CASE jobs' = Append(jobs, j)
          <5>1. j \in Jobs /\ j.record # r
            BY <3>7 DEF Jobs
          <5> HIDE DEF j
          <5>2. \A i \in DOMAIN jobs' : jobs'[i] = j \/ \E n \in DOMAIN jobs : jobs'[i] = jobs[n]
            BY <4>2, <5>1, AccountsType
          <5> QED
            BY <5>1, <5>2
        <4> QED
          BY <3>1, <4>1, <4>2
      <3>12. \A x \in Keys : held'[x] = r => held[x] = r
        BY <3>1
      <3> QED
        BY <2>1, <3>1, <3>9, <3>10, <3>11, <3>12, EvictedIsFreed
    <2>4. CASE Restart
      BY <2>1, <2>4 DEF Restart
    <2>5. CASE Worker
      BY <2>5 DEF Worker, TakeJob, Exit, ReadFile, DecideHit, ReleaseMiss, WriteTemporary,
                  Rename, Saved, store
    <2>6. ASSUME NEW y \in Keys, Drop(y) \/ FinishBake(y)
          PROVE  rec'[r] = Free
      BY <2>6 DEF Drop, FinishBake, store
    <2>7. CASE Stop
      BY <2>7 DEF Stop
    <2> QED
      BY <2>2, <2>3, <2>4, <2>5, <2>6, <2>7 DEF Next
  <1>2. AccountsInv /\ [Next]_vars => StoreInv'
    BY StoreStep DEF AccountsInv
  <1> QED
    BY <1>1, <1>2, AccountsInvariant, PTL DEF Spec, EvictionFrees
=============================================================================
