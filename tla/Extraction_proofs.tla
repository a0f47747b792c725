---- MODULE Extraction_proofs ----
(***************************************************************************)
(* Proofs about Extraction, for every number of requests, files, batches,  *)
(* viewers and crashes.                                                    *)
(***************************************************************************)
EXTENDS Extraction, TLAPS

USE ConstantsAssumption
USE DEF Waiting, Persisting, Indexing, Body, Active, Ended, Labels, Identified,
        Stored, Saved, Files, requestVars, processVars, storeVars, viewerVars

LEMMA InitIInv == Init => IInv
<1> SUFFICES ASSUME Init PROVE IInv OBVIOUS
<1> USE DEF Init
<1>1. TypeOK
  <2>1. chunks \in [Ids -> 0 .. MaxBatches] /\ crashes \in 0 .. MaxCrashes
    OBVIOUS
  <2>. QED BY <2>1 DEF TypeOK
<1>2. LoopInv /\ RequestInv /\ ChecksStillHold
  BY DEF LoopInv, RequestInv, ChecksStillHold
<1>3. StoreInv /\ FailureLeavesNoRecord
  BY DEF StoreInv, FailureLeavesNoRecord, NothingUnder
<1>4. RowHasObject /\ CitationsResolve
  BY DEF RowHasObject, CitationsResolve
<1>5. ReaderInv /\ NoDanglingRead
  BY DEF ReaderInv, NoDanglingRead
<1>. QED BY <1>1, <1>2, <1>3, <1>4, <1>5 DEF IInv

LEMMA SubmitStep ==
  ASSUME IInv, NEW r \in Requests, Submit(r)
  PROVE  IInv'
<1> USE DEF IInv, Submit, Goto, TypeOK
<1>1. TypeOK' OBVIOUS
<1>2. LoopInv' /\ RequestInv' /\ ChecksStillHold'
  BY DEF LoopInv, RequestInv, ChecksStillHold
<1>3. StoreInv' /\ FailureLeavesNoRecord'
  BY DEF StoreInv, FailureLeavesNoRecord, NothingUnder, Fresh
<1>4. RowHasObject' /\ CitationsResolve'
  BY DEF RowHasObject, CitationsResolve
<1>5. ReaderInv' /\ NoDanglingRead'
  BY DEF ReaderInv, NoDanglingRead
<1>. QED BY <1>1, <1>2, <1>3, <1>4, <1>5

LEMMA ResolveDependenciesStep ==
  ASSUME IInv, NEW r \in Requests, ResolveDependencies(r)
  PROVE  IInv'
<1> USE DEF IInv, ResolveDependencies, Goto, TypeOK
<1>1. TypeOK' OBVIOUS
<1>2. LoopInv' /\ RequestInv' /\ ChecksStillHold'
  BY DEF LoopInv, RequestInv, ChecksStillHold
<1>3. StoreInv' /\ FailureLeavesNoRecord'
  BY DEF StoreInv, FailureLeavesNoRecord, NothingUnder, Fresh
<1>4. RowHasObject' /\ CitationsResolve'
  BY DEF RowHasObject, CitationsResolve
<1>5. ReaderInv' /\ NoDanglingRead'
  BY DEF ReaderInv, NoDanglingRead
<1>. QED BY <1>1, <1>2, <1>3, <1>4, <1>5

LEMMA RejectUploadStep ==
  ASSUME IInv, NEW r \in Requests, RejectUpload(r)
  PROVE  IInv'
<1> USE DEF IInv, RejectUpload, Goto, Leave, AfterSave, AfterIndex, TypeOK
<1>1. TypeOK' OBVIOUS
<1>2. LoopInv' /\ RequestInv' /\ ChecksStillHold'
  BY DEF LoopInv, RequestInv, ChecksStillHold
<1>3. StoreInv' /\ FailureLeavesNoRecord'
  BY DEF StoreInv, FailureLeavesNoRecord, NothingUnder, Fresh, RequestInv
<1>4. RowHasObject' /\ CitationsResolve'
  BY DEF RowHasObject, CitationsResolve
<1>5. ReaderInv' /\ NoDanglingRead'
  BY DEF ReaderInv, NoDanglingRead
<1>. QED BY <1>1, <1>2, <1>3, <1>4, <1>5

LEMMA ResumeBodyStep ==
  ASSUME IInv, NEW r \in Requests, ResumeBody(r)
  PROVE  IInv'
<1> USE DEF IInv, ResumeBody, Goto, TypeOK
<1>1. TypeOK' OBVIOUS
<1>2. LoopInv' /\ RequestInv' /\ ChecksStillHold'
  BY DEF LoopInv, RequestInv, ChecksStillHold
<1>3. StoreInv' /\ FailureLeavesNoRecord'
  BY DEF StoreInv, FailureLeavesNoRecord, NothingUnder, Fresh
<1>4. RowHasObject' /\ CitationsResolve'
  BY DEF RowHasObject, CitationsResolve
<1>5. ReaderInv' /\ NoDanglingRead'
  BY DEF ReaderInv, NoDanglingRead
<1>. QED BY <1>1, <1>2, <1>3, <1>4, <1>5

LEMMA AnalyseStep ==
  ASSUME IInv, NEW r \in Requests, Analyse(r)
  PROVE  IInv'
<1> USE DEF IInv, Analyse, Goto, TypeOK
<1>1. TypeOK' OBVIOUS
<1>2. LoopInv' /\ RequestInv' /\ ChecksStillHold'
  BY DEF LoopInv, RequestInv, ChecksStillHold, Fresh
<1>3. StoreInv' /\ FailureLeavesNoRecord'
  BY DEF StoreInv, FailureLeavesNoRecord, NothingUnder, Fresh, RequestInv
<1>4. RowHasObject' /\ CitationsResolve'
  BY DEF RowHasObject, CitationsResolve
<1>5. ReaderInv' /\ NoDanglingRead'
  BY DEF ReaderInv, NoDanglingRead
<1>. QED BY <1>1, <1>2, <1>3, <1>4, <1>5

LEMMA HeadBucketStep ==
  ASSUME IInv, NEW r \in Requests, HeadBucket(r)
  PROVE  IInv'
<1> USE DEF IInv, HeadBucket, Goto, TypeOK
<1>1. TypeOK' OBVIOUS
<1>2. LoopInv' /\ RequestInv' /\ ChecksStillHold'
  BY DEF LoopInv, RequestInv, ChecksStillHold
<1>3. StoreInv' /\ FailureLeavesNoRecord'
  BY DEF StoreInv, FailureLeavesNoRecord, NothingUnder, Fresh
<1>4. RowHasObject' /\ CitationsResolve'
  BY DEF RowHasObject, CitationsResolve
<1>5. ReaderInv' /\ NoDanglingRead'
  BY DEF ReaderInv, NoDanglingRead
<1>. QED BY <1>1, <1>2, <1>3, <1>4, <1>5

LEMMA CreateBucketStep ==
  ASSUME IInv, NEW r \in Requests, CreateBucket(r)
  PROVE  IInv'
<1> USE DEF IInv, CreateBucket, Goto, TypeOK
<1>1. TypeOK' OBVIOUS
<1>2. LoopInv' /\ RequestInv' /\ ChecksStillHold'
  BY DEF LoopInv, RequestInv, ChecksStillHold
<1>3. StoreInv' /\ FailureLeavesNoRecord'
  BY DEF StoreInv, FailureLeavesNoRecord, NothingUnder, Fresh
<1>4. RowHasObject' /\ CitationsResolve'
  BY DEF RowHasObject, CitationsResolve
<1>5. ReaderInv' /\ NoDanglingRead'
  BY DEF ReaderInv, NoDanglingRead
<1>. QED BY <1>1, <1>2, <1>3, <1>4, <1>5

LEMMA PutObjectStep ==
  ASSUME IInv, NEW r \in Requests, PutObject(r)
  PROVE  IInv'
<1> USE DEF IInv, PutObject, Goto, TypeOK
<1>1. TypeOK' OBVIOUS
<1>2. LoopInv' /\ RequestInv' /\ ChecksStillHold'
  BY DEF LoopInv, RequestInv, ChecksStillHold
<1>3. StoreInv' /\ FailureLeavesNoRecord'
  BY DEF StoreInv, FailureLeavesNoRecord, NothingUnder, Fresh, RequestInv
<1>4. RowHasObject' /\ CitationsResolve'
  BY DEF RowHasObject, CitationsResolve, StoreInv, NothingUnder
<1>5. ReaderInv' /\ NoDanglingRead'
  BY DEF ReaderInv, NoDanglingRead
<1>. QED BY <1>1, <1>2, <1>3, <1>4, <1>5

LEMMA SaveRowStep ==
  ASSUME IInv, NEW r \in Requests, SaveRow(r)
  PROVE  IInv'
<1> USE DEF IInv, SaveRow, Goto, AfterSave, AfterIndex, TypeOK
<1>1. TypeOK' OBVIOUS
<1>2. LoopInv' /\ RequestInv' /\ ChecksStillHold'
  BY DEF LoopInv, RequestInv, ChecksStillHold
<1>3. StoreInv' /\ FailureLeavesNoRecord'
  BY DEF StoreInv, FailureLeavesNoRecord, NothingUnder, Fresh, RequestInv
<1>4. RowHasObject' /\ CitationsResolve'
  BY DEF RowHasObject, CitationsResolve, StoreInv
<1>5. ReaderInv' /\ NoDanglingRead'
  BY DEF ReaderInv, NoDanglingRead, StoreInv, NothingUnder
<1>. QED BY <1>1, <1>2, <1>3, <1>4, <1>5

LEMMA RaiseStep ==
  ASSUME IInv, NEW r \in Requests, Raise(r)
  PROVE  IInv'
<1> USE DEF IInv, Raise, Goto, Leave, AfterSave, AfterIndex, TypeOK
<1>1. TypeOK' OBVIOUS
<1>2. LoopInv' /\ RequestInv' /\ ChecksStillHold'
  BY DEF LoopInv, RequestInv, ChecksStillHold
<1>3. StoreInv' /\ FailureLeavesNoRecord'
  BY DEF StoreInv, FailureLeavesNoRecord, NothingUnder, Fresh, RequestInv
<1>4. RowHasObject' /\ CitationsResolve'
  BY DEF RowHasObject, CitationsResolve
<1>5. ReaderInv' /\ NoDanglingRead'
  BY DEF ReaderInv, NoDanglingRead
<1>. QED BY <1>1, <1>2, <1>3, <1>4, <1>5

LEMMA RaiseAfterEffectStep ==
  ASSUME IInv, NEW r \in Requests, RaiseAfterEffect(r)
  PROVE  IInv'
<1> USE DEF IInv, RaiseAfterEffect, Goto, Leave, AfterSave, AfterIndex, TypeOK
<1>1. TypeOK' OBVIOUS
<1>2. LoopInv' /\ RequestInv' /\ ChecksStillHold'
  BY DEF LoopInv, RequestInv, ChecksStillHold
<1>3. StoreInv' /\ FailureLeavesNoRecord'
  BY DEF StoreInv, FailureLeavesNoRecord, NothingUnder, Fresh, RequestInv
<1>4. RowHasObject' /\ CitationsResolve'
  BY DEF RowHasObject, CitationsResolve, StoreInv, NothingUnder
<1>5. ReaderInv' /\ NoDanglingRead'
  BY DEF ReaderInv, NoDanglingRead
<1>. QED BY <1>1, <1>2, <1>3, <1>4, <1>5

LEMMA LookupCollectionStep ==
  ASSUME IInv, NEW r \in Requests, LookupCollection(r)
  PROVE  IInv'
<1> USE DEF IInv, LookupCollection, Goto, TypeOK
<1>1. TypeOK' OBVIOUS
<1>2. LoopInv' /\ RequestInv' /\ ChecksStillHold'
  BY DEF LoopInv, RequestInv, ChecksStillHold
<1>3. StoreInv' /\ FailureLeavesNoRecord'
  BY DEF StoreInv, FailureLeavesNoRecord, NothingUnder, Fresh
<1>4. RowHasObject' /\ CitationsResolve'
  BY DEF RowHasObject, CitationsResolve
<1>5. ReaderInv' /\ NoDanglingRead'
  BY DEF ReaderInv, NoDanglingRead
<1>. QED BY <1>1, <1>2, <1>3, <1>4, <1>5

LEMMA CreateCollectionStep ==
  ASSUME IInv, NEW r \in Requests, CreateCollection(r)
  PROVE  IInv'
<1> USE DEF IInv, CreateCollection, Goto, TypeOK
<1>1. TypeOK' OBVIOUS
<1>2. LoopInv' /\ RequestInv' /\ ChecksStillHold'
  BY DEF LoopInv, RequestInv, ChecksStillHold
<1>3. StoreInv' /\ FailureLeavesNoRecord'
  BY DEF StoreInv, FailureLeavesNoRecord, NothingUnder, Fresh
<1>4. RowHasObject' /\ CitationsResolve'
  BY DEF RowHasObject, CitationsResolve
<1>5. ReaderInv' /\ NoDanglingRead'
  BY DEF ReaderInv, NoDanglingRead
<1>. QED BY <1>1, <1>2, <1>3, <1>4, <1>5

LEMMA UpsertBatchStep ==
  ASSUME IInv, NEW r \in Requests, UpsertBatch(r)
  PROVE  IInv'
<1> USE DEF IInv, UpsertBatch, TypeOK
<1>1. TypeOK' BY DEF RequestInv
<1>2. LoopInv' /\ RequestInv' /\ ChecksStillHold'
  BY DEF LoopInv, RequestInv, ChecksStillHold
<1>3. StoreInv' /\ FailureLeavesNoRecord'
  BY DEF StoreInv, FailureLeavesNoRecord, NothingUnder, Fresh, RequestInv
<1>4. RowHasObject' /\ CitationsResolve'
  BY DEF RowHasObject, CitationsResolve, RequestInv, StoreInv
<1>5. ReaderInv' /\ NoDanglingRead'
  BY DEF ReaderInv, NoDanglingRead
<1>. QED BY <1>1, <1>2, <1>3, <1>4, <1>5

LEMMA FinishIndexStep ==
  ASSUME IInv, NEW r \in Requests, FinishIndex(r)
  PROVE  IInv'
<1> USE DEF IInv, FinishIndex, Goto, AfterIndex, TypeOK
<1>1. TypeOK' OBVIOUS
<1>2. LoopInv' /\ RequestInv' /\ ChecksStillHold'
  BY DEF LoopInv, RequestInv, ChecksStillHold
<1>3. StoreInv' /\ FailureLeavesNoRecord'
  BY DEF StoreInv, FailureLeavesNoRecord, NothingUnder, Fresh
<1>4. RowHasObject' /\ CitationsResolve'
  BY DEF RowHasObject, CitationsResolve
<1>5. ReaderInv' /\ NoDanglingRead'
  BY DEF ReaderInv, NoDanglingRead
<1>. QED BY <1>1, <1>2, <1>3, <1>4, <1>5

LEMMA IndexFailsStep ==
  ASSUME IInv, NEW r \in Requests, IndexFails(r)
  PROVE  IInv'
<1> USE DEF IInv, IndexFails, Goto, AfterIndex, TypeOK
<1>1. TypeOK'
  <2>1. chunks' \in [Ids -> 0 .. MaxBatches]
    <3>1. CASE UNCHANGED chunks BY <3>1
    <3>2. CASE /\ pc[r] = "upsert"
               /\ chunks[id[r]] < NumBatches[file[r]]
               /\ chunks' = [chunks EXCEPT ![id[r]] = @ + 1]
      <4>1. id[r] \in Ids /\ NumBatches[file[r]] \in 0 .. MaxBatches
        BY <3>2 DEF RequestInv
      <4>2. chunks[id[r]] + 1 \in 0 .. MaxBatches BY <3>2, <4>1
      <4>. QED BY <3>2, <4>2
    <3>. QED BY <3>1, <3>2
  <2>2. collection' \in BOOLEAN OBVIOUS
  <2>3. pc' \in [Requests -> Labels] OBVIOUS
  <2>. QED BY <2>1, <2>2, <2>3
<1>2. LoopInv' /\ RequestInv' /\ ChecksStillHold'
  BY DEF LoopInv, RequestInv, ChecksStillHold
<1>3. StoreInv' /\ FailureLeavesNoRecord'
  BY DEF StoreInv, FailureLeavesNoRecord, NothingUnder, Fresh, RequestInv
<1>4. RowHasObject' /\ CitationsResolve'
  BY DEF RowHasObject, CitationsResolve, RequestInv, StoreInv
<1>5. ReaderInv' /\ NoDanglingRead'
  BY DEF ReaderInv, NoDanglingRead
<1>. QED BY <1>1, <1>2, <1>3, <1>4, <1>5

LEMMA BuildGraphStep ==
  ASSUME IInv, NEW r \in Requests, BuildGraph(r)
  PROVE  IInv'
<1> USE DEF IInv, BuildGraph, Goto, TypeOK
<1>1. TypeOK' OBVIOUS
<1>2. LoopInv' /\ RequestInv' /\ ChecksStillHold'
  BY DEF LoopInv, RequestInv, ChecksStillHold
<1>3. StoreInv' /\ FailureLeavesNoRecord'
  BY DEF StoreInv, FailureLeavesNoRecord, NothingUnder, Fresh, RequestInv
<1>4. RowHasObject' /\ CitationsResolve'
  BY DEF RowHasObject, CitationsResolve, RequestInv, StoreInv
<1>5. ReaderInv' /\ NoDanglingRead'
  BY DEF ReaderInv, NoDanglingRead
<1>. QED BY <1>1, <1>2, <1>3, <1>4, <1>5

LEMMA RespondStep ==
  ASSUME IInv, NEW r \in Requests, Respond(r)
  PROVE  IInv'
<1> USE DEF IInv, Respond, Goto, Leave, AfterSave, AfterIndex, TypeOK
<1>1. TypeOK' BY DEF RequestInv
<1>2. LoopInv' /\ RequestInv' /\ ChecksStillHold'
  BY DEF LoopInv, RequestInv, ChecksStillHold
<1>3. StoreInv' /\ FailureLeavesNoRecord'
  BY DEF StoreInv, FailureLeavesNoRecord, NothingUnder, Fresh
<1>4. RowHasObject' /\ CitationsResolve'
  BY DEF RowHasObject, CitationsResolve
<1>5. ReaderInv' /\ NoDanglingRead'
  BY DEF ReaderInv, NoDanglingRead
<1>. QED BY <1>1, <1>2, <1>3, <1>4, <1>5

\* A reader changes nothing but what its client holds.
LEMMA ReaderStep ==
  ASSUME IInv, NEW v \in Viewers, Reader(v)
  PROVE  IInv'
<1> USE DEF IInv, Reader, Ask, ReadContract, LookupDocument, FetchImage, Close,
            Holds, ReaderOnly, TypeOK
<1>1. TypeOK' BY DEF ReaderInv
<1>2. LoopInv' /\ RequestInv' /\ ChecksStillHold'
  BY DEF LoopInv, RequestInv, ChecksStillHold
<1>3. StoreInv' /\ FailureLeavesNoRecord'
  BY DEF StoreInv, FailureLeavesNoRecord, NothingUnder, Fresh
<1>4. RowHasObject' /\ CitationsResolve'
  BY DEF RowHasObject, CitationsResolve
<1>5. ReaderInv' /\ NoDanglingRead'
  BY DEF ReaderInv, NoDanglingRead, RowHasObject, CitationsResolve
<1>. QED BY <1>1, <1>2, <1>3, <1>4, <1>5

\* The stores survive a crash, and nothing is in flight after it.
LEMMA CrashStep ==
  ASSUME IInv, Crash
  PROVE  IInv'
<1> USE DEF IInv, Crash, TypeOK
<1>1. TypeOK'
  <2>1. crashes' \in 0 .. MaxCrashes OBVIOUS
  <2>2. pc' \in [Requests -> Labels] OBVIOUS
  <2>3. seen' \in [Viewers -> {"idle", "cited", "fetch", "found", "missing"}]
    OBVIOUS
  <2>. QED BY <2>1, <2>2, <2>3
<1>2. LoopInv' /\ RequestInv' /\ ChecksStillHold'
  BY DEF LoopInv, RequestInv, ChecksStillHold
<1>3. StoreInv' /\ FailureLeavesNoRecord'
  BY DEF StoreInv, FailureLeavesNoRecord, NothingUnder, Fresh
<1>4. RowHasObject' /\ CitationsResolve'
  BY DEF RowHasObject, CitationsResolve
<1>5. ReaderInv' /\ NoDanglingRead'
  BY DEF ReaderInv, NoDanglingRead
<1>. QED BY <1>1, <1>2, <1>3, <1>4, <1>5

\* Steps that change none of the variables the invariant speaks of, except
\* that the process may come up again.
LEMMA QuietStep ==
  ASSUME IInv, up' \in BOOLEAN,
         UNCHANGED <<pc, loop, requestVars, counted, crashes, storeVars,
                     viewerVars>>
  PROVE  IInv'
  BY DEF IInv, TypeOK, LoopInv, RequestInv, StoreInv, ReaderInv, RowHasObject,
         CitationsResolve, FailureLeavesNoRecord, ChecksStillHold,
         NoDanglingRead, NothingUnder, Fresh

LEMMA NextIInv == IInv /\ [Next]_vars => IInv'
<1> SUFFICES ASSUME IInv, [Next]_vars PROVE IInv' OBVIOUS
<1>1. ASSUME NEW r \in Requests, Submit(r) \/ Handler(r) PROVE IInv'
  BY <1>1, SubmitStep, ResolveDependenciesStep, RejectUploadStep,
     ResumeBodyStep, AnalyseStep, HeadBucketStep, CreateBucketStep,
     PutObjectStep, SaveRowStep, RaiseStep, RaiseAfterEffectStep,
     LookupCollectionStep, CreateCollectionStep, UpsertBatchStep,
     FinishIndexStep, IndexFailsStep, BuildGraphStep, RespondStep
  DEF Handler
<1>2. ASSUME NEW v \in Viewers, Reader(v) PROVE IInv'
  BY <1>2, ReaderStep
<1>3. CASE Crash BY <1>3, CrashStep
<1>4. CASE Restart BY <1>4, QuietStep DEF Restart
<1>5. CASE UNCHANGED vars
  BY <1>5, QuietStep DEF vars, IInv, TypeOK
<1>. QED BY <1>1, <1>2, <1>3, <1>4, <1>5 DEF Next

\* The invariant holds for any number of requests, files, batches, readers and
\* crashes.
THEOREM Invariance == Spec => []IInv
  BY InitIInv, NextIInv, PTL DEF Spec

\* Every variable keeps its type; no contract gets more chunks than it has.
THEOREM TypeCorrect == Spec => []TypeOK
<1>1. IInv => TypeOK BY DEF IInv
<1>. QED BY <1>1, Invariance, PTL

\* A row's object is in MinIO and is the file the row describes.
THEOREM RowsHaveObjects == Spec => []RowHasObject
<1>1. IInv => RowHasObject BY DEF IInv
<1>. QED BY <1>1, Invariance, PTL

\* What can be cited has its row.
THEOREM CitationsAlwaysResolve == Spec => []CitationsResolve
<1>1. IInv => CitationsResolve BY DEF IInv
<1>. QED BY <1>1, Invariance, PTL

\* An error answer leaves no record.
THEOREM FailuresLeaveNoRecord == Spec => []FailureLeavesNoRecord
<1>1. IInv => FailureLeavesNoRecord BY DEF IInv
<1>. QED BY <1>1, Invariance, PTL

\* The look-then-create pairs never act on a stale look.
THEOREM ChecksAreNeverStale == Spec => []ChecksStillHold
<1>1. IInv => ChecksStillHold BY DEF IInv
<1>. QED BY <1>1, Invariance, PTL

\* No reader meets a 404 for something it was shown.
THEOREM ReadersNeverDangle == Spec => []NoDanglingRead
<1>1. IInv => NoDanglingRead BY DEF IInv
<1>. QED BY <1>1, Invariance, PTL

----------------------------------------------------------------------------
(* The refinement.                                                         *)

LEMMA InitRefines == Init => Reg!RegInit
  BY DEF Init, Reg!RegInit, Searchable, Confirmed

\* A step of one request that writes no row, chunk or node and answers nobody
\* is a stutter.
LEMMA StutterRefines ==
  ASSUME UNCHANGED <<rows, chunks, nodes>>,
         \A r \in Requests : (pc[r] = "done") <=> (pc'[r] = "done"),
         \A r \in Requests : pc[r] = "done" => id'[r] = id[r]
  PROVE  [Reg!RegNext]_(Reg!regVars)
<1>1. Searchable' = Searchable BY DEF Searchable
<1>2. Confirmed' = Confirmed BY DEF Confirmed
<1>. QED BY <1>1, <1>2 DEF Reg!regVars

\* A chunk or a node stored under an id with a row makes the id searchable.
LEMMA SearchableRefines ==
  ASSUME IInv, NEW r \in Requests, pc[r] \in Saved \ {"done"},
         NEW label \in Labels \ {"done"}, Goto(r, label),
         UNCHANGED <<rows, id>>,
         Searchable' \in {Searchable, Searchable \union {id[r]}}
  PROVE  [Reg!RegNext]_(Reg!regVars)
<1>1. Confirmed' = Confirmed
  BY DEF IInv, TypeOK, Goto, Confirmed
<1>2. id[r] \in Ids /\ rows[id[r]] # NoFile
  BY DEF IInv, RequestInv, StoreInv
<1>. QED BY <1>1, <1>2 DEF Reg!RegNext, Reg!MakeSearchable, Reg!regVars

LEMMA SaveRowRefines ==
  ASSUME IInv, NEW r \in Requests, SaveRow(r)
  PROVE  [Reg!RegNext]_(Reg!regVars)
<1> USE DEF SaveRow, Goto, AfterSave, AfterIndex
<1>1. id[r] \in Ids /\ file[r] \in Files /\ rows[id[r]] = NoFile
  BY DEF IInv, RequestInv, StoreInv, NothingUnder
<1>2. Searchable' = Searchable /\ Confirmed' = Confirmed
  BY DEF IInv, TypeOK, Searchable, Confirmed
<1>3. Reg!Register(id[r], file[r]) BY <1>1, <1>2 DEF Reg!Register
<1>. QED BY <1>1, <1>3 DEF Reg!RegNext

LEMMA UpsertBatchRefines ==
  ASSUME IInv, NEW r \in Requests, UpsertBatch(r)
  PROVE  [Reg!RegNext]_(Reg!regVars)
<1>1. id[r] \in Ids /\ rows[id[r]] # NoFile
  BY DEF IInv, RequestInv, StoreInv, UpsertBatch
<1>2. Searchable' = Searchable \union {id[r]}
  BY <1>1 DEF IInv, TypeOK, Searchable, UpsertBatch
<1>3. Goto(r, "upsert") BY DEF IInv, TypeOK, UpsertBatch, Goto
<1>. QED BY <1>2, <1>3, SearchableRefines DEF UpsertBatch

LEMMA IndexFailsRefines ==
  ASSUME IInv, NEW r \in Requests, IndexFails(r)
  PROVE  [Reg!RegNext]_(Reg!regVars)
<1>1. id[r] \in Ids BY DEF IInv, RequestInv, IndexFails
<1>2. Searchable' \in {Searchable, Searchable \union {id[r]}}
  BY <1>1 DEF IInv, TypeOK, Searchable, IndexFails
<1>3. PICK label \in Labels \ {"done"} : Goto(r, label)
  BY DEF IndexFails, AfterIndex, Goto
<1>. QED BY <1>2, <1>3, SearchableRefines DEF IndexFails

LEMMA BuildGraphRefines ==
  ASSUME IInv, NEW r \in Requests, BuildGraph(r)
  PROVE  [Reg!RegNext]_(Reg!regVars)
<1>1. id[r] \in Ids /\ file[r] # NoFile
  BY DEF IInv, RequestInv, BuildGraph
<1>2. Searchable' \in {Searchable, Searchable \union {id[r]}}
  BY <1>1 DEF IInv, TypeOK, Searchable, BuildGraph
<1>. QED BY <1>2, SearchableRefines DEF BuildGraph

LEMMA RespondRefines ==
  ASSUME IInv, NEW r \in Requests, Respond(r)
  PROVE  [Reg!RegNext]_(Reg!regVars)
<1>1. id[r] \in Ids /\ rows[id[r]] # NoFile
  BY DEF IInv, RequestInv, StoreInv, Respond
<1>2. Searchable' = Searchable BY DEF Searchable, Respond
<1>3. Confirmed' = Confirmed \union {id[r]}
  BY <1>1 DEF IInv, TypeOK, Confirmed, Respond, Leave, Goto
<1>4. Reg!Confirm(id[r]) BY <1>1, <1>2, <1>3 DEF Reg!Confirm, Respond
<1>. QED BY <1>1, <1>4 DEF Reg!RegNext

\* The other handler steps change no row, chunk or node, do not answer with a
\* 200, and give an id only to a request that is not answered yet.
LEMMA OtherHandlerRefines ==
  ASSUME IInv, NEW r \in Requests,
         \/ Submit(r) \/ ResolveDependencies(r) \/ RejectUpload(r)
         \/ ResumeBody(r) \/ Analyse(r) \/ HeadBucket(r) \/ CreateBucket(r)
         \/ PutObject(r) \/ Raise(r) \/ RaiseAfterEffect(r)
         \/ LookupCollection(r) \/ CreateCollection(r) \/ FinishIndex(r)
  PROVE  [Reg!RegNext]_(Reg!regVars)
<1> USE DEF Submit, ResolveDependencies, RejectUpload, ResumeBody, Analyse,
            HeadBucket, CreateBucket, PutObject, Raise, RaiseAfterEffect,
            LookupCollection, CreateCollection, FinishIndex, Goto, Leave,
            AfterIndex
<1>1. UNCHANGED <<rows, chunks, nodes>> OBVIOUS
<1>2. \A q \in Requests : (pc[q] = "done") <=> (pc'[q] = "done")
  BY DEF IInv, TypeOK
<1>3. \A q \in Requests : pc[q] = "done" => id'[q] = id[q]
  BY DEF IInv, TypeOK
<1>. QED BY <1>1, <1>2, <1>3, StutterRefines

LEMMA NextRefines == IInv /\ [Next]_vars => [Reg!RegNext]_(Reg!regVars)
<1> SUFFICES ASSUME IInv, [Next]_vars PROVE [Reg!RegNext]_(Reg!regVars)
  OBVIOUS
<1>1. ASSUME NEW r \in Requests, Submit(r) \/ Handler(r)
      PROVE  [Reg!RegNext]_(Reg!regVars)
  BY <1>1, SaveRowRefines, UpsertBatchRefines, IndexFailsRefines,
     BuildGraphRefines, RespondRefines, OtherHandlerRefines
  DEF Handler
<1>2. ASSUME NEW v \in Viewers, Reader(v) PROVE [Reg!RegNext]_(Reg!regVars)
  BY <1>2, StutterRefines
  DEF Reader, Ask, ReadContract, LookupDocument, FetchImage, Close, ReaderOnly
<1>3. CASE Crash
  <2>1. \A r \in Requests : (pc[r] = "done") <=> (pc'[r] = "done")
    BY <1>3 DEF Crash
  <2>. QED BY <1>3, <2>1, StutterRefines DEF Crash
<1>4. CASE Restart BY <1>4, StutterRefines DEF Restart
<1>5. CASE UNCHANGED vars BY <1>5, StutterRefines DEF vars
<1>. QED BY <1>1, <1>2, <1>3, <1>4, <1>5 DEF Next

\* The upload endpoints implement the append-only register: each initial state
\* maps to an initial state of Registry, each step to a step or a stutter.
THEOREM RefinesRegistry == Spec => ImplementsRegistry
<1>1. Spec => Reg!RegInit /\ [][Reg!RegNext]_(Reg!regVars)
  BY InitRefines, NextRefines, Invariance, PTL DEF Spec
<1>. QED BY <1>1 DEF ImplementsRegistry, Reg!RegSpec

====
