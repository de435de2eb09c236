----------------------- MODULE UploadDocuments_proofs -----------------------
(***************************************************************************)
(* Proofs about UploadDocuments, for any set of documents, workers and     *)
(* servers, any queue, store and database, and any number of faults,       *)
(* crashes and operator commands.                                          *)
(***************************************************************************)
EXTENDS UploadDocuments, FiniteSetTheorems, TLAPS

-----------------------------------------------------------------------------
(* Type correctness *)

\* Init gives every variable a value of its type.
LEMMA InitTypeOK == Init => TypeOK
  BY DocsAssumption
  DEF Init, TypeOK, Statuses, Failures, UploadSteps, InUpload, WorkerSteps

\* Every step of an upload handler keeps the types.
LEMMA UploadStepTypeOK ==
  ASSUME TypeOK, NEW d \in Docs, UploadStep(d)
  PROVE  TypeOK'
<1> USE DEF TypeOK, Statuses, Failures, UploadSteps, InUpload, WorkerSteps,
            Fault, DatabaseFault, AddFile, StoreChunks, UpdateStatus, UploadGoesTo, tables, counters
<1>1. CASE CreateDocument(d)
  BY <1>1 DEF CreateDocument
<1>2. CASE PutBlob(d)
  BY <1>2 DEF PutBlob
<1>3. CASE CreateFile(d)
  BY <1>3 DEF CreateFile
<1>4. CASE Enqueue(d)
  BY <1>4 DEF Enqueue
<1> QED
  BY <1>1, <1>2, <1>3, <1>4 DEF UploadStep

\* Every step of a job keeps the types.
LEMMA WorkerStepTypeOK ==
  ASSUME TypeOK, NEW w \in Workers, WorkerStep(w)
  PROVE  TypeOK'
<1> USE DEF TypeOK, Statuses, Failures, WorkerSteps, Fault, DatabaseFault, AddFile, StoreChunks, UpdateStatus,
            WorkerGoesTo, WorkerReturns, tables, counters
<1>1. CASE LoadDocument(w)
  BY <1>1 DEF LoadDocument
<1>2. CASE MarkProcessing(w)
  BY <1>2 DEF MarkProcessing
<1>3. CASE FindFile(w)
  BY <1>3 DEF FindFile
<1>4. CASE ReadBlob(w)
  BY <1>4 DEF ReadBlob
<1>5. CASE Embed(w)
  BY <1>5 DEF Embed
<1>6. CASE InsertChunks(w)
  BY <1>6 DEF InsertChunks
<1>7. CASE MarkProcessed(w)
  BY <1>7 DEF MarkProcessed
<1>8. CASE MarkFailed(w)
  BY <1>8 DEF MarkFailed
<1> QED
  BY <1>1, <1>2, <1>3, <1>4, <1>5, <1>6, <1>7, <1>8 DEF WorkerStep

\* So do the hand-over of a job, the loss of one and an operator command.
LEMMA QueueStepTypeOK ==
  ASSUME TypeOK, NEW d \in Docs,
         (\E w \in Workers : Take(w, d)) \/ LoseJob(d) \/ Rerun(d)
  PROVE  TypeOK'
<1> USE DEF TypeOK, Statuses, Failures, WorkerSteps, Fault, DatabaseFault, AddFile, StoreChunks, UpdateStatus,
            tables, counters
<1>1. ASSUME NEW w \in Workers, Take(w, d)
      PROVE  TypeOK'
  BY <1>1, DocsAssumption DEF Take
<1>2. CASE LoseJob(d)
  BY <1>2 DEF LoseJob
<1>3. CASE Rerun(d)
  BY <1>3 DEF Rerun
<1> QED
  BY <1>1, <1>2, <1>3

\* And so does the restart of a server, after a crash or a panic.
LEMMA RestartTypeOK ==
  ASSUME TypeOK, NEW s, Restart(s)
  PROVE  TypeOK'
  BY DEF TypeOK, Restart, UploadSteps, WorkerSteps, tables

\* The type invariant holds in every reachable state, for any constants.
THEOREM TypeCorrect == Spec => []TypeOK
<1>1. Init => TypeOK
  BY InitTypeOK
<1>2. TypeOK /\ [Next]_vars => TypeOK'
  <2> SUFFICES ASSUME TypeOK, [Next]_vars
               PROVE  TypeOK'
    OBVIOUS
  <2>1. CASE UNCHANGED vars
    BY <2>1 DEF vars, TypeOK
  <2>2. CASE Next
    BY <2>2, UploadStepTypeOK, WorkerStepTypeOK, QueueStepTypeOK, RestartTypeOK
    DEF Next, EmbedPanics
  <2> QED
    BY <2>1, <2>2
<1> QED
  BY <1>1, <1>2, PTL DEF Spec

-----------------------------------------------------------------------------
(* A processed document has its chunks *)

\* A worker about to mark its document processed has stored the chunks.
FinishingHasChunks ==
  \A w \in Workers : pc[w] = "finish" => copies[job[w]] > 0

ChunksInv == TypeOK /\ FinishingHasChunks /\ ProcessedHasChunks

\* A step of an upload disturbs neither part: only CreateDocument sets a
\* status, and it sets pending.
LEMMA UploadStepChunksInv ==
  ASSUME ChunksInv, NEW d \in Docs, UploadStep(d)
  PROVE  FinishingHasChunks' /\ ProcessedHasChunks'
<1> USE DEF ChunksInv, TypeOK, FinishingHasChunks, ProcessedHasChunks, Fault, DatabaseFault, AddFile, StoreChunks,
            UpdateStatus, UploadGoesTo, tables, counters, UploadStep
<1>1. CASE CreateDocument(d)
  BY <1>1 DEF CreateDocument
<1>2. CASE ~CreateDocument(d)
  BY <1>2 DEF PutBlob, CreateFile, Enqueue
<1> QED
  BY <1>1, <1>2

\* Of a job's steps, MarkProcessed relies on the first part, InsertChunks
\* establishes it, and the others keep the chunks and set no document to
\* processed.
LEMMA WorkerStepChunksInv ==
  ASSUME ChunksInv, NEW w \in Workers, WorkerStep(w)
  PROVE  FinishingHasChunks' /\ ProcessedHasChunks'
<1> USE DEF ChunksInv, TypeOK, FinishingHasChunks, ProcessedHasChunks, Fault, DatabaseFault, AddFile, StoreChunks,
            UpdateStatus, WorkerGoesTo, WorkerReturns, tables, counters,
            WorkerSteps, Failures, Statuses
<1>1. CASE LoadDocument(w)
  BY <1>1 DEF LoadDocument
<1>2. CASE MarkProcessing(w)
  BY <1>2 DEF MarkProcessing
<1>3. CASE FindFile(w)
  BY <1>3 DEF FindFile
<1>4. CASE ReadBlob(w)
  BY <1>4 DEF ReadBlob
<1>5. CASE Embed(w)
  BY <1>5 DEF Embed
<1>6. CASE InsertChunks(w)
  BY <1>6 DEF InsertChunks
<1>7. CASE MarkProcessed(w)
  BY <1>7 DEF MarkProcessed
<1>8. CASE MarkFailed(w)
  BY <1>8 DEF MarkFailed
<1> QED
  BY <1>1, <1>2, <1>3, <1>4, <1>5, <1>6, <1>7, <1>8 DEF WorkerStep

\* The queue, the operator and a restart touch no chunk, start workers at
\* their first step only and set no document to processed.
LEMMA OtherStepChunksInv ==
  ASSUME ChunksInv,
         \/ \E w \in Workers, d \in Docs : Take(w, d)
         \/ \E d \in Docs : LoseJob(d) \/ Rerun(d)
         \/ \E s : Restart(s)
  PROVE  FinishingHasChunks' /\ ProcessedHasChunks'
<1> USE DEF ChunksInv, TypeOK, FinishingHasChunks, ProcessedHasChunks, Fault, DatabaseFault, AddFile, StoreChunks,
            UpdateStatus, tables, counters
<1>1. ASSUME NEW w \in Workers, NEW d \in Docs, Take(w, d)
      PROVE  FinishingHasChunks' /\ ProcessedHasChunks'
  BY <1>1 DEF Take
<1>2. ASSUME NEW d \in Docs, LoseJob(d) \/ Rerun(d)
      PROVE  FinishingHasChunks' /\ ProcessedHasChunks'
  BY <1>2 DEF LoseJob, Rerun
<1>3. ASSUME NEW s, Restart(s)
      PROVE  FinishingHasChunks' /\ ProcessedHasChunks'
  BY <1>3 DEF Restart
<1> QED
  BY <1>1, <1>2, <1>3

\* A document that the list calls processed has all its chunks stored, in
\* every reachable state and for any queue, store and number of servers.
THEOREM ProcessedHasChunksHolds == Spec => []ProcessedHasChunks
<1>1. Init => ChunksInv
  BY InitTypeOK DEF Init, ChunksInv, FinishingHasChunks, ProcessedHasChunks
<1>2. ChunksInv /\ TypeOK' /\ [Next]_vars => ChunksInv'
  <2> SUFFICES ASSUME ChunksInv, TypeOK', [Next]_vars
               PROVE  FinishingHasChunks' /\ ProcessedHasChunks'
    BY DEF ChunksInv
  <2>1. CASE UNCHANGED vars
    BY <2>1 DEF vars, ChunksInv, FinishingHasChunks, ProcessedHasChunks
  <2>2. CASE Next
    BY <2>2, UploadStepChunksInv, WorkerStepChunksInv, OtherStepChunksInv
    DEF Next, EmbedPanics
  <2> QED
    BY <2>1, <2>2
<1> QED
  BY <1>1, <1>2, TypeCorrect, PTL DEF Spec, ChunksInv

-----------------------------------------------------------------------------
(* Rows are never deleted, and a job past its first step has one *)

JobsHaveRow ==
  \A w \in Workers : pc[w] \notin {"idle", "get"} => status[job[w]] # "absent"

\* LoadDocument returns when there is no row, and no step makes a status absent.
LEMMA JobsHaveRowHolds == Spec => []JobsHaveRow
<1> USE DEF JobsHaveRow
<1>1. Init => JobsHaveRow
  BY DEF Init
<1>2. TypeOK /\ JobsHaveRow /\ [Next]_vars => JobsHaveRow'
  <2> SUFFICES ASSUME TypeOK, JobsHaveRow, [Next]_vars
               PROVE  JobsHaveRow'
    OBVIOUS
  <2> USE DEF TypeOK, Fault, DatabaseFault, AddFile, StoreChunks, UpdateStatus, UploadGoesTo, WorkerGoesTo,
              WorkerReturns, tables, counters, Failures, WorkerSteps
  <2>1. ASSUME NEW d \in Docs, UploadStep(d)
        PROVE  JobsHaveRow'
    BY <2>1 DEF UploadStep, CreateDocument, PutBlob, CreateFile, Enqueue
  <2>2. ASSUME NEW w \in Workers, WorkerStep(w)
        PROVE  JobsHaveRow'
    <3>1. CASE LoadDocument(w) \/ FindFile(w) \/ ReadBlob(w) \/ Embed(w) \/ InsertChunks(w)
      BY <3>1 DEF LoadDocument, FindFile, ReadBlob, Embed, InsertChunks
    <3>2. CASE MarkProcessing(w)
      BY <3>2 DEF MarkProcessing
    <3>3. CASE MarkProcessed(w)
      BY <3>3 DEF MarkProcessed
    <3>4. CASE MarkFailed(w)
      BY <3>4 DEF MarkFailed
    <3> QED
      BY <2>2, <3>1, <3>2, <3>3, <3>4 DEF WorkerStep
  <2>3. ASSUME NEW w \in Workers, NEW d \in Docs, Take(w, d)
        PROVE  JobsHaveRow'
    BY <2>3 DEF Take
  <2>4. ASSUME NEW d \in Docs, LoseJob(d) \/ Rerun(d)
        PROVE  JobsHaveRow'
    BY <2>4 DEF LoseJob, Rerun
  <2>5. ASSUME NEW s, Restart(s)
        PROVE  JobsHaveRow'
    BY <2>5 DEF Restart
  <2>6. CASE UNCHANGED vars
    BY <2>6 DEF vars
  <2> QED
    BY <2>1, <2>2, <2>3, <2>4, <2>5, <2>6 DEF Next, EmbedPanics
<1> QED
  BY <1>1, <1>2, TypeCorrect, PTL DEF Spec

-----------------------------------------------------------------------------
(* Only a failed call or a crash strands a document *)

\* As long as nothing failed, a document whose upload got past CreateFile has
\* its file row and no upload was aborted; and a job past its first step works
\* on a document that exists.  So no job ends without deciding the status.
FilesFollowUpload ==
  ~Disturbed =>
    \A d \in Docs :
      /\ upload[d] # "aborted"
      /\ upload[d] \in {"enqueue", "returned"} => d \in files
      /\ upload[d] = "create" => status[d] = "absent"

StrandedInv ==
  /\ TypeOK
  /\ JobsHaveRow
  /\ FilesFollowUpload
  /\ StrandedOnlyByFault

\* A fault makes the rest of the invariant hold at once.
LEMMA FaultDisturbs ==
  ASSUME TypeOK, Fault
  PROVE  Disturbed'
  BY DEF TypeOK, Fault, Disturbed

\* An upload keeps its document attended until the job is queued.
LEMMA UploadStepStranded ==
  ASSUME StrandedInv, NEW d \in Docs, UploadStep(d), ~Disturbed'
  PROVE  FilesFollowUpload' /\ StrandedOnlyByFault'
<1> USE DEF StrandedInv, TypeOK, JobsHaveRow, FilesFollowUpload, StrandedOnlyByFault, Unsettled,
            Attended, Disturbed, UpdateStatus, UploadGoesTo, AddFile, tables, counters,
            InUpload
<1>0. ~Fault /\ ~Disturbed
  BY FaultDisturbs DEF UploadStep, CreateDocument, PutBlob, CreateFile, Enqueue, DatabaseFault
<1>1. CASE CreateDocument(d)
  BY <1>0, <1>1 DEF CreateDocument, DatabaseFault
<1>2. CASE PutBlob(d)
  BY <1>0, <1>2 DEF PutBlob
<1>3. CASE CreateFile(d)
  BY <1>0, <1>3 DEF CreateFile, DatabaseFault
<1>4. CASE Enqueue(d)
  BY <1>0, <1>4 DEF Enqueue
<1> QED
  BY <1>1, <1>2, <1>3, <1>4 DEF UploadStep

\* A job attends its document until it returns; without a fault it returns
\* only once the status is settled, or, finding no file, while the upload is
\* still under way.
LEMMA WorkerStepStranded ==
  ASSUME StrandedInv, NEW w \in Workers, WorkerStep(w), ~Disturbed'
  PROVE  FilesFollowUpload' /\ StrandedOnlyByFault'
<1> USE DEF StrandedInv, TypeOK, JobsHaveRow, FilesFollowUpload, StrandedOnlyByFault, Unsettled,
            Attended, Disturbed, UpdateStatus, WorkerGoesTo, WorkerReturns, StoreChunks,
            tables, counters, InUpload, UploadSteps, Failures
<1>0. ~Fault /\ ~Disturbed
  BY FaultDisturbs
  DEF WorkerStep, LoadDocument, MarkProcessing, FindFile, ReadBlob, Embed,
      InsertChunks, MarkProcessed, MarkFailed, DatabaseFault
<1>1. CASE LoadDocument(w)
  BY <1>0, <1>1, DocsAssumption DEF LoadDocument
<1>2. CASE MarkProcessing(w)
  BY <1>0, <1>2, DocsAssumption DEF MarkProcessing, DatabaseFault
<1>3. CASE FindFile(w)
  BY <1>0, <1>3, DocsAssumption DEF FindFile
<1>4. CASE ReadBlob(w)
  BY <1>0, <1>4 DEF ReadBlob
<1>5. CASE Embed(w)
  BY <1>0, <1>5 DEF Embed
<1>6. CASE InsertChunks(w)
  BY <1>0, <1>6 DEF InsertChunks, DatabaseFault
<1>7. CASE MarkProcessed(w)
  BY <1>0, <1>7, DocsAssumption DEF MarkProcessed, DatabaseFault
<1>8. CASE MarkFailed(w)
  BY <1>0, <1>8, DocsAssumption DEF MarkFailed, DatabaseFault
<1> QED
  BY <1>1, <1>2, <1>3, <1>4, <1>5, <1>6, <1>7, <1>8 DEF WorkerStep

\* A document is attended through the hand-over of its job, and an operator
\* command that makes it pending queues a job with it.
LEMMA QueueStepStranded ==
  ASSUME StrandedInv, NEW d \in Docs, ~Disturbed',
         (\E w \in Workers : Take(w, d)) \/ LoseJob(d) \/ Rerun(d)
  PROVE  FilesFollowUpload' /\ StrandedOnlyByFault'
<1> USE DEF StrandedInv, TypeOK, JobsHaveRow, FilesFollowUpload, StrandedOnlyByFault, Unsettled,
            Attended, Disturbed, UpdateStatus, tables, counters
<1>1. ASSUME NEW w \in Workers, Take(w, d)
      PROVE  FilesFollowUpload' /\ StrandedOnlyByFault'
  <2>1. job[w] \notin Docs
    BY <1>1, DocsAssumption DEF Take
  <2> QED
    BY <1>1, <2>1 DEF Take
<1>2. ~LoseJob(d)
  BY FaultDisturbs DEF LoseJob
<1>3. CASE Rerun(d)
  BY <1>3 DEF Rerun
<1> QED
  BY <1>1, <1>2, <1>3

\* A document in status pending or processing is in upload, has a job queued
\* or running, or was let down by a failed call or a crash, in every reachable
\* state: no interleaving of jobs and operator commands alone strands it.
THEOREM StrandedOnlyByFaultHolds == Spec => []StrandedOnlyByFault
<1>1. Init => StrandedInv
  BY InitTypeOK DEF Init, StrandedInv, JobsHaveRow, FilesFollowUpload, StrandedOnlyByFault, Unsettled
<1>2. StrandedInv /\ TypeOK' /\ JobsHaveRow' /\ [Next]_vars => StrandedInv'
  <2> SUFFICES ASSUME StrandedInv, TypeOK', JobsHaveRow', [Next]_vars
               PROVE  FilesFollowUpload' /\ StrandedOnlyByFault'
    BY DEF StrandedInv
  <2>1. CASE Disturbed'
    BY <2>1 DEF FilesFollowUpload, StrandedOnlyByFault
  <2>2. CASE UNCHANGED vars
    BY <2>2 DEF vars, StrandedInv, FilesFollowUpload, StrandedOnlyByFault,
                Disturbed, Unsettled, Attended
  <2>3. CASE ~Disturbed' /\ Next
    <3>1. ASSUME NEW s PROVE ~Restart(s)
      BY <2>3 DEF Restart, Disturbed, StrandedInv, TypeOK
    <3> QED
      BY <2>3, <3>1, UploadStepStranded, WorkerStepStranded, QueueStepStranded
      DEF Next, EmbedPanics
  <2> QED
    BY <2>1, <2>2, <2>3
<1> QED
  BY <1>1, <1>2, TypeCorrect, JobsHaveRowHolds, PTL DEF Spec, StrandedInv

-----------------------------------------------------------------------------
(* Every copy of the chunks is paid for by a job *)

\* The jobs of a document that may still store its chunks.
Inserting == {"get", "mark", "find", "read", "embed", "insert"}
Inserters(d) == {w \in Workers : job[w] = d /\ pc[w] \in Inserting}

\* The job that an upload has still to push.
Owed(d) == IF upload[d] \in InUpload \cup {"create"} THEN 1 ELSE 0

\* What is stored, waits, runs and is still to be pushed for a document comes from
\* the one push of its upload and from the operator's commands.
Budget(d) ==
  /\ IsFiniteSet(Inserters(d))
  /\ copies[d] + queued[d] + Cardinality(Inserters(d)) + Owed(d) <= 1 + reruns

LEMMA OwedIsNat == \A d : Owed(d) \in Nat
  BY DEF Owed

\* A step that gives the document no further job stays within the budget.
LEMMA SpendingKeepsBudget ==
  ASSUME TypeOK, TypeOK', NEW d \in Docs, Budget(d),
         Inserters(d)' \in SUBSET Inserters(d),
         copies'[d] + queued'[d] + Owed(d)' <= copies[d] + queued[d] + Owed(d) + (reruns' - reruns)
  PROVE  Budget(d)'
<1>1. IsFiniteSet(Inserters(d)) /\ Cardinality(Inserters(d)) \in Nat
  BY FS_CardinalityType DEF Budget
<1>2. /\ IsFiniteSet(Inserters(d)') /\ Cardinality(Inserters(d)') \in Nat
      /\ Cardinality(Inserters(d)') <= Cardinality(Inserters(d))
  BY <1>1, FS_Subset, FS_CardinalityType
<1>3. /\ copies[d] \in Nat /\ queued[d] \in Nat /\ copies'[d] \in Nat /\ queued'[d] \in Nat
      /\ reruns \in Nat /\ reruns' \in Nat /\ Owed(d) \in Nat /\ Owed(d)' \in Nat
  BY OwedIsNat DEF TypeOK, Owed
<1> QED
  BY <1>1, <1>2, <1>3 DEF Budget

\* An upload pushes the one job it owes.
LEMMA UploadStepBudget ==
  ASSUME TypeOK, TypeOK', NEW d \in Docs, Budget(d), NEW e \in Docs, UploadStep(e)
  PROVE  Budget(d)'
<1>1. Inserters(d)' = Inserters(d) /\ UNCHANGED <<copies, reruns>>
  BY DEF UploadStep, CreateDocument, PutBlob, CreateFile, Enqueue, UploadGoesTo, UpdateStatus,
         DatabaseFault, AddFile, Fault, tables, counters, Inserters
<1>2. queued'[d] + Owed(d)' <= queued[d] + Owed(d)
  <2>1. CASE e # d
    <3>1. queued'[d] = queued[d] /\ upload'[d] = upload[d]
      BY <2>1 DEF UploadStep, CreateDocument, PutBlob, CreateFile, Enqueue, UploadGoesTo, TypeOK
    <3> QED
      BY <3>1 DEF Owed, TypeOK
  <2>2. CASE e = d /\ ~ Enqueue(d)
    <3>1. queued'[d] = queued[d] /\ Owed(d) = 1
      BY <2>2 DEF UploadStep, CreateDocument, PutBlob, CreateFile, Owed, InUpload
    <3> QED
      BY <3>1 DEF Owed, TypeOK
  <2>3. CASE e = d /\ Enqueue(d)
    <3>1. Owed(d) = 1 /\ Owed(d)' = 0
      BY <2>3 DEF Enqueue, UploadGoesTo, Owed, InUpload, TypeOK
    <3>2. queued'[d] \in {queued[d], queued[d] + 1} /\ queued[d] \in Nat
      BY <2>3 DEF Enqueue, TypeOK
    <3> QED
      BY <3>1, <3>2
  <2> QED
    BY <2>1, <2>2, <2>3
<1>3. copies[d] \in Nat /\ queued[d] \in Nat /\ queued'[d] \in Nat /\ reruns \in Nat
      /\ Owed(d) \in Nat /\ Owed(d)' \in Nat
  BY OwedIsNat DEF TypeOK, Owed
<1> QED
  BY <1>1, <1>2, <1>3, SpendingKeepsBudget

\* The insert turns the job that pays for it into a copy; no other step of a job
\* stores one, and none makes another job.
LEMMA WorkerStepBudget ==
  ASSUME TypeOK, TypeOK', NEW d \in Docs, Budget(d), NEW w \in Workers, WorkerStep(w)
  PROVE  Budget(d)'
<1>0. UNCHANGED <<upload, queued, reruns>> /\ Owed(d)' = Owed(d)
  BY DEF WorkerStep, LoadDocument, MarkProcessing, FindFile, ReadBlob, Embed, InsertChunks,
         MarkProcessed, MarkFailed, WorkerGoesTo, WorkerReturns, DatabaseFault, Fault, counters, Owed
<1>1. Inserters(d)' \in SUBSET Inserters(d)
  <2>1. \A v \in Workers \ {w} : pc'[v] = pc[v] /\ job'[v] = job[v]
    BY DEF WorkerStep, LoadDocument, MarkProcessing, FindFile, ReadBlob, Embed, InsertChunks,
           MarkProcessed, MarkFailed, WorkerGoesTo, WorkerReturns, TypeOK
  <2>2. pc'[w] \in Inserting => pc[w] \in Inserting /\ job'[w] = job[w]
    BY DEF WorkerStep, LoadDocument, MarkProcessing, FindFile, ReadBlob, Embed, InsertChunks,
           MarkProcessed, MarkFailed, WorkerGoesTo, WorkerReturns, TypeOK, Inserting, Failures
  <2> QED
    BY <2>1, <2>2 DEF Inserters
<1>2. copies[d] \in Nat /\ queued[d] \in Nat /\ reruns \in Nat /\ Owed(d) \in Nat
  BY OwedIsNat DEF TypeOK
<1>3. CASE copies'[d] = copies[d]
  BY <1>0, <1>1, <1>2, <1>3, SpendingKeepsBudget
<1>4. CASE copies'[d] # copies[d]
  <2>1. /\ pc[w] = "insert" /\ job[w] = d
        /\ pc' = [pc EXCEPT ![w] = "finish"] \/ pc' = [pc EXCEPT ![w] = "persist"]
        /\ copies'[d] = copies[d] + 1 /\ UNCHANGED job
    BY <1>4 DEF WorkerStep, LoadDocument, MarkProcessing, FindFile, ReadBlob, Embed, InsertChunks,
                MarkProcessed, MarkFailed, WorkerGoesTo, UpdateStatus, DatabaseFault, StoreChunks,
                tables, TypeOK
  <2>2. w \in Inserters(d) /\ Inserters(d)' = Inserters(d) \ {w}
    BY <2>1 DEF Inserters, Inserting, TypeOK
  <2>3. IsFiniteSet(Inserters(d)) /\ Cardinality(Inserters(d)) \in Nat
    BY FS_CardinalityType DEF Budget
  <2>4. /\ IsFiniteSet(Inserters(d)')
        /\ Cardinality(Inserters(d)') = Cardinality(Inserters(d)) - 1
    BY <2>2, <2>3, FS_RemoveElement
  <2> QED
    BY <1>0, <1>2, <2>1, <2>3, <2>4 DEF Budget
<1> QED
  BY <1>3, <1>4

\* The hand-over turns a waiting job into a running one.
LEMMA TakeBudget ==
  ASSUME TypeOK, TypeOK', NEW d \in Docs, Budget(d), NEW w \in Workers, NEW e \in Docs, Take(w, e)
  PROVE  Budget(d)'
<1>0. UNCHANGED <<copies, upload, reruns>> /\ Owed(d)' = Owed(d)
  BY DEF Take, tables, counters, Owed
<1>1. /\ pc' = [pc EXCEPT ![w] = "get"] /\ job' = [job EXCEPT ![w] = e]
      /\ queued' = [queued EXCEPT ![e] = @ - 1] /\ job[w] = NoDoc
  BY DEF Take, TypeOK
<1>2. copies[d] \in Nat /\ queued[d] \in Nat /\ reruns \in Nat /\ Owed(d) \in Nat
  BY OwedIsNat DEF TypeOK
<1>3. CASE e # d
  <2>1. Inserters(d)' \in SUBSET Inserters(d) /\ queued'[d] = queued[d]
    BY <1>1, <1>3 DEF Inserters, TypeOK
  <2> QED
    BY <1>0, <1>2, <2>1, SpendingKeepsBudget
<1>4. CASE e = d
  <2>1. w \notin Inserters(d) /\ Inserters(d)' = Inserters(d) \cup {w}
    BY <1>1, <1>4, DocsAssumption DEF Inserters, Inserting, TypeOK
  <2>2. queued'[d] = queued[d] - 1
    BY <1>1, <1>4 DEF TypeOK
  <2>3. IsFiniteSet(Inserters(d)) /\ Cardinality(Inserters(d)) \in Nat
    BY FS_CardinalityType DEF Budget
  <2>4. /\ IsFiniteSet(Inserters(d)')
        /\ Cardinality(Inserters(d)') = Cardinality(Inserters(d)) + 1
    BY <2>1, <2>3, FS_AddElement
  <2> QED
    BY <1>0, <1>2, <2>2, <2>3, <2>4 DEF Budget
<1> QED
  BY <1>3, <1>4

\* A lost job is spent, a job the operator pushes is paid for by the command, and
\* a restart makes none.
LEMMA OtherStepBudget ==
  ASSUME TypeOK, TypeOK', NEW d \in Docs, Budget(d),
         (\E e \in Docs : LoseJob(e) \/ Rerun(e)) \/ (\E s : Restart(s))
  PROVE  Budget(d)'
<1>1. copies[d] \in Nat /\ queued[d] \in Nat /\ reruns \in Nat /\ Owed(d) \in Nat
  BY OwedIsNat DEF TypeOK
<1>2. ASSUME NEW e \in Docs, LoseJob(e)
      PROVE  Budget(d)'
  <2>1. UNCHANGED <<copies, upload, reruns>> /\ Owed(d)' = Owed(d) /\ Inserters(d)' = Inserters(d)
    BY <1>2 DEF LoseJob, Fault, tables, Owed, Inserters
  <2>2. queued'[d] \in {queued[d], queued[d] - 1}
    BY <1>2 DEF LoseJob, TypeOK
  <2> QED
    BY <1>1, <2>1, <2>2, SpendingKeepsBudget
<1>3. ASSUME NEW e \in Docs, Rerun(e)
      PROVE  Budget(d)'
  <2>1. UNCHANGED <<copies, upload>> /\ Owed(d)' = Owed(d) /\ Inserters(d)' = Inserters(d)
    BY <1>3 DEF Rerun, UpdateStatus, tables, Owed, Inserters
  <2>2. queued'[d] \in {queued[d], queued[d] + 1} /\ reruns' = reruns + 1
    BY <1>3 DEF Rerun, TypeOK
  <2> QED
    BY <1>1, <2>1, <2>2, SpendingKeepsBudget
<1>4. ASSUME NEW s, Restart(s)
      PROVE  Budget(d)'
  <2>1. UNCHANGED <<copies, reruns>>
    BY <1>4 DEF Restart, tables
  <2>2. Inserters(d)' \in SUBSET Inserters(d)
    BY <1>4 DEF Restart, Inserters, Inserting
  <2>3. queued'[d] \in {0, queued[d]}
    BY <1>4 DEF Restart
  <2>4. Owed(d)' \in {0, Owed(d)}
    BY <1>4 DEF Restart, Owed, InUpload
  <2>5. copies'[d] + queued'[d] + Owed(d)' <= copies[d] + queued[d] + Owed(d) + (reruns' - reruns)
    BY <1>1, <2>1, <2>3, <2>4
  <2> QED
    BY <2>2, <2>5, SpendingKeepsBudget
<1> QED
  BY <1>2, <1>3, <1>4

LEMMA BudgetHolds == Spec => [](\A d \in Docs : Budget(d))
<1>1. Init => \A d \in Docs : Budget(d)
  <2> SUFFICES ASSUME Init, NEW d \in Docs
               PROVE  Budget(d)
    OBVIOUS
  <2>1. Inserters(d) = {}
    BY DEF Init, Inserters, Inserting
  <2>2. copies[d] = 0 /\ queued[d] = 0 /\ reruns = 0 /\ Owed(d) = 1
    BY DEF Init, Owed
  <2> QED
    BY <2>1, <2>2, FS_EmptySet DEF Budget
<1>2. /\ TypeOK /\ TypeOK' /\ (\A d \in Docs : Budget(d)) /\ [Next]_vars
      => (\A d \in Docs : Budget(d))'
  <2> SUFFICES ASSUME TypeOK, TypeOK', [Next]_vars, NEW d \in Docs, Budget(d)
               PROVE  Budget(d)'
    OBVIOUS
  <2>1. CASE UNCHANGED vars
    BY <2>1 DEF vars, Budget, Inserters, Owed
  <2>2. CASE Next
    BY <2>2, UploadStepBudget, WorkerStepBudget, TakeBudget, OtherStepBudget DEF Next, EmbedPanics
  <2> QED
    BY <2>1, <2>2
<1> QED
  BY <1>1, <1>2, TypeCorrect, PTL DEF Spec

\* The chunks of a document are stored at most once for its upload and once for
\* every command of the operator, for any queue and store, any number of workers
\* and whatever fails or restarts: no job is run twice.
THEOREM ChunksBoundedByJobsHolds == Spec => []ChunksBoundedByJobs
<1>1. TypeOK /\ (\A d \in Docs : Budget(d)) => ChunksBoundedByJobs
  <2> SUFFICES ASSUME TypeOK, NEW d \in Docs, Budget(d)
               PROVE  copies[d] <= 1 + reruns
    BY DEF ChunksBoundedByJobs
  <2>1. copies[d] \in Nat /\ queued[d] \in Nat /\ reruns \in Nat /\ Owed(d) \in Nat
    BY OwedIsNat DEF TypeOK
  <2>2. Cardinality(Inserters(d)) \in Nat
    BY FS_CardinalityType DEF Budget
  <2> QED
    BY <2>1, <2>2 DEF Budget
<1> QED
  BY <1>1, BudgetHolds, TypeCorrect, PTL

-----------------------------------------------------------------------------
(* The immediate queue: one job per document, and the lifecycle *)

\* A document has a job, queued or running, only after its upload returned,
\* and never two.
OneJob(d) ==
  /\ upload[d] # "returned" => queued[d] = 0
  /\ queued[d] \in {0, 1}
  /\ \A w \in Workers : job[w] = d => upload[d] = "returned" /\ queued[d] = 0
  /\ \A v, w \in Workers : job[v] = d /\ job[w] = d => v = w

\* Where a job stands tells the status of its document and whether its chunks
\* are stored.
BeforeMark == {"get", "mark"}
BeforeInsert == {"find", "read", "embed", "insert"} \cup (Failures \ {"persist"})

\* Postgres may have stored the chunks although the insert failed.
PerhapsStored(d) == copies[d] = 0 \/ (~SQLiteStore /\ faults # 0 /\ copies[d] = 1)

JobTellsState(w, d) ==
  /\ pc[w] \in BeforeMark => status[d] = "pending" /\ copies[d] = 0
  /\ pc[w] \in BeforeInsert => status[d] = "processing" /\ copies[d] = 0
  /\ pc[w] = "persist" => status[d] = "processing" /\ PerhapsStored(d)
  /\ pc[w] = "finish" => status[d] = "processing" /\ copies[d] = 1

\* So do the steps of the upload and a job still queued; and a settled status
\* tells whether the chunks are stored.
DocumentTellsState(d) ==
  /\ upload[d] = "create" => status[d] = "absent" /\ copies[d] = 0
  /\ upload[d] \in InUpload => status[d] = "pending" /\ copies[d] = 0
  /\ queued[d] = 1 => status[d] = "pending" /\ copies[d] = 0
  /\ status[d] = "processed" => copies[d] = 1
  /\ status[d] = "failed" => copies[d] = 0 \/ (PerhapsStored(d) /\ reason[d] = "persist")
  /\ upload[d] \in {"enqueue", "returned"} => d \in files

OneJobInv ==
  /\ TypeOK
  /\ \A d \in Docs : OneJob(d) /\ DocumentTellsState(d)
  /\ \A w \in Workers : \A d \in Docs : job[w] = d => JobTellsState(w, d)

\* A step of an upload: before it returns its document has no job.
LEMMA UploadStepOneJob ==
  ASSUME OneJobInv, TypeOK', NEW d \in Docs, UploadStep(d)
  PROVE  OneJobInv'
<1> USE DEF OneJobInv, OneJob, DocumentTellsState, JobTellsState, BeforeMark,
            BeforeInsert, PerhapsStored, Failures, InUpload, Fault, AddFile, UpdateStatus,
            UploadGoesTo, tables, counters
<1>0. /\ upload \in [Docs -> UploadSteps]
      /\ status \in [Docs -> Statuses]
      /\ copies \in [Docs -> Nat]
      /\ queued \in [Docs -> Nat]
      /\ faults \in Nat
  BY DEF TypeOK
<1>1. CASE CreateDocument(d)
  <2>1. CASE UpdateStatus(d, "pending", "none")
    BY <1>0, <1>1, <2>1 DEF CreateDocument, DatabaseFault
  <2>2. CASE UNCHANGED tables
    BY <1>0, <1>1, <2>2 DEF CreateDocument, DatabaseFault
  <2> QED
    BY <1>1, <2>1, <2>2 DEF CreateDocument, DatabaseFault
<1>2. CASE PutBlob(d)
  BY <1>0, <1>2 DEF PutBlob
<1>3. CASE CreateFile(d)
  <2>1. CASE AddFile(d)
    BY <1>0, <1>3, <2>1 DEF CreateFile, DatabaseFault
  <2>2. CASE UNCHANGED tables
    BY <1>0, <1>3, <2>2 DEF CreateFile, DatabaseFault
  <2> QED
    BY <1>3, <2>1, <2>2 DEF CreateFile, DatabaseFault
<1>4. CASE Enqueue(d)
  BY <1>0, <1>4 DEF Enqueue
<1> QED
  BY <1>1, <1>2, <1>3, <1>4 DEF UploadStep

\* A step of a job changes the status and the chunks of its own document only,
\* and no other job has that document.
LEMMA WorkerStepOneJob ==
  ASSUME OneJobInv, TypeOK', NEW w \in Workers, WorkerStep(w)
  PROVE  OneJobInv'
<1> USE DEF OneJobInv, OneJob, DocumentTellsState, JobTellsState, BeforeMark,
            BeforeInsert, PerhapsStored, Failures, InUpload, Fault, DatabaseFault, AddFile, StoreChunks, UpdateStatus, WorkerGoesTo,
            WorkerReturns, tables, counters
<1>0. /\ status \in [Docs -> Statuses]
      /\ copies \in [Docs -> Nat]
      /\ queued \in [Docs -> Nat]
      /\ pc \in [Workers -> WorkerSteps]
      /\ job \in [Workers -> Docs \cup {NoDoc}]
      /\ \A v \in Workers : pc[v] = "idle" <=> job[v] = NoDoc
      /\ NoDoc \notin Docs
      /\ faults \in Nat /\ reason \in [Docs -> Failures \cup {"none"}]
  BY DocsAssumption DEF TypeOK
<1>1. CASE LoadDocument(w)
  BY <1>0, <1>1 DEF LoadDocument
<1>2. CASE MarkProcessing(w)
  BY <1>0, <1>2 DEF MarkProcessing
<1>3. CASE FindFile(w)
  BY <1>0, <1>3 DEF FindFile
<1>4. CASE ReadBlob(w)
  BY <1>0, <1>4 DEF ReadBlob
<1>5. CASE Embed(w)
  BY <1>0, <1>5 DEF Embed
<1>6. CASE InsertChunks(w)
  BY <1>0, <1>6 DEF InsertChunks
<1>7. CASE MarkProcessed(w)
  BY <1>0, <1>7 DEF MarkProcessed
<1>8. CASE MarkFailed(w)
  BY <1>0, <1>8 DEF MarkFailed
<1> QED
  BY <1>1, <1>2, <1>3, <1>4, <1>5, <1>6, <1>7, <1>8 DEF WorkerStep

\* The one queued job of a document becomes its one running job.
LEMMA TakeOneJob ==
  ASSUME OneJobInv, TypeOK', NEW w \in Workers, NEW d \in Docs, Take(w, d)
  PROVE  OneJobInv'
<1> USE DEF OneJobInv, OneJob, DocumentTellsState, JobTellsState, BeforeMark,
            BeforeInsert, PerhapsStored, Failures, InUpload, tables, counters
<1>0. /\ queued \in [Docs -> Nat]
      /\ pc \in [Workers -> WorkerSteps]
      /\ job \in [Workers -> Docs \cup {NoDoc}]
      /\ job[w] \notin Docs
  BY DocsAssumption DEF TypeOK, Take
<1>1. queued[d] = 1
  BY <1>0 DEF Take
<1>2. queued' = [queued EXCEPT ![d] = 0]
  BY <1>1 DEF Take
<1> QED
  BY <1>0, <1>1, <1>2 DEF Take

\* A restart ends uploads and jobs and starts none.
LEMMA RestartOneJob ==
  ASSUME OneJobInv, TypeOK', NEW s, Restart(s)
  PROVE  OneJobInv'
<1> USE DEF OneJobInv, Restart, tables
<1>1. /\ upload \in [Docs -> UploadSteps]
      /\ queued \in [Docs -> Nat]
      /\ job \in [Workers -> Docs \cup {NoDoc}]
      /\ NoDoc \notin Docs
  BY DocsAssumption DEF TypeOK
<1>2. ASSUME NEW d \in Docs
      PROVE  OneJob(d)'
  BY <1>1 DEF OneJob, InUpload
<1>3. ASSUME NEW d \in Docs
      PROVE  DocumentTellsState(d)'
  BY <1>1 DEF DocumentTellsState, PerhapsStored, InUpload
<1>4. ASSUME NEW w \in Workers, NEW d \in Docs, job'[w] = d
      PROVE  JobTellsState(w, d)'
  BY <1>1, <1>4 DEF JobTellsState, PerhapsStored
<1> QED
  BY <1>2, <1>3, <1>4

\* A job that is lost with the reply that carried it leaves its document with none.
LEMMA LoseJobOneJob ==
  ASSUME OneJobInv, TypeOK', NEW d \in Docs, LoseJob(d)
  PROVE  OneJobInv'
<1>1. queued \in [Docs -> Nat] /\ queued[d] = 1
  BY DEF LoseJob, OneJobInv, OneJob, TypeOK
<1>2. queued' = [queued EXCEPT ![d] = 0] /\ UNCHANGED <<tables, blobs, upload, pc, job>>
  BY <1>1 DEF LoseJob
<1>3. faults # 0 => faults' # 0
  BY DEF LoseJob, Fault, OneJobInv, TypeOK
<1> QED
  BY <1>1, <1>2, <1>3
  DEF OneJobInv, OneJob, DocumentTellsState, JobTellsState, PerhapsStored, tables

\* Until the operator runs a document again, each has one job, whatever the queue:
\* neither a failed push nor a restart gives it a second.
LEMMA OneJobUnlessRerun == Spec => [](reruns = 0 => OneJobInv)
<1>1. Init => OneJobInv
  BY InitTypeOK, DocsAssumption
  DEF Init, OneJobInv, OneJob, DocumentTellsState, JobTellsState, BeforeMark,
      BeforeInsert, PerhapsStored, Failures, InUpload
<1>2. TypeOK /\ (reruns = 0 => OneJobInv) /\ TypeOK' /\ [Next]_vars => (reruns = 0 => OneJobInv)'
  <2> SUFFICES ASSUME TypeOK, reruns = 0 => OneJobInv, TypeOK', [Next]_vars, reruns' = 0
               PROVE  OneJobInv'
    OBVIOUS
  <2>1. CASE UNCHANGED vars
    BY <2>1
    DEF vars, OneJobInv, OneJob, DocumentTellsState, JobTellsState, PerhapsStored
  <2>2. CASE Next
    <3>1. ASSUME NEW d \in Docs
          PROVE  ~ Rerun(d)
      BY DEF Rerun, TypeOK
    <3>2. reruns' = reruns
      BY <2>2, <3>1
      DEF Next, UploadStep, CreateDocument, PutBlob, CreateFile, Enqueue, LoseJob, WorkerStep,
          LoadDocument, MarkProcessing, FindFile, ReadBlob, Embed, InsertChunks, MarkProcessed,
          MarkFailed, EmbedPanics, Take, Restart, DatabaseFault, Fault, counters
    <3>3. OneJobInv
      BY <3>2
    <3> QED
      BY <2>2, <3>1, <3>3, UploadStepOneJob, WorkerStepOneJob, TakeOneJob, LoseJobOneJob,
         RestartOneJob
      DEF Next, EmbedPanics
  <2> QED
    BY <2>1, <2>2
<1> QED
  BY <1>1, <1>2, TypeCorrect, PTL DEF Spec

\* A document that is shown as failed while its chunks are stored was run again by
\* the operator, or the insert of its chunks was done by Postgres and reported as
\* failed, for any queue, store and number of servers: no crash, no lost job and no
\* other fault hides stored chunks.
THEOREM HiddenChunksAreExplainedHolds == Spec => []HiddenChunksAreExplained
<1>1. TypeOK /\ (reruns = 0 => OneJobInv) => HiddenChunksAreExplained
  BY DEF OneJobInv, DocumentTellsState, PerhapsStored, HiddenChunksAreExplained, LostInsert, TypeOK
<1> QED
  BY <1>1, OneJobUnlessRerun, TypeCorrect, PTL

\* The operator runs a document again by pushing a job to the shared list.
LEMMA OneJobInvHolds ==
  ASSUME ~ValkeyQueue
  PROVE  Spec => []OneJobInv
<1>1. Init => reruns = 0
  BY DEF Init
<1>2. reruns = 0 /\ [Next]_vars => (reruns = 0)'
  BY DEF Next, UploadStep, CreateDocument, PutBlob, CreateFile, Enqueue, LoseJob, Rerun, WorkerStep,
         LoadDocument, MarkProcessing, FindFile, ReadBlob, Embed, InsertChunks, MarkProcessed,
         MarkFailed, EmbedPanics, Take, Restart, DatabaseFault, Fault, counters, vars
<1> QED
  BY <1>1, <1>2, OneJobUnlessRerun, PTL DEF Spec

\* With the immediate queue a job finds the row of its file: the goroutine is
\* started after the row is committed.
THEOREM BackgroundJobFindsFileHolds ==
  ASSUME ~ValkeyQueue
  PROVE  Spec => []BackgroundJobFindsFile
<1>1. OneJobInv => BackgroundJobFindsFile
  BY DocsAssumption
  DEF OneJobInv, OneJob, DocumentTellsState, BackgroundJobFindsFile, TypeOK
<1> QED
  BY <1>1, OneJobInvHolds, PTL

\* With the immediate queue and SQLite, which has undone an insert that fails, a
\* document that failed has no chunk stored.
THEOREM FailedHasNoChunksHolds ==
  ASSUME ~ValkeyQueue, SQLiteStore
  PROVE  Spec => []FailedHasNoChunks
<1>1. OneJobInv => FailedHasNoChunks
  BY DEF OneJobInv, DocumentTellsState, PerhapsStored, FailedHasNoChunks
<1> QED
  BY <1>1, OneJobInvHolds, PTL

\* A step that leaves a client's view alone is a stutter of the lifecycle.
LEMMA SameViewRefines ==
  ASSUME UNCHANGED status, \A d \in Docs : status[d] = "processed" => copies'[d] = copies[d]
  PROVE  UNCHANGED Lifecycle!vars
  BY DEF Lifecycle!vars, SearchHits

\* A step that moves one document's status moves the document in the lifecycle.
LEMMA MovedViewRefines ==
  ASSUME OneJobInv, TypeOK', NEW d \in Docs, NEW to, NEW why, UpdateStatus(d, to, why)
  PROVE  Lifecycle!Move(d, status[d], to, IF to = "processed" THEN copies[d] ELSE 0)
<1>1. status \in [Docs -> Statuses] /\ copies' = copies
  BY DEF OneJobInv, TypeOK, UpdateStatus
<1>2. status' = [status EXCEPT ![d] = to]
  BY DEF UpdateStatus
<1>3. SearchHits' = [SearchHits EXCEPT ![d] = IF to = "processed" THEN copies[d] ELSE 0]
  BY <1>1, <1>2 DEF SearchHits
<1> QED
  BY <1>2, <1>3 DEF Lifecycle!Move

\* CreateDocument submits the document; the rest of an upload is invisible.
LEMMA UploadStepRefines ==
  ASSUME OneJobInv, TypeOK', NEW d \in Docs, UploadStep(d)
  PROVE  Lifecycle!Next \/ UNCHANGED Lifecycle!vars
<1>1. CASE CreateDocument(d) /\ UpdateStatus(d, "pending", "none")
  <2>1. status[d] = "absent"
    BY <1>1 DEF CreateDocument, OneJobInv, DocumentTellsState
  <2>2. Lifecycle!Submit(d)
    BY <1>1, <2>1, MovedViewRefines DEF Lifecycle!Submit
  <2> QED
    BY <2>2 DEF Lifecycle!Next
<1>2. CASE UNCHANGED <<status, copies>>
  BY <1>2, SameViewRefines
<1> QED
  BY <1>1, <1>2
  DEF UploadStep, CreateDocument, PutBlob, CreateFile, Enqueue, DatabaseFault, AddFile, UpdateStatus,
      tables

\* MarkProcessing starts the document, MarkProcessed completes it with its one
\* set of chunks, MarkFailed fails it, and InsertChunks is not yet visible.
LEMMA WorkerStepRefines ==
  ASSUME OneJobInv, TypeOK', NEW w \in Workers, WorkerStep(w)
  PROVE  Lifecycle!Next \/ UNCHANGED Lifecycle!vars
<1>0. CASE UNCHANGED <<status, copies>>
  BY <1>0, SameViewRefines
<1>1. pc[w] # "idle" => job[w] \in Docs /\ JobTellsState(w, job[w])
  BY DEF OneJobInv, TypeOK
<1>2. CASE MarkProcessing(w) /\ UpdateStatus(job[w], "processing", "none")
  <2>1. job[w] \in Docs /\ status[job[w]] = "pending"
    BY <1>1, <1>2 DEF MarkProcessing, JobTellsState, BeforeMark
  <2>2. Lifecycle!Start(job[w])
    BY <1>2, <2>1, MovedViewRefines DEF Lifecycle!Start
  <2> QED
    BY <2>1, <2>2 DEF Lifecycle!Next
<1>3. CASE InsertChunks(w) /\ StoreChunks(job[w])
  <2>1. job[w] \in Docs /\ status[job[w]] = "processing"
    BY <1>1, <1>3 DEF InsertChunks, JobTellsState, BeforeInsert
  <2>2. \A d \in Docs : status[d] = "processed" => copies'[d] = copies[d]
    BY <1>3, <2>1 DEF StoreChunks, OneJobInv, TypeOK
  <2> QED
    BY <1>3, <2>2, SameViewRefines DEF StoreChunks
<1>4. CASE MarkProcessed(w) /\ UpdateStatus(job[w], "processed", "none")
  <2>1. /\ job[w] \in Docs
        /\ status[job[w]] = "processing"
        /\ copies[job[w]] = 1
    BY <1>1, <1>4 DEF MarkProcessed, JobTellsState
  <2>2. Lifecycle!Complete(job[w])
    BY <1>4, <2>1, MovedViewRefines DEF Lifecycle!Complete
  <2> QED
    BY <2>1, <2>2 DEF Lifecycle!Next
<1>5. CASE MarkFailed(w) /\ UpdateStatus(job[w], "failed", pc[w])
  <2>1. job[w] \in Docs /\ status[job[w]] = "processing"
    BY <1>1, <1>5 DEF MarkFailed, JobTellsState, BeforeInsert, PerhapsStored, Failures
  <2>2. Lifecycle!Fail(job[w])
    BY <1>5, <2>1, MovedViewRefines DEF Lifecycle!Fail
  <2> QED
    BY <2>1, <2>2 DEF Lifecycle!Next
<1> QED
  <2>1. CASE LoadDocument(w) \/ FindFile(w) \/ ReadBlob(w) \/ Embed(w)
    BY <1>0, <2>1 DEF LoadDocument, FindFile, ReadBlob, Embed, tables
  <2>2. CASE InsertChunks(w)
    BY <1>0, <1>3, <2>2 DEF InsertChunks, DatabaseFault, tables
  <2>3. CASE MarkProcessing(w) \/ MarkProcessed(w) \/ MarkFailed(w)
    BY <1>0, <1>2, <1>4, <1>5, <2>3
    DEF MarkProcessing, MarkProcessed, MarkFailed, DatabaseFault, tables
  <2> QED
    BY <2>1, <2>2, <2>3 DEF WorkerStep

\* With the immediate queue, what a client sees of the documents follows the
\* lifecycle, for any number of documents, goroutines, faults and crashes.
THEOREM ImplementsLifecycleHolds ==
  ASSUME ~ValkeyQueue
  PROVE  Spec => ImplementsLifecycle
<1>1. Init => Lifecycle!Init
  BY DEF Init, Lifecycle!Init, SearchHits
<1>2. OneJobInv /\ TypeOK' /\ [Next]_vars => [Lifecycle!Next]_(Lifecycle!vars)
  <2> SUFFICES ASSUME OneJobInv, TypeOK', [Next]_vars
               PROVE  Lifecycle!Next \/ UNCHANGED Lifecycle!vars
    OBVIOUS
  <2>1. CASE UNCHANGED <<status, copies>>
    BY <2>1, SameViewRefines
  <2>2. ASSUME NEW w \in Workers, NEW d \in Docs, Take(w, d)
        PROVE  UNCHANGED <<status, copies>>
    BY <2>2 DEF Take, tables
  <2>3. ASSUME NEW s, Restart(s)
        PROVE  UNCHANGED <<status, copies>>
    BY <2>3 DEF Restart, tables
  <2>4. CASE Next
    BY <2>1, <2>2, <2>3, <2>4, UploadStepRefines, WorkerStepRefines
    DEF Next, EmbedPanics, LoseJob, Rerun
  <2>5. CASE UNCHANGED vars
    BY <2>1, <2>5 DEF vars
  <2> QED
    BY <2>4, <2>5
<1> QED
  BY <1>1, <1>2, OneJobInvHolds, TypeCorrect, PTL
  DEF Spec, ImplementsLifecycle, Lifecycle!Spec

===============================================================================
