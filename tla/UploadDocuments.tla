--------------------------- MODULE UploadDocuments ---------------------------
(***************************************************************************)
(* Upload & Ask documents: the upload handler, the job queue and the       *)
(* background job process_document, one action per call they make on the   *)
(* database, the blob store, the queue or the embedding provider.          *)
(*                                                                         *)
(* A server is one process of the program.  Its job goroutines are         *)
(* Workers: with the Valkey queue the single consumer loop, with the       *)
(* immediate queue the goroutines that Enqueue starts.  The database is    *)
(* SQLite or Postgres and survives a crash; jobs survive only in Valkey,   *)
(* blobs only in R2.  A call to a dependency may fail: each failure is     *)
(* counted in faults, each crash and restart in crashes, each operator     *)
(* command in reruns, and these counters are the only bounds.              *)
(***************************************************************************)
EXTENDS Integers

CONSTANTS
  Docs,        \* documents: each accepted upload creates one, with a new UUID
  Workers,     \* goroutines that run the job handler
  Servers,     \* server processes
  Home,        \* the server of a worker, and the server a document is uploaded to
  Blank,       \* the documents whose text the chunker cuts into no chunk
  ValkeyQueue, \* TRUE: jobs in a shared Valkey list; FALSE: immediate queue
  R2Storage,   \* TRUE: blobs in R2; FALSE: in the memory of the process
  SQLiteStore, \* TRUE: SQLite, UNIQUE(document_id, chunk_index); FALSE: Postgres
  NoDoc,       \* the job of an idle worker
  MaxFaults, MaxCrashes, MaxReruns

ASSUME DocsAssumption == NoDoc \notin Docs
ASSUME BlankAssumption == Blank \subseteq Docs
ASSUME HomeAssumption == Home \in [Workers \cup Docs -> Servers]
ASSUME ConsumerAssumption ==
  ValkeyQueue => \A v, w \in Workers : Home[v] = Home[w] => v = w
ASSUME FlagAssumption ==
  /\ ValkeyQueue \in BOOLEAN
  /\ R2Storage \in BOOLEAN
  /\ SQLiteStore \in BOOLEAN
ASSUME BoundAssumption ==
  /\ MaxFaults \in Nat
  /\ MaxCrashes \in Nat
  /\ MaxReruns \in Nat

VARIABLES
  status,   \* upload_documents.status, "absent" before the row exists
  reason,   \* upload_documents.failure_reason
  files,    \* documents with a row in upload_file_objects
  blobs,    \* documents whose content the object storage holds
  copies,   \* complete sets of a document's chunks in upload_document_chunks
  upload,   \* the next step of the upload handler of a document
  queued,   \* process_document jobs not yet taken, per document
  pc,       \* the next step of a worker
  job,      \* the document of a worker's job
  faults, crashes, reruns

tables == <<status, reason, files, copies>>
counters == <<faults, crashes, reruns>>
vars == <<status, reason, files, blobs, copies, upload, queued, pc, job,
          faults, crashes, reruns>>

Statuses == {"absent", "pending", "processing", "processed", "failed"}

\* The reasons ProcessDocument records; each is also the worker step that
\* records it.
Failures == {"storage", "empty", "embedding", "persist"}

InUpload == {"put", "file", "enqueue"}
UploadSteps == InUpload \cup {"create", "returned", "aborted"}
WorkerSteps ==
  {"idle", "get", "mark", "find", "read", "embed", "insert", "finish"} \cup Failures

Init ==
  /\ status = [d \in Docs |-> "absent"]
  /\ reason = [d \in Docs |-> "none"]
  /\ files = {}
  /\ blobs = {}
  /\ copies = [d \in Docs |-> 0]
  /\ upload = [d \in Docs |-> "create"]
  /\ queued = [d \in Docs |-> 0]
  /\ pc = [w \in Workers |-> "idle"]
  /\ job = [w \in Workers |-> NoDoc]
  /\ faults = 0
  /\ crashes = 0
  /\ reruns = 0

-----------------------------------------------------------------------------
(* What the steps share *)

\* A call to a dependency that fails.
Fault ==
  /\ faults < MaxFaults
  /\ faults' = faults + 1
  /\ UNCHANGED <<crashes, reruns>>

\* A write to the database that fails: SQLite has then changed nothing, Postgres
\* may have done it before the answer was lost.
DatabaseFault(effect) ==
  /\ Fault
  /\ UNCHANGED tables \/ (~SQLiteStore /\ effect)

\* UpdateStatus: one UPDATE by id, whatever the row's status is.
UpdateStatus(d, new, why) ==
  /\ status' = [status EXCEPT ![d] = new]
  /\ reason' = [reason EXCEPT ![d] = why]
  /\ UNCHANGED <<files, copies>>

UploadGoesTo(d, step) ==
  /\ upload' = [upload EXCEPT ![d] = step]
  /\ UNCHANGED <<pc, job>>

WorkerGoesTo(w, step) ==
  /\ pc' = [pc EXCEPT ![w] = step]
  /\ UNCHANGED <<job, upload, queued>>

\* ProcessDocument returns; the queue's handler only logs its error.
WorkerReturns(w) ==
  /\ pc' = [pc EXCEPT ![w] = "idle"]
  /\ job' = [job EXCEPT ![w] = NoDoc]
  /\ UNCHANGED <<upload, queued>>

-----------------------------------------------------------------------------
(* Upload *)

CreateDocument(d) ==
  /\ upload[d] = "create"
  /\ UNCHANGED <<blobs, queued>>
  /\ \/ /\ UpdateStatus(d, "pending", "none")
        /\ UploadGoesTo(d, "put")
        /\ UNCHANGED counters
     \/ /\ DatabaseFault(UpdateStatus(d, "pending", "none"))
        /\ UploadGoesTo(d, "aborted")

\* A failed request may have reached R2.
PutBlob(d) ==
  /\ upload[d] = "put"
  /\ UNCHANGED <<tables, queued>>
  /\ \/ /\ blobs' = blobs \cup {d}
        /\ UploadGoesTo(d, "file")
        /\ UNCHANGED counters
     \/ /\ Fault
        /\ UploadGoesTo(d, "aborted")
        /\ UNCHANGED blobs \/ (R2Storage /\ blobs' = blobs \cup {d})

AddFile(d) ==
  /\ files' = files \cup {d}
  /\ UNCHANGED <<status, reason, copies>>

CreateFile(d) ==
  /\ upload[d] = "file"
  /\ UNCHANGED <<blobs, queued>>
  /\ \/ /\ AddFile(d)
        /\ UploadGoesTo(d, "enqueue")
        /\ UNCHANGED counters
     \/ /\ DatabaseFault(AddFile(d))
        /\ UploadGoesTo(d, "aborted")

\* Faulty variants: the push is repeated, as by a retry; the immediate queue
\* drops the job, as before its handler is set.
EnqueueTwice(d) ==
  /\ upload[d] = "enqueue"
  /\ UploadGoesTo(d, "returned")
  /\ queued' = [queued EXCEPT ![d] = @ + 2]
  /\ UNCHANGED <<tables, blobs, counters>>
EnqueueDropsJob(d) ==
  /\ upload[d] = "enqueue"
  /\ UploadGoesTo(d, "returned")
  /\ UNCHANGED <<tables, blobs, queued, counters>>

\* The error of a push is logged and the upload still succeeds.  A failed push
\* may have reached Valkey; the immediate queue never fails.
Enqueue(d) ==
  /\ upload[d] = "enqueue"
  /\ UploadGoesTo(d, "returned")
  /\ UNCHANGED <<tables, blobs>>
  /\ \/ /\ queued' = [queued EXCEPT ![d] = @ + 1]
        /\ UNCHANGED counters
     \/ /\ ValkeyQueue
        /\ Fault
        /\ \/ queued' = [queued EXCEPT ![d] = @ + 1]
           \/ UNCHANGED queued

UploadStep(d) == CreateDocument(d) \/ PutBlob(d) \/ CreateFile(d) \/ Enqueue(d)

-----------------------------------------------------------------------------
(* The queue hands a job to a worker and ProcessDocument runs *)

\* Faulty variant: the worker reads the job and leaves it in the queue.
TakeAndKeep(w, d) ==
  /\ pc[w] = "idle"
  /\ queued[d] > 0
  /\ pc' = [pc EXCEPT ![w] = "get"]
  /\ job' = [job EXCEPT ![w] = d]
  /\ UNCHANGED <<tables, blobs, upload, queued, counters>>

\* BRPOP removes the job before it is handled; a goroutine started by the
\* immediate queue runs in the process that accepted the upload.
Take(w, d) ==
  /\ pc[w] = "idle"
  /\ queued[d] > 0
  /\ ValkeyQueue \/ Home[w] = Home[d]
  /\ queued' = [queued EXCEPT ![d] = @ - 1]
  /\ pc' = [pc EXCEPT ![w] = "get"]
  /\ job' = [job EXCEPT ![w] = d]
  /\ UNCHANGED <<tables, blobs, upload, counters>>

\* Faulty variant: the worker does not come back from a processed document.
LoadDocumentHangs(w) ==
  /\ pc[w] = "get"
  /\ status[job[w]] # "processed"
  /\ WorkerGoesTo(w, "mark")
  /\ UNCHANGED <<tables, blobs, counters>>

LoadDocument(w) ==
  /\ pc[w] = "get"
  /\ UNCHANGED <<tables, blobs>>
  /\ \/ /\ status[job[w]] \in {"absent", "processed"}
        /\ WorkerReturns(w)
        /\ UNCHANGED counters
     \/ /\ status[job[w]] \notin {"absent", "processed"}
        /\ WorkerGoesTo(w, "mark")
        /\ UNCHANGED counters
     \/ Fault /\ WorkerReturns(w)

MarkProcessing(w) ==
  /\ pc[w] = "mark"
  /\ UNCHANGED blobs
  /\ \/ /\ UpdateStatus(job[w], "processing", "none")
        /\ WorkerGoesTo(w, "find")
        /\ UNCHANGED counters
     \/ /\ DatabaseFault(UpdateStatus(job[w], "processing", "none"))
        /\ WorkerReturns(w)

\* Neither the error nor the missing row sets the document to failed.
FindFile(w) ==
  /\ pc[w] = "find"
  /\ UNCHANGED <<tables, blobs>>
  /\ \/ /\ job[w] \in files
        /\ WorkerGoesTo(w, "read")
        /\ UNCHANGED counters
     \/ /\ job[w] \notin files
        /\ WorkerReturns(w)
        /\ UNCHANGED counters
     \/ Fault /\ WorkerReturns(w)

BlobReadable(w) ==
  /\ job[w] \in blobs
  /\ R2Storage \/ Home[w] = Home[job[w]]

\* Faulty variant: a blank file ends the job without a status.
ReadBlobIgnoresBlank(w) ==
  /\ pc[w] = "read"
  /\ BlobReadable(w)
  /\ IF job[w] \in Blank THEN WorkerReturns(w) ELSE WorkerGoesTo(w, "embed")
  /\ UNCHANGED <<tables, blobs, counters>>

\* Reading the blob and cutting its text into chunks.
ReadBlob(w) ==
  /\ pc[w] = "read"
  /\ UNCHANGED <<tables, blobs>>
  /\ \/ /\ BlobReadable(w)
        /\ WorkerGoesTo(w, IF job[w] \in Blank THEN "empty" ELSE "embed")
        /\ UNCHANGED counters
     \/ /\ ~BlobReadable(w)
        /\ WorkerGoesTo(w, "storage")
        /\ UNCHANGED counters
     \/ Fault /\ WorkerGoesTo(w, "storage")

Embed(w) ==
  /\ pc[w] = "embed"
  /\ UNCHANGED <<tables, blobs>>
  /\ \/ WorkerGoesTo(w, "insert") /\ UNCHANGED counters
     \/ Fault /\ WorkerGoesTo(w, "embedding")

\* Faulty variants: the error of the insert is ignored; the insert is not one
\* transaction, and an error leaves rows behind.
InsertErrorIgnored(w) ==
  /\ pc[w] = "insert"
  /\ WorkerGoesTo(w, "finish")
  /\ UNCHANGED <<status, reason, files, blobs>>
  /\ \/ copies' = [copies EXCEPT ![job[w]] = @ + 1] /\ UNCHANGED counters
     \/ Fault /\ UNCHANGED copies
InsertWithoutTransaction(w) ==
  /\ pc[w] = "insert"
  /\ copies' = [copies EXCEPT ![job[w]] = @ + 1]
  /\ UNCHANGED <<status, reason, files, blobs>>
  /\ \/ WorkerGoesTo(w, "finish") /\ UNCHANGED counters
     \/ Fault /\ WorkerGoesTo(w, "persist")

\* A plain INSERT in one transaction: on SQLite the unique index refuses a
\* second set of chunks, Postgres has no such index and stores it.  Postgres may
\* have committed a batch whose answer is an error.
StoreChunks(d) ==
  /\ copies' = [copies EXCEPT ![d] = @ + 1]
  /\ UNCHANGED <<status, reason, files>>

InsertChunks(w) ==
  /\ pc[w] = "insert"
  /\ UNCHANGED blobs
  /\ \/ /\ SQLiteStore => copies[job[w]] = 0
        /\ StoreChunks(job[w])
        /\ WorkerGoesTo(w, "finish")
        /\ UNCHANGED counters
     \/ /\ SQLiteStore /\ copies[job[w]] > 0
        /\ WorkerGoesTo(w, "persist")
        /\ UNCHANGED <<tables, counters>>
     \/ /\ DatabaseFault(StoreChunks(job[w]))
        /\ WorkerGoesTo(w, "persist")

MarkProcessed(w) ==
  /\ pc[w] = "finish"
  /\ WorkerReturns(w)
  /\ UNCHANGED blobs
  /\ \/ UpdateStatus(job[w], "processed", "none") /\ UNCHANGED counters
     \/ DatabaseFault(UpdateStatus(job[w], "processed", "none"))

\* The error of this update is dropped.
MarkFailed(w) ==
  /\ pc[w] \in Failures
  /\ WorkerReturns(w)
  /\ UNCHANGED blobs
  /\ \/ UpdateStatus(job[w], "failed", pc[w]) /\ UNCHANGED counters
     \/ DatabaseFault(UpdateStatus(job[w], "failed", pc[w]))

WorkerStep(w) ==
  \/ LoadDocument(w)
  \/ MarkProcessing(w)
  \/ FindFile(w)
  \/ ReadBlob(w)
  \/ Embed(w)
  \/ InsertChunks(w)
  \/ MarkProcessed(w)
  \/ MarkFailed(w)

-----------------------------------------------------------------------------
(* The environment *)

\* The reply to a BRPOP is lost with the job it carried.
LoseJob(d) ==
  /\ ValkeyQueue
  /\ queued[d] > 0
  /\ Fault
  /\ queued' = [queued EXCEPT ![d] = @ - 1]
  /\ UNCHANGED <<tables, blobs, upload, pc, job>>

\* The operator pushes a job for a document back, after resetting it when it
\* has failed.
Rerun(d) ==
  /\ ValkeyQueue
  /\ reruns < MaxReruns
  /\ reruns' = reruns + 1
  /\ status[d] # "absent"
  /\ queued' = [queued EXCEPT ![d] = @ + 1]
  /\ \/ status[d] = "failed" /\ UpdateStatus(d, "pending", "none")
     \/ UNCHANGED tables
  /\ UNCHANGED <<blobs, upload, pc, job, faults, crashes>>

\* Faulty variant: a restart that forgets to drop the jobs of the dead process.
RestartKeepsJobs(s) ==
  /\ crashes < MaxCrashes
  /\ crashes' = crashes + 1
  /\ pc' = [w \in Workers |-> IF Home[w] = s THEN "idle" ELSE pc[w]]
  /\ UNCHANGED <<tables, blobs, upload, queued, job, faults, reruns>>

\* A server dies and restarts.  Its requests and running jobs are gone, and so
\* are the jobs and the blobs it kept in memory.
Restart(s) ==
  /\ crashes < MaxCrashes
  /\ crashes' = crashes + 1
  /\ pc' = [w \in Workers |-> IF Home[w] = s THEN "idle" ELSE pc[w]]
  /\ job' = [w \in Workers |-> IF Home[w] = s THEN NoDoc ELSE job[w]]
  /\ upload' = [d \in Docs |->
       IF Home[d] = s /\ upload[d] \in InUpload THEN "aborted" ELSE upload[d]]
  /\ queued' = [d \in Docs |->
       IF Home[d] = s /\ ~ValkeyQueue THEN 0 ELSE queued[d]]
  /\ blobs' = IF R2Storage THEN blobs ELSE {d \in blobs : Home[d] # s}
  /\ UNCHANGED <<tables, faults, reruns>>

\* An embedder that answers with fewer vectors than texts makes the job's
\* goroutine index out of range; nothing recovers and the process dies.
EmbedPanics(w) ==
  /\ pc[w] = "embed"
  /\ Restart(Home[w])

Next ==
  \/ \E d \in Docs : UploadStep(d) \/ LoseJob(d) \/ Rerun(d)
  \/ \E w \in Workers : WorkerStep(w) \/ EmbedPanics(w)
  \/ \E w \in Workers, d \in Docs : Take(w, d)
  \/ \E s \in Servers : Restart(s)

Spec == Init /\ [][Next]_vars

\* Request handlers and job goroutines keep being scheduled, and every call
\* they make returns: nothing is assumed of faults, restarts and operators.
Fairness ==
  /\ \A d \in Docs : WF_vars(upload[d] \in InUpload /\ UploadStep(d))
  /\ \A w \in Workers : WF_vars(WorkerStep(w))
  /\ \A w \in Workers : WF_vars(\E d \in Docs : Take(w, d))

FairSpec == Spec /\ Fairness

-----------------------------------------------------------------------------
(* Properties *)

\* Every variable holds a value of its type.
TypeOK ==
  /\ status \in [Docs -> Statuses]
  /\ reason \in [Docs -> Failures \cup {"none"}]
  /\ files \in SUBSET Docs
  /\ blobs \in SUBSET Docs
  /\ copies \in [Docs -> Nat]
  /\ upload \in [Docs -> UploadSteps]
  /\ queued \in [Docs -> Nat]
  /\ pc \in [Workers -> WorkerSteps]
  /\ job \in [Workers -> Docs \cup {NoDoc}]
  /\ \A w \in Workers : pc[w] = "idle" <=> job[w] = NoDoc
  /\ faults \in Nat /\ crashes \in Nat /\ reruns \in Nat

\* A document is shown as processed only while all its chunks are stored,
\* whatever other job of the same document runs, fails or dies: the answer to
\* a question never misses a document the list calls processed.
ProcessedHasChunks ==
  \A d \in Docs : status[d] = "processed" => copies[d] > 0

\* A job stores the chunks of its document at most once, whoever runs, drops or
\* repeats it: beyond the upload's job, each further copy was asked for by the
\* operator.
ChunksBoundedByJobs == \A d \in Docs : copies[d] <= 1 + reruns

\* A document waiting for its text to be processed is being uploaded, has a
\* job, or was let down by a failed call or a crash: the handlers themselves
\* strand none, in any interleaving of jobs and operator commands.
Disturbed == faults # 0 \/ crashes # 0
Unsettled(d) == status[d] \in {"pending", "processing"}
Attended(d) ==
  \/ upload[d] \in InUpload
  \/ queued[d] > 0
  \/ \E w \in Workers : job[w] = d

StrandedOnlyByFault ==
  \A d \in Docs : Unsettled(d) => Attended(d) \/ Disturbed

\* A job of the immediate queue finds the row of the file it is to process:
\* Enqueue starts the goroutine after the row is committed, also when an
\* earlier call of another upload failed.
BackgroundJobFindsFile ==
  \A w \in Workers : pc[w] = "find" => job[w] \in files

\* With one job per document and SQLite, a document that failed left no chunk
\* behind: a later run would not collide with rows of an earlier one.
FailedHasNoChunks == \A d \in Docs : status[d] = "failed" => copies[d] = 0

\* A document that is shown as failed while its chunks are stored, and so is
\* hidden from every search, was run again by the operator, or Postgres reported an
\* error for the very insert of its chunks: no other fault, crash or lost job, in
\* this job or another, gets it there, and on SQLite nothing but a re-run does.
LostInsert(d) == ~SQLiteStore /\ faults # 0 /\ reason[d] = "persist"

HiddenChunksAreExplained ==
  \A d \in Docs :
    status[d] = "failed" /\ copies[d] > 0 => reruns # 0 \/ LostInsert(d)

\* How often a search returns each chunk of a document: SearchSimilar joins
\* the chunks with their document, and Ask filters on status processed.
SearchHits == [d \in Docs |-> IF status[d] = "processed" THEN copies[d] ELSE 0]

\* The status and the search results of a document, as a client sees them.
Lifecycle == INSTANCE DocumentLifecycle WITH view <- status, hits <- SearchHits

\* With the immediate queue, uploads and jobs implement the lifecycle: no
\* status is skipped, taken back or overwritten by a late step.
ImplementsLifecycle == Lifecycle!Spec

\* An upload that returned success ends processed or failed, unless a call
\* failed or a server died.
UploadsSettle ==
  \A d \in Docs :
    upload[d] = "returned" ~>
      status[d] \in {"processed", "failed"} \/ Disturbed

\* Every job leaves the queue, whatever fails while it waits.
JobsDrain == \A d \in Docs : queued[d] > 0 ~> queued[d] = 0
===============================================================================
