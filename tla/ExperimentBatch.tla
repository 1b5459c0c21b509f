--------------------------- MODULE ExperimentBatch ---------------------------
(***************************************************************************)
(* The Experiment Batch executor (batches.py): all Candidates are validated*)
(* before any Run exists, then a pool of threads submits and trains them,  *)
(* and the batch reports what came out.  Around it: single submissions, a  *)
(* reconcile-run, and a kill of the batch process.                         *)
(***************************************************************************)
EXTENDS CandidateSubmission

CONSTANTS
  MaxParallel,  \* max_parallel_runs as configured
  MaxKills      \* bound: kills of the batch process

ASSUME BatchAssumption == MaxParallel \in Nat /\ MaxKills \in Nat /\ Len(Batched) \in 1..4

VARIABLES
  batch,    \* the coordinator: pc, and status and records of batch_metadata.json
  records,  \* run_records gathered so far: member -> status, "none" before
  linked,   \* members whose record has a run_id
  kills

batchVars == <<batch, records, linked, kills>>
vars == <<submissionVars, batchVars>>

NoRecords == [c \in Members |-> "none"]

Init ==
  /\ SubmissionInit
  /\ batch = [pc |-> "validate", status |-> "none"]
  /\ records = NoRecords /\ linked = {} /\ kills = 0

\* MAX_PARALLEL_RUNS is 4.
Least(S) == CHOOSE x \in S : \A y \in S : x <= y
WorkerCount == LET n == Least({MaxParallel, 4, Len(Batched)}) IN IF n < 1 THEN 1 ELSE n
Working == {c \in Members : worker[c].pc \notin {"queued", "returned", "dead"}}
-----------------------------------------------------------------------------
\* _validate_batch_directory: one invalid Candidate refuses the whole batch.
RefuseBatch ==
  /\ batch.pc = "validate"
  /\ batch' = [batch EXCEPT !.pc = "refused"]
  /\ UNCHANGED <<submissionVars, records, linked, kills>>

\* The batch directory, its metadata and the events that announce it.
CreateBatch ==
  /\ batch.pc = "validate"
  /\ batch' = [pc |-> "gather", status |-> "running"]
  /\ UNCHANGED <<submissionVars, records, linked, kills>>

\* The pool takes the queue in the order of submission.
StartThread(i) ==
  /\ batch.pc = "gather" /\ At(Batched[i], "queued")
  /\ \A j \in 1..(i - 1) : ~At(Batched[j], "queued")
  /\ Cardinality(Working) < WorkerCount
  /\ GoTo(Batched[i], "validate")
  /\ UNCHANGED <<metadataVars, outputs, created, terminals, reconciler, batchVars>>

\* _tag_run_with_batch reads the metadata and writes them back, without a lock.
TagReads(c) ==
  /\ c \in Members /\ worker[c].pc \in {"tag", "retag"}
  /\ Becomes(c, IF At(c, "tag") THEN "tagging" ELSE "retagging",
             worker[c].result, status[c], worker[c].raised)
  /\ UNCHANGED <<metadataVars, outputs, created, terminals, reconciler, batchVars>>

TagWrites(c) ==
  /\ c \in Members /\ worker[c].pc \in {"tagging", "retagging"}
  /\ WriteStatus(c, worker[c].seen) /\ tagged' = tagged \cup {c}
  /\ GoTo(c, IF At(c, "tagging") /\ worker[c].result = "accepted" THEN "train" ELSE "returned")
  /\ UNCHANGED <<outputs, created, terminals, reconciler, batchVars>>

\* A mutant: the exception of one thread ends the loop over the others.
GatherResult(c) ==
  /\ batch.pc = "gather" /\ At(c, "returned") /\ records[c] = "none" /\ ~worker[c].raised
  /\ records' = [records EXCEPT ![c] = worker[c].result] /\ linked' = linked \cup {c}
  /\ UNCHANGED <<submissionVars, batch, kills>>

\* One turn of the as_completed loop: a thread that raised leaves a failed record
\* without a Run.
Gather(c) ==
  /\ batch.pc = "gather" /\ At(c, "returned") /\ records[c] = "none"
  /\ IF worker[c].raised
     THEN records' = [records EXCEPT ![c] = "failed"] /\ UNCHANGED linked
     ELSE records' = [records EXCEPT ![c] = worker[c].result] /\ linked' = linked \cup {c}
  /\ UNCHANGED <<submissionVars, batch, kills>>

\* _batch_status
BatchStatus ==
  LET statuses == {records[c] : c \in Members}
  IN IF statuses = {"completed"} THEN "completed"
     ELSE IF "completed" \in statuses THEN "partially_failed" ELSE "failed"

\* A mutant: the batch ends with its first result.
AnyGathered == \E c \in Members : records[c] # "none"

AllGathered == \A c \in Members : records[c] # "none"

WriteBatchMetadata ==
  /\ batch.pc = "gather" /\ AllGathered
  /\ batch' = [pc |-> "event", status |-> BatchStatus]
  /\ UNCHANGED <<submissionVars, records, linked, kills>>

RecordBatchCompleted ==
  /\ batch.pc = "event"
  /\ batch' = [batch EXCEPT !.pc = "ended"]
  /\ UNCHANGED <<submissionVars, records, linked, kills>>

\* The process dies with its threads; the batch stays "running" on disk.
KillBatch ==
  /\ kills < MaxKills /\ batch.pc \in {"gather", "event"}
  /\ kills' = kills + 1
  /\ batch' = [batch EXCEPT !.pc = "dead"]
  /\ worker' = [c \in Candidates |-> IF c \in Members THEN Worker("dead") ELSE worker[c]]
  /\ UNCHANGED <<metadataVars, outputs, created, terminals, reconciler, records, linked>>

Coordinator ==
  \/ CreateBatch \/ (\E i \in 1..Len(Batched) : StartThread(i))
  \/ (\E c \in Members : Gather(c)) \/ WriteBatchMetadata \/ RecordBatchCompleted

Thread(c) == (SubmissionStep(c) /\ UNCHANGED batchVars) \/ TagReads(c) \/ TagWrites(c)

Next ==
  \/ Coordinator \/ RefuseBatch \/ KillBatch
  \/ \E c \in Candidates : Thread(c)
  \/ ReconcileStep /\ UNCHANGED batchVars

Spec == Init /\ [][Next]_vars

\* The executor waits for its threads, and every operation ends.
LiveSpec == Spec /\ WF_vars(Coordinator) /\ \A c \in Candidates : WF_vars(Thread(c))
-----------------------------------------------------------------------------
Statuses == {"none", "smoke_testing", "rejected", "smoke_failed", "accepted", "training",
             "completed", "failed"}

\* Types, and a batch whose metadata are final has a record for every member.
TypeOK ==
  /\ status \in [Candidates -> Statuses]
  /\ tagged \subseteq Members /\ outputs \subseteq Candidates /\ created \subseteq Repairs
  /\ \A c \in Candidates : worker[c].result \in Statuses /\ worker[c].seen \in Statuses
  /\ records \in [Members -> {"none", "rejected", "smoke_failed", "completed", "failed"}]
  /\ linked \subseteq Members
  /\ batch.status \in {"completed", "partially_failed", "failed"} => \A c \in Members : records[c] # "none"

\* What a batch reports of a Run is what the Research Ledger says of it, once, even
\* if reconcile-run judged the Run while the thread trained it: a conflict costs the
\* record its Run (_record_run_completed, _record_run_failed).
OutcomesAreRecorded ==
  /\ \A c \in linked : records[c] \in {"completed", "failed"} => terminals[c] = <<records[c]>>
  /\ \A c \in Candidates : Len(terminals[c]) <= 1

\* A batch that was started ends, whichever of its Runs is rejected, fails or is
\* taken from its thread, unless the process is killed (as_completed loop).
BatchEnds == batch.pc = "gather" ~> batch.pc \in {"ended", "dead"}
=============================================================================
