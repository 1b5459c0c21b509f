------------------------- MODULE CandidateSubmission -------------------------
(***************************************************************************)
(* Submission and training of one Candidate in the foreground: what        *)
(* submit_candidate and train_accepted_run_with_research_problem of        *)
(* runs.py do in the process, or the batch thread, that calls them.  There *)
(* is no supervisor and no execution record, so that a reconcile-run from  *)
(* another process can only look at run_metadata.json and at the outputs.  *)
(* Every Candidate gets one Run, and the Run goes by the Candidate's name. *)
(***************************************************************************)
EXTENDS Integers, FiniteSets, Sequences

CONSTANTS
  Solo,           \* Candidates an operator or the autonomous loop submits
  Batched,        \* Candidates of the Experiment Batch, in directory order
  Repairs,        \* Repair Candidates; all of them repair one original proposal
  Submitters,     \* how many single submissions run at a time
  MaxReconciles   \* bound: calls of reconcile-run

Members == {Batched[i] : i \in 1..Len(Batched)}
Candidates == Solo \cup Members

ASSUME SubmissionAssumption ==
  /\ Solo \cap Members = {} /\ Cardinality(Members) = Len(Batched)
  /\ Repairs \subseteq Candidates /\ Submitters \in Nat \ {0} /\ MaxReconciles \in Nat

VARIABLES
  status,      \* "status" in run_metadata.json, "none" before it is written
  tagged,      \* Runs whose metadata names the batch
  outputs,     \* Runs whose training outputs are complete and valid
  created,     \* repairs with a candidate_created event
  terminals,   \* run_completed and run_failed events of each Run, in ledger order
  worker,      \* where the process or thread of each Candidate is
  reconciler   \* the reconcile-run process

metadataVars == <<status, tagged>>
submissionVars == <<metadataVars, outputs, created, terminals, worker, reconciler>>

\* "result" is the status the functions return; "seen" what a thread read of the
\* metadata before it rewrites them.
Worker(pc) == [pc |-> pc, result |-> "none", seen |-> "none", raised |-> FALSE]
NotReconciling == [pc |-> "idle", run |-> "none", seen |-> "none", tagged |-> FALSE, calls |-> 0]

SubmissionInit ==
  /\ status = [c \in Candidates |-> "none"]
  /\ tagged = {} /\ outputs = {} /\ created = {}
  /\ terminals = [c \in Candidates |-> <<>>]
  /\ worker = [c \in Candidates |-> Worker("queued")]
  /\ reconciler = NotReconciling

At(c, pc) == worker[c].pc = pc
Becomes(c, pc, result, seen, raised) ==
  worker' = [worker EXCEPT ![c] = [pc |-> pc, result |-> result, seen |-> seen, raised |-> raised]]
GoTo(c, pc) == Becomes(c, pc, worker[c].result, worker[c].seen, worker[c].raised)
Returns(c, result, pc) == Becomes(c, pc, result, worker[c].seen, worker[c].raised)
Raises(c) == Becomes(c, "returned", worker[c].result, worker[c].seen, TRUE)
WriteStatus(c, s) == status' = [status EXCEPT ![c] = s]

\* After submit_candidate a batch thread tags the Run; a command just returns.
AfterSubmission(c) == IF c \in Solo THEN "returned" ELSE "tag"
-----------------------------------------------------------------------------
\* submit-candidate, or the loop that submits what it ingested.
Submit(c) ==
  /\ c \in Solo /\ At(c, "queued")
  /\ Cardinality({d \in Solo : worker[d].pc \notin {"queued", "returned"}}) < Submitters
  /\ GoTo(c, "validate")
  /\ UNCHANGED <<metadataVars, outputs, created, terminals, reconciler>>

\* prepare_candidate_submission: static validation, or the data preflight, rejects.
Reject(c) ==
  /\ At(c, "validate")
  /\ WriteStatus(c, "rejected")
  /\ Returns(c, "rejected", AfterSubmission(c))
  /\ UNCHANGED <<tagged, outputs, created, terminals, reconciler>>

\* _enforce_autonomous_repair_limit: a Candidate that needs no PROPOSAL.md of its
\* own, as in a batch, is not counted against the limit.
LimitReached(c) == c \in Repairs \cap Solo /\ Cardinality(created) >= 2

CountRepairs(c) ==
  /\ At(c, "validate")
  /\ IF LimitReached(c)
     THEN WriteStatus(c, "rejected") /\ Returns(c, "rejected", AfterSubmission(c))
     ELSE GoTo(c, "announce") /\ UNCHANGED status
  /\ UNCHANGED <<tagged, outputs, created, terminals, reconciler>>

\* The candidate_created event comes after the count, and before the metadata.
Announce(c) ==
  /\ At(c, "announce")
  /\ created' = created \cup ({c} \cap Repairs)
  /\ GoTo(c, "prepare")
  /\ UNCHANGED <<metadataVars, outputs, terminals, reconciler>>

WritePrepared(c) ==
  /\ At(c, "prepare")
  /\ WriteStatus(c, "smoke_testing")
  /\ GoTo(c, "smoke")
  /\ UNCHANGED <<tagged, outputs, created, terminals, reconciler>>

\* smoke_test_prepared_run: the status was read before the test ran, and the
\* result is written over whatever is there after it.
StartSmokeTest(c) ==
  /\ At(c, "smoke")
  /\ IF status[c] = "smoke_testing" THEN GoTo(c, "smoking") ELSE Raises(c)
  /\ UNCHANGED <<metadataVars, outputs, created, terminals, reconciler>>

EndSmokeTest(c, result) ==
  /\ At(c, "smoking")
  /\ WriteStatus(c, result)
  /\ Returns(c, result, AfterSubmission(c))
  /\ UNCHANGED <<tagged, outputs, created, terminals, reconciler>>

\* train_accepted_run_with_research_problem
StartTraining(c) ==
  /\ At(c, "train")
  /\ IF status[c] = "accepted" THEN WriteStatus(c, "training") /\ GoTo(c, "training")
     ELSE Raises(c) /\ UNCHANGED status
  /\ UNCHANGED <<tagged, outputs, created, terminals, reconciler>>

\* The operation ends; outputs are complete only after a success.
EndTraining(c, result) ==
  /\ At(c, "training")
  /\ outputs' = IF result = "completed" THEN outputs \cup {c} ELSE outputs
  /\ Returns(c, result, "finalize")
  /\ UNCHANGED <<metadataVars, created, terminals, reconciler>>

\* The trainer writes the outcome without the finalization lock.
WriteOutcome(c) ==
  /\ At(c, "finalize")
  /\ WriteStatus(c, worker[c].result)
  /\ GoTo(c, "record")
  /\ UNCHANGED <<tagged, outputs, created, terminals, reconciler>>

\* _record_run_completed and _record_run_failed, under the ledger's terminal lock:
\* a conflicting outcome raises, the same one is not written twice.
Conflicts(c, outcome) == terminals[c] # <<>> /\ terminals[c] # <<outcome>>
Recorded(c, outcome) == IF terminals[c] = <<>> THEN <<outcome>> ELSE terminals[c]

\* A mutant: an event that is already there is taken for one's own.
RecordOutcomeIfNone(c) ==
  /\ At(c, "record")
  /\ terminals' = [terminals EXCEPT ![c] = Recorded(c, worker[c].result)]
  /\ GoTo(c, "retag")
  /\ UNCHANGED <<metadataVars, outputs, created, reconciler>>

RecordOutcome(c) ==
  /\ At(c, "record")
  /\ terminals' = [terminals EXCEPT ![c] = Recorded(c, worker[c].result)]
  /\ IF Conflicts(c, worker[c].result) THEN Raises(c) ELSE GoTo(c, "retag")
  /\ UNCHANGED <<metadataVars, outputs, created, reconciler>>

SubmissionStep(c) ==
  \/ Submit(c) \/ Reject(c) \/ CountRepairs(c) \/ Announce(c) \/ WritePrepared(c)
  \/ StartSmokeTest(c) \/ EndSmokeTest(c, "accepted") \/ EndSmokeTest(c, "smoke_failed")
  \/ StartTraining(c) \/ EndTraining(c, "completed") \/ EndTraining(c, "failed")
  \/ WriteOutcome(c) \/ RecordOutcome(c)
-----------------------------------------------------------------------------
\* reconcile_run takes the Run's finalization lock and reads the metadata.
StartReconcile(c) ==
  /\ reconciler.pc = "idle" /\ reconciler.calls < MaxReconciles
  /\ status[c] \in {"smoke_testing", "training", "completed", "failed"}
  /\ reconciler' = [pc |-> "decide", run |-> c, seen |-> status[c],
                    tagged |-> c \in tagged, calls |-> reconciler.calls + 1]
  /\ UNCHANGED <<metadataVars, outputs, created, terminals, worker>>

\* Nothing is known to supervise the Run: the outputs decide, or the status read
\* says it failed.  The metadata are written as they were read, but for the status.
Verdict == IF reconciler.seen \in {"training", "completed"} /\ reconciler.run \in outputs
           THEN "completed" ELSE "failed"

WriteVerdict ==
  /\ reconciler.pc = "decide"
  /\ reconciler' = [reconciler EXCEPT !.pc = "event", !.seen = Verdict]
  /\ IF reconciler.seen = "failed" THEN UNCHANGED metadataVars
     ELSE /\ WriteStatus(reconciler.run, Verdict)
          /\ tagged' = IF reconciler.tagged THEN tagged \cup {reconciler.run}
                       ELSE tagged \ {reconciler.run}
  /\ UNCHANGED <<outputs, created, terminals, worker>>

\* _ensure_terminal_event_once; a conflict ends the command with an error.
RecordVerdict ==
  /\ reconciler.pc = "event"
  /\ terminals' = [terminals EXCEPT ![reconciler.run] = Recorded(reconciler.run, reconciler.seen)]
  /\ reconciler' = [NotReconciling EXCEPT !.calls = reconciler.calls]
  /\ UNCHANGED <<metadataVars, outputs, created, worker>>

ReconcileStep == (\E c \in Candidates : StartReconcile(c)) \/ WriteVerdict \/ RecordVerdict
=============================================================================
