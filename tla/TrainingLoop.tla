--------------------------- MODULE TrainingLoop ---------------------------
(***************************************************************************)
(* The Harness-owned training loop of one attempt, _train_manifest_epochs_ *)
(* run in training.py, and the files it leaves under outputs/.  A file      *)
(* outlives the attempt that wrote it: a retry starts in the same           *)
(* directory.  A file carries the batch size of its attempt, which is what  *)
(* tells attempts apart.  Tensors, losses and learning rates are left out:  *)
(* an epoch is its number of batches and the value of the selection metric. *)
(***************************************************************************)
EXTENDS Integers, Sequences

CONSTANTS
  MaxEpochs,  \* training.max_epochs of the resolved manifest
  Batches,    \* batches of an epoch
  Values,     \* values of the selection metric
  Policies,   \* selection modes with the early-stopping policies in use
  Faults      \* how an attempt may fail

ASSUME LoopAssumption ==
  /\ MaxEpochs \in Nat \ {0}
  /\ Batches \in Nat \ {0}
  /\ Values \subseteq Int
  /\ Faults \subseteq {"memory", "nonfinite", "nonfinite_adapter", "candidate", "harness"}
  /\ Policies \subseteq [mode: {"max", "min"}, enabled: BOOLEAN,
                         patience: Nat \ {0}, minDelta: Nat, restore: BOOLEAN]

VARIABLES
  policy,    \* selection mode and resolved early-stopping policy
  sentinel,  \* the file ML_AUTORESEARCH_TIMEOUT_SENTINEL exists
  pc, size, epoch, batch,
  records,   \* validation_records, reduced to their selection value
  best,      \* epoch whose value is best_validation_value, 0 for None
  anchor,    \* epoch whose value is best_early_stopping_value, 0 for None
  stale,     \* epochs_without_early_stopping_improvement
  timeout, stop, failure,
  metrics,   \* validation records of metrics.jsonl
  model,     \* models/best_epoch_model.pt
  report,    \* best_metrics.json
  final      \* final_metrics.json

memory == <<size, epoch, batch, records, best, anchor, stale, timeout, stop>>
files == <<metrics, model, report, final>>
loopVars == <<policy, sentinel, pc, memory, failure, files>>

Running == {"start", "batch", "validate", "checkpoint", "record", "report",
            "samples", "final", "exiting"}
Ended == {"off", "exited", "failed", "killed"}
StopReasons == {"max_epochs_reached", "timeout_requested", "early_stopping"}

Missing == [epoch |-> 0, size |-> 0]
MissingFinal == [epochs |-> 0, size |-> 0, stop |-> "max_epochs_reached", weights |-> 0]

Better(p, a, b) == IF p.mode = "max" THEN a > b ELSE a < b
\* _is_early_stopping_improvement
Improves(p, a, b) == IF p.mode = "max" THEN a > b + p.minDelta ELSE a < b - p.minDelta
\* The epoch max() or min() selects: the first of the best ones.
IsBest(p, s, n) ==
  /\ n \in DOMAIN s
  /\ \A m \in DOMAIN s : ~Better(p, s[m], s[n]) /\ (m < n => Better(p, s[n], s[m]))
BestEpoch(p, s) == CHOOSE n \in DOMAIN s : IsBest(p, s, n)
Restores == policy.enabled /\ policy.restore

LoopInit ==
  /\ policy \in Policies
  /\ sentinel = FALSE
  /\ pc = "off" /\ size = 0 /\ epoch = 0 /\ batch = 0
  /\ records = <<>> /\ best = 0 /\ anchor = 0 /\ stale = 0
  /\ timeout = FALSE /\ stop = "max_epochs_reached" /\ failure = "none"
  /\ metrics = <<>> /\ model = Missing /\ report = Missing /\ final = MissingFinal
-----------------------------------------------------------------------------
\* The variables of the process at the start of its first epoch (epoch 1), or
\* gone with the process (epoch 0).
Memory(batchSize, first) ==
  /\ size' = batchSize /\ epoch' = first /\ batch' = 0
  /\ records' = <<>> /\ best' = 0 /\ anchor' = 0 /\ stale' = 0
  /\ timeout' = FALSE /\ stop' = "max_epochs_reached"
Dies == Memory(0, 0)

\* Manifest, Candidate model and loaders are read; metrics.jsonl is emptied.
Begin(batchSize) ==
  /\ pc = "start"
  /\ pc' = "batch"
  /\ Memory(batchSize, 1)
  /\ metrics' = <<>>
  /\ UNCHANGED <<policy, sentinel, failure, model, report, final>>

\* One batch passes its finite-state checks; then the sentinel is looked at.
TrainBatch ==
  /\ pc = "batch"
  /\ batch' = batch + 1
  /\ timeout' = sentinel
  /\ pc' = IF sentinel \/ batch' = Batches THEN "validate" ELSE "batch"
  /\ UNCHANGED <<policy, sentinel, size, epoch, records, best, anchor, stale, stop,
                 failure, files>>

\* The epoch is validated and compared with the best one so far.
Validate(value) ==
  /\ pc = "validate"
  /\ records' = Append(records, value)
  /\ IF best = 0 \/ Better(policy, value, records[best])
     THEN best' = epoch /\ pc' = "checkpoint"
     ELSE best' = best /\ pc' = "record"
  /\ UNCHANGED <<policy, sentinel, size, epoch, batch, anchor, stale, timeout, stop,
                 failure, files>>

Checkpoint ==
  /\ pc = "checkpoint"
  /\ model' = [epoch |-> epoch, size |-> size]
  /\ pc' = "record"
  /\ UNCHANGED <<policy, sentinel, memory, failure, metrics, report, final>>

Stops(reason) ==
  /\ stop' = reason
  /\ pc' = "report"
  /\ UNCHANGED <<epoch, batch>>

RecordForgetful ==  \* a mutant: patience is never reset
  /\ pc = "record"
  /\ metrics' = Append(metrics, records[epoch])
  /\ IF timeout
     THEN Stops("timeout_requested") /\ UNCHANGED <<anchor, stale>>
     ELSE /\ anchor' = IF anchor = 0 \/ Improves(policy, records[epoch], records[anchor])
                       THEN epoch ELSE anchor
          /\ stale' = stale + 1
          /\ \/ policy.enabled /\ stale' >= policy.patience /\ Stops("early_stopping")
             \/ /\ ~(policy.enabled /\ stale' >= policy.patience)
                /\ \/ epoch = MaxEpochs /\ Stops("max_epochs_reached")
                   \/ /\ epoch < MaxEpochs
                      /\ epoch' = epoch + 1 /\ batch' = 0 /\ pc' = "batch"
                      /\ UNCHANGED stop
  /\ UNCHANGED <<policy, sentinel, size, records, best, timeout, failure, model, report, final>>

\* The record goes to metrics.jsonl, and the loop decides whether to go on: a
\* requested timeout comes before the early-stopping account.
Record ==
  /\ pc = "record"
  /\ metrics' = Append(metrics, records[epoch])
  /\ IF timeout
     THEN Stops("timeout_requested") /\ UNCHANGED <<anchor, stale>>
     ELSE /\ IF anchor = 0 \/ Improves(policy, records[epoch], records[anchor])
             THEN anchor' = epoch /\ stale' = 0
             ELSE anchor' = anchor /\ stale' = stale + 1
          /\ \/ policy.enabled /\ stale' >= policy.patience /\ Stops("early_stopping")
             \/ /\ ~(policy.enabled /\ stale' >= policy.patience)
                /\ \/ epoch = MaxEpochs /\ Stops("max_epochs_reached")
                   \/ /\ epoch < MaxEpochs
                      /\ epoch' = epoch + 1 /\ batch' = 0 /\ pc' = "batch"
                      /\ UNCHANGED stop
  /\ UNCHANGED <<policy, sentinel, size, records, best, timeout, failure, model, report, final>>

\* best_metrics.json is computed anew from all validation records.
Report ==
  /\ pc = "report"
  /\ report' = [epoch |-> BestEpoch(policy, records), size |-> size]
  /\ pc' = "samples"
  /\ UNCHANGED <<policy, sentinel, memory, failure, metrics, model, final>>

Samples ==
  /\ pc = "samples"
  /\ pc' = "final"
  /\ UNCHANGED <<policy, sentinel, memory, failure, files>>

\* final_metrics.json is the last file written.
Finish ==
  /\ pc = "final"
  /\ final' = [epochs |-> epoch, size |-> size, stop |-> stop,
               weights |-> IF Restores THEN model.epoch ELSE epoch]
  /\ pc' = "exiting"
  /\ UNCHANGED <<policy, sentinel, memory, failure, metrics, model, report>>

\* The process ends with status 0.
Exit ==
  /\ pc = "exiting"
  /\ pc' = "exited"
  /\ Dies
  /\ UNCHANGED <<policy, sentinel, failure, files>>

\* Loading fails in the Candidate's code, for memory, or in the Harness's part (the
\* provider, the data), which the container marks on stderr.
BootstrapFaults == {"memory", "candidate", "harness"}
\* Outputs, losses, gradients and parameters of a batch are required to be finite.
BatchFaults == BootstrapFaults \cup {"nonfinite"}
\* So are, in a validation, the metrics of the provider's adapter.
ValidationFaults == BatchFaults \cup {"nonfinite_adapter"}
\* A file that cannot be written is the Candidate's fault for the host.
WriteFaults == {"candidate"}

FaultsAt(step) ==
  CASE step = "start" -> BootstrapFaults
    [] step = "batch" -> BatchFaults
    [] step = "validate" -> ValidationFaults
    [] step = "checkpoint" -> WriteFaults \cup {"memory"}
    [] step \in {"record", "exiting"} -> WriteFaults
    [] step \in {"report", "samples"} -> BootstrapFaults
    [] step = "final" -> WriteFaults \cup {"nonfinite_adapter"}
    [] OTHER -> {}

\* Any exception ends the process; the files stay as they are.
Fail(fault) ==
  /\ fault \in FaultsAt(pc)  \* what the exception tells the host of itself
  /\ failure' = fault
  /\ pc' = "failed"
  /\ Dies
  /\ UNCHANGED <<policy, sentinel, files>>

LoopStep(batchSize) ==
  \/ Begin(batchSize)
  \/ TrainBatch
  \/ \E value \in Values : Validate(value)
  \/ Checkpoint
  \/ Record
  \/ Report
  \/ Samples
  \/ Finish \/ Exit
  \/ \E fault \in Faults : Fail(fault)

\* Somebody else creates the sentinel while the process runs.
RequestStop ==
  /\ pc \in Running
  /\ ~sentinel /\ sentinel' = TRUE
  /\ UNCHANGED <<policy, pc, memory, failure, files>>
-----------------------------------------------------------------------------
File == [epoch: 0..MaxEpochs, size: Nat]

LoopTypeOK ==
  /\ policy \in Policies
  /\ sentinel \in BOOLEAN /\ timeout \in BOOLEAN
  /\ pc \in Running \cup Ended
  /\ size \in Nat /\ epoch \in 0..MaxEpochs /\ batch \in 0..Batches
  /\ records \in Seq(Values) /\ metrics \in Seq(Values)
  /\ best \in 0..MaxEpochs /\ anchor \in 0..MaxEpochs /\ stale \in 0..MaxEpochs
  /\ stop \in StopReasons /\ failure \in Faults \cup {"none"}
  /\ model \in File /\ report \in File
  /\ final \in [epochs: 0..MaxEpochs, size: Nat, stop: StopReasons, weights: 0..MaxEpochs]

LastEpochs(s) == (Len(s) - policy.patience + 1)..Len(s)
EarlierEpochs(s) == 1..(Len(s) - policy.patience)

\* Early stopping means what the contract promises: none of the last "patience"
\* epochs improved on all earlier ones by more than min_delta; and training goes
\* on only while one of them is better than every earlier epoch.
EarlyStopIsJustified ==
  /\ stop = "early_stopping" =>
       /\ EarlierEpochs(records) # {}
       /\ \A n \in LastEpochs(records) : \E m \in EarlierEpochs(records) :
            ~Improves(policy, records[n], records[m])
  /\ policy.enabled /\ pc = "batch" /\ Len(metrics) > policy.patience =>
       \E n \in LastEpochs(metrics) : \A m \in EarlierEpochs(metrics) :
         Better(policy, metrics[n], metrics[m])
=============================================================================
