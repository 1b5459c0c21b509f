------------------------ MODULE TrainingAttemptsProofs ------------------------
(***************************************************************************)
(* Proofs about TrainingLoop and TrainingAttempts, for any number of       *)
(* epochs, batches and retries, any metric values, early-stopping policies *)
(* and faults.  The inductive invariant has one part per concern: Progress *)
(* (what the place in the loop says of the epoch and of metrics.jsonl),    *)
(* BestKept (the best epoch so far, the checkpoint and the report of it),  *)
(* AnchorKept (the epoch early stopping counts from), SizesKept (the batch *)
(* sizes and the host) and FilesKept (final_metrics.json and the others).  *)
(***************************************************************************)
EXTENDS TrainingAttempts, TLAPS

Learning == {"batch", "validate", "checkpoint", "record"}
Wrapping == {"report", "samples", "final", "exiting"}
AtWork == Learning \cup Wrapping
Measured == {"checkpoint", "record"} \cup Wrapping

\* Outside an epoch the memory of the process is empty; inside, the epoch says how
\* many values are recorded, and metrics.jsonl repeats them.
Empty ==
  /\ size = 0 /\ epoch = 0 /\ records = <<>> /\ best = 0 /\ anchor = 0 /\ stale = 0
  /\ stop = "max_epochs_reached"

Progress ==
  /\ pc \notin AtWork => Empty
  /\ pc \in AtWork =>
       /\ epoch \in 1..MaxEpochs /\ size = manifest
       /\ Len(records) = IF pc \in Measured THEN epoch ELSE epoch - 1
       /\ Len(metrics) = IF pc \in Wrapping THEN epoch ELSE epoch - 1
       /\ \A n \in 1..Len(metrics) : metrics[n] = records[n]
  /\ pc = "batch" => batch < Batches

\* "best" is the first of the best epochs; the checkpoint and the report are of it.
BestKept ==
  pc \in AtWork =>
    /\ records = <<>> => best = 0
    /\ records # <<>> => IsBest(policy, records, best)
    /\ pc = "checkpoint" => best = epoch
    /\ records # <<>> /\ pc # "checkpoint" => model = [epoch |-> best, size |-> size]
    /\ pc \in {"samples", "final", "exiting"} => report = [epoch |-> best, size |-> size]

\* Early stopping counts from an epoch that is better than all before it and that
\* no later one improved on.
Anchored ==
  /\ anchor \in 0..Len(metrics) /\ stale = Len(metrics) - anchor
  /\ anchor = 0 => metrics = <<>>
  /\ \A n \in 1..Len(metrics) :
       /\ 0 < anchor /\ anchor < n => ~Improves(policy, metrics[n], metrics[anchor])
       /\ n < anchor => Better(policy, metrics[anchor], metrics[n])

AnchorKept ==
  /\ pc \in Learning =>
       /\ Anchored /\ stop = "max_epochs_reached"
       /\ policy.enabled => stale < policy.patience
  /\ stop = "early_stopping" =>
       pc \in Wrapping /\ Anchored /\ policy.enabled /\ stale >= policy.patience

\* The batch sizes shrink from attempt to attempt, and the manifest has the present
\* one from the moment it is set.
SizesKept ==
  /\ pc \in Running => host \in {"running", "grace"}
  /\ host = "grace" => backend = "timed"
  /\ error \in {"killed", "killed_memory"} => backend = "timed"
  /\ host = "judge" /\ error = "memory" => pc = "failed" /\ failure = "memory"
  /\ \A n \in DOMAIN attempts : \A m \in 1..(n - 1) : attempts[n] < attempts[m]
  /\ host # "done" =>
       Len(attempts) <= MaxRetries /\ \A n \in DOMAIN attempts : effective < attempts[n]
  /\ host \notin {"set", "done"} => manifest = effective
  /\ verdict.lifecycle = "resource_retry_exhausted" =>
       host = "done" /\ attempts # <<>> /\ attempts[Len(attempts)] = manifest
  /\ verdict.status = "completed" => host = "done" /\ OutputsValid

FilesAgree ==
  /\ {model.size, report.size, final.size} = {manifest}
  /\ final.epochs = Len(metrics)
  /\ model.epoch = BestEpoch(policy, metrics) /\ report.epoch = model.epoch
  /\ final.weights = IF Restores THEN report.epoch ELSE final.epochs

\* An attempt that wrote its final metrics was complete, and is the last one: it may
\* still fail to write its log, which is no reason for a retry.
FilesKept ==
  backend # "timed" \/ attempts = <<>> =>
    /\ final # MissingFinal =>
         /\ FilesAgree
         /\ pc \in {"exiting", "exited", "killed"} \/ (pc = "failed" /\ failure = "candidate")
    /\ host \in {"set", "launch"} => pc \in {"off", "failed"} /\ final = MissingFinal

Inv == TypeOK /\ Progress /\ BestKept /\ AnchorKept /\ SizesKept /\ FilesKept

-----------------------------------------------------------------------------
(* The order of metric values *)

\* "Better" is a strict weak order, and an improvement is better than what did not
\* improve.
LEMMA Order ==
  ASSUME NEW p \in Policies, NEW a \in Int, NEW b \in Int, NEW c \in Int
  PROVE  /\ ~Better(p, a, a)
         /\ Better(p, a, b) => ~Better(p, b, a)
         /\ Better(p, a, b) /\ ~Better(p, c, b) => Better(p, a, c)
         /\ Better(p, a, b) /\ Better(p, b, c) => Better(p, a, c)
         /\ Improves(p, a, b) => Better(p, a, b)
         /\ Improves(p, a, b) /\ ~Improves(p, c, b) => Better(p, a, c)
<1>1. p.minDelta \in Nat
  BY LoopAssumption
<1>2. CASE p.mode = "max"
  BY <1>1, <1>2 DEF Better, Improves
<1>3. CASE p.mode # "max"
  BY <1>1, <1>3 DEF Better, Improves
<1> QED BY <1>2, <1>3

\* There is at most one first best epoch.
LEMMA BestIsUnique ==
  ASSUME NEW p, NEW s, DOMAIN s \subseteq Int, NEW n, IsBest(p, s, n)
  PROVE  BestEpoch(p, s) = n
<1>1. \A m : IsBest(p, s, m) => m = n
  BY DEF IsBest
<1> QED BY <1>1 DEF BestEpoch, IsBest

\* What Append does.
LEMMA Appending ==
  ASSUME NEW S, NEW s \in Seq(S), NEW x \in S
  PROVE  /\ Append(s, x) \in Seq(S) /\ Len(Append(s, x)) = Len(s) + 1
         /\ Append(s, x) # <<>> /\ DOMAIN Append(s, x) = 1..(Len(s) + 1)
         /\ Append(s, x)[Len(s) + 1] = x
         /\ \A n \in 1..Len(s) : Append(s, x)[n] = s[n]
OBVIOUS

\* A new value is the best one if it is better than the best so far.
LEMMA NewBest ==
  ASSUME NEW p \in Policies, NEW s \in Seq(Values), NEW x \in Values, NEW b,
         s = <<>> \/ (IsBest(p, s, b) /\ Better(p, x, s[b]))
  PROVE  IsBest(p, Append(s, x), Len(s) + 1)
<1> DEFINE t == Append(s, x)
<1>1. ASSUME NEW m \in DOMAIN t
      PROVE  ~Better(p, t[m], x) /\ (m < Len(s) + 1 => Better(p, x, t[m]))
  <2>1. CASE m = Len(s) + 1
    BY <2>1, Appending, Order, LoopAssumption
  <2>2. CASE m \in 1..Len(s)
    <3>1. t[m] = s[m] /\ s[m] \in Int /\ x \in Int /\ m \in DOMAIN s /\ s # <<>>
      BY <2>2, Appending, LoopAssumption
    <3>2. IsBest(p, s, b) /\ Better(p, x, s[b])
      BY <3>1
    <3>3. b \in DOMAIN s /\ ~Better(p, s[m], s[b])
      BY <3>1, <3>2 DEF IsBest
    <3>4. s[b] \in Values
      BY <3>3
    <3>5. Better(p, x, s[m])
      BY <3>1, <3>2, <3>3, <3>4, Order, LoopAssumption
    <3> QED BY <3>1, <3>5, Order
  <2> QED BY <1>1, <2>1, <2>2, Appending
<1> QED BY <1>1, Appending DEF IsBest

\* Otherwise the best epoch stays.
LEMMA OldBest ==
  ASSUME NEW p \in Policies, NEW s \in Seq(Values), NEW x \in Values, NEW b,
         IsBest(p, s, b), ~Better(p, x, s[b])
  PROVE  IsBest(p, Append(s, x), b)
<1> DEFINE t == Append(s, x)
<1>1. b \in 1..Len(s) /\ t[b] = s[b] /\ DOMAIN s = 1..Len(s)
  BY Appending DEF IsBest
<1>2. ASSUME NEW m \in DOMAIN t
      PROVE  ~Better(p, t[m], t[b]) /\ (m < b => Better(p, t[b], t[m]))
  <2>1. CASE m = Len(s) + 1
    <3>1. t[m] = x
      BY <2>1, Appending
    <3>2. ~(m < b)
      BY <1>1, <2>1
    <3> QED BY <1>1, <3>1, <3>2
  <2>2. CASE m \in 1..Len(s)
    BY <1>1, <2>2, Appending DEF IsBest
  <2>3. m \in 1..(Len(s) + 1) /\ Len(s) \in Nat
    BY <1>2, Appending
  <2>4. m = Len(s) + 1 \/ m \in 1..Len(s)
    BY <2>3
  <2> QED BY <2>1, <2>2, <2>4
<1> QED BY <1>1, <1>2, Appending DEF IsBest

-----------------------------------------------------------------------------
(* The kinds of steps *)

LEMMA InitInv == Init => Inv
<1> SUFFICES ASSUME Init PROVE Inv
  OBVIOUS
<1>1. policy \in Policies /\ pc = "off" /\ records = <<>> /\ metrics = <<>> /\ Empty
  BY DEF Init, LoopInit, Empty
<1>2. TypeOK
  <2>1. LoopTypeOK
    <3>1. records \in Seq(Values) /\ metrics \in Seq(Values)
      BY <1>1
    <3>2. model \in File /\ report \in File
      BY LoopAssumption DEF Init, LoopInit, Missing, File
    <3>3. final \in [epochs: 0..MaxEpochs, size: Nat, stop: StopReasons, weights: 0..MaxEpochs]
      BY LoopAssumption DEF Init, LoopInit, MissingFinal, StopReasons
    <3>4. sentinel \in BOOLEAN /\ timeout \in BOOLEAN
      BY DEF Init, LoopInit
    <3>5. /\ pc \in Running \cup Ended /\ stop \in StopReasons /\ failure \in Faults \cup {"none"}
          /\ size \in Nat /\ epoch \in 0..MaxEpochs /\ batch \in 0..Batches
          /\ best \in 0..MaxEpochs /\ anchor \in 0..MaxEpochs /\ stale \in 0..MaxEpochs
      BY LoopAssumption DEF Init, LoopInit, Ended, StopReasons
    <3> QED BY <1>1, <3>1, <3>2, <3>3, <3>4, <3>5 DEF LoopTypeOK
  <2>2. verdict \in Verdict
    BY DEF Init, Verdict, Pending
  <2>3. requested \in Nat \ {0} /\ attempts \in Seq(Nat \ {0}) /\ Len(attempts) <= MaxRetries + 1
    BY AttemptsAssumption DEF Init
  <2> QED BY <2>1, <2>2, <2>3 DEF Init, TypeOK, HostPcs, Errors
<1>3. Progress /\ BestKept /\ AnchorKept
  BY <1>1 DEF Progress, BestKept, AnchorKept, Empty, AtWork, Learning, Wrapping, Measured
<1>4. SizesKept
  BY AttemptsAssumption DEF Init, LoopInit, SizesKept, Running, Pending
<1>5. FilesKept
  BY DEF Init, LoopInit, FilesKept
<1> QED BY <1>2, <1>3, <1>4, <1>5 DEF Inv

\* A step that leaves the loop where it is; the manifest changes between attempts.
Rests ==
  /\ UNCHANGED <<policy, pc, memory, files>>
  /\ manifest' = manifest \/ pc \notin AtWork

\* A step after which no epoch is under way.
Idles ==
  /\ pc' \notin AtWork /\ Empty'
  /\ UNCHANGED <<policy, files>>

\* An operation of an epoch, or of what follows the last one.
Works ==
  /\ UNCHANGED hostVars
  /\ \/ Begin(manifest) \/ TrainBatch \/ \E value \in Values : Validate(value)
     \/ Checkpoint \/ Record \/ Report \/ Samples \/ Finish

LEMMA Kinds ==
  ASSUME Inv, [Next]_vars
  PROVE  Rests \/ Idles \/ Works
<1> USE DEF loopVars, memory, files, hostVars
<1>0. /\ host \notin {"running", "grace"} => pc \notin Running
      /\ AtWork \subseteq Running /\ AtWork \cap Ended = {}
      /\ pc \notin AtWork => Empty
  BY DEF Inv, SizesKept, Progress, AtWork, Running, Learning, Wrapping, Ended
<1>1. CASE UNCHANGED vars
  BY <1>1 DEF vars, Rests
<1>2. CASE SetBatchSize
  BY <1>0, <1>2 DEF SetBatchSize, Rests
<1>3. CASE LaunchRefused \/ OperationEnds \/ RetrySmaller \/ RetriesExhausted
             \/ OperationRaised \/ OperationReturned \/ CheckOutputs \/ BudgetExhausted
             \/ StopRequested
  BY <1>3 DEF LaunchRefused, OperationEnds, RetrySmaller, RetriesExhausted, OperationRaised,
     OperationReturned, CheckOutputs, BudgetExhausted, StopRequested, RequestStop, Ends, Rests
<1>4. CASE Launch
  <2>1. pc' = "start" /\ UNCHANGED <<policy, memory, files>> /\ Empty
    BY <1>0, <1>4 DEF Launch
  <2> QED BY <2>1 DEF Idles, Empty, AtWork, Learning, Wrapping
<1>5. CASE GraceExpires
  <2>1. pc' \in Ended /\ Dies /\ UNCHANGED <<policy, files>>
    BY <1>5 DEF GraceExpires, Ended
  <2> QED BY <1>0, <2>1 DEF Idles, Empty, Dies, Memory
<1>6. CASE CandidateExits \/ (ContainerStep /\ (Exit \/ \E fault \in Faults : Fail(fault)))
  <2>1. pc' \in Ended /\ Dies /\ UNCHANGED <<policy, files>>
    BY <1>6 DEF CandidateExits, Exit, Fail, Ended
  <2> QED BY <1>0, <2>1 DEF Idles, Empty, Dies, Memory
<1>7. CASE ContainerStep /\ ~(Exit \/ \E fault \in Faults : Fail(fault))
  BY <1>7 DEF ContainerStep, LoopStep, Works
<1> QED BY <1>1, <1>2, <1>3, <1>4, <1>5, <1>6, <1>7 DEF Next, HostStep

-----------------------------------------------------------------------------
(* The epochs and metrics.jsonl *)

LEMMA ProgressStep ==
  ASSUME Inv, [Next]_vars
  PROVE  Progress'
<1> USE DEF memory, files, AtWork, Learning, Wrapping, Measured
<1>0. /\ TypeOK /\ LoopTypeOK /\ Progress
      /\ records \in Seq(Values) /\ metrics \in Seq(Values)
      /\ MaxEpochs \in Nat /\ MaxEpochs >= 1 /\ Batches \in Nat /\ Batches >= 1
  BY LoopAssumption DEF Inv, TypeOK, LoopTypeOK
<1>1. CASE Rests
  BY <1>0, <1>1 DEF Rests, Progress, Empty
<1>2. CASE Idles
  BY <1>2 DEF Idles, Progress
<1>3. CASE Begin(manifest) /\ UNCHANGED hostVars
  BY <1>0, <1>3 DEF Begin, Memory, Progress, hostVars
<1>4. CASE TrainBatch /\ UNCHANGED hostVars
  BY <1>0, <1>4 DEF TrainBatch, Progress, hostVars, LoopTypeOK
<1>5. ASSUME NEW value \in Values, Validate(value), UNCHANGED hostVars
      PROVE  Progress'
  <2>1. /\ records' = Append(records, value) /\ pc' \in {"checkpoint", "record"}
        /\ UNCHANGED <<epoch, size, metrics, manifest>>
    BY <1>5 DEF Validate, hostVars
  <2>2. /\ epoch \in 1..MaxEpochs /\ size = manifest /\ Len(records) = epoch - 1
        /\ Len(metrics) = epoch - 1 /\ \A n \in 1..Len(metrics) : metrics[n] = records[n]
    BY <1>0, <1>5 DEF Validate, Progress
  <2>3. /\ Len(records') = epoch' /\ Len(metrics') = epoch' - 1
        /\ \A n \in 1..Len(metrics') : metrics'[n] = records'[n]
    BY <1>0, <2>1, <2>2, Appending
  <2> QED BY <2>1, <2>2, <2>3 DEF Progress
<1>6. CASE (Checkpoint \/ Report \/ Samples \/ Finish) /\ UNCHANGED hostVars
  BY <1>0, <1>6 DEF Checkpoint, Report, Samples, Finish, Progress, hostVars
<1>7. CASE Record /\ UNCHANGED hostVars
  <2>1. /\ metrics' = Append(metrics, records[epoch]) /\ UNCHANGED <<records, size, manifest>>
        /\ \/ pc' = "report" /\ epoch' = epoch
           \/ pc' = "batch" /\ epoch' = epoch + 1 /\ epoch < MaxEpochs /\ batch' = 0
    BY <1>7 DEF Record, Stops, hostVars
  <2>2. /\ epoch \in 1..MaxEpochs /\ size = manifest /\ Len(records) = epoch
        /\ Len(metrics) = epoch - 1 /\ \A n \in 1..Len(metrics) : metrics[n] = records[n]
    BY <1>0, <1>7 DEF Record, Progress
  <2>3. records[epoch] \in Values
    BY <1>0, <2>2
  <2>4. Len(metrics') = epoch /\ \A n \in 1..epoch : metrics'[n] = records[n]
    BY <1>0, <2>1, <2>2, <2>3, Appending
  <2>5. CASE pc' = "report" /\ epoch' = epoch
    BY <2>1, <2>2, <2>4, <2>5 DEF Progress
  <2>6. CASE pc' = "batch" /\ epoch' = epoch + 1 /\ epoch < MaxEpochs /\ batch' = 0
    BY <1>0, <2>1, <2>2, <2>4, <2>6 DEF Progress
  <2> QED BY <2>1, <2>5, <2>6
<1> QED BY <1>1, <1>2, <1>3, <1>4, <1>5, <1>6, <1>7, Kinds DEF Works

-----------------------------------------------------------------------------
(* The best epoch *)

LEMMA BestKeptStep ==
  ASSUME Inv, [Next]_vars
  PROVE  BestKept'
<1> USE DEF memory, files, AtWork, Learning, Wrapping
<1>0. /\ TypeOK /\ LoopTypeOK /\ BestKept /\ Progress /\ policy \in Policies
      /\ records \in Seq(Values) /\ Values \subseteq Int
  BY LoopAssumption DEF Inv, TypeOK, LoopTypeOK
<1>1. CASE Rests
  BY <1>0, <1>1 DEF Rests, BestKept, Progress, Empty
<1>2. CASE Idles
  BY <1>2 DEF Idles, BestKept
<1>3. CASE Begin(manifest) /\ UNCHANGED hostVars
  BY <1>3 DEF Begin, Memory, BestKept
<1>4. CASE (TrainBatch \/ Checkpoint \/ Samples \/ Finish) /\ UNCHANGED hostVars
  BY <1>0, <1>4 DEF TrainBatch, Checkpoint, Samples, Finish, BestKept
<1>5. ASSUME NEW value \in Values, Validate(value), UNCHANGED hostVars
      PROVE  BestKept'
  <2>1. /\ records' = Append(records, value) /\ UNCHANGED <<policy, epoch, size, model>>
        /\ \/ best = 0 /\ best' = epoch /\ pc' = "checkpoint"
           \/ Better(policy, value, records[best]) /\ best' = epoch /\ pc' = "checkpoint"
           \/ best # 0 /\ ~Better(policy, value, records[best]) /\ best' = best /\ pc' = "record"
    BY <1>5 DEF Validate
  <2>2. /\ epoch = Len(records) + 1
        /\ records = <<>> => best = 0
        /\ records # <<>> => IsBest(policy, records, best)
        /\ records # <<>> => model = [epoch |-> best, size |-> size]
    BY <1>0, <1>5 DEF Validate, Progress, BestKept, Measured
  <2>3. records' # <<>>
    BY <1>0, <2>1, Appending
  <2>4. CASE best' = epoch /\ pc' = "checkpoint" /\ (best = 0 \/ Better(policy, value, records[best]))
    <3>1. records = <<>> \/ (IsBest(policy, records, best) /\ Better(policy, value, records[best]))
      BY <1>0, <2>2, <2>4 DEF IsBest
    <3>2. IsBest(policy, records', best')
      BY <1>0, <1>5, <2>1, <2>2, <2>4, <3>1, NewBest
    <3> QED BY <2>1, <2>3, <2>4, <3>2 DEF BestKept
  <2>5. CASE best' = best /\ pc' = "record" /\ best # 0 /\ ~Better(policy, value, records[best])
    <3>1. records # <<>> /\ IsBest(policy, records, best)
      BY <2>2, <2>5
    <3>2. IsBest(policy, records', best')
      BY <1>0, <1>5, <2>1, <2>5, <3>1, OldBest
    <3> QED BY <2>1, <2>2, <2>3, <2>5, <3>1, <3>2 DEF BestKept
  <2> QED BY <2>1, <2>4, <2>5
<1>6. CASE Record /\ UNCHANGED hostVars
  <2>1. UNCHANGED <<policy, records, best, size, model>> /\ pc = "record" /\ pc' \in {"report", "batch"}
    BY <1>6 DEF Record, Stops
  <2> QED BY <1>0, <2>1 DEF BestKept
<1>7. CASE Report /\ UNCHANGED hostVars
  <2>1. /\ UNCHANGED <<policy, records, best, size, model>> /\ pc' = "samples" /\ records # <<>>
        /\ report' = [epoch |-> BestEpoch(policy, records), size |-> size]
    BY <1>0, <1>7 DEF Report, Progress, Measured
  <2>2. IsBest(policy, records, best) /\ model = [epoch |-> best, size |-> size]
    BY <1>0, <1>7, <2>1 DEF BestKept, Report
  <2>3. BestEpoch(policy, records) = best
    BY <1>0, <2>2, BestIsUnique
  <2> QED BY <2>1, <2>2, <2>3 DEF BestKept
<1> QED BY <1>1, <1>2, <1>3, <1>4, <1>5, <1>6, <1>7, Kinds DEF Works

-----------------------------------------------------------------------------
(* The anchor of early stopping *)

\* A value that improves on the anchor is better than every value so far.
LEMMA AnchorMoves ==
  ASSUME NEW p \in Policies, NEW s \in Seq(Values), NEW x \in Values, NEW a \in 0..Len(s),
         a = 0 => s = <<>>,
         \A n \in 1..Len(s) : /\ 0 < a /\ a < n => ~Improves(p, s[n], s[a])
                              /\ n < a => Better(p, s[a], s[n]),
         a = 0 \/ Improves(p, x, s[a])
  PROVE  \A n \in 1..Len(s) : Better(p, x, s[n])
<1> SUFFICES ASSUME NEW n \in 1..Len(s) PROVE Better(p, x, s[n])
  OBVIOUS
<1>1. a \in 1..Len(s) /\ Improves(p, x, s[a])
  OBVIOUS
<1>2. s[n] \in Values /\ s[a] \in Values
  BY <1>1
<1>3. s[n] \in Int /\ s[a] \in Int /\ x \in Int
  BY <1>2, LoopAssumption
<1>4. CASE n = a
  BY <1>1, <1>3, <1>4, Order
<1>5. CASE n < a
  <2>1. Better(p, x, s[a]) /\ Better(p, s[a], s[n])
    BY <1>1, <1>3, <1>5, Order
  <2> QED BY <1>3, <2>1, Order
<1>6. CASE a < n
  <2>1. ~Improves(p, s[n], s[a])
    BY <1>1, <1>6
  <2> QED BY <1>1, <1>3, <2>1, Order
<1> QED BY <1>1, <1>4, <1>5, <1>6

LEMMA AnchorKeptStep ==
  ASSUME Inv, [Next]_vars
  PROVE  AnchorKept'
<1> USE DEF memory, files, AtWork, Learning, Wrapping
<1>0. /\ AnchorKept /\ Progress /\ policy \in Policies
      /\ metrics \in Seq(Values) /\ records \in Seq(Values)
      /\ epoch \in Nat /\ policy.patience \in Nat /\ policy.patience >= 1
  BY LoopAssumption DEF Inv, TypeOK, LoopTypeOK
<1>1. CASE Rests
  BY <1>0, <1>1 DEF Rests, AnchorKept, Anchored
<1>2. CASE Idles
  BY <1>2 DEF Idles, AnchorKept, Empty
<1>3. CASE Begin(manifest)
  <2>1. /\ pc' = "batch" /\ metrics' = <<>> /\ anchor' = 0 /\ stale' = 0 /\ policy' = policy
        /\ stop' = "max_epochs_reached"
    BY <1>3 DEF Begin, Memory
  <2>2. Anchored'
    BY <2>1 DEF Anchored
  <2> QED BY <1>0, <2>1, <2>2 DEF AnchorKept
<1>4. CASE TrainBatch \/ Checkpoint \/ Report \/ Samples \/ Finish
             \/ \E value \in Values : Validate(value)
  <2>1. /\ UNCHANGED <<policy, metrics, anchor, stale, stop>>
        /\ \/ pc \in Learning /\ pc' \in Learning
           \/ pc \in Wrapping /\ pc' \in Wrapping
    BY <1>4 DEF TrainBatch, Checkpoint, Report, Samples, Finish, Validate
  <2>2. Anchored' = Anchored
    BY <2>1 DEF Anchored
  <2> QED BY <1>0, <2>1, <2>2 DEF AnchorKept
<1>5. CASE Record
  <2> DEFINE x == records[epoch]
  <2>1. /\ pc = "record" /\ metrics' = Append(metrics, x) /\ policy' = policy
        /\ records' = records
    BY <1>5 DEF Record
  <2>2. /\ Anchored /\ stop = "max_epochs_reached" /\ epoch = Len(metrics) + 1 /\ x \in Values
        /\ \A n \in 1..Len(metrics) : metrics[n] = records[n]
    BY <1>0, <2>1 DEF AnchorKept, Progress, Measured
  <2>3. /\ Len(metrics') = epoch /\ metrics'[epoch] = x
        /\ \A n \in 1..Len(metrics) : metrics'[n] = metrics[n]
    BY <1>0, <2>1, <2>2, Appending
  <2>4. ASSUME ~timeout
        PROVE  Anchored'
    <3>1. CASE (anchor = 0 \/ Improves(policy, x, records[anchor])) /\ anchor' = epoch /\ stale' = 0
      <4>1. /\ anchor \in 0..Len(metrics) /\ (anchor = 0 => metrics = <<>>)
            /\ \A n \in 1..Len(metrics) :
                 /\ 0 < anchor /\ anchor < n => ~Improves(policy, metrics[n], metrics[anchor])
                 /\ n < anchor => Better(policy, metrics[anchor], metrics[n])
        BY <2>2 DEF Anchored
      <4>2. anchor = 0 \/ Improves(policy, x, metrics[anchor])
        BY <2>2, <3>1, <4>1
      <4>3. \A n \in 1..Len(metrics) : Better(policy, x, metrics[n])
        BY <1>0, <2>2, <4>1, <4>2, AnchorMoves
      <4>4. \A n \in 1..Len(metrics') :
              /\ ~(anchor' < n)
              /\ n < anchor' => Better(policy', metrics'[anchor'], metrics'[n])
        BY <1>0, <2>1, <2>2, <2>3, <3>1, <4>3
      <4> QED BY <1>0, <2>2, <2>3, <3>1, <4>4 DEF Anchored
    <3>2. CASE /\ anchor # 0 /\ ~Improves(policy, x, records[anchor])
               /\ anchor' = anchor /\ stale' = stale + 1
      <4>1. /\ anchor \in 1..Len(metrics) /\ stale = Len(metrics) - anchor
            /\ records[anchor] = metrics[anchor] /\ metrics'[anchor] = metrics[anchor]
        BY <2>2, <2>3, <3>2 DEF Anchored
      <4>2. \A n \in 1..Len(metrics') :
              /\ anchor' < n => ~Improves(policy', metrics'[n], metrics'[anchor'])
              /\ n < anchor' => Better(policy', metrics'[anchor'], metrics'[n])
        <5> SUFFICES ASSUME NEW n \in 1..Len(metrics')
                     PROVE  /\ anchor < n => ~Improves(policy, metrics'[n], metrics[anchor])
                            /\ n < anchor => Better(policy, metrics[anchor], metrics'[n])
          BY <2>1, <3>2, <4>1
        <5>1. CASE n = epoch
          BY <2>2, <2>3, <3>2, <4>1, <5>1
        <5>2. CASE n \in 1..Len(metrics)
          BY <2>2, <2>3, <4>1, <5>2 DEF Anchored
        <5>3. n = epoch \/ n \in 1..Len(metrics)
          BY <1>0, <2>2, <2>3
        <5> QED BY <5>1, <5>2, <5>3
      <4> QED BY <1>0, <2>2, <2>3, <3>2, <4>1, <4>2 DEF Anchored
    <3> QED BY <1>5, <2>4, <3>1, <3>2 DEF Record
  <2>5. CASE timeout
    <3>1. pc' = "report" /\ stop' = "timeout_requested"
      BY <1>5, <2>5 DEF Record, Stops
    <3> QED BY <3>1 DEF AnchorKept
  <2>6. CASE ~timeout
    <3>1. \/ pc' = "report" /\ stop' = "early_stopping" /\ policy.enabled /\ stale' >= policy.patience
          \/ pc' = "report" /\ stop' = "max_epochs_reached"
          \/ pc' = "batch" /\ stop' = stop /\ ~(policy.enabled /\ stale' >= policy.patience)
      BY <1>5, <2>6 DEF Record, Stops
    <3>2. stale' \in Int
      BY <2>3, <2>4, <2>6, <1>0, <2>2 DEF Anchored
    <3>3. policy.enabled /\ ~(stale' >= policy.patience) => stale' < policy.patience
      BY <1>0, <3>2
    <3> QED BY <2>1, <2>2, <2>4, <2>6, <3>1, <3>3 DEF AnchorKept
  <2> QED BY <2>5, <2>6
<1> QED BY <1>1, <1>2, <1>3, <1>4, <1>5, Kinds DEF Works

-----------------------------------------------------------------------------
(* The batch sizes and the place of the host *)

LEMMA Halving == ASSUME NEW n \in Nat \ {0}
                 PROVE  Half(n) \in Nat \ {0} /\ (n > 1 => Half(n) < n)
BY DEF Half

\* A step of the container moves neither the host nor its sizes.
LEMMA SizesKeptContainer ==
  ASSUME Inv, ContainerStep \/ CandidateExits \/ StopRequested
  PROVE  SizesKept'
<1> USE DEF hostVars
<1>1. SizesKept /\ UNCHANGED hostVars /\ pc \in Running
  BY DEF Inv, ContainerStep, CandidateExits, StopRequested, RequestStop, LoopStep, Running,
     Begin, TrainBatch, Validate, Checkpoint, Record, Report, Samples, Finish, Exit, Fail,
     FaultsAt, WriteFaults
<1>2. host \in {"running", "grace"}
  BY <1>1 DEF SizesKept
<1> QED BY <1>1, <1>2 DEF SizesKept

LEMMA SizesKeptStep ==
  ASSUME Inv, [Next]_vars
  PROVE  SizesKept'
<1> USE DEF hostVars, loopVars, files
<1>0. /\ SizesKept /\ failure \in Faults \cup {"none"}
      /\ MaxRetries \in Nat /\ attempts \in Seq(Nat \ {0}) /\ effective \in Nat \ {0}
      /\ manifest \in Nat \ {0}
      /\ Running \cap Ended = {} /\ "start" \in Running
      /\ ~(failure \in {"killed", "killed_memory"})
  BY LoopAssumption, AttemptsAssumption DEF Inv, TypeOK, LoopTypeOK, Running, Ended
<1>1. CASE UNCHANGED vars
  BY <1>0, <1>1 DEF vars, SizesKept, OutputsValid
<1>2. CASE SetBatchSize
  BY <1>0, <1>2 DEF SetBatchSize, SizesKept, OutputsValid
<1>3. CASE Launch
  BY <1>0, <1>3 DEF Launch, SizesKept, OutputsValid
<1>4. CASE LaunchRefused
  BY <1>0, <1>4 DEF LaunchRefused, SizesKept, OutputsValid
<1>5. CASE BudgetExhausted
  BY <1>0, <1>5 DEF BudgetExhausted, SizesKept, OutputsValid
<1>6. CASE GraceExpires
  BY <1>0, <1>6 DEF GraceExpires, SizesKept, OutputsValid, Running, Ended
<1>7. CASE OperationEnds
  BY <1>0, <1>7 DEF OperationEnds, SizesKept, OutputsValid, Running
<1>8. CASE OperationRaised \/ OperationReturned \/ CheckOutputs
  BY <1>0, <1>8 DEF OperationRaised, OperationReturned, CheckOutputs, Ends, SizesKept, OutputsValid
<1>9. ASSUME attempts' = Append(attempts, effective), host = "judge"
      PROVE  /\ attempts' \in Seq(Nat \ {0}) /\ attempts' # <<>>
             /\ Len(attempts') = Len(attempts) + 1 /\ attempts'[Len(attempts')] = manifest
             /\ effective = manifest
             /\ \A n \in DOMAIN attempts' : \A m \in 1..(n - 1) : attempts'[n] < attempts'[m]
             /\ \A n \in DOMAIN attempts' : effective <= attempts'[n]
  <2>1. /\ Len(attempts) \in Nat /\ manifest = effective
        /\ \A n \in 1..Len(attempts) : attempts[n] \in Nat /\ effective < attempts[n]
        /\ \A n \in 1..Len(attempts) : \A m \in 1..(n - 1) : attempts[n] < attempts[m]
    BY <1>0, <1>9 DEF SizesKept
  <2>2. /\ attempts' \in Seq(Nat \ {0}) /\ attempts' # <<>>
        /\ Len(attempts') = Len(attempts) + 1 /\ DOMAIN attempts' = 1..(Len(attempts) + 1)
        /\ attempts'[Len(attempts) + 1] = effective
        /\ \A n \in 1..Len(attempts) : attempts'[n] = attempts[n]
    BY <1>0, <1>9, Appending
  <2>3. ASSUME NEW n \in DOMAIN attempts', NEW m \in 1..(n - 1)
        PROVE  attempts'[n] < attempts'[m]
    <3>1. m \in 1..Len(attempts) /\ attempts'[m] = attempts[m]
      BY <2>1, <2>2, <2>3
    <3>2. CASE n = Len(attempts) + 1
      BY <2>1, <2>2, <3>1, <3>2
    <3>3. CASE n \in 1..Len(attempts)
      BY <2>1, <2>2, <2>3, <3>1, <3>3
    <3> QED BY <2>1, <2>2, <3>2, <3>3
  <2>4. ASSUME NEW n \in DOMAIN attempts'
        PROVE  effective <= attempts'[n]
    <3>1. n = Len(attempts) + 1 \/ n \in 1..Len(attempts)
      BY <2>1, <2>2
    <3> QED BY <1>0, <2>1, <2>2, <3>1
  <2> QED BY <2>1, <2>2, <2>3, <2>4
<1>10. CASE RetrySmaller
  <2>1. /\ host = "judge" /\ attempts' = Append(attempts, effective) /\ host' = "set"
        /\ Len(attempts) < MaxRetries /\ effective' < effective /\ effective' \in Nat
    BY <1>0, <1>10, Halving DEF RetrySmaller, CanRetry
  <2>2. Len(attempts') <= MaxRetries /\ \A n \in DOMAIN attempts' : effective' < attempts'[n]
    <3>1. \A n \in DOMAIN attempts' : attempts'[n] \in Nat /\ effective <= attempts'[n]
      BY <1>9, <2>1
    <3>2. Len(attempts') <= MaxRetries
      BY <1>0, <1>9, <2>1
    <3> QED BY <1>0, <2>1, <3>1, <3>2
  <2>3. verdict' = verdict /\ error' = error /\ backend' = backend /\ pc' = pc /\ pc \notin Running
    BY <1>0, <1>10, <2>1 DEF RetrySmaller, SizesKept
  <2>4. /\ verdict.lifecycle # "resource_retry_exhausted" /\ verdict.status # "completed"
        /\ error \in {"killed", "killed_memory"} => backend = "timed"
    BY <1>0, <2>1 DEF SizesKept
  <2> QED BY <1>9, <2>1, <2>2, <2>3, <2>4 DEF SizesKept
<1>11. CASE RetriesExhausted
  <2>1. /\ host = "judge" /\ attempts' = Append(attempts, effective) /\ host' = "done"
        /\ verdict'.status = "failed" /\ pc' = pc /\ pc \notin Running
        /\ UNCHANGED <<error, backend, manifest, effective>>
    BY <1>0, <1>11 DEF RetriesExhausted, Ends, SizesKept
  <2>2. error \in {"killed", "killed_memory"} => backend = "timed"
    BY <1>0 DEF SizesKept
  <2> QED BY <1>9, <2>1, <2>2 DEF SizesKept
<1> QED BY <1>1, <1>2, <1>3, <1>4, <1>5, <1>6, <1>7, <1>8, <1>10, <1>11, SizesKeptContainer
    DEF Next, HostStep

-----------------------------------------------------------------------------
(* The files of an attempt *)

LEMMA FilesKeptStep ==
  ASSUME Inv, [Next]_vars
  PROVE  FilesKept'
<1> USE DEF memory, files, hostVars, loopVars
<1> DEFINE Guard == backend # "timed" \/ attempts = <<>>
<1>0. /\ FilesKept /\ Progress /\ BestKept /\ SizesKept
      /\ attempts \in Seq(Nat \ {0}) /\ effective \in Nat \ {0}
      /\ records \in Seq(Values) /\ metrics \in Seq(Values) /\ Values \subseteq Int
      /\ policy \in Policies
  BY LoopAssumption DEF Inv, TypeOK, LoopTypeOK
<1>1. CASE UNCHANGED vars
  BY <1>0, <1>1 DEF vars, FilesKept, FilesAgree, Restores
<1>2. CASE SetBatchSize
  <2>1. /\ host = "set" /\ host' = "launch" /\ UNCHANGED <<pc, failure, final>>
        /\ UNCHANGED <<backend, attempts>>
    BY <1>2 DEF SetBatchSize
  <2>2. Guard => pc \in {"off", "failed"} /\ final = MissingFinal
    BY <1>0, <2>1 DEF FilesKept
  <2> QED BY <2>1, <2>2 DEF FilesKept
<1>3. CASE Launch
  <2>1. /\ host = "launch" /\ host' = "running" /\ final' = final
        /\ UNCHANGED <<backend, attempts>>
    BY <1>3 DEF Launch
  <2>2. Guard => final = MissingFinal
    BY <1>0, <2>1 DEF FilesKept
  <2> QED BY <2>1, <2>2 DEF FilesKept
<1>4. CASE LaunchRefused \/ BudgetExhausted \/ OperationEnds \/ OperationRaised
             \/ OperationReturned \/ CheckOutputs
  <2>1. /\ UNCHANGED <<policy, pc, failure, files, backend, attempts, manifest>>
        /\ host' \notin {"set", "launch"}
    BY <1>4 DEF LaunchRefused, BudgetExhausted, OperationEnds, OperationRaised,
       OperationReturned, CheckOutputs, Ends
  <2> QED BY <1>0, <2>1 DEF FilesKept, FilesAgree, Restores
<1>5. CASE GraceExpires
  <2>1. /\ UNCHANGED <<policy, failure, files, backend, attempts, manifest>> /\ host' = "judge"
        /\ pc' = pc \/ pc' = "killed"
        /\ pc = "exiting" => pc' = "killed"
    BY <1>5 DEF GraceExpires, Ended
  <2> QED BY <1>0, <2>1 DEF FilesKept, FilesAgree, Restores
<1>6. CASE RetrySmaller \/ RetriesExhausted
  <2>1. /\ attempts' = Append(attempts, effective) /\ host = "judge" /\ error \in MemoryErrors
        /\ UNCHANGED <<policy, pc, failure, files, backend, manifest>>
    BY <1>6 DEF RetrySmaller, RetriesExhausted, Ends
  <2>2. attempts' # <<>>
    BY <1>0, <2>1, Appending
  <2>3. CASE backend = "timed"
    BY <2>1, <2>2, <2>3 DEF FilesKept
  <2>4. CASE backend # "timed"
    <3>1. pc = "failed" /\ failure = "memory"
      BY <1>0, <2>1, <2>4 DEF SizesKept, MemoryErrors
    <3>2. final = MissingFinal
      BY <1>0, <2>4, <3>1 DEF FilesKept
    <3> QED BY <2>1, <3>1, <3>2 DEF FilesKept
  <2> QED BY <2>3, <2>4
<1>7. CASE ContainerStep \/ CandidateExits \/ StopRequested
  <2>1. pc \in Running /\ UNCHANGED hostVars
    BY <1>7 DEF ContainerStep, CandidateExits, StopRequested, RequestStop, LoopStep, Running,
       Begin, TrainBatch, Validate, Checkpoint, Record, Report, Samples, Finish, Exit, Fail,
       FaultsAt, WriteFaults
  <2>2. host \in {"running", "grace"}
    BY <1>0, <2>1 DEF SizesKept
  <2>3. CASE StopRequested
    <3>1. UNCHANGED <<policy, pc, failure, files>>
      BY <2>3 DEF StopRequested, RequestStop
    <3> QED BY <1>0, <2>1, <2>2, <3>1 DEF FilesKept, FilesAgree, Restores
  <2>4. CASE ContainerStep /\ Exit
    <3>1. pc = "exiting" /\ pc' = "exited" /\ UNCHANGED <<policy, files>>
      BY <2>4 DEF Exit
    <3> QED BY <1>0, <2>1, <2>2, <3>1 DEF FilesKept, FilesAgree, Restores
  <2>5. CASE ContainerStep /\ Finish
    <3>1. /\ pc = "final" /\ pc' = "exiting" /\ UNCHANGED <<policy, metrics, model, report>>
          /\ final' = [epochs |-> epoch, size |-> size, stop |-> stop,
                       weights |-> IF Restores THEN model.epoch ELSE epoch]
      BY <2>5 DEF Finish
    <3>2. /\ epoch \in Nat /\ size = manifest /\ Len(metrics) = epoch /\ Len(records) = epoch
          /\ \A n \in 1..Len(metrics) : metrics[n] = records[n]
          /\ records # <<>>
      BY <1>0, <3>1 DEF Progress, AtWork, Learning, Wrapping, Measured
    <3>3. /\ IsBest(policy, records, best)
          /\ model = [epoch |-> best, size |-> size]
          /\ report = [epoch |-> best, size |-> size]
      BY <1>0, <3>1, <3>2 DEF BestKept, AtWork, Learning, Wrapping
    <3>4. metrics = records
      BY <1>0, <3>2
    <3>5. BestEpoch(policy, metrics) = best
      BY <1>0, <3>3, <3>4, BestIsUnique
    <3>6. /\ final'.epochs = epoch /\ final'.size = size
          /\ final'.weights = IF Restores THEN model.epoch ELSE epoch
      BY <3>1
    <3>7. Restores' = Restores
      BY <3>1 DEF Restores
    <3>8. FilesAgree'
      BY <2>1, <3>1, <3>2, <3>3, <3>5, <3>6, <3>7 DEF FilesAgree
    <3> QED BY <2>1, <2>2, <3>1, <3>8 DEF FilesKept
  <2>6. CASE \/ CandidateExits
             \/ ContainerStep /\ \/ Begin(manifest) \/ TrainBatch \/ Checkpoint \/ Record
                                 \/ Report \/ Samples
                                 \/ \E value \in Values : Validate(value)
    <3>1. final' = final /\ pc \notin {"exiting", "exited", "killed", "failed"}
      BY <2>6 DEF CandidateExits, Begin, TrainBatch, Checkpoint, Record, Report, Samples,
         Validate
    <3>2. Guard => final = MissingFinal
      BY <1>0, <3>1 DEF FilesKept
    <3> QED BY <2>1, <2>2, <3>1, <3>2 DEF FilesKept
  <2>7. CASE ContainerStep /\ \E fault \in Faults : Fail(fault)
    <3>1. PICK fault \in FaultsAt(pc) : failure' = fault
      BY <2>7 DEF Fail
    <3>2. pc' = "failed" /\ UNCHANGED <<policy, files>>
      BY <2>7 DEF Fail
    <3>3. CASE pc = "exiting"
      <4>1. failure' = "candidate"
        BY <3>1, <3>3 DEF FaultsAt, WriteFaults
      <4> QED BY <1>0, <2>1, <2>2, <3>2, <4>1 DEF FilesKept, FilesAgree, Restores
    <3>4. CASE pc # "exiting"
      <4>1. pc \notin {"exited", "killed", "failed"}
        BY <2>1 DEF Running
      <4>2. Guard => final = MissingFinal
        BY <1>0, <3>4, <4>1 DEF FilesKept
      <4> QED BY <2>1, <2>2, <3>2, <4>2 DEF FilesKept
    <3> QED BY <3>3, <3>4
  <2> QED BY <1>7, <2>3, <2>4, <2>5, <2>6, <2>7 DEF ContainerStep, LoopStep
<1> QED BY <1>1, <1>2, <1>3, <1>4, <1>5, <1>6, <1>7 DEF Next, HostStep

-----------------------------------------------------------------------------
(* Types *)

LEMMA HostTypes ==
  ASSUME Inv, [Next]_vars
  PROVE  /\ backend' \in Backends /\ requested' \in BatchSizes
         /\ manifest' \in Nat \ {0} /\ effective' \in Nat \ {0}
         /\ attempts' \in Seq(Nat \ {0}) /\ Len(attempts') <= MaxRetries + 1
         /\ host' \in HostPcs /\ error' \in Errors /\ graceful' \in BOOLEAN
         /\ verdict' \in Verdict
<1> USE DEF hostVars
<1>0. /\ backend \in Backends /\ requested \in BatchSizes
      /\ manifest \in Nat \ {0} /\ effective \in Nat \ {0}
      /\ attempts \in Seq(Nat \ {0}) /\ Len(attempts) <= MaxRetries + 1
      /\ host \in HostPcs /\ error \in Errors /\ graceful \in BOOLEAN
      /\ verdict \in Verdict
      /\ failure \in Faults \cup {"none"}
      /\ MaxRetries \in Nat
      /\ host # "done" => Len(attempts) <= MaxRetries
  BY AttemptsAssumption DEF Inv, TypeOK, LoopTypeOK, SizesKept
<1>1. CASE UNCHANGED hostVars
  BY <1>0, <1>1
<1>2. CASE SetBatchSize \/ Launch \/ LaunchRefused \/ BudgetExhausted \/ GraceExpires
             \/ OperationReturned
  BY <1>0, <1>2 DEF SetBatchSize, Launch, LaunchRefused, BudgetExhausted, GraceExpires,
     OperationReturned, HostPcs, Errors
<1>3. CASE OperationEnds
  <2>1. graceful' \in BOOLEAN /\ error' \in Errors
    BY <1>0, <1>3 DEF OperationEnds, Errors
  <2> QED BY <1>0, <1>3, <2>1 DEF OperationEnds, HostPcs
<1>4. CASE RetrySmaller
  <2>1. /\ attempts' = Append(attempts, effective) /\ effective' = Half(effective) /\ host = "judge"
        /\ host' = "set" /\ UNCHANGED <<backend, requested, manifest, error, graceful, verdict>>
    BY <1>4 DEF RetrySmaller
  <2>2. attempts' \in Seq(Nat \ {0}) /\ Len(attempts') <= MaxRetries + 1
    BY <1>0, <2>1, Appending
  <2> QED BY <1>0, <2>1, <2>2, Halving DEF HostPcs
<1>5. CASE RetriesExhausted
  <2>1. /\ attempts' = Append(attempts, effective) /\ host = "judge"
        /\ Ends("failed", "resource_failure", "resource_retry_exhausted")
    BY <1>5 DEF RetriesExhausted
  <2>2. attempts' \in Seq(Nat \ {0}) /\ Len(attempts') <= MaxRetries + 1
    BY <1>0, <2>1, Appending
  <2>3. verdict' \in Verdict
    BY <2>1 DEF Ends, Verdict
  <2> QED BY <1>0, <2>1, <2>2, <2>3 DEF Ends, HostPcs
<1>6. CASE OperationRaised
  <2>1. Classification(error) \in {"candidate_bug", "resource_failure", "harness_failure"}
    BY DEF Classification
  <2>2. verdict' \in Verdict
    BY <1>6, <2>1 DEF OperationRaised, Ends, Verdict
  <2> QED BY <1>0, <1>6, <2>2 DEF OperationRaised, Ends, HostPcs
<1>7. CASE CheckOutputs
  <2>1. verdict' \in Verdict
    BY <1>7 DEF CheckOutputs, Ends, Verdict
  <2> QED BY <1>0, <1>7, <2>1 DEF CheckOutputs, Ends, HostPcs
<1> QED BY <1>1, <1>2, <1>3, <1>4, <1>5, <1>6, <1>7
    DEF Next, HostStep, ContainerStep, CandidateExits, StopRequested, vars

LEMMA LoopTypes ==
  ASSUME Inv, [Next]_vars
  PROVE  LoopTypeOK'
<1> USE DEF memory, files, loopVars, Running, Ended
<1> DEFINE FinalFile == [epochs: 0..MaxEpochs, size: Nat, stop: StopReasons, weights: 0..MaxEpochs]
<1>0. /\ LoopTypeOK /\ MaxEpochs \in Nat /\ MaxEpochs >= 1 /\ Batches \in Nat /\ Batches >= 1
      /\ manifest \in Nat /\ Progress /\ BestKept /\ AnchorKept
      /\ records \in Seq(Values) /\ metrics \in Seq(Values) /\ Values \subseteq Int
      /\ best \in 0..MaxEpochs /\ epoch \in 0..MaxEpochs
      /\ anchor \in 0..MaxEpochs /\ stale \in 0..MaxEpochs
      /\ failure \in Faults \cup {"none"} /\ stop \in StopReasons
      /\ sentinel \in BOOLEAN /\ timeout \in BOOLEAN /\ policy \in Policies
  BY LoopAssumption DEF Inv, TypeOK, LoopTypeOK
<1>1. CASE UNCHANGED loopVars
  BY <1>0, <1>1 DEF LoopTypeOK
<1>2. CASE Launch
  <2>1. sentinel' \in BOOLEAN
    BY <1>2 DEF Launch
  <2> QED BY <1>0, <1>2, <2>1 DEF Launch, LoopTypeOK
<1>3. CASE BudgetExhausted \/ StopRequested
  BY <1>0, <1>3 DEF BudgetExhausted, StopRequested, RequestStop, Signalled, LoopTypeOK
<1>4. ASSUME NEW n \in Nat, NEW e \in 0..1, Memory(n, e)
      PROVE  /\ size' \in Nat /\ epoch' \in 0..MaxEpochs /\ batch' \in 0..Batches
             /\ records' \in Seq(Values) /\ best' \in 0..MaxEpochs
             /\ anchor' \in 0..MaxEpochs /\ stale' \in 0..MaxEpochs
             /\ timeout' \in BOOLEAN /\ stop' \in StopReasons
  <2>1. records' = <<>> /\ timeout' = FALSE
    BY <1>4 DEF Memory
  <2>2. records' \in Seq(Values)
    BY <2>1
  <2>3. timeout' \in BOOLEAN
    BY <2>1
  <2> QED BY <1>0, <1>4, <2>2, <2>3 DEF Memory, StopReasons
<1>5. CASE GraceExpires \/ CandidateExits \/ (ContainerStep /\ Exit)
  <2>1. /\ pc' \in Ended /\ Memory(0, 0) /\ UNCHANGED <<policy, sentinel, failure, files>>
    BY <1>5 DEF GraceExpires, CandidateExits, Exit, Dies
  <2> QED BY <1>0, <1>4, <2>1 DEF LoopTypeOK
<1>6. ASSUME NEW fault \in Faults, Fail(fault)
      PROVE  LoopTypeOK'
  <2>1. /\ pc' \in Ended /\ Memory(0, 0) /\ failure' = fault
        /\ UNCHANGED <<policy, sentinel, files>>
    BY <1>6 DEF Fail, Dies
  <2> QED BY <1>0, <1>4, <1>6, <2>1 DEF LoopTypeOK
<1>7. CASE Begin(manifest)
  <2>1. /\ pc' = "batch" /\ Memory(manifest, 1) /\ metrics' = <<>>
        /\ UNCHANGED <<policy, sentinel, failure, model, report, final>>
    BY <1>7 DEF Begin
  <2>2. metrics' \in Seq(Values)
    BY <2>1
  <2> QED BY <1>0, <1>4, <2>1, <2>2 DEF LoopTypeOK
<1>8. CASE TrainBatch
  <2>1. batch < Batches /\ batch \in Nat
    BY <1>0, <1>8 DEF TrainBatch, Progress, LoopTypeOK, AtWork, Learning
  <2>2. batch' \in 0..Batches
    BY <1>0, <1>8, <2>1 DEF TrainBatch
  <2>3. pc' \in Running /\ timeout' \in BOOLEAN
    BY <1>0, <1>8 DEF TrainBatch
  <2> QED BY <1>0, <1>8, <2>2, <2>3 DEF TrainBatch, LoopTypeOK
<1>9. ASSUME NEW value \in Values, Validate(value)
      PROVE  LoopTypeOK'
  <2>1. records' \in Seq(Values)
    BY <1>0, <1>9, Appending DEF Validate
  <2>2. best' \in 0..MaxEpochs /\ pc' \in Running
    BY <1>0, <1>9 DEF Validate
  <2> QED BY <1>0, <1>9, <2>1, <2>2 DEF Validate, LoopTypeOK
<1>10. CASE Checkpoint
  <2>1. model' \in File
    BY <1>0, <1>10 DEF Checkpoint, File, LoopTypeOK
  <2> QED BY <1>0, <1>10, <2>1 DEF Checkpoint, LoopTypeOK
<1>11. CASE Record
  <2>1. /\ pc = "record" /\ epoch \in 1..MaxEpochs
        /\ Len(records) = epoch /\ Len(metrics) = epoch - 1
        /\ Anchored
    BY <1>0, <1>11 DEF Record, Progress, AnchorKept, AtWork, Learning, Wrapping, Measured
  <2>2. metrics' \in Seq(Values)
    <3>1. records[epoch] \in Values
      BY <1>0, <2>1
    <3> QED BY <1>0, <1>11, <3>1, Appending DEF Record
  <2>3. anchor' \in 0..MaxEpochs /\ stale' \in 0..MaxEpochs
    <3>1. anchor \in 0..(epoch - 1) /\ stale = epoch - 1 - anchor
      BY <2>1 DEF Anchored
    <3>2. \/ anchor' = anchor /\ stale' = stale
          \/ anchor' = epoch /\ stale' = 0
          \/ anchor' = anchor /\ stale' = stale + 1
      BY <1>11 DEF Record
    <3> QED BY <1>0, <2>1, <3>1, <3>2
  <2>4. /\ pc' \in Running /\ stop' \in StopReasons /\ epoch' \in 0..MaxEpochs
        /\ batch' \in 0..Batches
    <3>1. \/ pc' = "report" /\ stop' \in StopReasons /\ UNCHANGED <<epoch, batch>>
          \/ epoch < MaxEpochs /\ epoch' = epoch + 1 /\ batch' = 0 /\ pc' = "batch" /\ stop' = stop
      BY <1>11 DEF Record, Stops, StopReasons
    <3> QED BY <1>0, <2>1, <3>1 DEF LoopTypeOK
  <2>5. UNCHANGED <<policy, sentinel, size, records, best, timeout, failure, model, report, final>>
    BY <1>11 DEF Record
  <2> QED BY <1>0, <2>2, <2>3, <2>4, <2>5 DEF LoopTypeOK
<1>12. CASE Report
  <2>1. /\ pc = "report" /\ records # <<>> /\ IsBest(policy, records, best)
        /\ size \in Nat
    BY <1>0, <1>12 DEF Report, Progress, BestKept, AtWork, Learning, Wrapping, Measured, LoopTypeOK
  <2>2. report' \in File
    BY <1>0, <1>12, <2>1, BestIsUnique DEF Report, File
  <2> QED BY <1>0, <1>12, <2>2 DEF Report, LoopTypeOK
<1>13. CASE Samples
  BY <1>0, <1>13 DEF Samples, LoopTypeOK
<1>14. CASE Finish
  <2>1. model \in File /\ size \in Nat
    BY <1>0 DEF LoopTypeOK
  <2>2. model.epoch \in 0..MaxEpochs
    BY <2>1 DEF File
  <2>3. final' \in FinalFile
    BY <1>0, <1>14, <2>1, <2>2 DEF Finish
  <2> QED BY <1>0, <1>14, <2>3 DEF Finish, LoopTypeOK
<1>15. CASE SetBatchSize \/ LaunchRefused \/ OperationEnds \/ RetrySmaller \/ RetriesExhausted
              \/ OperationRaised \/ OperationReturned \/ CheckOutputs
  <2>1. UNCHANGED loopVars
    BY <1>15 DEF SetBatchSize, LaunchRefused, OperationEnds, RetrySmaller, RetriesExhausted,
       OperationRaised, OperationReturned, CheckOutputs, Ends
  <2> QED BY <1>1, <2>1
<1>16. CASE HostStep
  BY <1>2, <1>3, <1>5, <1>15, <1>16 DEF HostStep
<1>17. CASE ContainerStep
  BY <1>5, <1>6, <1>7, <1>8, <1>9, <1>10, <1>11, <1>12, <1>13, <1>14, <1>17
  DEF ContainerStep, LoopStep
<1> QED BY <1>1, <1>3, <1>5, <1>16, <1>17 DEF Next, vars

-----------------------------------------------------------------------------
(* The theorems *)

LEMMA InvStep == Inv /\ [Next]_vars => Inv'
<1> SUFFICES ASSUME Inv, [Next]_vars PROVE Inv'
  OBVIOUS
<1>1. TypeOK'
  BY HostTypes, LoopTypes DEF TypeOK
<1> QED BY <1>1, ProgressStep, BestKeptStep, AnchorKeptStep, SizesKeptStep, FilesKeptStep DEF Inv

LEMMA Invariant == Spec => []Inv
<1>1. Init => Inv
  BY InitInv
<1>2. Inv /\ [Next]_vars => Inv'
  BY InvStep
<1> QED BY <1>1, <1>2, PTL DEF Spec

\* Types: the loop's counters stay within max_epochs, the sizes stay positive however
\* often they are halved, and no more attempts are recorded than one over the limit.
THEOREM TypeCorrect == Spec => []TypeOK
<1>1. Inv => TypeOK
  BY DEF Inv
<1> QED BY <1>1, Invariant, PTL

LEMMA AnchorJustifies ==
  ASSUME Inv
  PROVE  EarlyStopIsJustified
<1>0. /\ AnchorKept /\ Progress /\ policy.patience \in Nat /\ policy.patience >= 1
      /\ metrics \in Seq(Values) /\ records \in Seq(Values)
  BY LoopAssumption DEF Inv, TypeOK, LoopTypeOK
<1>1. ASSUME stop = "early_stopping"
      PROVE  /\ EarlierEpochs(records) # {}
             /\ \A n \in LastEpochs(records) : \E m \in EarlierEpochs(records) :
                  ~Improves(policy, records[n], records[m])
  <2>1. /\ pc \in Wrapping /\ Anchored /\ stale >= policy.patience
        /\ epoch \in Nat /\ epoch >= 1 /\ Len(metrics) = epoch /\ Len(records) = epoch
        /\ \A n \in 1..Len(metrics) : metrics[n] = records[n]
    BY <1>0, <1>1 DEF AnchorKept, Progress, AtWork, Wrapping, Learning, Measured
  <2>2. anchor \in 1..(epoch - policy.patience)
    BY <1>0, <2>1 DEF Anchored
  <2>3. anchor \in EarlierEpochs(records)
    BY <2>1, <2>2 DEF EarlierEpochs
  <2>4. ASSUME NEW n \in LastEpochs(records)
        PROVE  ~Improves(policy, records[n], records[anchor])
    <3>1. n \in 1..Len(metrics) /\ anchor < n /\ anchor \in 1..Len(metrics)
      BY <1>0, <2>1, <2>2 DEF LastEpochs
    <3>2. ~Improves(policy, metrics[n], metrics[anchor])
      BY <2>1, <3>1 DEF Anchored
    <3> QED BY <2>1, <3>1, <3>2
  <2> QED BY <2>3, <2>4
<1>2. ASSUME policy.enabled, pc = "batch", Len(metrics) > policy.patience
      PROVE  \E n \in LastEpochs(metrics) : \A m \in EarlierEpochs(metrics) :
               Better(policy, metrics[n], metrics[m])
  <2>1. Anchored /\ stale < policy.patience
    BY <1>0, <1>2 DEF AnchorKept, Learning
  <2>2. /\ anchor \in LastEpochs(metrics)
        /\ \A m \in EarlierEpochs(metrics) : m \in 1..Len(metrics) /\ m < anchor
    BY <1>0, <1>2, <2>1 DEF Anchored, LastEpochs, EarlierEpochs
  <2>3. \A m \in EarlierEpochs(metrics) : Better(policy, metrics[anchor], metrics[m])
    BY <2>1, <2>2 DEF Anchored
  <2> QED BY <2>2, <2>3
<1> QED BY <1>1, <1>2 DEF EarlyStopIsJustified

\* Early stopping happens when the contract says so, and not later: for every patience,
\* min_delta and sequence of metric values, the last "patience" epochs bring no
\* improvement when training stops early, and one of them does while it goes on.
THEOREM EarlyStopping == Spec => []EarlyStopIsJustified
<1>1. Inv => EarlyStopIsJustified
  BY AnchorJustifies
<1> QED BY <1>1, Invariant, PTL

\* The attempts of a Run shrink strictly and the manifest has the size of the latest,
\* for every limit on retries and every requested size.
THEOREM Retries == Spec => []RetriesHalve
<1>1. Inv => RetriesHalve
  BY DEF Inv, SizesKept, RetriesHalve
<1> QED BY <1>1, Invariant, PTL

\* The files of a completed Run are those of its last attempt and agree on the best
\* epoch, whatever earlier attempts left behind.
THEOREM Outputs == Spec => []CompletedOutputsAgree
<1>1. Inv => CompletedOutputsAgree
  <2> SUFFICES ASSUME Inv, verdict.status = "completed", backend # "timed" \/ attempts = <<>>
               PROVE  FilesAgree
    BY DEF CompletedOutputsAgree, FilesAgree
  <2>1. final # MissingFinal
    BY DEF Inv, SizesKept, OutputsValid
  <2> QED BY <2>1 DEF Inv, FilesKept
<1> QED BY <1>1, Invariant, PTL

-----------------------------------------------------------------------------
(* The host runs out of steps *)

\* The place of the host within an attempt.
Rank == IF host = "set" THEN 7 ELSE IF host = "launch" THEN 6 ELSE IF host = "running" THEN 5
        ELSE IF host = "grace" THEN 4 ELSE IF host = "judge" THEN 3
        ELSE IF host = "check" THEN 2 ELSE IF host = "done" THEN 0 ELSE 1

\* What is left to the host: a retry costs an attempt, and the way from one retry to
\* the next is shorter than an attempt is worth.
HostSteps == 8 * (MaxRetries + 1 - Len(attempts)) + Rank

\* Every step of the host leaves it fewer steps to take.
HostAdvances == [][HostStep => HostSteps' \in Nat /\ HostSteps' < HostSteps]_vars

LEMMA HostStepCosts ==
  ASSUME TypeOK, TypeOK', HostStep
  PROVE  HostSteps' \in Nat /\ HostSteps' < HostSteps
<1>0. /\ MaxRetries \in Nat /\ attempts \in Seq(Nat \ {0}) /\ effective \in Nat \ {0}
      /\ Len(attempts) \in Nat /\ Len(attempts') \in Nat /\ Len(attempts') <= MaxRetries + 1
  BY AttemptsAssumption DEF TypeOK
<1>1. Rank \in 0..7 /\ Rank' \in 0..7
  BY DEF Rank
<1>2. CASE Len(attempts') = Len(attempts) /\ Rank' < Rank
  BY <1>0, <1>1, <1>2 DEF HostSteps
<1>3. CASE Len(attempts') = Len(attempts) + 1 /\ Rank' <= Rank + 4
  BY <1>0, <1>1, <1>3 DEF HostSteps
<1>4. CASE SetBatchSize \/ Launch \/ LaunchRefused \/ BudgetExhausted
  <2>1. attempts' = attempts /\ Rank' < Rank
    BY <1>4 DEF SetBatchSize, Launch, LaunchRefused, BudgetExhausted, Rank
  <2> QED BY <1>2, <2>1
<1>5. CASE GraceExpires \/ OperationEnds \/ OperationReturned
  <2>1. attempts' = attempts /\ Rank' < Rank
    BY <1>5 DEF GraceExpires, OperationEnds, OperationReturned, Rank
  <2> QED BY <1>2, <2>1
<1>6. CASE OperationRaised \/ CheckOutputs
  <2>1. attempts' = attempts /\ Rank' < Rank
    BY <1>6 DEF OperationRaised, CheckOutputs, Ends, Rank
  <2> QED BY <1>2, <2>1
<1>7. CASE RetrySmaller \/ RetriesExhausted
  <2>1. attempts' = Append(attempts, effective) /\ Rank' <= Rank + 4
    BY <1>7 DEF RetrySmaller, RetriesExhausted, Ends, Rank
  <2>2. Len(attempts') = Len(attempts) + 1
    BY <1>0, <2>1
  <2> QED BY <1>3, <2>1, <2>2
<1> QED BY <1>4, <1>5, <1>6, <1>7 DEF HostStep

\* The host decides a Run within 8 * (MaxRetries + 1) + 7 steps of its own, whatever its
\* containers do: a budget that expires, a retry or a refusal always brings it closer
\* to its verdict.  With the fairness of LiveSpec this is why BudgetEndsTraining holds.
THEOREM HostIsDecided == Spec => HostAdvances
<1>1. Inv /\ Inv' /\ [Next]_vars
        => [HostStep => HostSteps' \in Nat /\ HostSteps' < HostSteps]_vars
  BY HostStepCosts DEF Inv
<1> QED BY <1>1, Invariant, PTL DEF Spec, HostAdvances
====
