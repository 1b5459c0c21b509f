-------------------------- MODULE HandoffIngestion --------------------------
(***************************************************************************)
(* Agent Handoff Ingestion (agent_handoffs.py): one un-ingested artifact   *)
(* of the Agent Workspace is validated, copied to canonical state, listed  *)
(* in EXPERIMENT_INDEX.md, recorded in the Research Ledger, and marked.    *)
(* The steps are separate writes; nothing locks two ingesting processes    *)
(* out of each other except that a directory is created by one of them.    *)
(*                                                                         *)
(* Module AutonomousIteration extends this one with the commands that call *)
(* collect_agent_handoff.                                                  *)
(***************************************************************************)
EXTENDS Naturals, FiniteSets

CONSTANTS
  Sessions,                                 \* processes that ingest
  Candidates, Batches, Evaluations,         \* artifacts of each handoff type
  Notes, CapabilityRequests, Reports,
  NoArtifact,
  MaxKills                                  \* bound on the processes killed

Artifacts == Candidates \cup Batches \cup Evaluations \cup Notes
             \cup CapabilityRequests \cup Reports

\* Submissions are directories: copytree fails if the destination exists,
\* copy2 overwrites it.
Submissions == Candidates \cup Batches
Indexed == Candidates \cup Notes
Announced == Notes \cup CapabilityRequests \cup Reports

ASSUME NoArtifactIsNew == NoArtifact \notin Artifacts
ASSUME KillBound == MaxKills \in Nat
ASSUME FilesAreNotSubmissions ==
  Submissions \cap (Evaluations \cup Notes \cup CapabilityRequests \cup Reports) = {}

VARIABLES
  workspace,       \* each artifact: absent, present, or present and marked
  canonical,       \* the canonical copy of each artifact
  indexFile,       \* EXPERIMENT_INDEX.md exists
  indexed,         \* artifacts the index names
  handoffEvents,   \* number of agent_handoff_ingested events of each artifact
  artifactEvents,  \* number of research_note_written, ... events of each
  ingest,          \* the ingestion each process is in, or how its last ended
  kills

ingestionVars == <<workspace, canonical, indexFile, indexed, handoffEvents,
                   artifactEvents, ingest, kills>>

IngestPcs == {"idle", "discover", "check", "copy", "copying", "index", "record",
              "announce", "mark"}
IngestStatus == {"none", "ingested", "no_handoff", "ingestion_failed", "raised"}
Ingestion == [pc : IngestPcs, artifact : Artifacts \cup {NoArtifact},
              status : IngestStatus]

HandoffType(a) ==
  CASE a \in Candidates -> "candidate_submission"
    [] a \in Batches -> "experiment_batch_submission"
    [] a \in Evaluations -> "evaluation_request"
    [] a \in Notes -> "research_note"
    [] a \in CapabilityRequests -> "capability_request"
    [] a \in Reports -> "campaign_report"
    [] OTHER -> "none"

Stage(pc, a, status) == [pc |-> pc, artifact |-> a, status |-> status]
Resting(status) == Stage("idle", NoArtifact, status)

IngestionInit ==
  /\ workspace = [a \in Artifacts |-> "absent"]
  /\ canonical = [a \in Artifacts |-> "none"]
  /\ indexFile \in BOOLEAN
  /\ indexed = {}
  /\ handoffEvents = [a \in Artifacts |-> 0]
  /\ artifactEvents = [a \in Artifacts |-> 0]
  /\ ingest = [s \in Sessions |-> Resting("none")]
  /\ kills = 0

-----------------------------------------------------------------------------
\* _discover_uningested_primary_handoffs: no valid marker beside it.
Uningested == {a \in Artifacts : workspace[a] = "present"}

To(s, pc) == ingest' = [ingest EXCEPT ![s].pc = pc]
Returns(s, status) == ingest' = [ingest EXCEPT ![s] = Resting(status)]
At(s, pc) == ingest[s].pc = pc
Artifact(s) == ingest[s].artifact

\* The agent, or a person, leaves artifacts in the workspace.
Write(written) ==
  /\ \A a \in written : workspace[a] = "absent"
  /\ workspace' = [a \in Artifacts |-> IF a \in written THEN "present" ELSE workspace[a]]

\* The operator resolves the workspace by hand; no ingestion is going on.
Discard(a) ==
  /\ workspace[a] = "present"
  /\ \A s \in Sessions : At(s, "idle")
  /\ workspace' = [workspace EXCEPT ![a] = "absent"]
  /\ UNCHANGED <<canonical, indexFile, indexed, handoffEvents, artifactEvents, ingest, kills>>

Begin(s) ==
  /\ At(s, "idle")
  /\ ingest' = [ingest EXCEPT ![s] = Stage("discover", NoArtifact, "none")]
  /\ UNCHANGED <<workspace, canonical, indexFile, indexed, handoffEvents, artifactEvents, kills>>

\* collect_agent_handoff: exactly one artifact of exactly one type.
Discover(s) ==
  /\ At(s, "discover")
  /\ \/ Uningested = {} /\ Returns(s, "no_handoff")
     \/ Cardinality(Uningested) > 1 /\ Returns(s, "ingestion_failed")
     \/ \E a \in Artifacts :
          /\ Uningested = {a}
          /\ ingest' = [ingest EXCEPT ![s] = Stage("check", a, "none")]
  /\ UNCHANGED <<workspace, canonical, indexFile, indexed, handoffEvents, artifactEvents, kills>>

\* Mutant: a canonical copy that exists is taken for an earlier attempt's, and
\* only the rest of the ingestion is done again.
CheckResumes(s) ==
  /\ At(s, "check")
  /\ LET same == {a \in Uningested : HandoffType(a) = HandoffType(Artifact(s))} IN
       \/ Cardinality(same) # 1 /\ Returns(s, "ingestion_failed")
       \/ Returns(s, "ingestion_failed")
       \/ \E a \in same :
            /\ same = {a}
            /\ canonical[a] = "none"
            /\ ingest' = [ingest EXCEPT ![s] = Stage("copy", a, "none")]
       \/ \E a \in same :
            /\ same = {a}
            /\ canonical[a] # "none"
            /\ ingest' = [ingest EXCEPT ![s] = Stage("record", a, "none")]
  /\ UNCHANGED <<workspace, canonical, indexFile, indexed, handoffEvents, artifactEvents, kills>>

\* The ingest_* function looks again, refuses a canonical copy that exists,
\* and validates; the artifact may be invalid.  For a submission it loads the
\* Workspace Configuration first, and an error of that passes through the caller.
Check(s) ==
  /\ At(s, "check")
  /\ LET same == {a \in Uningested : HandoffType(a) = HandoffType(Artifact(s))} IN
       \/ Cardinality(same) # 1 /\ Returns(s, "ingestion_failed")
       \/ Returns(s, "ingestion_failed")
       \/ \E a \in same :
            /\ same = {a}
            /\ canonical[a] = "none"
            /\ \/ ingest' = [ingest EXCEPT ![s] = Stage("copy", a, "none")]
               \/ a \in Submissions /\ Returns(s, "raised")
  /\ UNCHANGED <<workspace, canonical, indexFile, indexed, handoffEvents, artifactEvents, kills>>

\* copytree creates the directory or raises FileExistsError, which no caller
\* turns into a failed ingestion; copy2 opens the file in either case.
Copy(s) ==
  /\ At(s, "copy")
  /\ \/ /\ Artifact(s) \in Submissions => canonical[Artifact(s)] = "none"
        /\ canonical' = [canonical EXCEPT ![Artifact(s)] = "partial"]
        /\ To(s, "copying")
     \/ /\ Artifact(s) \in Submissions
        /\ canonical[Artifact(s)] # "none"
        /\ Returns(s, "raised")
        /\ UNCHANGED canonical
  /\ UNCHANGED <<workspace, indexFile, indexed, handoffEvents, artifactEvents, kills>>

CopyEnds(s) ==
  /\ At(s, "copying")
  /\ canonical' = [canonical EXCEPT ![Artifact(s)] = "whole"]
  /\ To(s, IF Artifact(s) \in Indexed THEN "index" ELSE "record")
  /\ UNCHANGED <<workspace, indexFile, indexed, handoffEvents, artifactEvents, kills>>

\* A missing index is noticed after the copy was made.
Index(s) ==
  /\ At(s, "index")
  /\ \/ indexFile /\ indexed' = indexed \cup {Artifact(s)} /\ To(s, "record")
     \/ ~indexFile /\ Returns(s, "ingestion_failed") /\ UNCHANGED indexed
  /\ UNCHANGED <<workspace, canonical, indexFile, handoffEvents, artifactEvents, kills>>

\* Mutant: the second event is forgotten.
RecordOnce(s) ==
  /\ At(s, "record")
  /\ handoffEvents' = [handoffEvents EXCEPT ![Artifact(s)] = @ + 1]
  /\ To(s, "mark")
  /\ UNCHANGED <<workspace, canonical, indexFile, indexed, artifactEvents, kills>>

\* agent_handoff_ingested, the event that recovery goes by.
Record(s) ==
  /\ At(s, "record")
  /\ handoffEvents' = [handoffEvents EXCEPT ![Artifact(s)] = @ + 1]
  /\ To(s, IF Artifact(s) \in Announced THEN "announce" ELSE "mark")
  /\ UNCHANGED <<workspace, canonical, indexFile, indexed, artifactEvents, kills>>

Announce(s) ==
  /\ At(s, "announce")
  /\ artifactEvents' = [artifactEvents EXCEPT ![Artifact(s)] = @ + 1]
  /\ To(s, "mark")
  /\ UNCHANGED <<workspace, canonical, indexFile, indexed, handoffEvents, kills>>

\* The marker is written last; the caller gets the artifact that was ingested.
Mark(s) ==
  /\ At(s, "mark")
  /\ workspace' = [workspace EXCEPT ![Artifact(s)] = "marked"]
  /\ ingest' = [ingest EXCEPT ![s] = Stage("idle", Artifact(s), "ingested")]
  /\ UNCHANGED <<canonical, indexFile, indexed, handoffEvents, artifactEvents, kills>>

IngestStep(s) ==
  \/ Discover(s) \/ Check(s) \/ Copy(s) \/ CopyEnds(s) \/ Index(s)
  \/ Record(s) \/ Announce(s) \/ Mark(s)

\* A killed process leaves every write it made.
Kill(s) ==
  /\ kills < MaxKills
  /\ kills' = kills + 1
  /\ Returns(s, "none")
  /\ UNCHANGED <<workspace, canonical, indexFile, indexed, handoffEvents, artifactEvents>>

IngestionNext ==
  \/ \E s \in Sessions : Begin(s) \/ IngestStep(s) \/ Kill(s)
  \/ \E a \in Artifacts : Discard(a)
  \/ /\ \E written \in SUBSET Artifacts : Write(written)
     /\ UNCHANGED <<canonical, indexFile, indexed, handoffEvents, artifactEvents, ingest, kills>>

IngestionSpec == IngestionInit /\ [][IngestionNext]_ingestionVars

-----------------------------------------------------------------------------
\* Type invariant.
IngestionTypeOK ==
  /\ workspace \in [Artifacts -> {"absent", "present", "marked"}]
  /\ canonical \in [Artifacts -> {"none", "partial", "whole"}]
  /\ indexFile \in BOOLEAN
  /\ indexed \subseteq Artifacts
  /\ handoffEvents \in [Artifacts -> Nat]
  /\ artifactEvents \in [Artifacts -> Nat]
  /\ ingest \in [Sessions -> Ingestion]
  /\ \A s \in Sessions : ~At(s, "idle") /\ ~At(s, "discover") => Artifact(s) \in Artifacts
  /\ kills \in 0..MaxKills

\* A Candidate or batch submission is recorded as ingested at most once: every
\* agent_handoff_ingested event is an action that recovery executes.
SubmissionIngestedOnce == \A a \in Submissions : handoffEvents[a] <= 1

\* A submission the ledger calls ingested is complete in canonical state,
\* whatever is killed and retried: copied, listed, and only then recorded.
RecordedIsComplete ==
  \A a \in Submissions :
    handoffEvents[a] > 0 => canonical[a] = "whole" /\ (a \in Indexed => a \in indexed)

\* A marked artifact is never looked at again, so nothing of its ingestion may
\* be missing: the marker is written only after canonical state is updated.
MarkedIsRecorded ==
  \A a \in Artifacts :
    workspace[a] = "marked" =>
      handoffEvents[a] > 0 /\ (a \in Announced => artifactEvents[a] > 0)
=============================================================================
