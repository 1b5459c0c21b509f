------------------------ MODULE HandoffIngestionProofs ------------------------
(***************************************************************************)
(* Proofs about HandoffIngestion, for any number of ingesting processes    *)
(* and artifacts and any number of kills.  The inductive invariant is      *)
(* IngestionTypeOK together with OneCopier, for submissions, and Progress, *)
(* for all artifacts: the creation of the canonical directory decides      *)
(* between processes that chose the same submission, and what a process    *)
(* has written can be read off how far it is.                              *)
(***************************************************************************)
EXTENDS HandoffIngestion, FiniteSetTheorems, TLAPS

\* Session s is ingesting artifact a and is at one of the pcs.
Ingests(s, a, pcs) == ingest[s].artifact = a /\ ingest[s].pc \in pcs

\* At most one process has created the canonical directory of a submission and
\* not yet recorded it; an event needs a directory.
CopierOf(a) ==
  /\ canonical[a] = "none" => handoffEvents[a] = 0
  /\ handoffEvents[a] <= 1
  /\ handoffEvents[a] > 0 => canonical[a] = "whole" /\ (a \in Indexed => a \in indexed)
  /\ \A s \in Sessions :
       /\ Ingests(s, a, {"copying", "index", "record"}) =>
            canonical[a] # "none" /\ handoffEvents[a] = 0
       /\ Ingests(s, a, {"index", "record"}) => canonical[a] = "whole"
       /\ Ingests(s, a, {"record"}) => (a \in Indexed => a \in indexed)
       /\ \A t \in Sessions :
            /\ Ingests(s, a, {"copying", "index", "record"})
            /\ Ingests(t, a, {"copying", "index", "record"})
            => s = t

OneCopier == \A a \in Submissions : CopierOf(a)

\* A process past an event has appended it, and so has whoever marked.
Progress ==
  \A a \in Artifacts :
    /\ workspace[a] = "marked" =>
         handoffEvents[a] > 0 /\ (a \in Announced => artifactEvents[a] > 0)
    /\ \A s \in Sessions :
         /\ Ingests(s, a, {"announce", "mark"}) => handoffEvents[a] > 0
         /\ Ingests(s, a, {"mark"}) => (a \in Announced => artifactEvents[a] > 0)

IngestionInv == IngestionTypeOK /\ OneCopier /\ Progress

\* The initial state has no ingestion and no event.
LEMMA IngestionInitInv == IngestionInit => IngestionInv
<1> SUFFICES ASSUME IngestionInit PROVE IngestionInv
  OBVIOUS
<1>1. IngestionTypeOK
  BY KillBound DEF IngestionInit, IngestionTypeOK, Stage, Resting, Ingestion, IngestPcs, IngestStatus, At
<1>2. OneCopier
  BY DEF IngestionInit, OneCopier, CopierOf, Ingests, Stage, Resting, Submissions, Artifacts
<1>3. Progress
  BY DEF IngestionInit, Progress, Ingests, Stage, Resting
<1> QED BY <1>1, <1>2, <1>3 DEF IngestionInv

\* Every step keeps the types.
LEMMA IngestionTypeStep ==
  ASSUME IngestionTypeOK, [IngestionNext]_ingestionVars
  PROVE  IngestionTypeOK'
<1> USE DEF IngestionTypeOK, Ingestion, IngestPcs, IngestStatus, At, Artifact, To, Returns, Stage, Resting
<1>1. ASSUME NEW s \in Sessions, Begin(s) PROVE IngestionTypeOK'
  BY <1>1 DEF Begin
<1>2. ASSUME NEW s \in Sessions, Discover(s) PROVE IngestionTypeOK'
  BY <1>2 DEF Discover
<1>3. ASSUME NEW s \in Sessions, Check(s) PROVE IngestionTypeOK'
  <2>1. \/ Returns(s, "ingestion_failed") \/ Returns(s, "raised")
        \/ \E a \in Artifacts :
             ingest' = [ingest EXCEPT ![s] = Stage("copy", a, "none")]
    BY <1>3 DEF Check, Uningested
  <2> QED BY <1>3, <2>1 DEF Check
<1>4. ASSUME NEW s \in Sessions, Copy(s) PROVE IngestionTypeOK'
  BY <1>4 DEF Copy
<1>5. ASSUME NEW s \in Sessions, CopyEnds(s) PROVE IngestionTypeOK'
  BY <1>5 DEF CopyEnds
<1>6. ASSUME NEW s \in Sessions, Index(s) PROVE IngestionTypeOK'
  BY <1>6 DEF Index
<1>7. ASSUME NEW s \in Sessions, Record(s) PROVE IngestionTypeOK'
  BY <1>7 DEF Record
<1>8. ASSUME NEW s \in Sessions, Announce(s) PROVE IngestionTypeOK'
  BY <1>8 DEF Announce
<1>9. ASSUME NEW s \in Sessions, Mark(s) PROVE IngestionTypeOK'
  BY <1>9 DEF Mark
<1>10. ASSUME NEW s \in Sessions, Kill(s) PROVE IngestionTypeOK'
  BY <1>10, KillBound DEF Kill
<1>11. ASSUME NEW a \in Artifacts, Discard(a) PROVE IngestionTypeOK'
  BY <1>11 DEF Discard
<1>12. ASSUME NEW written \in SUBSET Artifacts, Write(written),
              UNCHANGED <<canonical, indexFile, indexed, handoffEvents,
                          artifactEvents, ingest, kills>>
       PROVE  IngestionTypeOK'
  BY <1>12 DEF Write
<1>13. CASE UNCHANGED ingestionVars
  BY <1>13 DEF ingestionVars
<1> QED
  BY <1>1, <1>2, <1>3, <1>4, <1>5, <1>6, <1>7, <1>8, <1>9, <1>10, <1>11, <1>12, <1>13
  DEF IngestionNext, IngestStep

\* A session that leaves the copiers, or was never one, disturbs none.
LEMMA CopierKept ==
  ASSUME NEW a \in Submissions, CopierOf(a), NEW s \in Sessions,
         UNCHANGED <<canonical, handoffEvents, indexed>>,
         \A t \in Sessions : t # s => ingest'[t] = ingest[t],
         ingest'[s].pc \notin {"copying", "index", "record"}
  PROVE  CopierOf(a)'
  BY DEF CopierOf, Ingests

\* Every step leaves at most one copier of a submission and at most one event.
LEMMA OneCopierStep ==
  ASSUME IngestionInv, IngestionTypeOK', [IngestionNext]_ingestionVars
  PROVE  OneCopier'
<1> SUFFICES ASSUME NEW a \in Submissions PROVE CopierOf(a)'
  BY DEF OneCopier
<1>a. CopierOf(a) /\ IngestionTypeOK /\ a \in Artifacts
  BY DEF IngestionInv, OneCopier, Submissions, Artifacts
<1> USE DEF IngestionTypeOK, Ingestion, CopierOf, Ingests, At, Artifact
<1>1. ASSUME NEW s \in Sessions, Begin(s) PROVE CopierOf(a)'
  <2>1. \A t \in Sessions : t # s => ingest'[t] = ingest[t]
    BY <1>1 DEF Begin
  <2>2. ingest'[s].pc = "discover"
    BY <1>a, <1>1 DEF Begin, Stage
  <2> QED BY <1>a, <1>1, <2>1, <2>2, CopierKept DEF Begin
<1>2. ASSUME NEW s \in Sessions, Discover(s) PROVE CopierOf(a)'
  <2>1. \A t \in Sessions : t # s => ingest'[t] = ingest[t]
    BY <1>2 DEF Discover, Returns
  <2>2. ingest'[s].pc \in {"idle", "check"}
    BY <1>a, <1>2 DEF Discover, Returns, Resting, Stage
  <2> QED BY <1>a, <1>2, <2>1, <2>2, CopierKept DEF Discover
<1>3. ASSUME NEW s \in Sessions, Check(s) PROVE CopierOf(a)'
  <2>1. \A t \in Sessions : t # s => ingest'[t] = ingest[t]
    BY <1>3 DEF Check, Returns
  <2>2. ingest'[s].pc \in {"idle", "copy"}
    BY <1>a, <1>3 DEF Check, Returns, Resting, Stage
  <2>3. UNCHANGED <<canonical, handoffEvents, indexed>>
    BY <1>3 DEF Check
  <2> QED BY <1>a, <2>1, <2>2, <2>3, CopierKept
<1>4. ASSUME NEW s \in Sessions, Copy(s) PROVE CopierOf(a)'
  <2>1. \A t \in Sessions : t # s => ingest'[t] = ingest[t]
    BY <1>4 DEF Copy, To, Returns
  <2>2. CASE To(s, "copying")
    <3>1. ingest'[s].pc = "copying" /\ ingest'[s].artifact = ingest[s].artifact
      BY <1>a, <2>2 DEF To
    <3>2. ingest[s].artifact \in Submissions => canonical[ingest[s].artifact] = "none"
      BY <1>a, <1>4, <2>2, <3>1 DEF Copy, Returns, Resting, Stage
    <3>3. canonical' = [canonical EXCEPT ![ingest[s].artifact] = "partial"]
      BY <1>a, <1>4, <2>2, <3>1 DEF Copy, Returns, Resting, Stage
    <3>4. ingest[s].artifact \in Artifacts
      BY <1>a, <1>4 DEF Copy
    <3>5. CASE a = ingest[s].artifact
      BY <1>a, <1>4, <2>1, <3>1, <3>2, <3>3, <3>4, <3>5 DEF Copy
    <3>6. CASE a # ingest[s].artifact
      BY <1>a, <1>4, <2>1, <3>1, <3>3, <3>4, <3>6 DEF Copy
    <3> QED BY <3>5, <3>6
  <2>3. CASE Returns(s, "raised") /\ UNCHANGED canonical
    <3>1. ingest'[s].pc = "idle"
      BY <1>a, <2>3 DEF Returns, Resting, Stage
    <3>2. UNCHANGED <<canonical, handoffEvents, indexed>>
      BY <1>4, <2>3 DEF Copy
    <3> QED BY <1>a, <2>1, <3>1, <3>2, CopierKept
  <2> QED BY <1>4, <2>2, <2>3 DEF Copy
<1>5. ASSUME NEW s \in Sessions, CopyEnds(s) PROVE CopierOf(a)'
  <2>1. \A t \in Sessions : t # s => ingest'[t] = ingest[t]
    BY <1>5 DEF CopyEnds, To
  <2>2. /\ ingest'[s].artifact = ingest[s].artifact
        /\ ingest'[s].pc = IF ingest[s].artifact \in Indexed THEN "index" ELSE "record"
    BY <1>a, <1>5 DEF CopyEnds, To
  <2>3. ingest[s].artifact \in Artifacts /\ ingest[s].pc = "copying"
    BY <1>a, <1>5 DEF CopyEnds
  <2>4. canonical' = [canonical EXCEPT ![ingest[s].artifact] = "whole"]
    BY <1>5 DEF CopyEnds
  <2>5. UNCHANGED <<handoffEvents, indexed>>
    BY <1>5 DEF CopyEnds
  <2>6. CASE a = ingest[s].artifact
    <3>1. /\ canonical'[a] = "whole" /\ handoffEvents'[a] = 0
      BY <1>a, <2>3, <2>4, <2>5, <2>6
    <3>2. \A t \in Sessions : Ingests(t, a, {"copying", "index", "record"}) => t = s
      BY <1>a, <2>3, <2>6
    <3>3. \A t \in Sessions : Ingests(t, a, {"copying", "index", "record"})' => t = s
      BY <2>1, <3>2
    <3>4. Ingests(s, a, {"record"})' => a \notin Indexed
      BY <2>2, <2>6
    <3> QED BY <3>1, <3>3, <3>4
  <2>7. CASE a # ingest[s].artifact
    <3>1. canonical'[a] = canonical[a]
      BY <1>a, <2>3, <2>4, <2>7
    <3>2. ~Ingests(s, a, {"copying", "index", "record"})'
      BY <2>2, <2>7
    <3> QED BY <1>a, <2>1, <2>5, <3>1, <3>2
  <2> QED BY <2>6, <2>7
<1>6. ASSUME NEW s \in Sessions, Index(s) PROVE CopierOf(a)'
  <2>1. \A t \in Sessions : t # s => ingest'[t] = ingest[t]
    BY <1>6 DEF Index, To, Returns
  <2>2. CASE indexed' = indexed \cup {Artifact(s)} /\ To(s, "record")
    <3>1. ingest'[s].artifact = ingest[s].artifact /\ ingest'[s].pc = "record"
      BY <1>a, <2>2 DEF To
    <3> QED BY <1>a, <1>6, <2>1, <2>2, <3>1 DEF Index
  <2>3. CASE Returns(s, "ingestion_failed") /\ UNCHANGED indexed
    <3>1. ingest'[s].pc = "idle"
      BY <1>a, <2>3 DEF Returns, Resting, Stage
    <3>2. UNCHANGED <<canonical, handoffEvents, indexed>>
      BY <1>6, <2>3 DEF Index
    <3> QED BY <1>a, <2>1, <3>1, <3>2, CopierKept
  <2> QED BY <1>6, <2>2, <2>3 DEF Index
<1>7. ASSUME NEW s \in Sessions, Record(s) PROVE CopierOf(a)'
  <2>1. \A t \in Sessions : t # s => ingest'[t] = ingest[t]
    BY <1>7 DEF Record, To
  <2>2. ingest'[s].artifact = ingest[s].artifact /\ ingest'[s].pc \in {"announce", "mark"}
    BY <1>a, <1>7 DEF Record, To
  <2> QED BY <1>a, <1>7, <2>1, <2>2 DEF Record
<1>8. ASSUME NEW s \in Sessions, Announce(s) PROVE CopierOf(a)'
  <2>1. \A t \in Sessions : t # s => ingest'[t] = ingest[t]
    BY <1>8 DEF Announce, To
  <2>2. ingest'[s].pc = "mark"
    BY <1>a, <1>8 DEF Announce, To
  <2> QED BY <1>a, <1>8, <2>1, <2>2, CopierKept DEF Announce
<1>9. ASSUME NEW s \in Sessions, Mark(s) PROVE CopierOf(a)'
  <2>1. \A t \in Sessions : t # s => ingest'[t] = ingest[t]
    BY <1>9 DEF Mark
  <2>2. ingest'[s].pc = "idle"
    BY <1>a, <1>9 DEF Mark, Stage
  <2> QED BY <1>a, <1>9, <2>1, <2>2, CopierKept DEF Mark
<1>10. ASSUME NEW s \in Sessions, Kill(s) PROVE CopierOf(a)'
  <2>1. \A t \in Sessions : t # s => ingest'[t] = ingest[t]
    BY <1>10 DEF Kill, Returns
  <2>2. ingest'[s].pc = "idle"
    BY <1>a, <1>10 DEF Kill, Returns, Resting, Stage
  <2> QED BY <1>a, <1>10, <2>1, <2>2, CopierKept DEF Kill
<1>11. ASSUME NEW b \in Artifacts, Discard(b) PROVE CopierOf(a)'
  BY <1>a, <1>11 DEF Discard
<1>12. CASE UNCHANGED <<canonical, indexFile, indexed, handoffEvents,
                        artifactEvents, ingest, kills>>
  BY <1>a, <1>12
<1>13. CASE UNCHANGED ingestionVars
  BY <1>a, <1>13 DEF ingestionVars
<1> QED
  BY <1>1, <1>2, <1>3, <1>4, <1>5, <1>6, <1>7, <1>8, <1>9, <1>10, <1>11, <1>12, <1>13
  DEF IngestionNext, IngestStep

\* Every step keeps what can be read off a process's place.
LEMMA ProgressStep ==
  ASSUME IngestionInv, IngestionTypeOK', [IngestionNext]_ingestionVars
  PROVE  Progress'
<1> USE DEF IngestionInv, IngestionTypeOK, Ingestion, Progress, Ingests, At, Artifact,
            To, Returns, Stage, Resting
<1>1. ASSUME NEW s \in Sessions, Begin(s) PROVE Progress'
  BY <1>1 DEF Begin
<1>2. ASSUME NEW s \in Sessions, Discover(s) PROVE Progress'
  BY <1>2 DEF Discover
<1>3. ASSUME NEW s \in Sessions, Check(s) PROVE Progress'
  BY <1>3 DEF Check
<1>4. ASSUME NEW s \in Sessions, Copy(s) PROVE Progress'
  BY <1>4 DEF Copy
<1>5. ASSUME NEW s \in Sessions, CopyEnds(s) PROVE Progress'
  BY <1>5 DEF CopyEnds
<1>6. ASSUME NEW s \in Sessions, Index(s) PROVE Progress'
  BY <1>6 DEF Index
<1>7. ASSUME NEW s \in Sessions, Record(s) PROVE Progress'
  BY <1>7 DEF Record
<1>8. ASSUME NEW s \in Sessions, Announce(s) PROVE Progress'
  BY <1>8 DEF Announce
<1>9. ASSUME NEW s \in Sessions, Mark(s) PROVE Progress'
  BY <1>9 DEF Mark
<1>10. ASSUME NEW s \in Sessions, Kill(s) PROVE Progress'
  BY <1>10 DEF Kill
<1>11. ASSUME NEW a \in Artifacts, Discard(a) PROVE Progress'
  BY <1>11 DEF Discard
<1>12. ASSUME NEW written \in SUBSET Artifacts, Write(written),
              UNCHANGED <<canonical, indexFile, indexed, handoffEvents,
                          artifactEvents, ingest, kills>>
       PROVE  Progress'
  BY <1>12 DEF Write
<1>13. CASE UNCHANGED ingestionVars
  BY <1>13 DEF ingestionVars
<1> QED
  BY <1>1, <1>2, <1>3, <1>4, <1>5, <1>6, <1>7, <1>8, <1>9, <1>10, <1>11, <1>12, <1>13
  DEF IngestionNext, IngestStep

\* The invariant holds in every state of every behaviour.
LEMMA IngestionInvariant == IngestionSpec => []IngestionInv
<1>1. IngestionInv /\ [IngestionNext]_ingestionVars => IngestionInv'
  BY IngestionTypeStep, OneCopierStep, ProgressStep DEF IngestionInv
<1> QED BY IngestionInitInv, <1>1, PTL DEF IngestionSpec

\* Type correctness of agent_handoffs.py's state.
THEOREM IngestionTypeCorrect == IngestionSpec => []IngestionTypeOK
<1>1. IngestionInv => IngestionTypeOK
  BY DEF IngestionInv
<1> QED BY IngestionInvariant, <1>1, PTL

\* A Candidate or batch is recorded as ingested at most once, however many
\* processes ingest it and however often they are killed.
THEOREM OneIngestion == IngestionSpec => []SubmissionIngestedOnce
<1>1. IngestionInv => SubmissionIngestedOnce
  BY DEF IngestionInv, OneCopier, CopierOf, SubmissionIngestedOnce
<1> QED BY IngestionInvariant, <1>1, PTL

\* What the ledger calls ingested is copied and, if it is a Candidate, listed.
THEOREM CompleteIngestion == IngestionSpec => []RecordedIsComplete
<1>1. IngestionInv => RecordedIsComplete
  BY DEF IngestionInv, OneCopier, CopierOf, RecordedIsComplete
<1> QED BY IngestionInvariant, <1>1, PTL

\* A marked artifact has the events of its type in the ledger.
THEOREM MarkerIsLast == IngestionSpec => []MarkedIsRecorded
<1>1. IngestionInv => MarkedIsRecorded
  BY DEF IngestionInv, Progress, MarkedIsRecorded
<1> QED BY IngestionInvariant, <1>1, PTL

-----------------------------------------------------------------------------
(* How often an artifact that is a file may be recorded *)

\* The processes that passed the check of artifact a and have not recorded it.
Pending(a) == {s \in Sessions : Ingests(s, a, {"copy", "copying", "index", "record"})}

\* Without a canonical copy nobody is past the copy, and nothing is recorded.
Untouched(a) ==
  canonical[a] = "none" =>
    /\ handoffEvents[a] = 0
    /\ \A s \in Sessions : ~Ingests(s, a, {"copying", "index", "record"})

\* A canonical copy stays and lets no further process pass the check; an event
\* costs one of those that did.
Narrows(a) ==
  /\ canonical[a] # "none" => canonical'[a] # "none" /\ Pending(a)' \subseteq Pending(a)
  /\ \/ handoffEvents'[a] = handoffEvents[a]
     \/ /\ handoffEvents'[a] = handoffEvents[a] + 1
        /\ \E s \in Sessions : Ingests(s, a, {"record"}) /\ s \notin Pending(a)'

\* A step that neither touches canonical state and ledger nor passes the check.
LEMMA NarrowsKept ==
  ASSUME NEW a \in Artifacts, Untouched(a), NEW s \in Sessions,
         UNCHANGED <<canonical, handoffEvents>>,
         \A t \in Sessions : t # s => ingest'[t] = ingest[t],
         ingest'[s].pc \notin {"copy", "copying", "index", "record"}
  PROVE  Narrows(a) /\ Untouched(a)'
  BY DEF Narrows, Untouched, Pending, Ingests

LEMMA NarrowsStep ==
  ASSUME IngestionInv, [IngestionNext]_ingestionVars, NEW a \in Artifacts, Untouched(a)
  PROVE  Narrows(a) /\ Untouched(a)'
<1>0. IngestionTypeOK
  BY DEF IngestionInv
<1> USE DEF IngestionTypeOK, Ingestion, Ingests, At, Artifact
<1>1. ASSUME NEW s \in Sessions, Begin(s) \/ Discover(s) \/ Announce(s) \/ Mark(s) \/ Kill(s)
      PROVE  Narrows(a) /\ Untouched(a)'
  <2>1. \A t \in Sessions : t # s => ingest'[t] = ingest[t]
    <3>1. CASE Begin(s) \/ Mark(s) \/ Kill(s)
      BY <1>0, <3>1 DEF Begin, Mark, Kill, Returns
    <3>2. CASE Discover(s)
      BY <1>0, <3>2 DEF Discover, Returns
    <3>3. CASE Announce(s)
      BY <1>0, <3>3 DEF Announce, To
    <3> QED BY <1>1, <3>1, <3>2, <3>3
  <2>2. ingest'[s].pc \in {"idle", "discover", "check", "mark"}
    BY <1>0, <1>1 DEF Begin, Discover, Announce, Mark, Kill, Returns, To, Resting, Stage
  <2>3. UNCHANGED <<canonical, handoffEvents>>
    BY <1>1 DEF Begin, Discover, Announce, Mark, Kill
  <2> QED BY <2>1, <2>2, <2>3, NarrowsKept
<1>2. ASSUME NEW s \in Sessions, Check(s)
      PROVE  Narrows(a) /\ Untouched(a)'
  <2>1. UNCHANGED <<canonical, handoffEvents>>
    BY <1>2 DEF Check
  <2>2. CASE Returns(s, "ingestion_failed") \/ Returns(s, "raised")
    <3>1. ingest'[s].pc = "idle" /\ \A t \in Sessions : t # s => ingest'[t] = ingest[t]
      BY <1>0, <2>2 DEF Returns, Resting, Stage
    <3> QED BY <2>1, <3>1, NarrowsKept
  <2>3. ASSUME NEW b \in Artifacts, canonical[b] = "none",
               ingest' = [ingest EXCEPT ![s] = Stage("copy", b, "none")]
        PROVE  Narrows(a) /\ Untouched(a)'
    <3>1. ingest'[s].pc = "copy" /\ ingest'[s].artifact = b
          /\ \A t \in Sessions : t # s => ingest'[t] = ingest[t]
      BY <1>0, <2>3 DEF Stage
    <3> QED BY <2>1, <2>3, <3>1 DEF Narrows, Untouched, Pending
  <2> QED BY <1>2, <2>2, <2>3 DEF Check, Uningested
<1>3. ASSUME NEW s \in Sessions, Copy(s) \/ CopyEnds(s)
      PROVE  Narrows(a) /\ Untouched(a)'
  <2>0. /\ handoffEvents' = handoffEvents /\ ingest[s].artifact \in Artifacts
        /\ ingest[s].pc \in {"copy", "copying"}
    BY <1>0, <1>3 DEF Copy, CopyEnds
  <2>1. CASE Returns(s, "raised") /\ UNCHANGED canonical
    <3>1. ingest'[s].pc = "idle" /\ \A t \in Sessions : t # s => ingest'[t] = ingest[t]
      BY <1>0, <2>1 DEF Returns, Resting, Stage
    <3> QED BY <2>0, <2>1, <3>1, NarrowsKept
  <2>2. ASSUME NEW pc \in {"copying", "index", "record"}, To(s, pc),
               NEW how \in {"partial", "whole"},
               canonical' = [canonical EXCEPT ![Artifact(s)] = how]
        PROVE  Narrows(a) /\ Untouched(a)'
    <3>1. ingest'[s].pc = pc /\ ingest'[s].artifact = ingest[s].artifact
          /\ \A t \in Sessions : t # s => ingest'[t] = ingest[t]
      BY <1>0, <2>2 DEF To
    <3>2. \A b \in Artifacts : canonical'[b] = IF b = ingest[s].artifact THEN how ELSE canonical[b]
      BY <1>0, <2>0, <2>2
    <3>3. Pending(a)' = Pending(a)
      BY <2>0, <3>1 DEF Pending
    <3> QED BY <2>0, <3>1, <3>2, <3>3 DEF Narrows, Untouched
  <2> QED BY <1>3, <2>1, <2>2 DEF Copy, CopyEnds
<1>4. ASSUME NEW s \in Sessions, Index(s)
      PROVE  Narrows(a) /\ Untouched(a)'
  <2>0. UNCHANGED <<canonical, handoffEvents>> /\ ingest[s].pc = "index"
    BY <1>4 DEF Index
  <2>1. CASE Returns(s, "ingestion_failed")
    <3>1. ingest'[s].pc = "idle" /\ \A t \in Sessions : t # s => ingest'[t] = ingest[t]
      BY <1>0, <2>1 DEF Returns, Resting, Stage
    <3> QED BY <2>0, <3>1, NarrowsKept
  <2>2. CASE To(s, "record")
    <3>1. ingest'[s].pc = "record" /\ ingest'[s].artifact = ingest[s].artifact
          /\ \A t \in Sessions : t # s => ingest'[t] = ingest[t]
      BY <1>0, <2>2 DEF To
    <3> QED BY <2>0, <3>1 DEF Narrows, Untouched, Pending
  <2> QED BY <1>4, <2>1, <2>2 DEF Index
<1>5. ASSUME NEW s \in Sessions, Record(s)
      PROVE  Narrows(a) /\ Untouched(a)'
  <2> DEFINE b == ingest[s].artifact
  <2>1. /\ canonical' = canonical /\ b \in Artifacts /\ ingest[s].pc = "record"
        /\ handoffEvents' = [handoffEvents EXCEPT ![b] = handoffEvents[b] + 1]
    BY <1>0, <1>5 DEF Record
  <2>2. ingest'[s].pc \in {"announce", "mark"}
        /\ \A t \in Sessions : t # s => ingest'[t] = ingest[t]
    BY <1>0, <1>5 DEF Record, To
  <2>3. handoffEvents'[a] = IF a = b THEN handoffEvents[a] + 1 ELSE handoffEvents[a]
    BY <1>0, <2>1
  <2>4. Pending(a)' \subseteq Pending(a) /\ s \notin Pending(a)'
    BY <2>2 DEF Pending
  <2>5. Untouched(a)'
    BY <2>1, <2>2, <2>3 DEF Untouched
  <2> QED BY <2>1, <2>3, <2>4, <2>5 DEF Narrows
<1>6. CASE UNCHANGED <<canonical, handoffEvents, ingest>>
  BY <1>6 DEF Narrows, Untouched, Pending
<1> QED BY <1>1, <1>2, <1>3, <1>4, <1>5, <1>6
     DEF IngestionNext, IngestStep, Discard, ingestionVars

\* The events of an artifact and the processes that may still add one.
Rationed(a) ==
  canonical[a] # "none" => handoffEvents[a] + Cardinality(Pending(a)) <= Cardinality(Sessions)

\* No artifact has more ingestion events than there are processes that ingest.
EventsAreRationed == \A a \in Artifacts : handoffEvents[a] <= Cardinality(Sessions)

LEMMA RationedStep ==
  ASSUME IngestionInv, IngestionTypeOK', IsFiniteSet(Sessions), NEW a \in Artifacts,
         Untouched(a), Rationed(a), Narrows(a)
  PROVE  Rationed(a)'
<1>1. /\ handoffEvents[a] \in Nat /\ handoffEvents'[a] \in Nat
      /\ Pending(a) \subseteq Sessions /\ Pending(a)' \subseteq Sessions
  BY DEF IngestionInv, IngestionTypeOK, Pending
<1>2. /\ IsFiniteSet(Pending(a)) /\ IsFiniteSet(Pending(a)')
      /\ Cardinality(Pending(a)') <= Cardinality(Sessions)
  BY <1>1, FS_Subset
<1>3. /\ Cardinality(Pending(a)) \in Nat /\ Cardinality(Pending(a)') \in Nat
      /\ Cardinality(Sessions) \in Nat
  BY <1>2, FS_CardinalityType
<1>4. CASE canonical[a] = "none"
  <2>1. handoffEvents'[a] = 0
    BY <1>4 DEF Narrows, Untouched, Ingests
  <2> QED BY <1>2, <1>3, <2>1 DEF Rationed
<1>5. CASE canonical[a] # "none" /\ handoffEvents'[a] = handoffEvents[a]
  <2>1. Cardinality(Pending(a)') <= Cardinality(Pending(a))
    BY <1>2, <1>5, FS_Subset DEF Narrows
  <2> QED BY <1>1, <1>3, <1>5, <2>1 DEF Rationed
<1>6. CASE canonical[a] # "none" /\ handoffEvents'[a] = handoffEvents[a] + 1
  <2>1. PICK s \in Sessions : Ingests(s, a, {"record"}) /\ s \notin Pending(a)'
    BY <1>1, <1>6 DEF Narrows
  <2>2. s \in Pending(a) /\ Pending(a)' \subseteq Pending(a) \ {s}
    BY <1>6, <2>1 DEF Narrows, Pending, Ingests
  <2>3. IsFiniteSet(Pending(a) \ {s})
        /\ Cardinality(Pending(a) \ {s}) = Cardinality(Pending(a)) - 1
    BY <1>2, <2>2, FS_RemoveElement
  <2>4. Cardinality(Pending(a)') <= Cardinality(Pending(a) \ {s})
    BY <2>2, <2>3, FS_Subset
  <2> QED BY <1>1, <1>3, <1>6, <2>3, <2>4 DEF Rationed
<1> QED BY <1>4, <1>5, <1>6 DEF Narrows

\* copy2 overwrites (agent_handoffs.py:247), so processes that ingest one note,
\* request or report side by side may all record it; but nobody passes the check
\* once a copy exists, so there are never more events than processes, however often
\* they are killed and started again.  A lone process records every artifact of
\* every type at most once.
THEOREM OneEventPerProcess ==
  ASSUME IsFiniteSet(Sessions)
  PROVE  IngestionSpec => []EventsAreRationed
<1> DEFINE RationInv == \A a \in Artifacts : Untouched(a) /\ Rationed(a)
<1>1. IngestionInit => RationInv
  BY DEF IngestionInit, Untouched, Rationed, Ingests, Resting, Stage
<1>2. IngestionInv /\ IngestionInv' /\ RationInv /\ [IngestionNext]_ingestionVars => RationInv'
  <2> SUFFICES ASSUME IngestionInv, IngestionInv', RationInv, [IngestionNext]_ingestionVars,
                      NEW a \in Artifacts
               PROVE  (Untouched(a) /\ Rationed(a))'
    OBVIOUS
  <2>1. Narrows(a) /\ Untouched(a)'
    BY NarrowsStep
  <2>2. IngestionTypeOK'
    BY DEF IngestionInv
  <2> QED BY <2>1, <2>2, RationedStep
<1>3. IngestionInv /\ RationInv => EventsAreRationed
  <2> SUFFICES ASSUME IngestionInv, RationInv, NEW a \in Artifacts
               PROVE  handoffEvents[a] <= Cardinality(Sessions)
    BY DEF EventsAreRationed
  <2>1. handoffEvents[a] \in Nat /\ Pending(a) \subseteq Sessions
    BY DEF IngestionInv, IngestionTypeOK, Pending
  <2>2. Cardinality(Sessions) \in Nat /\ Cardinality(Pending(a)) \in Nat
    BY <2>1, FS_Subset, FS_CardinalityType
  <2> QED BY <2>1, <2>2 DEF Untouched, Rationed
<1> QED BY <1>1, <1>2, <1>3, IngestionInvariant, PTL DEF IngestionSpec

\* A canonical copy without an event, that no process is at work on any more.
Lost(a) == canonical[a] # "none" /\ handoffEvents[a] = 0 /\ Pending(a) = {}

\* A lost artifact stays lost: no step of any ingestion records it later.
LostForEver == [][\A a \in Artifacts : Lost(a) => Lost(a)']_ingestionVars

\* An ingestion that dies between the copy and its event is never made up for: the
\* copy it leaves makes every later attempt fail its check, so the artifact is in
\* canonical state and never in the ledger.
THEOREM LostIngestionsStayLost == IngestionSpec => LostForEver
<1>1. IngestionInit => \A a \in Artifacts : Untouched(a)
  BY DEF IngestionInit, Untouched, Ingests, Resting, Stage
<1>2. IngestionInv /\ (\A a \in Artifacts : Untouched(a)) /\ [IngestionNext]_ingestionVars
        => (\A a \in Artifacts : Untouched(a))'
  BY NarrowsStep
<1>3. IngestionInv /\ (\A a \in Artifacts : Untouched(a)) /\ [IngestionNext]_ingestionVars
        => [\A a \in Artifacts : Lost(a) => Lost(a)']_ingestionVars
  <2> SUFFICES ASSUME IngestionInv, \A a \in Artifacts : Untouched(a),
                      [IngestionNext]_ingestionVars, NEW a \in Artifacts, Lost(a)
               PROVE  Lost(a)'
    OBVIOUS
  <2>1. Narrows(a) /\ handoffEvents[a] \in Nat
    BY NarrowsStep DEF IngestionInv, IngestionTypeOK
  <2>2. \A s \in Sessions : ~Ingests(s, a, {"record"})
    BY DEF Lost, Pending, Ingests
  <2> QED BY <2>1, <2>2 DEF Narrows, Lost
<1> QED BY <1>1, <1>2, <1>3, IngestionInvariant, PTL DEF IngestionSpec, LostForEver
====
