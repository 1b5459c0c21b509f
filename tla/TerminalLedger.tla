--------------------------- MODULE TerminalLedger ---------------------------
(***************************************************************************)
(* Terminal events of the Research Ledger (runs.py, research_ledger.py).   *)
(* Supervisors and reconcilers of many Runs share one JSONL file.  A       *)
(* writer records the terminal event of a Run either directly              *)
(* (_record_run_completed, _record_run_failed) or through                  *)
(* _ensure_terminal_event_once, which reads the ledger once without the    *)
(* terminal lock first.  The ledger is abstracted to the readable terminal *)
(* events of each Run, in order, and to whether its last line is torn: an  *)
(* append cut short leaves no newline, and the next line is glued to it.   *)
(***************************************************************************)
EXTENDS Naturals, Sequences

CONSTANTS
  Writers,    \* processes that terminalise Runs
  Runs,       \* Runs recorded in this ledger
  Nobody,     \* the holder of a free lock
  MaxTorn     \* bound on the number of appends cut short

ASSUME NobodyIsNoWriter == Nobody \notin Writers
ASSUME TornBound == MaxTorn \in Nat

VARIABLES
  terminal,   \* terminal[r]: the readable terminal events of Run r
  torn,       \* the last line of the ledger has no newline
  lock,       \* the holder of the ledger's terminal lock
  pc,         \* control state of each writer
  job,        \* the Run and event type each writer is recording
  result,     \* how the writer's last call ended
  tears       \* number of appends cut short so far

vars == <<terminal, torn, lock, pc, job, result, tears>>

TerminalEvent == {"run_completed", "run_failed"}
Job == [run : Runs, event : TerminalEvent]
Results == {"none", "ok", "raised"}
WriterStates == {"idle", "preread", "acquire", "read", "append", "release"}

-----------------------------------------------------------------------------
Init ==
  /\ terminal = [r \in Runs |-> <<>>]
  /\ torn = FALSE
  /\ lock = Nobody
  /\ pc = [w \in Writers |-> "idle"]
  /\ job \in [Writers -> Job]
  /\ result = [w \in Writers |-> "none"]
  /\ tears = 0

Goto(w, next) == pc' = [pc EXCEPT ![w] = next]
Return(w, how) == result' = [result EXCEPT ![w] = how]

\* The terminal events of the writer's own Run, as a reader parses them.
Found(w) == terminal[job[w].run]

Duplicated(w) == Len(Found(w)) > 1
Conflicting(w) == Found(w) # <<>> /\ Found(w)[1] # job[w].event

\* A call for any Run and event: terminalisation paths repeat, race and
\* disagree (see RunLifecycle).
Call(w) ==
  /\ pc[w] = "idle"
  /\ \E j \in Job : job' = [job EXCEPT ![w] = j]
  /\ \/ Goto(w, "preread")
     \/ Goto(w, "acquire")
  /\ Return(w, "none")
  /\ UNCHANGED <<terminal, torn, lock, tears>>

\* Mutant: any terminal event of the Run counts as done.
PreReadAnyEvent(w) ==
  /\ pc[w] = "preread"
  /\ \/ /\ Found(w) # <<>>
        /\ Goto(w, "idle")
        /\ Return(w, "ok")
     \/ /\ Found(w) = <<>>
        /\ Goto(w, "acquire")
        /\ UNCHANGED result
  /\ UNCHANGED <<terminal, torn, lock, job, tears>>

\* Mutant: any terminal event of the Run is refused.
PreReadRefusesAny(w) ==
  /\ pc[w] = "preread"
  /\ \/ /\ Found(w) # <<>>
        /\ Goto(w, "idle")
        /\ Return(w, "raised")
     \/ /\ Found(w) = <<>>
        /\ Goto(w, "acquire")
        /\ UNCHANGED result
  /\ UNCHANGED <<terminal, torn, lock, job, tears>>

\* Mutant: the event found is returned in place of a normal return.
PreReadReturnsEvent(w) ==
  /\ pc[w] = "preread"
  /\ \/ /\ Found(w) # <<>>
        /\ Goto(w, "idle")
        /\ Return(w, Found(w)[1])
     \/ /\ Found(w) = <<>>
        /\ Goto(w, "acquire")
        /\ UNCHANGED result
  /\ UNCHANGED <<terminal, torn, lock, job, tears>>

\* _ensure_terminal_event_once reads without the lock.
PreRead(w) ==
  /\ pc[w] = "preread"
  /\ \/ /\ Duplicated(w) \/ Conflicting(w)
        /\ Goto(w, "idle")
        /\ Return(w, "raised")
     \/ /\ Len(Found(w)) = 1
        /\ ~Conflicting(w)
        /\ Goto(w, "idle")
        /\ Return(w, "ok")
     \/ /\ Found(w) = <<>>
        /\ Goto(w, "acquire")
        /\ UNCHANGED result
  /\ UNCHANGED <<terminal, torn, lock, job, tears>>

Acquire(w) ==
  /\ pc[w] = "acquire"
  /\ lock = Nobody
  /\ lock' = w
  /\ Goto(w, "read")
  /\ UNCHANGED <<terminal, torn, job, result, tears>>

\* Mutant: the error leaves the lock held.
ReadKeepsLock(w) ==
  /\ pc[w] = "read"
  /\ \/ /\ Duplicated(w) \/ Conflicting(w)
        /\ Goto(w, "idle")
        /\ Return(w, "raised")
        /\ UNCHANGED lock
     \/ /\ Len(Found(w)) = 1
        /\ ~Conflicting(w)
        /\ Goto(w, "release")
        /\ UNCHANGED <<lock, result>>
     \/ /\ Found(w) = <<>>
        /\ Goto(w, "append")
        /\ UNCHANGED <<lock, result>>
  /\ UNCHANGED <<terminal, torn, job, tears>>

\* Mutant: under the lock, only a conflicting event is looked for.
ReadIgnoresEqual(w) ==
  /\ pc[w] = "read"
  /\ \/ /\ Duplicated(w) \/ Conflicting(w)
        /\ Goto(w, "idle")
        /\ Return(w, "raised")
        /\ lock' = Nobody
     \/ /\ ~Duplicated(w) /\ ~Conflicting(w)
        /\ Goto(w, "append")
        /\ UNCHANGED <<lock, result>>
  /\ UNCHANGED <<terminal, torn, job, tears>>

\* Mutant: the pre-read is trusted, the ledger is not read again.
ReadTrustsPreRead(w) ==
  /\ pc[w] = "read"
  /\ Goto(w, "append")
  /\ UNCHANGED <<terminal, torn, lock, job, result, tears>>

\* The compare of compare-before-append; leaving the with block by return or
\* by raise releases the lock.
Read(w) ==
  /\ pc[w] = "read"
  /\ \/ /\ Duplicated(w) \/ Conflicting(w)
        /\ Goto(w, "idle")
        /\ Return(w, "raised")
        /\ lock' = Nobody
     \/ /\ Len(Found(w)) = 1
        /\ ~Conflicting(w)
        /\ Goto(w, "release")
        /\ UNCHANGED <<lock, result>>
     \/ /\ Found(w) = <<>>
        /\ Goto(w, "append")
        /\ UNCHANGED <<lock, result>>
  /\ UNCHANGED <<terminal, torn, job, tears>>

\* _append_jsonl: one O_APPEND write whose return value is not looked at.  A
\* whole line after a torn one is glued to it, and neither is readable.
AppendEvent(w) ==
  /\ pc[w] = "append"
  /\ \/ /\ terminal' = IF torn THEN terminal
                       ELSE [terminal EXCEPT ![job[w].run] = Append(@, job[w].event)]
        /\ torn' = FALSE
        /\ UNCHANGED tears
     \/ /\ tears < MaxTorn
        /\ tears' = tears + 1
        /\ torn' = TRUE
        /\ UNCHANGED terminal
  /\ Goto(w, "release")
  /\ UNCHANGED <<lock, job, result>>

Release(w) ==
  /\ pc[w] = "release"
  /\ lock' = Nobody
  /\ Goto(w, "idle")
  /\ Return(w, "ok")
  /\ UNCHANGED <<terminal, torn, job, tears>>

\* The kernel drops the flock of a killed process.
Crash(w) ==
  /\ pc[w] # "idle"
  /\ lock' = IF lock = w THEN Nobody ELSE lock
  /\ Goto(w, "idle")
  /\ Return(w, "none")
  /\ UNCHANGED <<terminal, torn, job, tears>>

\* Every other event is appended without the terminal lock.
OtherEvent ==
  /\ \/ /\ torn' = FALSE
        /\ UNCHANGED tears
     \/ /\ tears < MaxTorn
        /\ tears' = tears + 1
        /\ torn' = TRUE
  /\ UNCHANGED <<terminal, lock, pc, job, result>>

WriterStep(w) == PreRead(w) \/ Acquire(w) \/ Read(w) \/ AppendEvent(w) \/ Release(w)

Next ==
  \/ \E w \in Writers : Call(w) \/ WriterStep(w) \/ Crash(w)
  \/ OtherEvent

Spec == Init /\ [][Next]_vars

\* flock does not starve a waiter, and a call once begun goes on.
Fairness ==
  \A w \in Writers : WF_vars(WriterStep(w)) /\ SF_vars(Acquire(w))

LiveSpec == Spec /\ Fairness

-----------------------------------------------------------------------------
\* Type invariant.
TypeOK ==
  /\ terminal \in [Runs -> Seq(TerminalEvent)]
  /\ torn \in BOOLEAN
  /\ lock \in Writers \cup {Nobody}
  /\ pc \in [Writers -> WriterStates]
  /\ job \in [Writers -> Job]
  /\ result \in [Writers -> Results]
  /\ tears \in 0..MaxTorn

\* The lock protects what its name says: a writer between its compare and the
\* end of its append holds it, and found no terminal event of its Run.
CompareStillHolds ==
  \A w \in Writers :
    /\ pc[w] \in {"read", "append", "release"} => lock = w
    /\ pc[w] = "append" => Found(w) = <<>>

\* No Run ever has two terminal events, however often and by however many
\* processes it is terminalised, killed or not.
AtMostOneTerminalEvent == \A r \in Runs : Len(terminal[r]) <= 1

\* A call that returned normally left the announced event in the ledger; the
\* code promises this only as long as every append wrote its whole line.
ReturnMeansRecorded ==
  tears = 0 => \A w \in Writers : result[w] = "ok" => Found(w) = <<job[w].event>>

\* A call refuses only when the ledger announces the opposite outcome.
RefusalIsJustified ==
  \A w \in Writers : result[w] = "raised" => Conflicting(w)

\* A call that waits for the lock gets it and ends.
CallsReturn == \A w \in Writers : pc[w] = "acquire" ~> pc[w] = "idle"

-----------------------------------------------------------------------------
\* The ledger implements the one-shot announcement of TerminalOnce.
Announced ==
  [r \in Runs |-> CASE Len(terminal[r]) = 0 -> "none"
                    [] Len(terminal[r]) = 1 -> terminal[r][1]
                    [] OTHER -> "duplicate"]

Abstract == INSTANCE TerminalOnce WITH announced <- Announced

\* Readers of the ledger see each outcome announced once and for all.
ImplementsTerminalOnce == Abstract!Spec
=============================================================================
