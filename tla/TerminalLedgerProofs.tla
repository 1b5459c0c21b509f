------------------------ MODULE TerminalLedgerProofs ------------------------
(***************************************************************************)
(* Proofs about TerminalLedger, for any number of writers and Runs and any *)
(* number of torn appends.  The inductive invariant is TypeOK together     *)
(* with CompareStillHolds and AtMostOneTerminalEvent: the bound on the     *)
(* events alone is not inductive, it needs the fact that a writer about to *)
(* append still holds the lock under which it saw no event of its Run.     *)
(***************************************************************************)
EXTENDS TerminalLedger, TLAPS

Inv == TypeOK /\ CompareStillHolds /\ AtMostOneTerminalEvent

\* The initial ledger is empty and unlocked.
LEMMA InitInv == Init => Inv
<1> SUFFICES ASSUME Init PROVE Inv
  OBVIOUS
<1>1. terminal \in [Runs -> Seq(TerminalEvent)]
  <2>1. <<>> \in Seq(TerminalEvent)
    OBVIOUS
  <2> QED BY <2>1 DEF Init
<1>2. /\ lock \in Writers \cup {Nobody}
      /\ job \in [Writers -> Job]
      /\ tears \in 0..MaxTorn
  BY TornBound DEF Init
<1>6. torn \in BOOLEAN
  BY Zenon DEF Init
<1>3. /\ pc \in [Writers -> WriterStates]
      /\ result \in [Writers -> Results]
  BY DEF Init, WriterStates, Results
<1>4. CompareStillHolds
  BY DEF Init, CompareStillHolds
<1>5. AtMostOneTerminalEvent
  BY DEF Init, AtMostOneTerminalEvent
<1> QED BY <1>1, <1>2, <1>3, <1>4, <1>5, <1>6 DEF Inv, TypeOK

\* Only the append of a whole line changes the terminal events of any Run, and
\* it adds the writer's event to the writer's Run.
LEMMA OnlyAppendChangesTerminal ==
  ASSUME [Next]_vars
  PROVE  \/ UNCHANGED terminal
         \/ \E w \in Writers :
              /\ AppendEvent(w)
              /\ terminal' = [terminal EXCEPT ![job[w].run] = Append(@, job[w].event)]
  BY DEF Next, vars, Call, WriterStep, PreRead, Acquire, Read, AppendEvent, Release,
         Crash, OtherEvent

\* Every step keeps the types.
LEMMA TypeStep ==
  ASSUME TypeOK, [Next]_vars
  PROVE  TypeOK'
<1>1. ASSUME NEW w \in Writers, Call(w) PROVE TypeOK'
  BY <1>1 DEF TypeOK, Call, Goto, Return, WriterStates, Results, Job
<1>2. ASSUME NEW w \in Writers, PreRead(w) PROVE TypeOK'
  BY <1>2 DEF TypeOK, PreRead, Goto, Return, WriterStates, Results
<1>3. ASSUME NEW w \in Writers, Acquire(w) PROVE TypeOK'
  BY <1>3 DEF TypeOK, Acquire, Goto, WriterStates
<1>4. ASSUME NEW w \in Writers, Read(w) PROVE TypeOK'
  BY <1>4 DEF TypeOK, Read, Goto, Return, WriterStates, Results
<1>5. ASSUME NEW w \in Writers, AppendEvent(w) PROVE TypeOK'
  <2>1. job[w].run \in Runs /\ job[w].event \in TerminalEvent
    BY DEF TypeOK, Job
  <2>2. terminal' \in [Runs -> Seq(TerminalEvent)]
    <3>1. terminal[job[w].run] \in Seq(TerminalEvent)
      BY <2>1 DEF TypeOK
    <3>2. Append(terminal[job[w].run], job[w].event) \in Seq(TerminalEvent)
      BY <2>1, <3>1
    <3>3. CASE UNCHANGED terminal
      BY <3>3 DEF TypeOK
    <3>4. CASE terminal' = [terminal EXCEPT ![job[w].run] = Append(@, job[w].event)]
      BY <3>2, <3>4 DEF TypeOK
    <3> QED BY <1>5, <3>3, <3>4 DEF AppendEvent
  <2>3. tears' \in 0..MaxTorn
    BY <1>5, TornBound DEF TypeOK, AppendEvent
  <2>4. torn' \in BOOLEAN
    BY <1>5, Zenon DEF AppendEvent
  <2> QED BY <1>5, <2>2, <2>3, <2>4 DEF TypeOK, AppendEvent, Goto, WriterStates
<1>6. ASSUME NEW w \in Writers, Release(w) PROVE TypeOK'
  BY <1>6 DEF TypeOK, Release, Goto, Return, WriterStates, Results
<1>7. ASSUME NEW w \in Writers, Crash(w) PROVE TypeOK'
  BY <1>7 DEF TypeOK, Crash, Goto, Return, WriterStates, Results
<1>8. CASE OtherEvent
  <2>1. tears' \in 0..MaxTorn
    BY <1>8, TornBound DEF TypeOK, OtherEvent
  <2>2. torn' \in BOOLEAN
    BY <1>8, Zenon DEF OtherEvent
  <2> QED BY <1>8, <2>1, <2>2 DEF TypeOK, OtherEvent
<1>9. CASE UNCHANGED vars
  BY <1>9 DEF TypeOK, vars
<1> QED BY <1>1, <1>2, <1>3, <1>4, <1>5, <1>6, <1>7, <1>8, <1>9 DEF Next, WriterStep

\* Every step keeps the lock's promise: at most the lock's holder is between
\* its compare and the end of its append, and it saw no event of its Run.
LEMMA LockStep ==
  ASSUME Inv, [Next]_vars
  PROVE  CompareStillHolds'
<1> SUFFICES ASSUME NEW v \in Writers
             PROVE  /\ pc'[v] \in {"read", "append", "release"} => lock' = v
                    /\ pc'[v] = "append" => Found(v)' = <<>>
  BY DEF CompareStillHolds
<1> USE NobodyIsNoWriter DEF Inv, TypeOK, CompareStillHolds, Found, WriterStates
<1>1. ASSUME NEW w \in Writers, Call(w) PROVE
        /\ pc'[v] \in {"read", "append", "release"} => lock' = v
        /\ pc'[v] = "append" => Found(v)' = <<>>
  BY <1>1 DEF Call, Goto
<1>2. ASSUME NEW w \in Writers, PreRead(w) PROVE
        /\ pc'[v] \in {"read", "append", "release"} => lock' = v
        /\ pc'[v] = "append" => Found(v)' = <<>>
  BY <1>2 DEF PreRead, Goto
<1>3. ASSUME NEW w \in Writers, Acquire(w) PROVE
        /\ pc'[v] \in {"read", "append", "release"} => lock' = v
        /\ pc'[v] = "append" => Found(v)' = <<>>
  BY <1>3 DEF Acquire, Goto
<1>4. ASSUME NEW w \in Writers, Read(w) PROVE
        /\ pc'[v] \in {"read", "append", "release"} => lock' = v
        /\ pc'[v] = "append" => Found(v)' = <<>>
  BY <1>4 DEF Read, Goto
<1>5. ASSUME NEW w \in Writers, AppendEvent(w) PROVE
        /\ pc'[v] \in {"read", "append", "release"} => lock' = v
        /\ pc'[v] = "append" => Found(v)' = <<>>
  BY <1>5 DEF AppendEvent, Goto
<1>6. ASSUME NEW w \in Writers, Release(w) PROVE
        /\ pc'[v] \in {"read", "append", "release"} => lock' = v
        /\ pc'[v] = "append" => Found(v)' = <<>>
  BY <1>6 DEF Release, Goto
<1>7. ASSUME NEW w \in Writers, Crash(w) PROVE
        /\ pc'[v] \in {"read", "append", "release"} => lock' = v
        /\ pc'[v] = "append" => Found(v)' = <<>>
  BY <1>7 DEF Crash, Goto
<1>8. CASE OtherEvent
  BY <1>8 DEF OtherEvent
<1>9. CASE UNCHANGED vars
  BY <1>9 DEF vars
<1> QED BY <1>1, <1>2, <1>3, <1>4, <1>5, <1>6, <1>7, <1>8, <1>9 DEF Next, WriterStep

\* Every step keeps the bound on the events of each Run.
LEMMA BoundStep ==
  ASSUME Inv, [Next]_vars
  PROVE  AtMostOneTerminalEvent'
<1>1. CASE UNCHANGED terminal
  BY <1>1 DEF Inv, AtMostOneTerminalEvent
<1>2. ASSUME NEW w \in Writers, AppendEvent(w),
             terminal' = [terminal EXCEPT ![job[w].run] = Append(@, job[w].event)]
      PROVE  AtMostOneTerminalEvent'
  <2>1. job[w].run \in Runs /\ job[w].event \in TerminalEvent
    BY DEF Inv, TypeOK, Job
  <2>2. terminal[job[w].run] = <<>>
    BY <1>2 DEF Inv, CompareStillHolds, AppendEvent, Found
  <2>3. ASSUME NEW r \in Runs PROVE Len(terminal'[r]) <= 1
    <3>1. CASE r = job[w].run
      BY <1>2, <2>1, <2>2, <3>1 DEF Inv, TypeOK
    <3>2. CASE r # job[w].run
      BY <1>2, <3>2 DEF Inv, TypeOK, AtMostOneTerminalEvent
    <3> QED BY <3>1, <3>2
  <2> QED BY <2>3 DEF AtMostOneTerminalEvent
<1> QED BY <1>1, <1>2, OnlyAppendChangesTerminal

\* The inductive invariant holds in every reachable state.
LEMMA Invariance == Spec => []Inv
<1>1. Inv /\ [Next]_vars => Inv'
  BY TypeStep, LockStep, BoundStep DEF Inv
<1> QED BY InitInv, <1>1, PTL DEF Spec

\* TerminalLedger is type-correct.
THEOREM TypeCorrect == Spec => []TypeOK
<1>1. Inv => TypeOK
  BY DEF Inv
<1> QED BY Invariance, <1>1, PTL

\* No Run is ever announced twice in the ledger.
THEOREM NoDuplicateTerminalEvent == Spec => []AtMostOneTerminalEvent
<1>1. Inv => AtMostOneTerminalEvent
  BY DEF Inv
<1> QED BY Invariance, <1>1, PTL

\* The compare of compare-before-append is still true when the append happens.
THEOREM LockProtectsCompare == Spec => []CompareStillHolds
<1>1. Inv => CompareStillHolds
  BY DEF Inv
<1> QED BY Invariance, <1>1, PTL

-----------------------------------------------------------------------------
\* An empty ledger announces nothing.
LEMMA RefinedInit == Init => Abstract!Init
  BY DEF Init, Abstract!Init, Announced

\* A step announces one outcome that nobody announced before, or stutters.
LEMMA RefinedStep ==
  ASSUME Inv, [Next]_vars
  PROVE  [Abstract!Next]_Announced
<1>1. CASE UNCHANGED terminal
  BY <1>1 DEF Announced
<1>2. ASSUME NEW w \in Writers, AppendEvent(w),
             terminal' = [terminal EXCEPT ![job[w].run] = Append(@, job[w].event)]
      PROVE  Abstract!Next
  <2> DEFINE run == job[w].run
             event == job[w].event
  <2>1. run \in Runs /\ event \in TerminalEvent
    BY DEF Inv, TypeOK, Job
  <2>2. terminal[run] = <<>>
    BY <1>2 DEF Inv, CompareStillHolds, AppendEvent, Found
  <2>3. terminal'[run] = <<event>>
    BY <1>2, <2>1, <2>2 DEF Inv, TypeOK
  <2>4. \A r \in Runs : r # run => terminal'[r] = terminal[r]
    BY <1>2 DEF Inv, TypeOK
  <2>5. Announced[run] = "none"
    BY <2>1, <2>2 DEF Announced
  <2>6. Announced' = [Announced EXCEPT ![run] = event]
    <3>1. Len(terminal'[run]) = 1 /\ terminal'[run][1] = event
      BY <2>3
    <3>2. ASSUME NEW r \in Runs
          PROVE  Announced'[r] = IF r = run THEN event ELSE Announced[r]
      <4>1. CASE r = run
        BY <3>1, <4>1 DEF Announced
      <4>2. CASE r # run
        BY <2>4, <4>2 DEF Announced
      <4> QED BY <4>1, <4>2
    <3> HIDE DEF event
    <3>3. Announced' = [r \in Runs |-> Announced'[r]]
      BY DEF Announced
    <3>4. Announced = [r \in Runs |-> Announced[r]]
      BY DEF Announced
    <3> QED BY <3>2, <3>3, <3>4, <2>1
  <2>7. Abstract!Announce(run, event)
    BY <2>5, <2>6 DEF Abstract!Announce
  <2> QED BY <2>1, <2>7 DEF Abstract!Next, Abstract!TerminalEvent, TerminalEvent
<1> QED BY <1>1, <1>2, OnlyAppendChangesTerminal

\* The ledger implements the one-shot announcement.
THEOREM LedgerImplementsTerminalOnce == Spec => ImplementsTerminalOnce
<1>1. Spec => []Inv
  BY Invariance
<1>2. Inv /\ [Next]_vars => [Abstract!Next]_Announced
  BY RefinedStep
<1> QED BY RefinedInit, <1>1, <1>2, PTL DEF Spec, ImplementsTerminalOnce, Abstract!Spec

-----------------------------------------------------------------------------
(* What the end of a call says *)

\* The ledger has exactly the event the writer announces.
Announces(w) == Found(w) = <<job[w].event>>

\* Once a terminal event is readable, its Run's events never change again.
LEMMA EventsAreFinal ==
  ASSUME Inv, [Next]_vars, NEW r \in Runs, terminal[r] # <<>>
  PROVE  terminal'[r] = terminal[r]
<1>1. ASSUME NEW w \in Writers, AppendEvent(w),
             terminal' = [terminal EXCEPT ![job[w].run] = Append(@, job[w].event)]
      PROVE  terminal'[r] = terminal[r]
  <2>1. terminal[job[w].run] = <<>>
    BY <1>1 DEF Inv, CompareStillHolds, AppendEvent, Found
  <2> QED BY <1>1, <2>1 DEF Inv, TypeOK
<1> QED BY <1>1, OnlyAppendChangesTerminal

\* A writer's job changes with its next call only, which has no result yet.
LEMMA JobOfCall ==
  ASSUME TypeOK, [Next]_vars, NEW w \in Writers
  PROVE  job'[w] = job[w] \/ (result'[w] = "none" /\ pc'[w] \in {"preread", "acquire"})
BY DEF TypeOK, Next, vars, Call, Goto, Return, WriterStep, PreRead, Acquire, Read, AppendEvent,
   Release, Crash, OtherEvent

\* Without torn appends a writer that is done, or about to be, has announced.
Recorded ==
  tears = 0 =>
    /\ torn = FALSE
    /\ \A w \in Writers : result[w] = "ok" \/ pc[w] = "release" => Announces(w)

LEMMA OneEventFound ==
  ASSUME TypeOK, NEW w \in Writers, Len(Found(w)) = 1, ~Conflicting(w)
  PROVE  Announces(w)
<1>1. Found(w) \in Seq(TerminalEvent)
  BY DEF TypeOK, Job, Found
<1> QED BY <1>1 DEF Conflicting, Announces

\* How a writer gets to a normal return: it was on its way, it saw its event, or
\* it has just appended it.
LEMMA ReturnStep ==
  ASSUME TypeOK, [Next]_vars, NEW w \in Writers, result'[w] = "ok" \/ pc'[w] = "release"
  PROVE  /\ job'[w] = job[w]
         /\ \/ result[w] = "ok" \/ pc[w] = "release"
            \/ Len(Found(w)) = 1 /\ ~Conflicting(w)
            \/ AppendEvent(w)
<1> USE DEF TypeOK, Goto, Return
<1>1. ASSUME NEW v \in Writers, Call(v)
      PROVE  job'[w] = job[w] /\ (result[w] = "ok" \/ pc[w] = "release")
  BY <1>1 DEF Call
<1>2. ASSUME NEW v \in Writers, PreRead(v) \/ Acquire(v) \/ Read(v) \/ Release(v) \/ Crash(v)
      PROVE  /\ job'[w] = job[w]
             /\ \/ result[w] = "ok" \/ pc[w] = "release"
                \/ Len(Found(w)) = 1 /\ ~Conflicting(w)
  BY <1>2 DEF PreRead, Acquire, Read, Release, Crash
<1>3. ASSUME NEW v \in Writers, AppendEvent(v)
      PROVE  job'[w] = job[w] /\ (result[w] = "ok" \/ pc[w] = "release" \/ v = w)
  BY <1>3 DEF AppendEvent
<1>4. CASE OtherEvent \/ UNCHANGED vars
  BY <1>4 DEF OtherEvent, vars
<1> QED BY <1>1, <1>2, <1>3, <1>4 DEF Next, WriterStep

\* A torn append is counted for ever.
LEMMA TearsAreCounted ==
  ASSUME TypeOK, [Next]_vars, tears' = 0
  PROVE  tears = 0 /\ (torn = FALSE => torn' = FALSE)
<1>1. tears \in Nat
  BY TornBound DEF TypeOK
<1> QED BY <1>1 DEF Next, vars, Call, WriterStep, PreRead, Acquire, Read, AppendEvent, Release,
        Crash, OtherEvent

LEMMA RecordedStep ==
  ASSUME Inv, Recorded, [Next]_vars
  PROVE  Recorded'
<1> SUFFICES ASSUME tears' = 0
             PROVE  /\ torn' = FALSE
                    /\ \A w \in Writers : result'[w] = "ok" \/ pc'[w] = "release" => Announces(w)'
  BY DEF Recorded
<1>1. TypeOK /\ tears = 0 /\ torn = FALSE /\ torn' = FALSE
  BY TearsAreCounted DEF Inv, Recorded
<1>2. ASSUME NEW w \in Writers, result'[w] = "ok" \/ pc'[w] = "release"
      PROVE  Announces(w)'
  <2>1. job'[w] = job[w] /\ job[w].run \in Runs /\ job[w].event \in TerminalEvent
    BY <1>1, <1>2, ReturnStep DEF TypeOK, Job
  <2>2. CASE \/ result[w] = "ok" \/ pc[w] = "release"
             \/ Len(Found(w)) = 1 /\ ~Conflicting(w)
    <3>1. Announces(w)
      BY <1>1, <2>2, OneEventFound DEF Recorded
    <3>2. terminal[job[w].run] # <<>>
      BY <3>1 DEF Announces, Found
    <3> QED BY <2>1, <3>1, <3>2, EventsAreFinal DEF Announces, Found
  <2>3. CASE AppendEvent(w)
    <3>1. terminal' = [terminal EXCEPT ![job[w].run] = Append(@, job[w].event)]
      BY <1>1, <2>3 DEF AppendEvent
    <3>2. terminal[job[w].run] = <<>>
      BY <2>3 DEF Inv, CompareStillHolds, AppendEvent, Found
    <3>3. terminal'[job[w].run] = <<job[w].event>>
      BY <1>1, <2>1, <3>1, <3>2 DEF TypeOK
    <3> QED BY <2>1, <3>3 DEF Announces, Found
  <2> QED BY <1>1, <1>2, <2>2, <2>3, ReturnStep
<1> QED BY <1>1, <1>2

\* A terminalisation that returns normally has left its event in the ledger, for any
\* number of writers, as long as no append was cut short.
THEOREM ReturnIsRecorded == Spec => []ReturnMeansRecorded
<1>1. Init => Recorded
  BY DEF Init, Recorded
<1>2. Inv /\ Recorded /\ [Next]_vars => Recorded'
  BY RecordedStep
<1>3. Recorded => ReturnMeansRecorded
  BY DEF Recorded, ReturnMeansRecorded, Announces
<1> QED BY Invariance, <1>1, <1>2, <1>3, PTL DEF Spec

LEMMA RefusalStep ==
  ASSUME Inv, RefusalIsJustified, [Next]_vars
  PROVE  RefusalIsJustified'
<1> SUFFICES ASSUME NEW w \in Writers, result'[w] = "raised"
             PROVE  Conflicting(w)'
  BY DEF RefusalIsJustified
<1>1. TypeOK /\ job[w].run \in Runs /\ Len(Found(w)) <= 1
  BY DEF Inv, TypeOK, Job, AtMostOneTerminalEvent, Found
<1>2. job'[w] = job[w]
  BY <1>1, JobOfCall
<1>3. result[w] = "raised" \/ Duplicated(w) \/ Conflicting(w)
  BY <1>1 DEF TypeOK, Next, vars, Call, Goto, Return, WriterStep, PreRead, Acquire, Read,
     AppendEvent, Release, Crash, OtherEvent
<1>4. Found(w) \in Seq(TerminalEvent)
  BY <1>1 DEF TypeOK, Found
<1>5. Conflicting(w)
  BY <1>1, <1>3, <1>4 DEF Duplicated, RefusalIsJustified
<1>6. terminal'[job[w].run] = terminal[job[w].run]
  BY <1>1, <1>5, EventsAreFinal DEF Conflicting, Found
<1> QED BY <1>2, <1>5, <1>6 DEF Conflicting, Found

\* A terminalisation is refused only because the ledger announces the opposite
\* outcome, never because of a writer that repeats or races another.
THEOREM RefusalsAreJustified == Spec => []RefusalIsJustified
<1>1. Init => RefusalIsJustified
  BY DEF Init, RefusalIsJustified
<1>2. Inv /\ RefusalIsJustified /\ [Next]_vars => RefusalIsJustified'
  BY RefusalStep
<1> QED BY Invariance, <1>1, <1>2, PTL DEF Spec

-----------------------------------------------------------------------------
(* Why a waiting call gets the lock and ends: the safety core of CallsReturn *)

\* The terminal lock is never left behind: whoever holds it is inside the
\* compare-and-append section of _append_terminal_event_once.
HolderIsAtWork == lock # Nobody => pc[lock] \in {"read", "append", "release"}

\* How many steps of its own a writer is from the end of its call.
StepsLeft(state) ==
  IF state = "idle" THEN 0 ELSE IF state = "release" THEN 1 ELSE IF state = "append" THEN 2
  ELSE IF state = "read" THEN 3 ELSE IF state = "acquire" THEN 4 ELSE 5

\* Once begun, a call only gets nearer to its end, whatever other processes do
\* and however it ends: no path of the code loops or goes back for the lock.
CallsAdvance ==
  \A w \in Writers :
    \/ pc[w] = "idle"
    \/ pc'[w] = pc[w]
    \/ StepsLeft(pc'[w]) < StepsLeft(pc[w])

\* A reader of the ledger that is inside the section has an answer to
\* everything it may find there.
EveryLedgerIsAnswered ==
  \A w \in Writers :
    pc[w] = "read" =>
      \/ Duplicated(w) \/ Conflicting(w)
      \/ Len(Found(w)) = 1 /\ ~Conflicting(w)
      \/ Found(w) = <<>>

\* A process that takes the lock is at work, and stays so until it frees it.
LEMMA HolderStep ==
  ASSUME Inv, HolderIsAtWork, [Next]_vars
  PROVE  HolderIsAtWork'
<1> USE NobodyIsNoWriter DEF Inv, TypeOK, CompareStillHolds, HolderIsAtWork, Goto
<1>1. ASSUME NEW w \in Writers, Call(w) \/ PreRead(w) PROVE HolderIsAtWork'
  BY <1>1 DEF Call, PreRead
<1>2. ASSUME NEW w \in Writers, Acquire(w) PROVE HolderIsAtWork'
  BY <1>2 DEF Acquire
<1>3. ASSUME NEW w \in Writers, Read(w) PROVE HolderIsAtWork'
  BY <1>3 DEF Read
<1>4. ASSUME NEW w \in Writers, AppendEvent(w) \/ Release(w) PROVE HolderIsAtWork'
  BY <1>4 DEF AppendEvent, Release
<1>5. ASSUME NEW w \in Writers, Crash(w) PROVE HolderIsAtWork'
  BY <1>5 DEF Crash
<1>6. CASE OtherEvent \/ UNCHANGED vars
  BY <1>6 DEF OtherEvent, vars
<1> QED BY <1>1, <1>2, <1>3, <1>4, <1>5, <1>6 DEF Next, WriterStep

\* The lock is held only by a process that is about to free it, killed or not.
THEOREM LockIsNeverLeftBehind == Spec => [](HolderIsAtWork /\ EveryLedgerIsAnswered)
<1>1. Init => HolderIsAtWork
  BY DEF Init, HolderIsAtWork
<1>2. Inv /\ HolderIsAtWork /\ [Next]_vars => HolderIsAtWork'
  BY HolderStep
<1>3. TypeOK => EveryLedgerIsAnswered
  <2> SUFFICES ASSUME TypeOK, NEW w \in Writers
               PROVE  Len(Found(w)) > 1 \/ Len(Found(w)) = 1 \/ Found(w) = <<>>
    BY DEF EveryLedgerIsAnswered, Duplicated
  <2>1. Found(w) \in Seq(TerminalEvent)
    BY DEF TypeOK, Job, Found
  <2>2. Len(Found(w)) \in Nat /\ (Len(Found(w)) = 0 => Found(w) = <<>>)
    BY <2>1
  <2>3. \A n \in Nat : n > 1 \/ n = 1 \/ n = 0
    OBVIOUS
  <2> QED BY <2>2, <2>3
<1> QED BY Invariance, TypeCorrect, <1>1, <1>2, <1>3, PTL DEF Spec

\* A call takes at most five steps of its own, whatever others do in between.
THEOREM CallsAlwaysAdvance == Spec => [][CallsAdvance]_vars
<1>1. ASSUME TypeOK, Next PROVE CallsAdvance
  <2> SUFFICES ASSUME NEW w \in Writers, pc[w] # "idle", pc'[w] # pc[w]
               PROVE  StepsLeft(pc'[w]) < StepsLeft(pc[w])
    BY DEF CallsAdvance
  <2> USE DEF TypeOK, Goto
  <2>1. CASE PreRead(w)
    <3>1. pc[w] = "preread" /\ pc'[w] \in {"idle", "acquire"}
      BY <1>1, <2>1 DEF PreRead
    <3> QED BY <3>1 DEF StepsLeft
  <2>2. CASE Acquire(w)
    <3>1. pc[w] = "acquire" /\ pc'[w] = "read"
      BY <1>1, <2>2 DEF Acquire
    <3> QED BY <3>1 DEF StepsLeft
  <2>3. CASE Read(w)
    <3>1. pc[w] = "read" /\ pc'[w] \in {"idle", "release", "append"}
      BY <1>1, <2>3 DEF Read
    <3> QED BY <3>1 DEF StepsLeft
  <2>4. CASE AppendEvent(w) \/ Release(w)
    <3>1. \/ pc[w] = "append" /\ pc'[w] = "release"
          \/ pc[w] = "release" /\ pc'[w] = "idle"
      BY <1>1, <2>4 DEF AppendEvent, Release
    <3> QED BY <3>1 DEF StepsLeft
  <2>5. CASE Crash(w)
    <3>1. pc'[w] = "idle"
      BY <1>1, <2>5 DEF Crash
    <3> QED BY <3>1 DEF StepsLeft
  <2>6. ASSUME NEW v \in Writers, v # w, Call(v) \/ WriterStep(v) \/ Crash(v)
        PROVE  pc'[w] = pc[w]
    BY <1>1, <2>6 DEF Call, WriterStep, PreRead, Acquire, Read, AppendEvent, Release, Crash
  <2>7. ~Call(w) /\ ~OtherEvent
    BY DEF Call, OtherEvent
  <2> QED BY <1>1, <2>1, <2>2, <2>3, <2>4, <2>5, <2>6, <2>7 DEF Next, WriterStep
<1> QED BY TypeCorrect, <1>1, PTL DEF Spec
=============================================================================
