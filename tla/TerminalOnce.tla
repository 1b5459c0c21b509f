---------------------------- MODULE TerminalOnce ----------------------------
(***************************************************************************)
(* What the terminal part of the Research Ledger promises its readers: the *)
(* outcome of a Run is announced at most once and never changes.           *)
(***************************************************************************)

CONSTANT Runs

VARIABLE announced   \* the outcome the ledger gives for each Run

TerminalEvent == {"run_completed", "run_failed"}

TypeOK == announced \in [Runs -> TerminalEvent \cup {"none"}]

Init == announced = [r \in Runs |-> "none"]

Announce(r, event) ==
  /\ announced[r] = "none"
  /\ announced' = [announced EXCEPT ![r] = event]

Next == \E r \in Runs, event \in TerminalEvent : Announce(r, event)

Spec == Init /\ [][Next]_announced
=============================================================================
