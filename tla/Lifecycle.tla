----------------------------- MODULE Lifecycle -----------------------------
(***************************************************************************)
(* The candidate and trial state machines of orchestration/lifecycle.py:   *)
(* the states, the terminal ones and the transition table.  Everything     *)
(* that writes a candidate's status is checked against this table.         *)
(***************************************************************************)

\* A candidate that has no row yet.  Not a state of the program: it stands for
\* the absence of a record.
Absent == "ABSENT"

CandidateState ==
    {"PROPOSED", "VALIDATED", "QUEUED", "RUNNING",
     "COMPLETED", "FAILED", "PRUNED", "CANCELLED"}

TerminalStates == {"COMPLETED", "FAILED", "PRUNED", "CANCELLED"}

AllowedTransitions ==
    [PROPOSED  |-> {"VALIDATED", "FAILED", "PRUNED", "CANCELLED"},
     VALIDATED |-> {"QUEUED", "PRUNED", "CANCELLED"},
     QUEUED    |-> {"RUNNING", "PRUNED", "CANCELLED", "FAILED"},
     RUNNING   |-> {"COMPLETED", "FAILED", "QUEUED", "PRUNED", "CANCELLED"},
     COMPLETED |-> {}, FAILED |-> {}, PRUNED |-> {}, CANCELLED |-> {}]

CanTransition(source, target) ==
    source \in CandidateState /\ target \in AllowedTransitions[source]

TrialState == {"RUNNING", "COMPLETED", "FAILED", "TIMEOUT", "INTERRUPTED"}
=============================================================================
