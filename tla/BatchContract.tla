--------------------------- MODULE BatchContract ---------------------------
(***************************************************************************)
(* What EvaluationExecutor.run_batch promises the engine                   *)
(* (orchestration/executors.py): one answer per task, in the order of the  *)
(* tasks, whatever the workers do; a success only for a task that some     *)
(* worker has evaluated; or an exception, after which no batch is asked    *)
(* for.  SearchEngine relies on it, ProcessPool implements it.             *)
(***************************************************************************)
EXTENDS Naturals, Sequences

CONSTANTS
    Tasks,     \* what can be evaluated, one attempt each
    Answers    \* what the engine can be told, "OK" among it

VARIABLES
    phase,     \* "idle", "running", "answered" or "raised"
    asked,     \* the tasks of the batch
    answers,   \* their results
    measured   \* the tasks a worker has evaluated successfully

Init ==
    /\ phase = "idle"
    /\ asked = <<>>
    /\ answers = <<>>
    /\ measured = {}

Ask ==
    /\ phase = "idle"
    /\ asked' \in Seq(Tasks)
    /\ phase' = "running"
    /\ UNCHANGED <<answers, measured>>

\* A worker finishes, while the batch runs or long after it was given up.
Measure ==
    /\ \E t \in Tasks : measured' = measured \cup {t}
    /\ UNCHANGED <<phase, asked, answers>>

Answer ==
    /\ phase = "running"
    /\ answers' \in Seq(Answers)
    /\ Len(answers') = Len(asked)
    /\ \A i \in DOMAIN answers' : answers'[i] = "OK" => asked[i] \in measured
    /\ phase' = "answered"
    /\ UNCHANGED <<asked, measured>>

Take ==
    /\ phase = "answered"
    /\ phase' = "idle"
    /\ asked' = <<>>
    /\ answers' = <<>>
    /\ UNCHANGED measured

\* An exception, or a Ctrl-C at any time.
Raise ==
    /\ phase # "raised"
    /\ phase' = "raised"
    /\ asked' = <<>>
    /\ answers' = <<>>
    /\ UNCHANGED measured

Next == Ask \/ Measure \/ Answer \/ Take \/ Raise

Spec == Init /\ [][Next]_<<phase, asked, answers, measured>>
=============================================================================
