---------------------------- MODULE SearchEngine ----------------------------
(***************************************************************************)
(* The orchestration core: the engine's propose-evaluate-observe loop      *)
(* (orchestration/engine.py) over the durable search state it writes       *)
(* (persistence/repository.py), with the retry policy, search checkpoints, *)
(* Ctrl-C, process crashes and resume.                                     *)
(*                                                                         *)
(* One action is one repository transaction, or one stretch of in-memory   *)
(* work between two transactions, because a crash or a Ctrl-C can fall     *)
(* between any two of them.  The state is split in two: what a database    *)
(* row holds survives a crash, what the engine object holds does not.      *)
(*                                                                         *)
(* A candidate is identified by (search, architecture_hash, rung), which   *)
(* the database keeps unique; a member of Keys is one such identity within *)
(* the one search that is modelled.                                        *)
(***************************************************************************)
EXTENDS Integers, Sequences, FiniteSets, Lifecycle

CONSTANTS
    Keys,             \* candidate identities (architecture hash and rung)
    OverBudget,       \* the ones check_architecture prunes (resource limits)
    Malformed,        \* the ones it rejects as invalid
    MaxEvaluations,   \* budget.max_evaluations
    MaxRetries,       \* retry.max_retries
    InFlight,         \* executor.max_in_flight, 1 for a synchronous strategy
    CheckpointEvery,  \* persistence.checkpoint_every
    KeepCheckpoints,  \* persistence.keep_checkpoints
    Outcomes,         \* what an evaluation may return
    RetryOnTimeout,   \* retry.retry_on_timeout
    TimeLimited,      \* whether budget.max_seconds is set
    Aborts,           \* how a run may be cut short: "INTERRUPTED", "ERROR"
    MayCrash,         \* whether the process may die
    MaxResumes        \* bound of the model: how often the search is resumed

ASSUME EngineAssumption ==
    /\ IsFiniteSet(Keys)
    /\ OverBudget \subseteq Keys
    /\ Malformed \subseteq Keys \ OverBudget
    /\ MaxEvaluations \in Nat \ {0}
    /\ MaxRetries \in Nat
    /\ InFlight \in Nat \ {0}
    /\ CheckpointEvery \in Nat \ {0}
    /\ KeepCheckpoints \in Nat \ {0}
    /\ Outcomes \subseteq {"OK", "PERMANENT", "TRANSIENT", "TIMEOUT"}
    /\ RetryOnTimeout \in BOOLEAN
    /\ TimeLimited \in BOOLEAN
    /\ Aborts \subseteq {"INTERRUPTED", "ERROR"}
    /\ MayCrash \in BOOLEAN
    /\ MaxResumes \in Nat

VARIABLES
    \* durable: rows of the database
    searchStatus,  \* searches.status
    status,        \* candidates.status
    born,          \* candidates.created_at, as the position of the insert
    retries,       \* candidates.retry_count
    trial,         \* trials.status, by candidate and attempt
    checkpoints,   \* the checkpoints table, oldest first
    \* volatile: the engine object and the frames of run()
    pc,            \* what the engine does next
    strat,         \* the search strategy
    completed,     \* EngineState.completed
    attempts,      \* engine._attempts
    todo,          \* proposals of this round not yet accepted
    tasks,         \* tasks of this round not yet dealt with
    idle,          \* idle_rounds
    reason,        \* stop_reason, "NONE" while the loop runs
    \* bookkeeping of the model
    resumes        \* how often the search was resumed

durable == <<searchStatus, status, born, retries, trial, checkpoints>>
memory == <<strat, completed, attempts, todo, tasks, idle, reason>>
vars == <<durable, pc, memory, resumes>>

NotTried == -1
Attempts == 0 .. MaxRetries
InState(s) == {k \in Keys : status[k] = s}
MaxOf(a, b) == IF a >= b THEN a ELSE b
MinOf(a, b) == IF a <= b THEN a ELSE b

-----------------------------------------------------------------------------
(***************************************************************************)
(* The search strategy, reduced to what every implementation of the        *)
(* protocol in search/strategy.py keeps: the identities it has asked for   *)
(* (its "seen" hashes or outstanding keys), the outcomes it has been told, *)
(* and whether it is finished.  Which new identities it proposes, and when *)
(* it declares itself finished, is left open.                              *)
(***************************************************************************)
FreshStrategy == [asked |-> {}, told |-> {}, finished |-> FALSE]

Strategies == [asked : SUBSET Keys, told : SUBSET Keys, finished : BOOLEAN]

\* What propose(n) may return: at most n identities it has not asked for yet.
Proposals(n) ==
    UNION {{p \in [1 .. m -> Keys \ strat.asked] :
               \A i, j \in 1 .. m : p[i] = p[j] => i = j} : m \in 0 .. n}

AskedFor(p) == {p[i] : i \in 1 .. Len(p)}

-----------------------------------------------------------------------------
(***************************************************************************)
(* Small decisions of the code, one operator each.                         *)
(***************************************************************************)
\* RetryPolicy.decide: a permanent failure never, a timeout only when the
\* policy says so, anything else while attempts remain.
ShouldRetryOffByOne(outcome, attempt) ==
    /\ outcome = "TRANSIENT" \/ (outcome = "TIMEOUT" /\ RetryOnTimeout)
    /\ MaxRetries - attempt >= 0

ShouldRetry(outcome, attempt) ==
    /\ outcome = "TRANSIENT" \/ (outcome = "TIMEOUT" /\ RetryOnTimeout)
    /\ MaxRetries - attempt > 0

\* The attempt number of the next trial: the engine's own count when it has
\* one, otherwise the retry_count column.
NextAttemptFromMemory(k) == IF attempts[k] = NotTried THEN 0 ELSE attempts[k]

NextAttempt(k) == IF attempts[k] = NotTried THEN retries[k] ELSE attempts[k]

\* _queued_count and the room it leaves for new proposals.
FreeSlots == MaxOf(0, InFlight - Cardinality(InState("QUEUED")))

\* How many proposals this round asks for.
WantedProposals == MinOf(FreeSlots, MaxOf(1, MaxEvaluations - completed))

\* claim_next_queued: the queued candidate inserted first.
Oldest(k) == /\ status[k] = "QUEUED"
             /\ \A q \in InState("QUEUED") : born[k] <= born[q]

\* _reconcile_completed: the database's count replaces the checkpoint's.
Reconciled(saved) == Cardinality(InState("COMPLETED"))

\* The status a finished run leaves on the search.
FinalStatus == CASE reason = "INTERRUPTED" -> "PAUSED"
                 [] reason = "ERROR"       -> "FAILED"
                 [] OTHER                  -> "COMPLETED"

\* The checkpoint _checkpoint would write now.
Snapshot == [strat |-> strat, completed |-> completed]

\* What Observe adds to EngineState.completed.
CompletionOfAny(k) == 1

CompletionOf(k) == IF status[k] = "COMPLETED" THEN 1 ELSE 0

\* strategy.observe, called for both kinds of final outcome.
ToldOfSuccess(k) == IF status[k] = "COMPLETED" THEN strat.told \cup {k} ELSE strat.told

ToldOf(k) == strat.told \cup {k}

\* idle_rounds after a round that claimed nothing.
NextIdleForgotten == 0

NextIdle == idle + 1

-----------------------------------------------------------------------------
Init ==
    /\ searchStatus = Absent
    /\ status = [k \in Keys |-> Absent]
    /\ born = [k \in Keys |-> 0]
    /\ retries = [k \in Keys |-> 0]
    /\ trial = [k \in Keys |-> [a \in Attempts |-> Absent]]
    /\ checkpoints = <<>>
    /\ pc = "down"
    /\ strat = FreshStrategy
    /\ completed = 0
    /\ attempts = [k \in Keys |-> NotTried]
    /\ todo = <<>>
    /\ tasks = <<>>
    /\ idle = 0
    /\ reason = "NONE"
    /\ resumes = 0

\* A new engine object: everything it keeps in memory is fresh.
FreshMemory ==
    /\ strat' = FreshStrategy
    /\ completed' = 0
    /\ attempts' = [k \in Keys |-> NotTried]
    /\ todo' = <<>>
    /\ tasks' = <<>>
    /\ idle' = 0
    /\ reason' = "NONE"

\* update_candidate_state: validate_transition refuses an edge that is not in
\* the table.  NeverRefused below says that the engine never asks for one.
Transition(k, target) ==
    /\ CanTransition(status[k], target)
    /\ status' = [status EXCEPT ![k] = target]

-----------------------------------------------------------------------------
(***************************************************************************)
(* Starting and resuming.                                                  *)
(***************************************************************************)
CreateSearch ==
    /\ pc = "down"
    /\ searchStatus = Absent
    /\ searchStatus' = "CREATED"
    /\ pc' = "created"
    /\ UNCHANGED <<status, born, retries, trial, checkpoints, memory, resumes>>

BeginSearch ==
    /\ pc = "created"
    /\ searchStatus' = "RUNNING"
    /\ pc' = "loop"
    /\ UNCHANGED <<status, born, retries, trial, checkpoints, memory, resumes>>

\* The recovery sweep for one candidate and for its trials.
RecoveredStatusLeft(k) ==
    IF status[k] = "RUNNING" /\ retries[k] < MaxRetries THEN "QUEUED" ELSE status[k]

RecoveredStatus(k) ==
    IF status[k] # "RUNNING" THEN status[k]
    ELSE IF retries[k] < MaxRetries THEN "QUEUED" ELSE "FAILED"

RecoveredRetries(k) ==
    IF status[k] = "RUNNING" /\ retries[k] < MaxRetries THEN retries[k] + 1
    ELSE retries[k]

RecoveredTrial(k, a) ==
    IF status[k] = "RUNNING" /\ trial[k][a] = "RUNNING" THEN "INTERRUPTED"
    ELSE trial[k][a]

\* A new process resumes the search: recover_interrupted, one transaction.
RecoverInterrupted ==
    /\ pc \in {"down", "stopped"}
    /\ searchStatus # Absent
    /\ resumes < MaxResumes
    /\ resumes' = resumes + 1
    /\ status' = [k \in Keys |-> RecoveredStatus(k)]
    /\ retries' = [k \in Keys |-> RecoveredRetries(k)]
    /\ trial' = [k \in Keys |-> [a \in Attempts |-> RecoveredTrial(k, a)]]
    /\ FreshMemory
    /\ pc' = "recovered"
    /\ UNCHANGED <<searchStatus, born, checkpoints>>

\* latest_checkpoint; without one the search starts afresh.
LatestCheckpoint ==
    IF checkpoints = <<>> THEN [strat |-> FreshStrategy, completed |-> 0]
    ELSE checkpoints[Len(checkpoints)]

\* _restore and _reconcile_completed, which only read, then
\* update_search_status(RUNNING).
ResumeSearch ==
    /\ pc = "recovered"
    /\ strat' = LatestCheckpoint.strat
    /\ completed' = Reconciled(LatestCheckpoint.completed)
    /\ searchStatus' = "RUNNING"
    /\ pc' = "loop"
    /\ UNCHANGED <<status, born, retries, trial, checkpoints, attempts, todo,
                   tasks, idle, reason, resumes>>

-----------------------------------------------------------------------------
(***************************************************************************)
(* The head of the loop: stop, or ask the strategy for proposals.          *)
(***************************************************************************)
BudgetSpentLate == completed > MaxEvaluations

BudgetSpent == completed >= MaxEvaluations

Stop(why) == reason' = why /\ pc' = "save"

StopOnBudget ==
    /\ pc = "loop"
    /\ BudgetSpent
    /\ Stop("BUDGET_EXHAUSTED")
    /\ UNCHANGED <<durable, strat, completed, attempts, todo, tasks, idle, resumes>>

StopOnTime ==
    /\ pc = "loop"
    /\ ~BudgetSpent
    /\ TimeLimited
    /\ Stop("TIME_LIMIT")
    /\ UNCHANGED <<durable, strat, completed, attempts, todo, tasks, idle, resumes>>

Propose ==
    /\ pc = "loop"
    /\ ~BudgetSpent
    /\ FreeSlots > 0
    /\ ~strat.finished
    /\ \E p \in Proposals(WantedProposals), f \in BOOLEAN :
          /\ todo' = p
          /\ strat' = [strat EXCEPT !.asked = @ \cup AskedFor(p), !.finished = f]
    /\ pc' = "accept"
    /\ UNCHANGED <<durable, completed, attempts, tasks, idle, reason, resumes>>

NothingToPropose ==
    /\ pc = "loop"
    /\ ~BudgetSpent
    /\ FreeSlots = 0 \/ strat.finished
    /\ pc' = "claim"
    /\ UNCHANGED <<durable, memory, resumes>>

-----------------------------------------------------------------------------
(***************************************************************************)
(* _accept_proposal, for each proposal in turn.                            *)
(***************************************************************************)
\* The identity of a row is (search, architecture, rung).
FindCandidate(k) == status[k] # Absent

\* A second row of the same identity is refused by the database; rows are
\* ordered by created_at.
AddCandidate(k) ==
    /\ status[k] = Absent
    /\ status' = [status EXCEPT ![k] = "PROPOSED"]
    /\ born' = [born EXCEPT ![k] = 1 + Cardinality({q \in Keys : status[q] # Absent})]

\* find_candidate sees the identity: the proposal is dropped.
AcceptDuplicate ==
    /\ pc = "accept"
    /\ todo # <<>>
    /\ FindCandidate(Head(todo))
    /\ todo' = Tail(todo)
    /\ UNCHANGED <<durable, pc, strat, completed, attempts, tasks, idle, reason, resumes>>

AcceptInsert ==
    /\ pc = "accept"
    /\ todo # <<>>
    /\ ~FindCandidate(Head(todo))
    /\ AddCandidate(Head(todo))
    /\ pc' = "check"
    /\ UNCHANGED <<searchStatus, retries, trial, checkpoints, memory, resumes>>

AcceptReject ==
    /\ pc = "check"
    /\ \/ Head(todo) \in OverBudget /\ Transition(Head(todo), "PRUNED")
       \/ Head(todo) \in Malformed /\ Transition(Head(todo), "FAILED")
    /\ todo' = Tail(todo)
    /\ pc' = "accept"
    /\ UNCHANGED <<searchStatus, born, retries, trial, checkpoints, strat,
                   completed, attempts, tasks, idle, reason, resumes>>

AcceptValidate ==
    /\ pc = "check"
    /\ Head(todo) \notin OverBudget \cup Malformed
    /\ Transition(Head(todo), "VALIDATED")
    /\ pc' = "enqueue"
    /\ UNCHANGED <<searchStatus, born, retries, trial, checkpoints, memory, resumes>>

AcceptEnqueue ==
    /\ pc = "enqueue"
    /\ Transition(Head(todo), "QUEUED")
    /\ attempts' = [attempts EXCEPT ![Head(todo)] = MaxOf(@, 0)]
    /\ todo' = Tail(todo)
    /\ pc' = "accept"
    /\ UNCHANGED <<searchStatus, born, retries, trial, checkpoints, strat,
                   completed, tasks, idle, reason, resumes>>

AcceptDone ==
    /\ pc = "accept"
    /\ todo = <<>>
    /\ pc' = "claim"
    /\ UNCHANGED <<durable, memory, resumes>>

-----------------------------------------------------------------------------
(***************************************************************************)
(* _build_tasks: claim up to InFlight queued candidates, a trial each.     *)
(***************************************************************************)
ClaimNextQueued ==
    /\ pc = "claim"
    /\ Len(tasks) < InFlight
    /\ \E k \in Keys :
          /\ Oldest(k)
          /\ Transition(k, "RUNNING")
          /\ attempts' = [attempts EXCEPT ![k] = NextAttempt(k)]
          /\ tasks' = Append(tasks, [key |-> k, attempt |-> NextAttempt(k),
                                     outcome |-> "PENDING"])
    /\ pc' = "start"
    /\ UNCHANGED <<searchStatus, born, retries, trial, checkpoints, strat,
                   completed, todo, idle, reason, resumes>>

\* start_trial: (candidate, attempt) is unique, a second insert is an error.
\* AttemptIsFresh below says that the engine never makes one.
StartTrial ==
    LET t == tasks[Len(tasks)] IN
    /\ pc = "start"
    /\ trial[t.key][t.attempt] = Absent
    /\ trial' = [trial EXCEPT ![t.key][t.attempt] = "RUNNING"]
    /\ pc' = "claim"
    /\ UNCHANGED <<searchStatus, status, born, retries, checkpoints, memory, resumes>>

NoMoreClaims == Len(tasks) = InFlight \/ InState("QUEUED") = {}

\* Nothing claimed twice in a row, or the strategy is finished: stop.
ClaimedNothing ==
    /\ pc = "claim"
    /\ NoMoreClaims
    /\ tasks = <<>>
    /\ \/ strat.finished /\ Stop("STRATEGY_FINISHED") /\ UNCHANGED idle
       \/ /\ ~strat.finished
          /\ idle' = NextIdle
          /\ IF NextIdle >= 2 THEN Stop("SPACE_EXHAUSTED")
             ELSE pc' = "loop" /\ UNCHANGED reason
    /\ UNCHANGED <<durable, strat, completed, attempts, todo, tasks, resumes>>

\* executor.run_batch: one result per task, in task order.
Answered(out) == [i \in 1 .. Len(tasks) |-> [tasks[i] EXCEPT !.outcome = out[i]]]

\* A round that claimed something is not idle.
RunBatch ==
    /\ pc = "claim"
    /\ NoMoreClaims
    /\ tasks # <<>>
    /\ \E out \in [1 .. Len(tasks) -> Outcomes] : tasks' = Answered(out)
    /\ idle' = 0
    /\ pc' = "result"
    /\ UNCHANGED <<durable, strat, completed, attempts, todo, reason, resumes>>

-----------------------------------------------------------------------------
(***************************************************************************)
(* _process_result, for each task in order.                                *)
(***************************************************************************)
CompleteCandidateFirst ==
    /\ pc = "result"
    /\ tasks # <<>>
    /\ Head(tasks).outcome = "OK"
    /\ Transition(Head(tasks).key, "COMPLETED")
    /\ pc' = "complete"
    /\ UNCHANGED <<searchStatus, born, retries, trial, checkpoints, memory, resumes>>

CompleteTrial ==
    LET t == Head(tasks) IN
    /\ pc = "result"
    /\ tasks # <<>>
    /\ t.outcome = "OK"
    /\ trial' = [trial EXCEPT ![t.key][t.attempt] = "COMPLETED"]
    /\ pc' = "complete"
    /\ UNCHANGED <<searchStatus, status, born, retries, checkpoints, memory, resumes>>

MarkCompleted ==
    /\ pc = "complete"
    /\ Transition(Head(tasks).key, "COMPLETED")
    /\ pc' = "observe"
    /\ UNCHANGED <<searchStatus, born, retries, trial, checkpoints, memory, resumes>>

\* fail_trial, the status it writes.
FailedVerdict(outcome) == IF outcome = "TIMEOUT" THEN "TIMEOUT" ELSE "FAILED"

\* fail_trial, then what the retry policy decides.
FailTrial ==
    LET t == Head(tasks) IN
    /\ pc = "result"
    /\ tasks # <<>>
    /\ t.outcome # "OK"
    /\ trial' = [trial EXCEPT ![t.key][t.attempt] =
                     FailedVerdict(t.outcome)]
    /\ pc' = IF ShouldRetry(t.outcome, t.attempt) THEN "retry" ELSE "fail"
    /\ UNCHANGED <<searchStatus, status, born, retries, checkpoints, memory, resumes>>

IncrementRetry ==
    /\ pc = "retry"
    /\ retries' = [retries EXCEPT ![Head(tasks).key] = @ + 1]
    /\ pc' = "requeue"
    /\ UNCHANGED <<searchStatus, status, born, trial, checkpoints, memory, resumes>>

Requeue ==
    LET t == Head(tasks) IN
    /\ pc = "requeue"
    /\ Transition(t.key, "QUEUED")
    /\ attempts' = [attempts EXCEPT ![t.key] = t.attempt + 1]
    /\ tasks' = Tail(tasks)
    /\ pc' = "result"
    /\ UNCHANGED <<searchStatus, born, retries, trial, checkpoints, strat,
                   completed, todo, idle, reason, resumes>>

MarkFailed ==
    /\ pc = "fail"
    /\ Transition(Head(tasks).key, "FAILED")
    /\ pc' = "observe"
    /\ UNCHANGED <<searchStatus, born, retries, trial, checkpoints, memory, resumes>>

\* Count the completion and tell the strategy, both in memory.
Observe ==
    LET k == Head(tasks).key IN
    /\ pc = "observe"
    /\ completed' = completed + CompletionOf(k)
    /\ \E f \in BOOLEAN :
          strat' = [asked |-> strat.asked \cup {k}, told |-> ToldOf(k), finished |-> f]
    /\ tasks' = Tail(tasks)
    /\ pc' = "result"
    /\ UNCHANGED <<durable, attempts, todo, idle, reason, resumes>>

BatchDone ==
    /\ pc = "result"
    /\ tasks = <<>>
    /\ pc' = IF completed % CheckpointEvery = 0 THEN "save" ELSE "loop"
    /\ UNCHANGED <<durable, memory, resumes>>

-----------------------------------------------------------------------------
(***************************************************************************)
(* _checkpoint (two transactions) and _finalise.                           *)
(***************************************************************************)
SaveCheckpoint ==
    /\ pc = "save"
    /\ checkpoints' = Append(checkpoints, Snapshot)
    /\ pc' = "prune"
    /\ UNCHANGED <<searchStatus, status, born, retries, trial, memory, resumes>>

KeptFrom == MaxOf(1, Len(checkpoints) - KeepCheckpoints + 1)

PruneCheckpoints ==
    /\ pc = "prune"
    /\ checkpoints' = SubSeq(checkpoints, KeptFrom, Len(checkpoints))
    /\ pc' = IF reason = "NONE" THEN "loop" ELSE "close"
    /\ UNCHANGED <<searchStatus, status, born, retries, trial, memory, resumes>>

CloseSearch ==
    /\ pc = "close"
    /\ searchStatus' = FinalStatus
    /\ pc' = "stopped"
    /\ UNCHANGED <<status, born, retries, trial, checkpoints, memory, resumes>>

-----------------------------------------------------------------------------
(***************************************************************************)
(* What may happen to the process at any moment.                           *)
(***************************************************************************)
\* The try block of run(): from the first round of the loop to its end.
InLoop == /\ reason = "NONE"
          /\ pc \in {"loop", "accept", "check", "enqueue", "claim", "start", "result",
                     "complete", "retry", "requeue", "fail", "observe", "save", "prune"}

\* Ctrl-C, or an exception (a raising executor, a database error) leaves the
\* loop wherever it is; run() then finalises.
Abort ==
    /\ InLoop
    /\ \E why \in Aborts : Stop(why)
    /\ todo' = <<>>
    /\ tasks' = <<>>
    /\ UNCHANGED <<durable, strat, completed, attempts, idle, resumes>>

\* The process dies; an open transaction rolls back, memory is gone.
Crash ==
    /\ pc \notin {"down", "stopped"}
    /\ MayCrash
    /\ pc' = "down"
    /\ FreshMemory
    /\ UNCHANGED <<durable, resumes>>

\* Nobody resumes the search again.
Terminated ==
    /\ pc \in {"down", "stopped"}
    /\ searchStatus # Absent
    /\ resumes = MaxResumes
    /\ UNCHANGED vars

\* The steps the engine takes by itself once it is started.
EngineStep ==
    \/ BeginSearch \/ ResumeSearch
    \/ StopOnBudget \/ StopOnTime \/ Propose \/ NothingToPropose
    \/ AcceptDuplicate \/ AcceptInsert \/ AcceptReject \/ AcceptValidate
    \/ AcceptEnqueue \/ AcceptDone
    \/ ClaimNextQueued \/ StartTrial \/ ClaimedNothing \/ RunBatch
    \/ CompleteTrial \/ MarkCompleted \/ FailTrial \/ IncrementRetry \/ Requeue
    \/ MarkFailed \/ Observe \/ BatchDone
    \/ SaveCheckpoint \/ PruneCheckpoints \/ CloseSearch

Next == CreateSearch \/ RecoverInterrupted \/ EngineStep \/ Abort \/ Crash \/ Terminated

Spec == Init /\ [][Next]_vars

\* The engine is one thread that runs on by itself, so it never stops taking
\* steps while it is up.  Nobody is obliged to start it, resume it or kill it.
FairSpec == Spec /\ WF_vars(EngineStep)

-----------------------------------------------------------------------------
(***************************************************************************)
(* Types.                                                                  *)
(***************************************************************************)
SearchStatus == {"CREATED", "RUNNING", "PAUSED", "COMPLETED", "FAILED", "CANCELLED"}

StopReason == {"BUDGET_EXHAUSTED", "TIME_LIMIT", "STRATEGY_FINISHED",
               "SPACE_EXHAUSTED", "INTERRUPTED", "ERROR"}

Tasks == [key : Keys, attempt : Attempts, outcome : Outcomes \cup {"PENDING"}]

SearchCheckpoints == [strat : Strategies, completed : Nat]

\* Every variable of the model stays in the set its comment describes.  The
\* part that is not obvious is that attempt numbers stay within
\* 0..MaxRetries, which is what keeps the trial table's index in range.
TypeOK ==
    /\ searchStatus \in SearchStatus \cup {Absent}
    /\ status \in [Keys -> CandidateState \cup {Absent}]
    /\ born \in [Keys -> Nat]
    /\ retries \in [Keys -> Nat]
    /\ trial \in [Keys -> [Attempts -> TrialState \cup {Absent}]]
    /\ checkpoints \in Seq(SearchCheckpoints)
    /\ pc \in {"down", "created", "recovered", "loop", "accept", "check", "enqueue",
               "claim", "start", "result", "complete", "retry", "requeue", "fail",
               "observe", "save", "prune", "close", "stopped"}
    /\ strat \in Strategies
    /\ completed \in Nat
    /\ attempts \in [Keys -> Attempts \cup {NotTried}]
    /\ todo \in Seq(Keys)
    /\ tasks \in Seq(Tasks)
    /\ idle \in Nat
    /\ reason \in StopReason \cup {"NONE"}
    /\ resumes \in Nat

-----------------------------------------------------------------------------
(***************************************************************************)
(* Safety.                                                                 *)
(***************************************************************************)
\* The candidates whose evaluation has been given a final outcome.
Evaluated(k) == \E a \in Attempts : trial[k][a] # Absent
Settled == {k \in InState("COMPLETED") \cup InState("FAILED") : Evaluated(k)}
TaskKeys == {tasks[i].key : i \in 1 .. Len(tasks)}

\* start_trial never hits the (candidate, attempt) constraint, whatever mix of
\* retries, crashes and recoveries the candidate went through: the engine's
\* own attempt counter and the retry_count column agree when it matters.
AttemptIsFresh ==
    pc = "start" => LET t == tasks[Len(tasks)] IN trial[t.key][t.attempt] = Absent

\* A candidate is never tried more than MaxRetries times beyond the first,
\* however often it is interrupted, and no trial is numbered past the
\* retry_count that the database shows.
RetryBound ==
    \A k \in Keys :
        /\ retries[k] <= MaxRetries
        /\ \A a \in Attempts : trial[k][a] # Absent => a <= retries[k]

\* update_candidate_state is never asked for an edge that validate_transition
\* refuses, so the loop never dies of an InvalidStateTransitionError.
NeverRefused ==
    /\ pc \in {"check", "enqueue"} =>
           status[Head(todo)] = IF pc = "check" THEN "PROPOSED" ELSE "VALIDATED"
    /\ pc \in {"complete", "requeue", "fail"} => status[Head(tasks).key] = "RUNNING"

\* While the loop runs, the candidates in RUNNING are exactly the ones in this
\* round's tasks that have no final outcome yet: nothing is left behind by an
\* earlier round or by the process that was resumed.
NoOrphans ==
    InLoop => InState("RUNNING") =
                  TaskKeys \ (IF pc = "observe" THEN {Head(tasks).key} ELSE {})

\* A trial in RUNNING belongs to a candidate in RUNNING, and a candidate has at
\* most one of them, before, during and after a crash.
OneLiveTrial ==
    \A k \in Keys : \A a, b \in Attempts :
        /\ trial[k][a] = "RUNNING" => status[k] = "RUNNING"
        /\ trial[k][a] = "RUNNING" /\ trial[k][b] = "RUNNING" => a = b

\* A completed candidate's metrics are those of its last attempt.
CompletedHasMetrics ==
    \A k \in InState("COMPLETED") : trial[k][retries[k]] = "COMPLETED"

\* At the head of the loop the counter that decides whether the budget is
\* spent equals the number of completed candidates in the database, also right
\* after a resume from a checkpoint that lags behind.
CountAgrees == pc = "loop" => completed = Cardinality(InState("COMPLETED"))

\* The budget can be overrun, by less than one batch.
OvershootBound == Cardinality(InState("COMPLETED")) <= MaxEvaluations + InFlight - 1

\* A run that reports that its budget is exhausted did complete that many.
BudgetIsHonest ==
    pc = "stopped" /\ reason = "BUDGET_EXHAUSTED" =>
        Cardinality(InState("COMPLETED")) >= MaxEvaluations

\* What the budget promises, across retries, crashes and resumes: the counter
\* is right when it is compared, the overrun is less than a batch, and a run
\* that reports exhaustion did exhaust it.
BudgetHolds == CountAgrees /\ OvershootBound /\ BudgetIsHonest

\* The checkpoint may lag behind the database, it never runs ahead of it: no
\* saved strategy was told an outcome that the database does not hold.
CheckpointNeverAhead ==
    \A i \in 1 .. Len(checkpoints) :
        /\ checkpoints[i].completed <= Cardinality(InState("COMPLETED"))
        /\ checkpoints[i].strat.told \subseteq Settled

\* The strategy is told each outcome once, also across resumes.
ToldOnce == pc = "observe" => Head(tasks).key \notin strat.told

\* Before the first resume the strategy knows every outcome of the database.
ToldEverything == pc = "loop" /\ resumes = 0 => strat.told = Settled

\* Together: the strategy hears of every outcome, and of none twice.
HearsOutcomes == ToldOnce /\ ToldEverything

\* A search marked completed has no evaluation under way in the database.
CompletedIsQuiet ==
    searchStatus = "COMPLETED" =>
        /\ InState("RUNNING") = {}
        /\ \A k \in Keys, a \in Attempts : trial[k][a] # "RUNNING"

-----------------------------------------------------------------------------
(***************************************************************************)
(* What a step may never do.                                               *)
(***************************************************************************)
\* Every status change is an edge of the table, the recovery sweep's included,
\* which writes the column without asking validate_transition.
FollowsTable ==
    [][\A k \in Keys :
          \/ status'[k] = status[k]
          \/ status[k] = Absent /\ status'[k] = "PROPOSED"
          \/ CanTransition(status[k], status'[k])]_vars

\* A trial that has ended keeps its verdict: complete_trial and fail_trial do
\* not look at the row's previous status, and never need to.
TrialWrittenOnce ==
    [][\A k \in Keys, a \in Attempts :
          trial[k][a] \in TrialState \ {"RUNNING"} => trial'[k][a] = trial[k][a]]_vars

-----------------------------------------------------------------------------
(***************************************************************************)
(* The promise made to readers of the database.                            *)
(***************************************************************************)
LedgerEntry(s) ==
    CASE s = Absent      -> "none"
      [] s = "RUNNING"   -> "live"
      [] s = "COMPLETED" -> "ok"
      [] OTHER           -> "bad"

Verdict(s) ==
    CASE s = "COMPLETED" -> "done"
      [] s \in {"FAILED", "PRUNED", "CANCELLED"} -> "dropped"
      [] OTHER -> "open"

Ledger == INSTANCE TrialLedger WITH
    ledger <- [k \in Keys |-> [a \in Attempts |-> LedgerEntry(trial[k][a])]],
    verdict <- [k \in Keys |-> Verdict(status[k])]

\* The tables the engine writes behave like the ledger of TrialLedger: one live
\* attempt at a time, numbered upwards, closed once, and a final verdict that
\* is "done" only after a measured last attempt.
KeepsLedger == Ledger!Spec

-----------------------------------------------------------------------------
(***************************************************************************)
(* Progress.                                                               *)
(***************************************************************************)
\* A loop that is entered ends: the budget is spent, the strategy finishes, or
\* two idle rounds give up; retries and duplicates do not keep it spinning.
LoopEnds == (pc = "loop") ~> (pc \in {"stopped", "down"})
=============================================================================
