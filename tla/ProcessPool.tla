----------------------------- MODULE ProcessPool -----------------------------
(***************************************************************************)
(* orchestration/executors.py, ProcessPoolExecutorBackend: batches of      *)
(* evaluations in a pool of worker processes, under the rounds of the      *)
(* engine that dispatch a batch and act on its results.                    *)
(*                                                                         *)
(* The pool is concurrent.futures.ProcessPoolExecutor: a first-in          *)
(* first-out queue served by the workers.  When a worker dies, every       *)
(* future that is not done fails, the other workers are terminated, and    *)
(* the pool refuses everything from then on.                               *)
(*                                                                         *)
(* A task is an attempt at a candidate.  Rows and checkpoints are the      *)
(* subject of SearchEngine; here a candidate has a status and an attempt   *)
(* number.  Parent and workers interleave freely.                          *)
(***************************************************************************)
EXTENDS Integers, Sequences, FiniteSets

CONSTANTS
    Candidates,    \* numbers, in the order of created_at
    InFlight,      \* max_in_flight
    Workers,       \* size of the pool
    MaxRetries,    \* retries of one candidate
    TimeLimited,   \* whether max_seconds_per_evaluation is set
    MayDie,        \* whether a worker may die
    MayInterrupt,  \* whether Ctrl-C happens
    MayStopEarly   \* whether a budget or time limit may end the search

ASSUME PoolAssumption ==
    /\ Candidates \subseteq Nat
    /\ IsFiniteSet(Candidates)
    /\ InFlight \in Nat \ {0}
    /\ Workers \in Nat \ {0}
    /\ MaxRetries \in Nat
    /\ {TimeLimited, MayDie, MayInterrupt, MayStopEarly} \subseteq BOOLEAN

VARIABLES
    pc,        \* where the engine's thread is
    reason,    \* StopReason
    status,    \* status of the candidates, "NEW" before they are proposed
    attempt,   \* the attempt each is at
    batch,     \* tasks
    results,   \* results, as far as they are collected
    handled,   \* how many of them the engine has processed
    pool,      \* self._pool
    queue,     \* work the pool has not started
    future     \* the futures of all submissions so far

engine == <<status, attempt, handled>>
vars == <<pc, reason, engine, batch, results, pool, queue, future>>

Tasks == Candidates \X (0..MaxRetries)

\* What a worker returns: a measurement, or a failure that may or may not be
\* retried.  No exception leaves evaluate_task.
Outcomes == {"OK", "TRANSIENT", "PERMANENT"}

\* "WORKER" is the WorkerError result that run_batch puts in for a future that
\* raised.
Answers == Outcomes \cup {"WORKER"}

Retriable == {"TRANSIENT", "WORKER"}

Live == {t \in Tasks : future[t] \in {"queued", "running"}}

Busy == {t \in Tasks : future[t] = "running"}

WithStatus(s) == {c \in Candidates : status[c] = s}

\* The n first of a set of numbers.
FirstOf(n, S) == {c \in S : Cardinality({d \in S : d < c}) < n}

-----------------------------------------------------------------------------
Init ==
    /\ pc = "loop"
    /\ reason = "NONE"
    /\ status = [c \in Candidates |-> "NEW"]
    /\ attempt = [c \in Candidates |-> 0]
    /\ batch = <<>>
    /\ results = <<>>
    /\ handled = 0
    /\ pool = "absent"
    /\ queue = <<>>
    /\ future = [t \in Tasks |-> "none"]

\* Free slots are filled with proposals.
Propose ==
    /\ pc = "loop"
    /\ LET slots == InFlight - Cardinality(WithStatus("QUEUED"))
           proposed == FirstOf(slots, WithStatus("NEW"))
       IN status' = [c \in Candidates |-> IF c \in proposed THEN "QUEUED" ELSE status[c]]
    /\ WithStatus("QUEUED") \cup WithStatus("NEW") # {}
    /\ pc' = "claim"
    /\ UNCHANGED <<reason, attempt, handled, batch, results, pool, queue, future>>

\* _build_tasks: the oldest queued candidates, up to the limit.
Claim ==
    /\ pc = "claim"
    /\ Len(batch) < InFlight
    /\ \E c \in FirstOf(1, WithStatus("QUEUED")) :
          /\ status' = [status EXCEPT ![c] = "RUNNING"]
          /\ batch' = Append(batch, <<c, attempt[c]>>)
    /\ UNCHANGED <<pc, reason, attempt, handled, results, pool, queue, future>>

Claimed ==
    /\ pc = "claim"
    /\ Len(batch) = InFlight \/ WithStatus("QUEUED") = {}
    /\ pc' = "dispatch"
    /\ UNCHANGED <<reason, engine, batch, results, pool, queue, future>>

\* Nothing is left, or the budget or the time is used up.
SearchOver ==
    /\ pc = "loop"
    /\ WithStatus("QUEUED") \cup WithStatus("NEW") = {} \/ MayStopEarly
    /\ reason' = "FINISHED"
    /\ pc' = "shutdown"
    /\ UNCHANGED <<engine, batch, results, pool, queue, future>>

-----------------------------------------------------------------------------
(***************************************************************************)
(* run_batch.                                                              *)
(***************************************************************************)

\* _ensure_pool: the pool that exists, in whatever state, or a new one.
EnsurePool ==
    /\ pc = "dispatch"
    /\ pool' = IF pool = "absent" THEN "up" ELSE pool
    /\ pc' = "submit"
    /\ UNCHANGED <<reason, engine, batch, results, queue, future>>

\* The pool cannot be started: WorkerError leaves run_batch.
CannotStart ==
    /\ pc = "dispatch"
    /\ pool = "absent"
    /\ reason' = "ERROR"
    /\ pc' = "finalise"
    /\ UNCHANGED <<engine, batch, results, pool, queue, future>>

NotSubmitted == {i \in DOMAIN batch : future[batch[i]] = "none"}

\* pool.submit for the next task of the comprehension.
Submit ==
    /\ pc = "submit"
    /\ pool = "up"
    /\ \E i \in NotSubmitted :
          /\ \A j \in NotSubmitted : i <= j
          /\ future' = [future EXCEPT ![batch[i]] = "queued"]
          /\ queue' = Append(queue, batch[i])
    /\ UNCHANGED <<pc, reason, engine, batch, results, pool>>

\* submit raises BrokenProcessPool, outside of the try of run_batch, and the
\* engine takes it for the end of the search.
SubmitRefused ==
    /\ pc = "submit"
    /\ pool = "broken"
    /\ NotSubmitted # {}
    /\ reason' = "ERROR"
    /\ pc' = "finalise"
    /\ UNCHANGED <<engine, batch, results, pool, queue, future>>

AllSubmitted ==
    /\ pc = "submit"
    /\ NotSubmitted = {}
    /\ pc' = "collect"
    /\ UNCHANGED <<reason, engine, batch, results, pool, queue, future>>

Collecting ==
    /\ pc = "collect"
    /\ Len(results) < Len(batch)

Current == batch[Len(results) + 1]

Collect(answer) ==
    /\ results' = Append(results, answer)
    /\ UNCHANGED <<pc, reason, engine, batch, pool, queue, future>>

\* The result of whichever future is done first.
CollectAnyDone ==
    /\ Collecting
    /\ \E i \in DOMAIN batch :
          /\ future[batch[i]] \in Outcomes
          /\ Collect(future[batch[i]])

\* future.result returns.
CollectDone ==
    /\ Collecting
    /\ future[Current] \in Outcomes
    /\ Collect(future[Current])

\* future.result raises: the result becomes a WorkerError failure.
CollectBroken ==
    /\ Collecting
    /\ future[Current] = "broken"
    /\ Collect("WORKER")

\* The timeout re-raised as it is, without a result for the task.
CollectTimeoutSkips ==
    /\ Collecting
    /\ TimeLimited
    /\ future[Current] \in {"queued", "running"}
    /\ batch' = SelectSeq(batch, LAMBDA t : t # Current)
    /\ UNCHANGED <<pc, reason, engine, results, pool, queue, future>>

\* future.result() without the timeout.
CollectTimeoutNever ==
    /\ Collecting
    /\ FALSE
    /\ Collect("WORKER")

\* future.result times out, for a running evaluation or for one still in the
\* queue.  The future is left as it is.
CollectTimeout ==
    /\ Collecting
    /\ TimeLimited
    /\ future[Current] \in {"queued", "running"}
    /\ Collect("WORKER")

BatchReturned ==
    /\ pc = "collect"
    /\ Len(results) = Len(batch)
    /\ pc' = "results"
    /\ UNCHANGED <<reason, engine, batch, results, pool, queue, future>>

\* Ctrl-C while waiting: the futures of this batch that are not running are
\* cancelled.  The pool counts what it has handed to the call queue of its
\* workers as running: the oldest work, one task more than there are workers.
InterruptCollect ==
    /\ MayInterrupt
    /\ Collecting
    /\ \E n \in 0..(Workers + 1 - Cardinality(Busy)) :
          LET kept == {queue[i] : i \in 1..n \cap DOMAIN queue}
              cancelled == {t \in Tasks \ kept :
                               /\ future[t] = "queued"
                               /\ \E i \in DOMAIN batch : batch[i] = t}
          IN future' = [t \in Tasks |->
                           IF t \in cancelled THEN "cancelled" ELSE future[t]]
    /\ reason' = "INTERRUPTED"
    /\ pc' = "shutdown"
    /\ UNCHANGED <<engine, batch, results, pool, queue>>

\* Ctrl-C anywhere else in the loop: nothing is cancelled.
Interrupt ==
    /\ MayInterrupt
    /\ pc \in {"loop", "claim", "dispatch", "submit", "results"}
    /\ reason' = "INTERRUPTED"
    /\ pc' = "shutdown"
    /\ UNCHANGED <<engine, batch, results, pool, queue, future>>

-----------------------------------------------------------------------------
(***************************************************************************)
(* The engine again: results, and the end of the run.                      *)
(***************************************************************************)

ShouldRetryOffByOne(answer, n) == answer \in Retriable /\ n <= MaxRetries

\* RetryPolicy.decide
ShouldRetry(answer, n) == answer \in Retriable /\ n < MaxRetries

\* _process_result for the next task of the batch.
Process ==
    /\ pc = "results"
    /\ handled < Len(batch)
    /\ LET c == batch[handled + 1][1]
           answer == results[handled + 1]
           again == ShouldRetry(answer, attempt[c])
       IN /\ status' = [status EXCEPT ![c] =
                           IF answer = "OK" THEN "COMPLETED"
                           ELSE IF again THEN "QUEUED" ELSE "FAILED"]
          /\ attempt' = [attempt EXCEPT ![c] = IF again THEN @ + 1 ELSE @]
    /\ handled' = handled + 1
    /\ UNCHANGED <<pc, reason, batch, results, pool, queue, future>>

RoundDone ==
    /\ pc = "results"
    /\ handled = Len(batch)
    /\ batch' = <<>>
    /\ results' = <<>>
    /\ handled' = 0
    /\ pc' = "loop"
    /\ UNCHANGED <<reason, status, attempt, pool, queue, future>>

\* shutdown(wait=False)
ShutdownNoWait ==
    /\ pc = "shutdown"
    /\ pool' = "absent"
    /\ pc' = IF reason = "ERROR" THEN "ended" ELSE "finalise"
    /\ UNCHANGED <<reason, engine, batch, results, queue, future>>

\* Executor.shutdown: waits for whatever the pool still has, timed-out tasks
\* of earlier rounds included.  In a finally clause: before _finalise, or
\* after it if an exception ends the run.
Shutdown ==
    /\ pc = "shutdown"
    /\ pool = "up" => Live = {}
    /\ pool' = "absent"
    /\ pc' = IF reason = "ERROR" THEN "ended" ELSE "finalise"
    /\ UNCHANGED <<reason, engine, batch, results, queue, future>>

Finalise ==
    /\ pc = "finalise"
    /\ pc' = IF reason = "ERROR" THEN "shutdown" ELSE "ended"
    /\ UNCHANGED <<reason, engine, batch, results, pool, queue, future>>

Parent ==
    \/ Propose \/ Claim \/ Claimed \/ SearchOver \/ EnsurePool \/ CannotStart
    \/ Submit \/ SubmitRefused \/ AllSubmitted
    \/ CollectDone \/ CollectBroken \/ CollectTimeout \/ BatchReturned
    \/ Process \/ RoundDone \/ Shutdown \/ Finalise

-----------------------------------------------------------------------------
(***************************************************************************)
(* The workers.                                                            *)
(***************************************************************************)
StartTask ==
    /\ pool = "up"
    /\ queue # <<>>
    /\ future[Head(queue)] = "queued"
    /\ Cardinality(Busy) < Workers
    /\ future' = [future EXCEPT ![Head(queue)] = "running"]
    /\ queue' = Tail(queue)
    /\ UNCHANGED <<pc, reason, engine, batch, results, pool>>

\* Cancelled work is thrown away when its turn comes.
DropTask ==
    /\ pool = "up"
    /\ queue # <<>>
    /\ future[Head(queue)] = "cancelled"
    /\ queue' = Tail(queue)
    /\ UNCHANGED <<pc, reason, engine, batch, results, pool, future>>

\* A Ctrl-C that reaches a worker as well ends its evaluation with an outcome
\* nobody reads, or kills the worker.
FinishTask(t) ==
    /\ future[t] = "running"
    /\ \E o \in Outcomes : future' = [future EXCEPT ![t] = o]
    /\ UNCHANGED <<pc, reason, engine, batch, results, pool, queue>>

Worker == StartTask \/ DropTask \/ \E t \in Tasks : FinishTask(t)

\* Killed by the system, or crashed in native code.
WorkerDies ==
    /\ MayDie
    /\ pool = "up"
    /\ \E t \in Tasks : future[t] # "none"
    /\ pool' = "broken"
    /\ future' = [t \in Tasks |-> IF t \in Live THEN "broken" ELSE future[t]]
    /\ queue' = <<>>
    /\ UNCHANGED <<pc, reason, engine, batch, results>>

\* The run is over and the process exits.
Ended ==
    /\ pc = "ended"
    /\ UNCHANGED vars

Next == Parent \/ InterruptCollect \/ Interrupt \/ Worker \/ WorkerDies \/ Ended

\* The engine's thread runs.  Nothing is assumed of the workers.
Spec == Init /\ [][Next]_vars /\ WF_vars(Parent)

-----------------------------------------------------------------------------
TypeOK ==
    /\ pc \in {"loop", "claim", "dispatch", "submit", "collect", "results",
               "shutdown", "finalise", "ended"}
    /\ reason \in {"NONE", "FINISHED", "INTERRUPTED", "ERROR"}
    /\ status \in [Candidates -> {"NEW", "QUEUED", "RUNNING", "COMPLETED", "FAILED"}]
    /\ attempt \in [Candidates -> 0..MaxRetries]
    /\ batch \in Seq(Tasks)
    /\ results \in Seq(Answers)
    /\ handled \in 0..Len(results)
    /\ pool \in {"absent", "up", "broken"}
    /\ queue \in Seq(Tasks)
    /\ future \in [Tasks -> {"none", "queued", "running", "cancelled", "broken"} \cup Outcomes]

\* The answer to a retry is not the answer to an earlier attempt that was
\* given up and finished late, nor to another task of the batch: a candidate is
\* completed only by the success of the very attempt it is at
\* (_process_result over the zip of tasks and results).
CompletedWasMeasured ==
    \A c \in WithStatus("COMPLETED") : future[<<c, attempt[c]>>] = "OK"

\* A candidate fails for good only if a worker has answered that it will
\* always fail, or after all its retries, whatever else happened to the
\* workers, to the queue and to the rest of the batch (run_batch, decide).
GivenUpOnlyAfterRetries ==
    \A c \in WithStatus("FAILED") :
        attempt[c] = MaxRetries \/ future[<<c, attempt[c]>>] = "PERMANENT"

\* Together: every verdict on a candidate is earned by its own attempts.
VerdictsAreEarned == CompletedWasMeasured /\ GivenUpOnlyAfterRetries

\* The final status of the search is written when no worker is evaluating
\* anything, the leftovers of timeouts included, unless an exception ended the
\* run; when run has returned that holds in any case (executor.shutdown).
QuietWhenFinalised ==
    (pc = "ended" \/ (pc = "finalise" /\ reason # "ERROR")) => Live = {}

\* Seen by the engine, run_batch answers every task, in the order of the
\* tasks, and never reports a success that did not happen.
phase ==
    IF reason \in {"INTERRUPTED", "ERROR"} THEN "raised"
    ELSE IF pc \in {"dispatch", "submit", "collect"} THEN "running"
    ELSE IF pc = "results" THEN "answered" ELSE "idle"

Contract == INSTANCE BatchContract
    WITH asked <- IF phase \in {"running", "answered"} THEN batch ELSE <<>>,
         answers <- IF phase = "answered" THEN results ELSE <<>>,
         measured <- {t \in Tasks : future[t] = "OK"}

KeepsContract == Contract!Spec

\* With a time limit a batch returns although workers hang for ever
\* (future.result with a timeout).  If every evaluation ends, so does the run,
\* whatever times out, is retried, dies or is interrupted (shutdown waits for
\* the pool).
RunEnds ==
    /\ (pc = "collect") ~> (pc # "collect")
    /\ WF_vars(Worker) => <>(pc = "ended")

\* "A dead worker costs one candidate, retriably, not the search."  Violated:
\* the broken pool stays in _pool, and the next submit raises out of run_batch.
SearchSurvivesDeadWorker == pool = "broken" => reason # "ERROR"

=============================================================================
