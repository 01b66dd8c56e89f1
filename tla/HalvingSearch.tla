---------------------------- MODULE HalvingSearch ----------------------------
(***************************************************************************)
(* A successive-halving search: the strategy of SuccessiveHalving under    *)
(* the engine's loop (orchestration/engine.py), with the candidate rows    *)
(* and the strategy's checkpoints that survive a crash.                    *)
(*                                                                         *)
(* SearchEngine has the loop's transactions one by one with any strategy.  *)
(* Here the strategy is the real one, step by step, and the engine is      *)
(* coarser: a row is inserted and queued at once, and a trial is written   *)
(* with its candidate's row.  A row is (architecture, rung), as in the     *)
(* unique constraint of the table.  The time limit and errors, which end   *)
(* the loop as Ctrl-C does, are left to SearchEngine.                      *)
(***************************************************************************)
EXTENDS SuccessiveHalving

CONSTANTS
    Streams,          \* what the sampler may draw, one sequence per seed
    InFlight,         \* executor.max_in_flight
    MaxEvaluations,   \* budget.max_evaluations
    MaxRetries,       \* retries of one candidate
    CheckpointEvery,  \* persistence.checkpoint_every
    MaySuspend,       \* whether Ctrl-C happens
    MayCrash,         \* whether the process may be killed
    MaxResumes        \* bound on the resumes explored

ASSUME HalvingSearchAssumption ==
    /\ Streams \subseteq Seq(Archs)
    /\ InFlight \in Nat \ {0}
    /\ MaxEvaluations \in Nat \ {0}
    /\ MaxRetries \in Nat
    /\ CheckpointEvery \in Nat \ {0}
    /\ MaySuspend \in BOOLEAN
    /\ MayCrash \in BOOLEAN
    /\ MaxResumes \in Nat

VARIABLES
    stream,     \* what the sampler draws; fixed by the seed
    table,      \* status of the candidate rows, table[rung][architecture]
    score,      \* objective_value of the rows
    retries,    \* retry_count of the rows
    inserted,   \* the rows in the order of created_at
    saved,      \* strategy state of the newest checkpoint
    pc,         \* where the engine's process is
    bracket,    \* the strategy's state in memory
    wanted,     \* the count of the running propose call
    offer,      \* the proposals it has made, in order
    tasks,      \* the tasks of the batch whose results are left
    idle,       \* idle_rounds
    reason,     \* StopReason
    resumes     \* number of resumes so far

table_vars == <<table, score, retries, inserted>>
durable == <<table_vars, saved>>
memory == <<bracket, wanted, offer, tasks, idle, reason>>
vars == <<stream, durable, pc, memory, resumes>>

Absent == "absent"

Keys == Rungs \X Archs

Status(k) == table[k[1]][k[2]]

WithStatus(k, s) == [table EXCEPT ![k[1]][k[2]] = s]

InStatus(s) == {k \in Keys : Status(k) = s}

CompletedCount == Cardinality(InStatus("COMPLETED"))

\* queued = _queued_count; free_slots = max(0, in_flight_limit - queued).
FreeSlots ==
    LET queued == Cardinality(InStatus("QUEUED"))
    IN IF queued < InFlight THEN InFlight - queued ELSE 0

\* min(free_slots, max(1, remaining_budget)).
WantedProposals ==
    LET left == MaxEvaluations - CompletedCount
        floor == IF left < 1 THEN 1 ELSE left
    IN IF FreeSlots < floor THEN FreeSlots ELSE floor

\* claim_next_queued: the oldest of the queued rows.
OldestQueued(i) ==
    /\ Status(inserted[i]) = "QUEUED"
    /\ \A j \in DOMAIN inserted : Status(inserted[j]) = "QUEUED" => i <= j

Queued == \E i \in DOMAIN inserted : Status(inserted[i]) = "QUEUED"

-----------------------------------------------------------------------------
Init ==
    /\ stream \in Streams
    /\ table = [r \in Rungs |-> [a \in Archs |-> Absent]]
    /\ score = [r \in Rungs |-> [a \in Archs |-> Pending]]
    /\ retries = [r \in Rungs |-> [a \in Archs |-> 0]]
    /\ inserted = <<>>
    /\ saved = <<>>
    /\ pc = "loop"
    /\ bracket = FreshBracket
    /\ wanted = 0
    /\ offer = <<>>
    /\ tasks = <<>>
    /\ idle = 0
    /\ reason = "NONE"
    /\ resumes = 0

Stop(why) ==
    /\ reason' = why
    /\ pc' = "save"
    /\ UNCHANGED <<stream, durable, bracket, wanted, offer, tasks, idle, resumes>>

StopOnBudget ==
    /\ pc = "loop"
    /\ CompletedCount >= MaxEvaluations
    /\ Stop("BUDGET_EXHAUSTED")

StartProposing ==
    /\ pc = "loop"
    /\ CompletedCount < MaxEvaluations
    /\ FreeSlots > 0
    /\ ~Finished(bracket)
    /\ wanted' = WantedProposals
    /\ offer' = <<>>
    /\ pc' = "propose"
    /\ UNCHANGED <<stream, durable, bracket, tasks, idle, reason, resumes>>

NothingToPropose ==
    /\ pc = "loop"
    /\ CompletedCount < MaxEvaluations
    /\ FreeSlots = 0 \/ Finished(bracket)
    /\ pc' = "claim"
    /\ UNCHANGED <<stream, durable, memory, resumes>>

-----------------------------------------------------------------------------
(***************************************************************************)
(* SuccessiveHalving.propose: one turn of its loop per step.               *)
(***************************************************************************)
Proposing ==
    /\ pc = "propose"
    /\ Len(offer) < wanted
    /\ ~bracket.exhausted
    /\ bracket.current < NumRungs

Entering(a) == offer' = Append(offer, <<bracket.current, a>>)

ProposeSample ==
    /\ Proposing
    /\ bracket.current = 0
    /\ ~Filled(bracket, 0)
    /\ \E i \in DOMAIN stream :
          /\ IsFirstDraw(bracket, stream, i)
          /\ bracket' = Sampled(bracket, stream, i)
          /\ Entering(stream[i])
    /\ UNCHANGED <<stream, durable, pc, wanted, tasks, idle, reason, resumes>>

ProposeNoSample ==
    /\ Proposing
    /\ bracket.current = 0
    /\ ~Filled(bracket, 0)
    /\ NextDraws(bracket, stream) = {}
    /\ bracket' = SamplerDry(bracket)
    /\ pc' = "accept"
    /\ UNCHANGED <<stream, durable, wanted, offer, tasks, idle, reason, resumes>>

ProposeSurvivor ==
    /\ Proposing
    /\ bracket.current > 0
    /\ ~Filled(bracket, bracket.current)
    /\ SurvivorsLeft(bracket, bracket.current)
    /\ bracket' = Promoted(bracket, bracket.current)
    /\ Entering(NextSurvivor(bracket, bracket.current))
    /\ UNCHANGED <<stream, durable, pc, wanted, tasks, idle, reason, resumes>>

\* The rung below sent fewer survivors than planned: nothing to return.
ProposeNoSurvivor ==
    /\ Proposing
    /\ bracket.current > 0
    /\ ~Filled(bracket, bracket.current)
    /\ ~SurvivorsLeft(bracket, bracket.current)
    /\ pc' = "accept"
    /\ UNCHANGED <<stream, durable, memory, resumes>>

WaitAtBarrier ==
    /\ Proposing
    /\ Filled(bracket, bracket.current)
    /\ Outstanding(bracket, bracket.current) > 0
    /\ pc' = "accept"
    /\ UNCHANGED <<stream, durable, memory, resumes>>

\* The barrier without its condition.
AdvanceRungEarly ==
    /\ Proposing
    /\ Filled(bracket, bracket.current)
    /\ bracket' = Advanced(bracket)
    /\ pc' = IF bracket'.exhausted \/ bracket'.current = NumRungs THEN "accept" ELSE pc
    /\ UNCHANGED <<stream, durable, wanted, offer, tasks, idle, reason, resumes>>

AdvanceRung ==
    /\ Proposing
    /\ Filled(bracket, bracket.current)
    /\ Outstanding(bracket, bracket.current) <= 0
    /\ bracket' = Advanced(bracket)
    /\ pc' = IF bracket'.exhausted \/ bracket'.current = NumRungs THEN "accept" ELSE pc
    /\ UNCHANGED <<stream, durable, wanted, offer, tasks, idle, reason, resumes>>

ProposedEnough ==
    /\ pc = "propose"
    /\ Len(offer) = wanted \/ bracket.exhausted \/ bracket.current >= NumRungs
    /\ pc' = "accept"
    /\ UNCHANGED <<stream, durable, memory, resumes>>

-----------------------------------------------------------------------------
(***************************************************************************)
(* The engine: accept the offer, run a batch, report the results.          *)
(***************************************************************************)
AcceptDuplicate ==
    /\ pc = "accept"
    /\ offer # <<>>
    /\ Status(Head(offer)) # Absent
    /\ bracket' = Duplicated(bracket, Head(offer)[2])
    /\ offer' = Tail(offer)
    /\ UNCHANGED <<stream, durable, pc, wanted, tasks, idle, reason, resumes>>

\* check_architecture passes: the sampler has validated every draw.
AcceptNew ==
    /\ pc = "accept"
    /\ offer # <<>>
    /\ Status(Head(offer)) = Absent
    /\ table' = WithStatus(Head(offer), "QUEUED")
    /\ inserted' = Append(inserted, Head(offer))
    /\ offer' = Tail(offer)
    /\ UNCHANGED <<stream, score, retries, saved, pc, bracket, wanted, tasks, idle,
                   reason, resumes>>

AcceptDone ==
    /\ pc = "accept"
    /\ offer = <<>>
    /\ pc' = "claim"
    /\ UNCHANGED <<stream, durable, memory, resumes>>

ClaimNext ==
    /\ pc = "claim"
    /\ Len(tasks) < InFlight
    /\ \E i \in DOMAIN inserted :
          /\ OldestQueued(i)
          /\ table' = WithStatus(inserted[i], "RUNNING")
          /\ tasks' = Append(tasks, inserted[i])
    /\ UNCHANGED <<stream, score, retries, inserted, saved, pc, bracket, wanted, offer,
                   idle, reason, resumes>>

RunBatch ==
    /\ pc = "claim"
    /\ tasks # <<>>
    /\ Len(tasks) = InFlight \/ ~Queued
    /\ idle' = 0
    /\ pc' = "results"
    /\ UNCHANGED <<stream, durable, bracket, wanted, offer, tasks, reason, resumes>>

\* idle_rounds never incremented.
ClaimedNothingForgetful ==
    /\ pc = "claim"
    /\ tasks = <<>>
    /\ ~Queued
    /\ IF Finished(bracket)
       THEN reason' = "STRATEGY_FINISHED" /\ pc' = "save"
       ELSE reason' = reason /\ pc' = "loop"
    /\ UNCHANGED <<stream, durable, bracket, wanted, offer, tasks, idle, resumes>>

ClaimedNothing ==
    /\ pc = "claim"
    /\ tasks = <<>>
    /\ ~Queued
    /\ IF Finished(bracket)
       THEN reason' = "STRATEGY_FINISHED" /\ pc' = "save" /\ idle' = idle
       ELSE /\ idle' = idle + 1
            /\ IF idle' >= 2 THEN reason' = "SPACE_EXHAUSTED" /\ pc' = "save"
               ELSE pc' = "loop" /\ reason' = reason
    /\ UNCHANGED <<stream, durable, bracket, wanted, offer, tasks, resumes>>

\* _finish_successful up to the strategy's part of it.
Complete ==
    /\ pc = "results"
    /\ tasks # <<>>
    /\ \E v \in Scores :
          score' = [score EXCEPT ![Head(tasks)[1]][Head(tasks)[2]] = v]
    /\ table' = WithStatus(Head(tasks), "COMPLETED")
    /\ pc' = "observe"
    /\ UNCHANGED <<stream, retries, inserted, saved, memory, resumes>>

\* _finish_failed, and what the retry policy decides.
RetryLater ==
    /\ pc = "results"
    /\ tasks # <<>>
    /\ retries[Head(tasks)[1]][Head(tasks)[2]] < MaxRetries
    /\ retries' = [retries EXCEPT ![Head(tasks)[1]][Head(tasks)[2]] = @ + 1]
    /\ table' = WithStatus(Head(tasks), "QUEUED")
    /\ tasks' = Tail(tasks)
    /\ UNCHANGED <<stream, score, inserted, saved, pc, bracket, wanted, offer, idle,
                   reason, resumes>>

Fail ==
    /\ pc = "results"
    /\ tasks # <<>>
    /\ table' = WithStatus(Head(tasks), "FAILED")
    /\ score' = [score EXCEPT ![Head(tasks)[1]][Head(tasks)[2]] = None]
    /\ pc' = "observe"
    /\ UNCHANGED <<stream, retries, inserted, saved, memory, resumes>>

Observe ==
    /\ pc = "observe"
    /\ LET k == Head(tasks)
       IN bracket' = Observed(bracket, k[2], k[1], score[k[1]][k[2]])
    /\ tasks' = Tail(tasks)
    /\ pc' = "results"
    /\ UNCHANGED <<stream, durable, wanted, offer, idle, reason, resumes>>

BatchDone ==
    /\ pc = "results"
    /\ tasks = <<>>
    /\ saved' = IF CompletedCount % CheckpointEvery = 0 THEN <<bracket>> ELSE saved
    /\ pc' = "loop"
    /\ UNCHANGED <<stream, table_vars, memory, resumes>>

-----------------------------------------------------------------------------
(***************************************************************************)
(* Stopping, crashing and resuming.                                        *)
(***************************************************************************)
\* _finalise: the last checkpoint.
Finalise ==
    /\ pc = "save"
    /\ saved' = <<bracket>>
    /\ pc' = "stopped"
    /\ UNCHANGED <<stream, table_vars, memory, resumes>>

EngineStep ==
    \/ StopOnBudget \/ StartProposing \/ NothingToPropose
    \/ ProposeSample \/ ProposeNoSample \/ ProposeSurvivor \/ ProposeNoSurvivor
    \/ WaitAtBarrier \/ AdvanceRung \/ ProposedEnough
    \/ AcceptDuplicate \/ AcceptNew \/ AcceptDone
    \/ ClaimNext \/ RunBatch \/ ClaimedNothing
    \/ Complete \/ RetryLater \/ Fail \/ Observe \/ BatchDone
    \/ Finalise

\* Ctrl-C inside the loop.
Interrupt ==
    /\ MaySuspend
    /\ pc \notin {"save", "stopped", "down"}
    /\ Stop("INTERRUPTED")

Crash ==
    /\ MayCrash
    /\ pc \notin {"stopped", "down"}
    /\ pc' = "down"
    /\ UNCHANGED <<stream, durable, memory, resumes>>

\* recover_interrupted, then a new engine with the checkpoint's strategy.
Resume ==
    /\ pc \in {"down", "stopped"}
    /\ resumes < MaxResumes
    /\ resumes' = resumes + 1
    /\ table' = [r \in Rungs |-> [a \in Archs |->
                    IF table[r][a] # "RUNNING" THEN table[r][a]
                    ELSE IF retries[r][a] < MaxRetries THEN "QUEUED" ELSE "FAILED"]]
    /\ retries' = [r \in Rungs |-> [a \in Archs |->
                    IF table[r][a] = "RUNNING" /\ retries[r][a] < MaxRetries
                    THEN retries[r][a] + 1 ELSE retries[r][a]]]
    /\ bracket' = IF saved = <<>> THEN FreshBracket ELSE saved[1]
    /\ wanted' = 0
    /\ offer' = <<>>
    /\ tasks' = <<>>
    /\ idle' = 0
    /\ reason' = "NONE"
    /\ pc' = "loop"
    /\ UNCHANGED <<stream, score, inserted, saved>>

Next == EngineStep \/ Interrupt \/ Crash \/ Resume

Spec == Init /\ [][Next]_vars

FairSpec == Spec /\ WF_vars(EngineStep)

-----------------------------------------------------------------------------
(***************************************************************************)
(* Types.                                                                  *)
(***************************************************************************)
Results == {Pending, None} \cup Scores

RungStates ==
    [proposed : Seq(Archs), results : [Archs -> Results], promoted : Seq(Archs)]

Brackets ==
    [rungs : [Rungs -> RungStates], current : 0..NumRungs, seen : SUBSET Archs,
     drawn : Nat, exhausted : BOOLEAN]

RowStates == {Absent, "QUEUED", "RUNNING", "COMPLETED", "FAILED"}

Reasons == {"NONE", "BUDGET_EXHAUSTED", "STRATEGY_FINISHED", "SPACE_EXHAUSTED",
            "INTERRUPTED"}

TypeOK ==
    /\ stream \in Seq(Archs)
    /\ table \in [Rungs -> [Archs -> RowStates]]
    /\ score \in [Rungs -> [Archs -> Results]]
    /\ retries \in [Rungs -> [Archs -> 0..MaxRetries]]
    /\ inserted \in Seq(Keys)
    /\ saved = <<>> \/ (Len(saved) = 1 /\ saved \in Seq(Brackets))
    /\ pc \in {"loop", "propose", "accept", "claim", "results", "observe", "save",
               "stopped", "down"}
    /\ bracket \in Brackets
    /\ wanted \in Nat
    /\ offer \in Seq(Keys)
    /\ tasks \in Seq(Keys)
    /\ idle \in Nat
    /\ reason \in Reasons
    /\ resumes \in 0..MaxResumes

-----------------------------------------------------------------------------
(***************************************************************************)
(* Safety.                                                                 *)
(***************************************************************************)
Rows(r) == {a \in Archs : table[r][a] # Absent}

\* An architecture is evaluated at a rung only if it was measured at the rung
\* below, whatever the checkpoint a resume started from.
EntersByMerit ==
    \A r \in Rungs \ {0} : \A a \in Rows(r) : table[r - 1][a] = "COMPLETED"

\* ... and only if fewer of the candidates measured there, over the whole
\* table, beat it than the rung has places: the cut is the one an
\* uninterrupted bracket would have made.
OnlyTheBestEnter ==
    \A r \in Rungs \ {0} : \A a \in Rows(r) :
        Cardinality({c \in Archs : table[r - 1][c] = "COMPLETED"
                                    /\ score[r - 1][c] > score[r - 1][a]}) < Sizes[r]

\* The barrier, in the rows: when a rung has a row, nothing of the rung below
\* is waiting or running.
BarrierHolds ==
    \A r \in Rungs \ {0} :
        Rows(r) # {} => \A a \in Archs : table[r - 1][a] \notin {"QUEUED", "RUNNING"}

\* A bracket never evaluates more candidates at a rung than its ladder plans.
RungSizeKept == \A r \in Rungs : Cardinality(Rows(r)) <= Sizes[r]

\* Together: the rows of the table are those of one bracket, cut at the best of
\* each rung, one rung after the other, whatever checkpoints were lost.
RowsFormABracket == OnlyTheBestEnter /\ BarrierHolds /\ RungSizeKept

\* What the strategy knows, in memory and in the checkpoint, is what the rows
\* say: no result is invented, or outlives a row that is run again.
ResultsMatchRows ==
    \A b \in {bracket} \cup {saved[i] : i \in DOMAIN saved} :
        \A r \in Rungs : \A a \in Reported(b, r) :
            /\ b.rungs[r].results[a] = score[r][a]
            /\ table[r][a] \in {"COMPLETED", "FAILED"}

-----------------------------------------------------------------------------
(***************************************************************************)
(* Stopping.                                                               *)
(***************************************************************************)
\* In a search that is not interrupted, the only way to stop for want of
\* proposals is a rung that got fewer survivors than its planned size.
StallsOnlyWhenShort ==
    (pc = "stopped" /\ reason = "SPACE_EXHAUSTED" /\ resumes = 0) =>
        /\ bracket.current \in Rungs \ {0}
        /\ Cardinality({a \in Archs : table[bracket.current - 1][a] = "COMPLETED"})
                < Sizes[bracket.current]

\* A search that says that its strategy finished, after whatever resumes, has
\* climbed to the last rung, or a rung had no survivor, or the space has fewer
\* members than rung 0.
FinishedMeansClimbed ==
    (pc = "stopped" /\ reason = "STRATEGY_FINISHED") =>
        \/ \E a \in Archs : table[Last][a] \in {"COMPLETED", "FAILED"}
        \/ \E r \in Rungs : Rows(r) # {} /\ \A a \in Rows(r) : table[r][a] = "FAILED"
        \/ Cardinality({stream[i] : i \in DOMAIN stream}) < Sizes[0]

\* Together: a search never stops half-way up its bracket without a reason
\* that the rows show.
StopsForAReason == StallsOnlyWhenShort /\ FinishedMeansClimbed

\* The engine's loop ends, at the barrier too: it never waits forever for a
\* rung that cannot complete.
LoopEnds == (pc \notin {"stopped", "down"}) ~> (pc \in {"stopped", "down"})
=============================================================================
