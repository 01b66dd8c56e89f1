------------------------ MODULE SearchEngineProofs ------------------------
(***************************************************************************)
(* What TLAPS proves of SearchEngine, for every set of candidates, every   *)
(* budget, in-flight limit and retry allowance, and any number of crashes  *)
(* and resumes.                                                            *)
(*                                                                         *)
(* None of the safety invariants is inductive by itself: that an attempt   *)
(* number is fresh when a trial is inserted depends on how the retry_count *)
(* column, the engine's own count, the trial rows and the task in hand are *)
(* related at every program point.  RowOK, BatchOK and TodoOK state those  *)
(* relations, StrayOK says which candidates may be in RUNNING at all;      *)
(* together with TypeOK they are inductive.  From them follow the safety   *)
(* invariants, the action properties and the refinement of TrialLedger.    *)
(* The accounts of the engine follow, on top of that invariant.            *)
(***************************************************************************)
EXTENDS SearchEngine, TLAPS, FiniteSetTheorems, SequenceTheorems

(***************************************************************************)
(* The inductive invariant.                                                *)
(***************************************************************************)
\* One candidate's rows, and what the engine remembers of it.
RowOK(k) ==
    /\ retries[k] <= MaxRetries
    /\ \A a \in Attempts : trial[k][a] # Absent => a <= retries[k]
    /\ \A a \in Attempts : trial[k][a] = "RUNNING" => status[k] = "RUNNING" /\ a = retries[k]
    /\ status[k] \in {Absent, "PROPOSED", "VALIDATED"} =>
           /\ retries[k] = 0
           /\ attempts[k] = NotTried
           /\ \A a \in Attempts : trial[k][a] = Absent
    /\ status[k] = "QUEUED" =>
           /\ trial[k][retries[k]] = Absent
           /\ attempts[k] \in {NotTried, retries[k]}
    /\ status[k] = "COMPLETED" => trial[k][retries[k]] = "COMPLETED"

RowsOK == \A k \in Keys : RowOK(k)

\* A task whose candidate is being evaluated or about to be.
TaskOK(t) ==
    /\ status[t.key] = "RUNNING"
    /\ t.attempt = retries[t.key]
    /\ trial[t.key][t.attempt] = "RUNNING"

\* The task in hand at each program point of _process_result.
HeadOK(t) ==
    /\ pc # "observe" => status[t.key] = "RUNNING"
    /\ pc \in {"fail", "retry", "requeue"} => \A a \in Attempts : trial[t.key][a] # "RUNNING"
    /\ pc \in {"complete", "retry"} => t.attempt = retries[t.key]
    /\ pc = "complete" => trial[t.key][t.attempt] = "COMPLETED"
    /\ pc = "retry" => t.attempt < MaxRetries
    /\ pc = "requeue" => /\ t.attempt + 1 = retries[t.key]
                         /\ trial[t.key][retries[t.key]] = Absent
    /\ pc = "observe" => status[t.key] \in {"COMPLETED", "FAILED"}

ProcessingOne == {"complete", "fail", "retry", "requeue", "observe"}

BatchOK ==
    /\ \A i, j \in 1 .. Len(tasks) : tasks[i].key = tasks[j].key => i = j
    /\ tasks # <<>> => pc \in {"claim", "start", "result"} \cup ProcessingOne
    /\ pc \in {"claim", "result"} => \A i \in 1 .. Len(tasks) : TaskOK(tasks[i])
    /\ pc = "start" =>
           /\ tasks # <<>>
           /\ \A i \in 1 .. Len(tasks) - 1 : TaskOK(tasks[i])
           /\ LET t == tasks[Len(tasks)] IN
                 /\ status[t.key] = "RUNNING"
                 /\ t.attempt = retries[t.key]
                 /\ trial[t.key][t.attempt] = Absent
    /\ pc \in ProcessingOne =>
           /\ tasks # <<>>
           /\ HeadOK(tasks[1])
           /\ \A i \in 2 .. Len(tasks) : TaskOK(tasks[i])

\* The proposal in hand.
TodoOK ==
    /\ pc = "check" => todo # <<>> /\ status[Head(todo)] = "PROPOSED"
    /\ pc = "enqueue" => todo # <<>> /\ status[Head(todo)] = "VALIDATED"

\* Nothing is in RUNNING but what this round's tasks account for, and nothing
\* at all once the loop was left for a reason other than an interruption.
NoneRunning == \A k \in Keys : status[k] # "RUNNING"

StrayOK ==
    /\ searchStatus = Absent => pc = "down"
    /\ searchStatus = Absent \/ pc = "created" => \A k \in Keys : status[k] = Absent
    /\ InLoop => \A k \in Keys : status[k] = "RUNNING" => k \in TaskKeys
    /\ pc = "recovered" => NoneRunning
    /\ reason # "NONE" => pc \in {"save", "prune", "close", "stopped"}
    /\ pc = "close" => reason # "NONE"
    /\ pc \in {"save", "prune", "close"} /\ reason \notin {"NONE", "INTERRUPTED", "ERROR"}
           => NoneRunning
    /\ searchStatus = "COMPLETED" => NoneRunning /\ pc \in {"down", "stopped", "recovered"}

IInv == TypeOK /\ RowsOK /\ BatchOK /\ TodoOK /\ StrayOK

-----------------------------------------------------------------------------
(***************************************************************************)
(* Lemmas about the operators of the model.                                *)
(***************************************************************************)
\* validate_transition only lets a state of the enumeration through.
LEMMA TransitionTyped ==
    ASSUME NEW s, NEW t, CanTransition(s, t)
    PROVE  s \in CandidateState /\ t \in CandidateState
BY DEF CanTransition, AllowedTransitions, CandidateState

\* The rows in a given state are finitely many, so counting them is a number.
LEMMA InStateCount ==
    ASSUME NEW s
    PROVE  Cardinality(InState(s)) \in Nat
<1>1. IsFiniteSet(Keys) BY EngineAssumption
<1>2. IsFiniteSet(InState(s)) BY <1>1, FS_Subset DEF InState
<1> QED BY <1>2, FS_CardinalityType

\* The attempt number of the next trial is within the allowance.
LEMMA NextAttemptTyped ==
    ASSUME TypeOK, NEW k \in Keys, RowOK(k)
    PROVE  NextAttempt(k) \in Attempts
BY EngineAssumption DEF TypeOK, RowOK, NextAttempt, Attempts, NotTried

\* What propose returns is a sequence of candidate identities.
LEMMA ProposalTyped ==
    ASSUME NEW n, NEW p \in Proposals(n)
    PROVE  p \in Seq(Keys) /\ AskedFor(p) \subseteq Keys
<1>1. PICK m \in 0 .. n : p \in [1 .. m -> Keys \ strat.asked] BY DEF Proposals
<1>2. m \in Nat BY <1>1
<1>3. p \in Seq(Keys) BY <1>1, <1>2, SeqDef
<1> QED BY <1>3 DEF AskedFor

-----------------------------------------------------------------------------
(***************************************************************************)
(* Type correctness is preserved: one step per action.                     *)
(***************************************************************************)
LEMMA TypeStep ==
    ASSUME IInv, [Next]_vars
    PROVE  TypeOK'
<1> USE EngineAssumption DEF IInv, durable, memory
<1>1. CASE CreateSearch BY <1>1 DEF CreateSearch, TypeOK, SearchStatus
<1>2. CASE BeginSearch BY <1>2 DEF BeginSearch, TypeOK, SearchStatus
<1>3. CASE RecoverInterrupted
  <2>1. /\ status' \in [Keys -> CandidateState \cup {Absent}]
        /\ retries' \in [Keys -> Nat]
    BY <1>3 DEF RecoverInterrupted, TypeOK, RecoveredStatus, RecoveredRetries,
                CandidateState
  <2>2. trial' \in [Keys -> [Attempts -> TrialState \cup {Absent}]]
    BY <1>3 DEF RecoverInterrupted, TypeOK, RecoveredTrial, TrialState
  <2> QED BY <1>3, <2>1, <2>2
          DEF RecoverInterrupted, TypeOK, FreshMemory, FreshStrategy, Strategies
<1>4. CASE ResumeSearch
  <2>1. checkpoints # <<>> => checkpoints[Len(checkpoints)] \in SearchCheckpoints
    BY DEF TypeOK
  <2>2. strat' \in Strategies
    BY <1>4, <2>1 DEF ResumeSearch, FreshStrategy, Strategies, SearchCheckpoints, LatestCheckpoint
  <2>3. completed' \in Nat
    BY <1>4, InStateCount DEF ResumeSearch, Reconciled, LatestCheckpoint
  <2> QED BY <1>4, <2>2, <2>3 DEF ResumeSearch, TypeOK, SearchStatus, LatestCheckpoint
<1>5. CASE StopOnBudget BY <1>5 DEF StopOnBudget, Stop, TypeOK, StopReason
<1>6. CASE StopOnTime BY <1>6 DEF StopOnTime, Stop, TypeOK, StopReason
<1>7. CASE Propose
  <2>1. PICK p \in Proposals(WantedProposals), f \in BOOLEAN :
            /\ todo' = p
            /\ strat' = [strat EXCEPT !.asked = @ \cup AskedFor(p), !.finished = f]
    BY <1>7 DEF Propose
  <2>2. todo' \in Seq(Keys) BY <2>1, ProposalTyped
  <2>3. AskedFor(p) \subseteq Keys BY ProposalTyped
  <2>4. strat' \in Strategies BY <2>1, <2>3 DEF TypeOK, Strategies
  <2> QED BY <1>7, <2>2, <2>4 DEF Propose, TypeOK
<1>8. CASE NothingToPropose BY <1>8 DEF NothingToPropose, TypeOK
<1>9. CASE AcceptDuplicate BY <1>9 DEF AcceptDuplicate, TypeOK, FindCandidate
<1>10. CASE AcceptInsert
  <2>1. Cardinality({k \in Keys : status[k] # Absent}) \in Nat
    BY FS_Subset, FS_CardinalityType, IsFiniteSet({k \in Keys : status[k] # Absent})
  <2>2. todo # <<>> => Head(todo) \in Keys BY DEF TypeOK
  <2> QED BY <1>10, <2>1, <2>2 DEF AcceptInsert, TypeOK, CandidateState, FindCandidate, AddCandidate
<1>11. CASE AcceptReject
  <2>1. Head(todo) \in Keys /\ Tail(todo) \in Seq(Keys)
    BY <1>11 DEF AcceptReject, TypeOK, TodoOK
  <2>2. status' \in [Keys -> CandidateState \cup {Absent}]
    BY <1>11, <2>1 DEF AcceptReject, Transition, TypeOK, CandidateState
  <2> QED BY <1>11, <2>1, <2>2 DEF AcceptReject, TypeOK
<1>12. CASE AcceptValidate
  BY <1>12 DEF AcceptValidate, Transition, TypeOK, TodoOK, CandidateState
<1>13. CASE AcceptEnqueue
  <2>1. Head(todo) \in Keys /\ Tail(todo) \in Seq(Keys)
    BY <1>13 DEF AcceptEnqueue, TypeOK, TodoOK
  <2>2. attempts' \in [Keys -> Attempts \cup {NotTried}]
    BY <1>13, <2>1 DEF AcceptEnqueue, TypeOK, MaxOf, Attempts, NotTried
  <2> QED BY <1>13, <2>1, <2>2
          DEF AcceptEnqueue, Transition, TypeOK, CandidateState
<1>14. CASE AcceptDone BY <1>14 DEF AcceptDone, TypeOK
<1>15. CASE ClaimNextQueued
  <2>1. PICK k \in Keys :
            /\ Transition(k, "RUNNING")
            /\ attempts' = [attempts EXCEPT ![k] = NextAttempt(k)]
            /\ tasks' = Append(tasks, [key |-> k, attempt |-> NextAttempt(k),
                                       outcome |-> "PENDING"])
    BY <1>15 DEF ClaimNextQueued
  <2>2. NextAttempt(k) \in Attempts BY NextAttemptTyped DEF RowsOK
  <2>3. tasks' \in Seq(Tasks) BY <2>1, <2>2 DEF TypeOK, Tasks
  <2>4. status' \in [Keys -> CandidateState \cup {Absent}]
    BY <2>1 DEF Transition, TypeOK, CandidateState
  <2> QED BY <1>15, <2>1, <2>2, <2>3, <2>4 DEF ClaimNextQueued, TypeOK
<1>16. CASE StartTrial
  <2>1. tasks[Len(tasks)] \in Tasks BY <1>16 DEF StartTrial, TypeOK, BatchOK
  <2> QED BY <1>16, <2>1 DEF StartTrial, TypeOK, Tasks, TrialState
<1>17. CASE ClaimedNothing
  BY <1>17 DEF ClaimedNothing, NextIdle, Stop, TypeOK, StopReason
<1>18. CASE RunBatch
  <2>1. PICK out \in [1 .. Len(tasks) -> Outcomes] :
            tasks' = [i \in 1 .. Len(tasks) |-> [tasks[i] EXCEPT !.outcome = out[i]]]
    BY <1>18 DEF RunBatch, Answered
  <2>2. ASSUME NEW i \in 1 .. Len(tasks)
        PROVE  [tasks[i] EXCEPT !.outcome = out[i]] \in Tasks
    <3>1. tasks[i] \in Tasks BY DEF TypeOK
    <3> QED BY <3>1 DEF Tasks
  <2>3. Len(tasks) \in Nat BY DEF TypeOK
  <2>4. tasks' \in Seq(Tasks) BY <2>1, <2>2, <2>3, IsASeq
  <2> QED BY <1>18, <2>4 DEF RunBatch, TypeOK, Answered
<1>19. CASE CompleteTrial
  <2>1. Head(tasks) \in Tasks BY <1>19 DEF CompleteTrial, TypeOK
  <2> QED BY <1>19, <2>1 DEF CompleteTrial, TypeOK, Tasks, TrialState
<1>20. CASE MarkCompleted
  <2>1. Head(tasks) \in Tasks BY <1>20 DEF MarkCompleted, TypeOK, BatchOK, ProcessingOne
  <2> QED BY <1>20, <2>1 DEF MarkCompleted, Transition, TypeOK, Tasks, CandidateState
<1>21. CASE FailTrial
  <2>1. Head(tasks) \in Tasks BY <1>21 DEF FailTrial, TypeOK, FailedVerdict
  <2> QED BY <1>21, <2>1 DEF FailTrial, TypeOK, Tasks, TrialState, FailedVerdict
<1>22. CASE IncrementRetry
  <2>1. Head(tasks) \in Tasks BY <1>22 DEF IncrementRetry, TypeOK, BatchOK, ProcessingOne
  <2> QED BY <1>22, <2>1 DEF IncrementRetry, TypeOK, Tasks
<1>23. CASE Requeue
  <2>1. Head(tasks) \in Tasks /\ Tail(tasks) \in Seq(Tasks)
    BY <1>23 DEF Requeue, TypeOK, BatchOK, ProcessingOne
  <2>2. Head(tasks).key \in Keys /\ Head(tasks).attempt \in Attempts
    BY <2>1 DEF Tasks
  <2>3. Head(tasks).attempt + 1 = retries[Head(tasks).key]
    BY <1>23 DEF Requeue, BatchOK, ProcessingOne, HeadOK
  <2>4. Head(tasks).attempt + 1 \in Attempts
    BY <2>2, <2>3 DEF RowsOK, RowOK, Attempts
  <2>5. status' \in [Keys -> CandidateState \cup {Absent}]
    BY <1>23, <2>2 DEF Requeue, Transition, TypeOK, CandidateState
  <2> QED BY <1>23, <2>1, <2>2, <2>4, <2>5 DEF Requeue, TypeOK
<1>24. CASE MarkFailed
  <2>1. Head(tasks) \in Tasks BY <1>24 DEF MarkFailed, TypeOK, BatchOK, ProcessingOne
  <2> QED BY <1>24, <2>1 DEF MarkFailed, Transition, TypeOK, Tasks, CandidateState
<1>25. CASE Observe
  <2>1. Head(tasks) \in Tasks /\ Tail(tasks) \in Seq(Tasks)
    BY <1>25 DEF Observe, TypeOK, BatchOK, ProcessingOne
  <2>2. Head(tasks).key \in Keys BY <2>1 DEF Tasks
  <2>3. strat' \in Strategies
    BY <1>25, <2>2 DEF Observe, ToldOf, TypeOK, Strategies
  <2>4. completed' \in Nat BY <1>25 DEF Observe, CompletionOf, TypeOK
  <2> QED BY <1>25, <2>1, <2>3, <2>4 DEF Observe, TypeOK
<1>26. CASE BatchDone BY <1>26 DEF BatchDone, TypeOK
<1>27. CASE SaveCheckpoint
  <2>1. Snapshot \in SearchCheckpoints BY DEF Snapshot, SearchCheckpoints, TypeOK
  <2> QED BY <1>27, <2>1 DEF SaveCheckpoint, TypeOK
<1>28. CASE PruneCheckpoints
  <2>1. Len(checkpoints) \in Nat BY DEF TypeOK
  <2>2. KeptFrom \in 1 .. Len(checkpoints) + 1 BY <2>1 DEF KeptFrom, MaxOf
  <2>3. checkpoints' \in Seq(SearchCheckpoints)
    BY <1>28, <2>1, <2>2, SubSeqProperties DEF PruneCheckpoints, TypeOK
  <2> QED BY <1>28, <2>3 DEF PruneCheckpoints, TypeOK
<1>29. CASE CloseSearch
  BY <1>29 DEF CloseSearch, FinalStatus, TypeOK, SearchStatus
<1>30. CASE Abort BY <1>30 DEF Abort, Stop, TypeOK, StopReason
<1>31. CASE Crash BY <1>31 DEF Crash, FreshMemory, FreshStrategy, Strategies, TypeOK
<1>32. CASE UNCHANGED vars BY <1>32 DEF vars, TypeOK
<1> QED
  BY <1>1, <1>2, <1>3, <1>4, <1>5, <1>6, <1>7, <1>8, <1>9, <1>10, <1>11, <1>12,
     <1>13, <1>14, <1>15, <1>16, <1>17, <1>18, <1>19, <1>20, <1>21, <1>22, <1>23,
     <1>24, <1>25, <1>26, <1>27, <1>28, <1>29, <1>30, <1>31, <1>32
  DEF Next, EngineStep, Terminated

-----------------------------------------------------------------------------
(***************************************************************************)
(* The rows keep their relations: one step per action that writes them.    *)
(***************************************************************************)
\* At each program point of _process_result the task in hand is a task.
LEMMA HeadTyped ==
    ASSUME TypeOK, tasks # <<>>
    PROVE  /\ Head(tasks) = tasks[1]
           /\ Head(tasks) \in Tasks
           /\ Head(tasks).key \in Keys
           /\ Head(tasks).attempt \in Attempts
           /\ Tail(tasks) \in Seq(Tasks)
           /\ Len(tasks) \in Nat \ {0}
           /\ Len(Tail(tasks)) = Len(tasks) - 1
           /\ \A i \in 1 .. Len(tasks) - 1 : Tail(tasks)[i] = tasks[i + 1]
<1>1. /\ Head(tasks) = tasks[1]
      /\ Head(tasks) \in Tasks
      /\ Tail(tasks) \in Seq(Tasks)
      /\ Len(tasks) \in Nat \ {0}
      /\ Len(Tail(tasks)) = Len(tasks) - 1
      /\ \A i \in 1 .. Len(tasks) - 1 : Tail(tasks)[i] = tasks[i + 1]
  BY DEF TypeOK
<1> QED BY <1>1 DEF Tasks

LEMMA RowsStep ==
    ASSUME IInv, [Next]_vars
    PROVE  RowsOK'
<1> USE EngineAssumption DEF IInv, memory, durable
<1>1. CASE UNCHANGED <<status, retries, trial, attempts>>
  BY <1>1 DEF RowsOK, RowOK
<1>2. CASE RecoverInterrupted
  <2> SUFFICES ASSUME NEW k \in Keys PROVE RowOK(k)'
    BY DEF RowsOK
  <2>1. RowOK(k) BY DEF RowsOK
  <2>2. /\ status[k] \in CandidateState \cup {Absent}
        /\ retries[k] \in Nat
    BY DEF TypeOK
  <2>3. /\ status'[k] = RecoveredStatus(k)
        /\ retries'[k] = RecoveredRetries(k)
        /\ attempts'[k] = NotTried
        /\ \A a \in Attempts : trial'[k][a] = RecoveredTrial(k, a)
    BY <1>2 DEF RecoverInterrupted, FreshMemory
  <2>4. retries'[k] \in Attempts
    BY <2>1, <2>2, <2>3 DEF RowOK, RecoveredRetries, Attempts
  <2> QED BY <2>1, <2>2, <2>3, <2>4
          DEF RowOK, RecoveredStatus, RecoveredRetries, RecoveredTrial, Absent, Attempts
<1>3. CASE AcceptInsert
  <2>1. status' = [status EXCEPT ![Head(todo)] = "PROPOSED"] /\ status[Head(todo)] = Absent
    BY <1>3 DEF AcceptInsert, FindCandidate, AddCandidate
  <2> QED BY <1>3, <2>1 DEF AcceptInsert, RowsOK, RowOK, TypeOK, Absent, FindCandidate, AddCandidate
<1>4. CASE AcceptReject
  BY <1>4 DEF AcceptReject, Transition, RowsOK, RowOK, TypeOK, TodoOK, Absent
<1>5. CASE AcceptValidate
  BY <1>5 DEF AcceptValidate, Transition, RowsOK, RowOK, TypeOK, TodoOK, Absent
<1>6. CASE AcceptEnqueue
  <2>1. Head(todo) \in Keys BY <1>6 DEF AcceptEnqueue, TypeOK, TodoOK
  <2>2. /\ status' = [status EXCEPT ![Head(todo)] = "QUEUED"]
        /\ attempts' = [attempts EXCEPT ![Head(todo)] = MaxOf(@, 0)]
        /\ status[Head(todo)] = "VALIDATED"
        /\ UNCHANGED <<retries, trial>>
    BY <1>6 DEF AcceptEnqueue, Transition, TodoOK
  <2> SUFFICES ASSUME NEW k \in Keys PROVE RowOK(k)'
    BY DEF RowsOK
  <2>3. RowOK(k) BY DEF RowsOK
  <2>4. 0 \in Attempts BY DEF Attempts
  <2> QED BY <2>1, <2>2, <2>3, <2>4 DEF RowOK, TypeOK, MaxOf, NotTried, Absent
<1>7. CASE ClaimNextQueued
  <2>1. PICK q \in Keys :
            /\ status[q] = "QUEUED"
            /\ status' = [status EXCEPT ![q] = "RUNNING"]
            /\ attempts' = [attempts EXCEPT ![q] = NextAttempt(q)]
    BY <1>7 DEF ClaimNextQueued, Oldest, Transition
  <2> SUFFICES ASSUME NEW k \in Keys PROVE RowOK(k)'
    BY DEF RowsOK
  <2>2. RowOK(k) BY DEF RowsOK
  <2> QED BY <1>7, <2>1, <2>2 DEF ClaimNextQueued, RowOK, TypeOK, Absent
<1>8. CASE StartTrial
  <2> DEFINE t == tasks[Len(tasks)]
  <2>0. t \in Tasks BY <1>8 DEF StartTrial, TypeOK, BatchOK
  <2>1. t.key \in Keys /\ t.attempt \in Attempts BY <2>0 DEF Tasks
  <2>2. status[t.key] = "RUNNING" /\ t.attempt = retries[t.key]
    BY <1>8 DEF StartTrial, BatchOK
  <2>3. trial' = [trial EXCEPT ![t.key][t.attempt] = "RUNNING"]
    BY <1>8 DEF StartTrial
  <2> SUFFICES ASSUME NEW k \in Keys PROVE RowOK(k)'
    BY DEF RowsOK
  <2>4. RowOK(k) BY DEF RowsOK
  <2> HIDE DEF t
  <2>5. \A a \in Attempts : trial'[k][a] =
            IF k = t.key /\ a = t.attempt THEN "RUNNING" ELSE trial[k][a]
    BY <2>1, <2>3 DEF TypeOK
  <2>6. retries[k] \in Attempts BY <2>4 DEF RowOK, TypeOK, Attempts
  <2>7. UNCHANGED <<status, retries, attempts>> BY <1>8 DEF StartTrial
  <2> QED BY <2>1, <2>2, <2>4, <2>5, <2>6, <2>7 DEF RowOK, Absent, Attempts
<1>9. CASE CompleteTrial
  <2> DEFINE t == Head(tasks)
  <2>1. t.key \in Keys /\ t.attempt \in Attempts /\ TaskOK(t)
    BY <1>9, HeadTyped DEF CompleteTrial, BatchOK
  <2>2. trial' = [trial EXCEPT ![t.key][t.attempt] = "COMPLETED"]
    BY <1>9 DEF CompleteTrial
  <2> SUFFICES ASSUME NEW k \in Keys PROVE RowOK(k)'
    BY DEF RowsOK
  <2>3. RowOK(k) BY DEF RowsOK
  <2> HIDE DEF t
  <2>4. \A a \in Attempts : trial'[k][a] =
            IF k = t.key /\ a = t.attempt THEN "COMPLETED" ELSE trial[k][a]
    BY <2>1, <2>2 DEF TypeOK
  <2>5. retries[k] \in Attempts BY <2>3 DEF RowOK, TypeOK, Attempts
  <2>6. UNCHANGED <<status, retries, attempts>> BY <1>9 DEF CompleteTrial
  <2> QED BY <2>1, <2>3, <2>4, <2>5, <2>6 DEF TaskOK, RowOK, Absent, Attempts
<1>10. CASE MarkCompleted
  <2> DEFINE t == Head(tasks)
  <2>1. t.key \in Keys /\ t.attempt \in Attempts /\ HeadOK(t)
    BY <1>10, HeadTyped DEF MarkCompleted, BatchOK, ProcessingOne
  <2>2. /\ status' = [status EXCEPT ![t.key] = "COMPLETED"]
        /\ trial[t.key][retries[t.key]] = "COMPLETED"
        /\ \A a \in Attempts : trial[t.key][a] = "RUNNING" => a = t.attempt
        /\ t.attempt = retries[t.key]
    BY <1>10, <2>1 DEF MarkCompleted, Transition, HeadOK, RowsOK, RowOK
  <2> SUFFICES ASSUME NEW k \in Keys PROVE RowOK(k)'
    BY DEF RowsOK
  <2>3. RowOK(k) BY DEF RowsOK
  <2> HIDE DEF t
  <2> QED BY <1>10, <2>1, <2>2, <2>3 DEF MarkCompleted, RowOK, TypeOK, Absent
<1>11. CASE FailTrial
  <2> DEFINE t == Head(tasks)
             verdict == IF t.outcome = "TIMEOUT" THEN "TIMEOUT" ELSE "FAILED"
  <2>1. t.key \in Keys /\ t.attempt \in Attempts /\ TaskOK(t)
    BY <1>11, HeadTyped DEF FailTrial, BatchOK, FailedVerdict
  <2>2. trial' = [trial EXCEPT ![t.key][t.attempt] = verdict]
    BY <1>11 DEF FailTrial, FailedVerdict
  <2>3. verdict \in {"TIMEOUT", "FAILED"} OBVIOUS
  <2> SUFFICES ASSUME NEW k \in Keys PROVE RowOK(k)'
    BY DEF RowsOK
  <2>4. RowOK(k) BY DEF RowsOK
  <2> HIDE DEF t, verdict
  <2> QED BY <1>11, <2>1, <2>2, <2>3, <2>4 DEF FailTrial, TaskOK, RowOK, TypeOK, Absent, FailedVerdict
<1>12. CASE IncrementRetry
  <2> DEFINE t == Head(tasks)
  <2>1. t.key \in Keys /\ t.attempt \in Attempts /\ HeadOK(t)
    BY <1>12, HeadTyped DEF IncrementRetry, BatchOK, ProcessingOne
  <2>2. /\ status[t.key] = "RUNNING"
        /\ retries[t.key] < MaxRetries
        /\ \A a \in Attempts : trial[t.key][a] # "RUNNING"
    BY <1>12, <2>1 DEF IncrementRetry, HeadOK
  <2>3. retries' = [retries EXCEPT ![t.key] = @ + 1]
    BY <1>12 DEF IncrementRetry
  <2> SUFFICES ASSUME NEW k \in Keys PROVE RowOK(k)'
    BY DEF RowsOK
  <2>4. RowOK(k) BY DEF RowsOK
  <2> HIDE DEF t
  <2> QED BY <1>12, <2>1, <2>2, <2>3, <2>4 DEF IncrementRetry, RowOK, TypeOK, Attempts, Absent
<1>13. CASE Requeue
  <2> DEFINE t == Head(tasks)
  <2>1. t.key \in Keys /\ t.attempt \in Attempts /\ HeadOK(t)
    BY <1>13, HeadTyped DEF Requeue, BatchOK, ProcessingOne
  <2>2. /\ t.attempt + 1 = retries[t.key]
        /\ trial[t.key][retries[t.key]] = Absent
        /\ \A a \in Attempts : trial[t.key][a] # "RUNNING"
    BY <1>13, <2>1 DEF Requeue, HeadOK
  <2>3. /\ status' = [status EXCEPT ![t.key] = "QUEUED"]
        /\ attempts' = [attempts EXCEPT ![t.key] = t.attempt + 1]
    BY <1>13 DEF Requeue, Transition
  <2> SUFFICES ASSUME NEW k \in Keys PROVE RowOK(k)'
    BY DEF RowsOK
  <2>4. RowOK(k) BY DEF RowsOK
  <2> HIDE DEF t
  <2> QED BY <1>13, <2>1, <2>2, <2>3, <2>4 DEF Requeue, RowOK, TypeOK, Absent
<1>14. CASE MarkFailed
  <2> DEFINE t == Head(tasks)
  <2>1. t.key \in Keys /\ HeadOK(t)
    BY <1>14, HeadTyped DEF MarkFailed, BatchOK, ProcessingOne
  <2>2. /\ status' = [status EXCEPT ![t.key] = "FAILED"]
        /\ \A a \in Attempts : trial[t.key][a] # "RUNNING"
    BY <1>14, <2>1 DEF MarkFailed, Transition, HeadOK
  <2> SUFFICES ASSUME NEW k \in Keys PROVE RowOK(k)'
    BY DEF RowsOK
  <2>3. RowOK(k) BY DEF RowsOK
  <2> HIDE DEF t
  <2> QED BY <1>14, <2>1, <2>2, <2>3 DEF MarkFailed, RowOK, TypeOK, Absent
<1>15. CASE Crash BY <1>15 DEF Crash, FreshMemory, RowsOK, RowOK
<1> QED
  BY <1>1, <1>2, <1>3, <1>4, <1>5, <1>6, <1>7, <1>8, <1>9, <1>10, <1>11, <1>12,
     <1>13, <1>14, <1>15
  DEF Next, EngineStep, Terminated, vars, CreateSearch, BeginSearch, ResumeSearch,
      StopOnBudget, StopOnTime, Propose, NothingToPropose, AcceptDuplicate,
      AcceptDone, ClaimedNothing, RunBatch, Observe, BatchDone, SaveCheckpoint,
      PruneCheckpoints, CloseSearch, Abort, LatestCheckpoint, FindCandidate, Answered

-----------------------------------------------------------------------------
(***************************************************************************)
(* The batch keeps its relation to the rows: one step per action that      *)
(* changes a task or moves between the program points of a batch.          *)
(***************************************************************************)
\* The other tasks of the batch are about other candidates.
LEMMA OtherTasks ==
    ASSUME TypeOK, BatchOK, pc \in {"result"} \cup ProcessingOne, tasks # <<>>,
           NEW i \in 2 .. Len(tasks)
    PROVE  /\ TaskOK(tasks[i])
           /\ tasks[i].key \in Keys
           /\ tasks[i].attempt \in Attempts
           /\ tasks[i].key # Head(tasks).key
<1>1. i \in 1 .. Len(tasks) /\ 1 \in 1 .. Len(tasks) /\ i # 1 BY HeadTyped
<1>2. TaskOK(tasks[i]) BY <1>1 DEF BatchOK
<1>3. tasks[i] \in Tasks BY <1>1 DEF TypeOK
<1>4. tasks[i].key # tasks[1].key BY <1>1 DEF BatchOK
<1> QED BY <1>2, <1>3, <1>4, HeadTyped DEF Tasks

\* A step that only writes rows of the task in hand leaves the others alone.
LEMMA OthersKept ==
    ASSUME TypeOK, BatchOK, pc \in {"result"} \cup ProcessingOne, tasks # <<>>,
           \A k \in Keys \ {Head(tasks).key} :
               /\ status'[k] = status[k]
               /\ retries'[k] = retries[k]
               /\ trial'[k] = trial[k],
           NEW i \in 2 .. Len(tasks)
    PROVE  /\ status'[tasks[i].key] = "RUNNING"
           /\ tasks[i].attempt = retries'[tasks[i].key]
           /\ trial'[tasks[i].key][tasks[i].attempt] = "RUNNING"
<1>1. tasks[i].key \in Keys \ {Head(tasks).key} /\ TaskOK(tasks[i])
  BY OtherTasks
<1> QED BY <1>1 DEF TaskOK

\* Two program points share their batch: the step leaves the list of tasks
\* alone and HeadOK holds of the task in hand at the new one.
LEMMA NextHead ==
    ASSUME TypeOK, BatchOK, pc \in {"result"} \cup ProcessingOne, tasks # <<>>,
           tasks' = tasks, pc' \in ProcessingOne,
           \A k \in Keys \ {Head(tasks).key} :
               /\ status'[k] = status[k]
               /\ retries'[k] = retries[k]
               /\ trial'[k] = trial[k],
           HeadOK(tasks[1])'
    PROVE  BatchOK'
<1>1. \A i \in 2 .. Len(tasks) : TaskOK(tasks[i])'
  BY OthersKept DEF TaskOK
<1>2. \A i, j \in 1 .. Len(tasks) : tasks[i].key = tasks[j].key => i = j
  BY DEF BatchOK
<1> QED BY <1>1, <1>2 DEF BatchOK, ProcessingOne

\* The task in hand is dealt with: the rest of the batch goes on.
LEMMA NextTask ==
    ASSUME TypeOK, BatchOK, pc \in ProcessingOne, tasks # <<>>,
           tasks' = Tail(tasks), pc' = "result",
           \A k \in Keys \ {Head(tasks).key} :
               /\ status'[k] = status[k]
               /\ retries'[k] = retries[k]
               /\ trial'[k] = trial[k]
    PROVE  BatchOK'
<1>1. /\ Len(tasks') = Len(tasks) - 1
      /\ Len(tasks) \in Nat \ {0}
      /\ \A i \in 1 .. Len(tasks') : tasks'[i] = tasks[i + 1] /\ i + 1 \in 2 .. Len(tasks)
  BY HeadTyped
<1>2. \A i \in 1 .. Len(tasks') : TaskOK(tasks[i])'
  BY <1>1, OthersKept DEF TaskOK
<1>3. \A i, j \in 1 .. Len(tasks') : tasks'[i].key = tasks'[j].key => i = j
  BY <1>1 DEF BatchOK
<1> QED BY <1>2, <1>3 DEF BatchOK, ProcessingOne

\* No batch is under way.
LEMMA NoBatch ==
    ASSUME tasks' = <<>>, pc' \notin {"start"} \cup ProcessingOne
    PROVE  BatchOK'
BY DEF BatchOK

LEMMA BatchStep ==
    ASSUME IInv, [Next]_vars
    PROVE  BatchOK'
<1> USE DEF IInv, memory, durable
<1>1. CASE UNCHANGED vars
  BY <1>1 DEF vars, BatchOK, TaskOK, HeadOK
<1>2. CASE \/ CreateSearch \/ BeginSearch \/ RecoverInterrupted \/ ResumeSearch
           \/ StopOnBudget \/ StopOnTime \/ Propose \/ NothingToPropose
           \/ AcceptDuplicate \/ AcceptInsert \/ AcceptReject \/ AcceptValidate
           \/ AcceptEnqueue \/ AcceptDone \/ ClaimedNothing \/ BatchDone
           \/ SaveCheckpoint \/ PruneCheckpoints \/ CloseSearch \/ Abort \/ Crash
  <2>1. tasks' = <<>>
    BY <1>2 DEF BatchOK, ProcessingOne, FreshMemory, CreateSearch, BeginSearch,
       RecoverInterrupted, ResumeSearch, StopOnBudget, StopOnTime, Propose,
       NothingToPropose, AcceptDuplicate, AcceptInsert, AcceptReject, AcceptValidate,
       AcceptEnqueue, AcceptDone, ClaimedNothing, BatchDone, SaveCheckpoint,
       PruneCheckpoints, CloseSearch, Abort, Crash, LatestCheckpoint, FindCandidate, AddCandidate
  <2>2. pc' \notin {"start"} \cup ProcessingOne
    BY <1>2 DEF ProcessingOne, Stop, CreateSearch, BeginSearch,
       RecoverInterrupted, ResumeSearch, StopOnBudget, StopOnTime, Propose,
       NothingToPropose, AcceptDuplicate, AcceptInsert, AcceptReject, AcceptValidate,
       AcceptEnqueue, AcceptDone, ClaimedNothing, BatchDone, SaveCheckpoint,
       PruneCheckpoints, CloseSearch, Abort, Crash, LatestCheckpoint, FindCandidate, AddCandidate
  <2> QED BY <2>1, <2>2, NoBatch
<1>3. CASE ClaimNextQueued
  <2>1. PICK k \in Keys :
            /\ status[k] = "QUEUED"
            /\ status' = [status EXCEPT ![k] = "RUNNING"]
            /\ tasks' = Append(tasks, [key |-> k, attempt |-> NextAttempt(k),
                                       outcome |-> "PENDING"])
    BY <1>3 DEF ClaimNextQueued, Oldest, Transition
  <2>2. /\ NextAttempt(k) = retries[k]
        /\ trial[k][retries[k]] = Absent
    BY <2>1 DEF RowsOK, RowOK, NextAttempt
  <2>3. /\ pc = "claim" /\ pc' = "start"
        /\ UNCHANGED <<retries, trial>>
    BY <1>3 DEF ClaimNextQueued
  <2>4. \A i \in 1 .. Len(tasks) : TaskOK(tasks[i]) /\ tasks[i] \in Tasks
    BY <2>3 DEF BatchOK, TypeOK
  <2>5. /\ Len(tasks) \in Nat
        /\ Len(tasks') = Len(tasks) + 1
        /\ \A i \in 1 .. Len(tasks) : tasks'[i] = tasks[i]
        /\ tasks'[Len(tasks')] = [key |-> k, attempt |-> NextAttempt(k),
                                  outcome |-> "PENDING"]
    BY <2>1 DEF TypeOK
  <2>6. \A i \in 1 .. Len(tasks) : tasks[i].key \in Keys \ {k}
    BY <2>1, <2>4 DEF TaskOK, Tasks
  <2>7. ASSUME NEW i \in 1 .. Len(tasks') - 1
        PROVE  TaskOK(tasks[i])'
    <3>1. i \in 1 .. Len(tasks) /\ tasks'[i] = tasks[i] BY <2>5
    <3>2. TaskOK(tasks[i]) /\ tasks[i].key \in Keys \ {k} BY <2>4, <2>6, <3>1
    <3>3. status'[tasks[i].key] = status[tasks[i].key] BY <2>1, <3>2 DEF TypeOK
    <3> QED BY <2>3, <3>1, <3>2, <3>3 DEF TaskOK
  <2>8. /\ status'[k] = "RUNNING"
        /\ NextAttempt(k) = retries'[k]
        /\ trial'[k][NextAttempt(k)] = Absent
    BY <2>1, <2>2, <2>3 DEF TypeOK
  <2>9. \A i, j \in 1 .. Len(tasks') : tasks'[i].key = tasks'[j].key => i = j
    BY <2>1, <2>3, <2>5, <2>6 DEF BatchOK
  <2>10. tasks' # <<>> BY <2>5
  <2> QED BY <2>3, <2>5, <2>7, <2>8, <2>9, <2>10 DEF BatchOK, ProcessingOne
<1>4. CASE StartTrial
  <2> DEFINE t == tasks[Len(tasks)]
  <2>1. /\ pc = "start" /\ pc' = "claim"
        /\ UNCHANGED <<status, retries, tasks>>
        /\ trial' = [trial EXCEPT ![t.key][t.attempt] = "RUNNING"]
    BY <1>4 DEF StartTrial
  <2>2. /\ tasks # <<>>
        /\ Len(tasks) \in Nat \ {0}
        /\ \A i \in 1 .. Len(tasks) : tasks[i] \in Tasks
        /\ status[t.key] = "RUNNING"
        /\ t.attempt = retries[t.key]
    BY <2>1 DEF BatchOK, TypeOK
  <2>3. t.key \in Keys /\ t.attempt \in Attempts
    BY <2>2 DEF Tasks
  <2>4. ASSUME NEW i \in 1 .. Len(tasks)
        PROVE  TaskOK(tasks[i])'
    <3>1. CASE i = Len(tasks)
      BY <2>1, <2>2, <2>3, <3>1 DEF TaskOK, TypeOK
    <3>2. CASE i # Len(tasks)
      <4>1. i \in 1 .. Len(tasks) - 1 /\ Len(tasks) \in 1 .. Len(tasks) BY <2>2, <3>2
      <4>2. TaskOK(tasks[i]) BY <2>1, <4>1 DEF BatchOK
      <4>3. tasks[i].key \in Keys /\ tasks[i].key # t.key
        BY <2>2, <3>2, <4>1 DEF BatchOK, Tasks
      <4> QED BY <2>1, <2>3, <4>2, <4>3 DEF TaskOK, TypeOK
    <3> QED BY <3>1, <3>2
  <2> QED BY <2>1, <2>4 DEF BatchOK, ProcessingOne
<1>5. CASE RunBatch
  <2>1. PICK out \in [1 .. Len(tasks) -> Outcomes] :
            tasks' = [i \in 1 .. Len(tasks) |-> [tasks[i] EXCEPT !.outcome = out[i]]]
    BY <1>5 DEF RunBatch, Answered
  <2>2. Len(tasks') = Len(tasks) BY <2>1 DEF TypeOK
  <2>3. \A i \in 1 .. Len(tasks) :
            tasks'[i].key = tasks[i].key /\ tasks'[i].attempt = tasks[i].attempt
    <3>1. \A i \in 1 .. Len(tasks) : tasks[i] \in Tasks BY DEF TypeOK
    <3> QED BY <2>1, <3>1 DEF Tasks
  <2>4. /\ pc = "claim" /\ pc' = "result"
        /\ UNCHANGED <<status, retries, trial>>
    BY <1>5 DEF RunBatch, Answered
  <2>5. \A i \in 1 .. Len(tasks') : TaskOK(tasks[i])'
    BY <2>2, <2>3, <2>4 DEF BatchOK, TaskOK
  <2>6. \A i, j \in 1 .. Len(tasks') : tasks'[i].key = tasks'[j].key => i = j
    BY <2>2, <2>3 DEF BatchOK
  <2> QED BY <2>4, <2>5, <2>6 DEF BatchOK, ProcessingOne
<1>6. CASE CompleteTrial
  <2> DEFINE t == Head(tasks)
  <2>1. /\ pc = "result" /\ pc' = "complete" /\ tasks # <<>>
        /\ UNCHANGED <<status, retries, tasks>>
        /\ trial' = [trial EXCEPT ![t.key][t.attempt] = "COMPLETED"]
    BY <1>6 DEF CompleteTrial
  <2>2. /\ t = tasks[1] /\ t.key \in Keys /\ t.attempt \in Attempts /\ TaskOK(t)
    BY <2>1, HeadTyped DEF BatchOK
  <2> HIDE DEF t
  <2>3. /\ \A k \in Keys \ {t.key} : trial'[k] = trial[k]
        /\ trial'[t.key][t.attempt] = "COMPLETED"
    BY <2>1, <2>2 DEF TypeOK
  <2>4. HeadOK(tasks[1])' BY <2>1, <2>2, <2>3 DEF HeadOK, TaskOK
  <2> QED BY <2>1, <2>3, <2>4, NextHead DEF ProcessingOne, t
<1>7. CASE MarkCompleted
  <2> DEFINE t == Head(tasks)
  <2>1. /\ pc = "complete" /\ pc' = "observe" /\ tasks # <<>>
        /\ UNCHANGED <<trial, retries, tasks>>
        /\ status' = [status EXCEPT ![t.key] = "COMPLETED"]
    BY <1>7 DEF MarkCompleted, Transition, BatchOK, ProcessingOne
  <2>2. t = tasks[1] /\ t.key \in Keys BY <2>1, HeadTyped
  <2> HIDE DEF t
  <2>3. /\ \A k \in Keys \ {t.key} : status'[k] = status[k]
        /\ status'[t.key] = "COMPLETED"
    BY <2>1, <2>2 DEF TypeOK
  <2>4. HeadOK(tasks[1])' BY <2>1, <2>2, <2>3 DEF HeadOK
  <2> QED BY <2>1, <2>3, <2>4, NextHead DEF ProcessingOne, t
<1>8. CASE FailTrial
  <2> DEFINE t == Head(tasks)
             verdict == IF t.outcome = "TIMEOUT" THEN "TIMEOUT" ELSE "FAILED"
  <2>1. /\ pc = "result" /\ tasks # <<>>
        /\ pc' = IF ShouldRetry(t.outcome, t.attempt) THEN "retry" ELSE "fail"
        /\ UNCHANGED <<status, retries, tasks>>
        /\ trial' = [trial EXCEPT ![t.key][t.attempt] = verdict]
    BY <1>8 DEF FailTrial, FailedVerdict
  <2>2. verdict # "RUNNING" OBVIOUS
  <2>3. /\ t = tasks[1] /\ t.key \in Keys /\ t.attempt \in Attempts /\ TaskOK(t)
    BY <2>1, HeadTyped DEF BatchOK
  <2> HIDE DEF t, verdict
  <2>4. /\ \A k \in Keys \ {t.key} : trial'[k] = trial[k]
        /\ \A a \in Attempts :
              trial'[t.key][a] = IF a = t.attempt THEN verdict ELSE trial[t.key][a]
    BY <2>1, <2>3 DEF TypeOK
  <2>5. \A a \in Attempts : trial'[t.key][a] # "RUNNING"
    BY <2>2, <2>3, <2>4 DEF RowsOK, RowOK, TaskOK
  <2>6. ShouldRetry(t.outcome, t.attempt) => t.attempt < MaxRetries
    BY <2>3, EngineAssumption DEF ShouldRetry, Attempts
  <2>7. HeadOK(tasks[1])' BY <2>1, <2>3, <2>5, <2>6 DEF HeadOK, TaskOK
  <2> QED BY <2>1, <2>4, <2>7, NextHead DEF ProcessingOne, t
<1>9. CASE IncrementRetry
  <2> DEFINE t == Head(tasks)
  <2>1. /\ pc = "retry" /\ pc' = "requeue" /\ tasks # <<>>
        /\ UNCHANGED <<status, trial, tasks>>
        /\ retries' = [retries EXCEPT ![t.key] = @ + 1]
    BY <1>9 DEF IncrementRetry, BatchOK, ProcessingOne
  <2>2. /\ t = tasks[1] /\ t.key \in Keys /\ t.attempt \in Attempts /\ HeadOK(t)
    BY <2>1, HeadTyped DEF BatchOK, ProcessingOne
  <2> HIDE DEF t
  <2>3. /\ \A k \in Keys \ {t.key} : retries'[k] = retries[k]
        /\ retries'[t.key] = retries[t.key] + 1
        /\ retries[t.key] \in Nat
    BY <2>1, <2>2 DEF TypeOK
  <2>4. trial[t.key][retries'[t.key]] = Absent
    <3>1. retries[t.key] + 1 \in Attempts
      BY <2>1, <2>2, <2>3, EngineAssumption DEF HeadOK, Attempts
    <3> QED BY <2>2, <2>3, <3>1 DEF RowsOK, RowOK
  <2>5. HeadOK(tasks[1])' BY <2>1, <2>2, <2>3, <2>4 DEF HeadOK
  <2> QED BY <2>1, <2>3, <2>5, NextHead DEF ProcessingOne, t
<1>10. CASE MarkFailed
  <2> DEFINE t == Head(tasks)
  <2>1. /\ pc = "fail" /\ pc' = "observe" /\ tasks # <<>>
        /\ UNCHANGED <<trial, retries, tasks>>
        /\ status' = [status EXCEPT ![t.key] = "FAILED"]
    BY <1>10 DEF MarkFailed, Transition, BatchOK, ProcessingOne
  <2>2. t = tasks[1] /\ t.key \in Keys BY <2>1, HeadTyped
  <2> HIDE DEF t
  <2>3. /\ \A k \in Keys \ {t.key} : status'[k] = status[k]
        /\ status'[t.key] = "FAILED"
    BY <2>1, <2>2 DEF TypeOK
  <2>4. HeadOK(tasks[1])' BY <2>1, <2>2, <2>3 DEF HeadOK
  <2> QED BY <2>1, <2>3, <2>4, NextHead DEF ProcessingOne, t
<1>11. CASE Requeue
  <2> DEFINE t == Head(tasks)
  <2>1. /\ pc = "requeue" /\ pc' = "result" /\ tasks # <<>> /\ tasks' = Tail(tasks)
        /\ UNCHANGED <<trial, retries>>
        /\ status' = [status EXCEPT ![t.key] = "QUEUED"]
    BY <1>11 DEF Requeue, Transition, BatchOK, ProcessingOne
  <2>2. \A k \in Keys \ {t.key} : status'[k] = status[k]
    BY <2>1 DEF TypeOK
  <2> QED BY <2>1, <2>2, NextTask DEF ProcessingOne
<1>12. CASE Observe
  <2>1. /\ pc = "observe" /\ pc' = "result" /\ tasks # <<>> /\ tasks' = Tail(tasks)
        /\ UNCHANGED <<status, trial, retries>>
    BY <1>12 DEF Observe, BatchOK, ProcessingOne
  <2> QED BY <2>1, NextTask DEF ProcessingOne
<1> QED
  BY <1>1, <1>2, <1>3, <1>4, <1>5, <1>6, <1>7, <1>8, <1>9, <1>10, <1>11, <1>12
  DEF Next, EngineStep, Terminated

-----------------------------------------------------------------------------
\* The proposal in hand keeps its status until its transaction is done.
LEMMA TodoStep ==
    ASSUME IInv, [Next]_vars
    PROVE  TodoOK'
<1> USE DEF IInv, memory, durable
<1>1. CASE UNCHANGED vars BY <1>1 DEF vars, TodoOK
<1>2. CASE AcceptInsert
  <2>1. todo # <<>> /\ Head(todo) \in Keys BY <1>2 DEF AcceptInsert, TypeOK, FindCandidate, AddCandidate
  <2> QED BY <1>2, <2>1 DEF AcceptInsert, TodoOK, TypeOK, FindCandidate, AddCandidate
<1>3. CASE AcceptValidate
  <2>1. todo # <<>> /\ Head(todo) \in Keys BY <1>3 DEF AcceptValidate, TodoOK, TypeOK
  <2> QED BY <1>3, <2>1 DEF AcceptValidate, Transition, TodoOK, TypeOK
<1>4. CASE pc' \notin {"check", "enqueue"} BY <1>4 DEF TodoOK
<1> QED
  BY <1>1, <1>2, <1>3, <1>4
  DEF Next, EngineStep, Terminated, Stop, CreateSearch, BeginSearch,
      RecoverInterrupted, ResumeSearch, StopOnBudget, StopOnTime, Propose,
      NothingToPropose, AcceptDuplicate, AcceptReject, AcceptEnqueue, AcceptDone,
      ClaimNextQueued, StartTrial, ClaimedNothing, RunBatch, CompleteTrial,
      MarkCompleted, FailTrial, IncrementRetry, Requeue, MarkFailed, Observe,
      BatchDone, SaveCheckpoint, PruneCheckpoints, CloseSearch, Abort, Crash, LatestCheckpoint, FindCandidate, Answered, FailedVerdict

-----------------------------------------------------------------------------
(***************************************************************************)
(* Nothing is left in RUNNING unaccounted for.                             *)
(***************************************************************************)
\* Where no batch is under way and the loop runs, no candidate is in RUNNING.
LEMMA QuietWithoutTasks ==
    ASSUME IInv, InLoop, tasks = <<>>
    PROVE  NoneRunning
BY DEF IInv, StrayOK, TaskKeys, NoneRunning

LEMMA StrayStep ==
    ASSUME IInv, [Next]_vars
    PROVE  StrayOK'
<1> USE DEF IInv, memory, durable
<1>1. CASE UNCHANGED vars BY <1>1 DEF vars, StrayOK, InLoop, NoneRunning, TaskKeys
<1>2. CASE CreateSearch
  BY <1>2 DEF CreateSearch, StrayOK, InLoop, NoneRunning, Absent
<1>3. CASE BeginSearch
  BY <1>3 DEF BeginSearch, StrayOK, InLoop, NoneRunning, Absent
<1>4. CASE RecoverInterrupted
  <2>1. \A k \in Keys : status'[k] # "RUNNING"
    BY <1>4 DEF RecoverInterrupted, RecoveredStatus
  <2> QED BY <1>4, <2>1 DEF RecoverInterrupted, FreshMemory, StrayOK, InLoop, NoneRunning
<1>5. CASE ResumeSearch
  BY <1>5 DEF ResumeSearch, StrayOK, InLoop, NoneRunning, Absent, LatestCheckpoint
<1>6. CASE StopOnBudget \/ StopOnTime \/ ClaimedNothing \/ BatchDone
  <2>1. tasks = <<>> /\ UNCHANGED <<searchStatus, status, tasks>> /\ pc' \in {"save", "loop"}
    BY <1>6 DEF StopOnBudget, StopOnTime, ClaimedNothing, BatchDone, Stop, BatchOK, ProcessingOne
  <2>2. InLoop
    BY <1>6 DEF StopOnBudget, StopOnTime, ClaimedNothing, BatchDone, InLoop, StrayOK
  <2>3. NoneRunning BY <2>1, <2>2, QuietWithoutTasks
  <2>4. reason' # "NONE" => pc' = "save"
    BY <1>6, <2>2 DEF StopOnBudget, StopOnTime, ClaimedNothing, BatchDone, Stop, InLoop
  <2> QED BY <2>1, <2>2, <2>3, <2>4 DEF StrayOK, InLoop, NoneRunning
<1>7. CASE Propose \/ NothingToPropose \/ AcceptDuplicate \/ AcceptDone \/ StartTrial
           \/ RunBatch \/ CompleteTrial \/ FailTrial \/ IncrementRetry
  <2>1. /\ UNCHANGED <<searchStatus, status, reason>>
        /\ pc' \in {"accept", "claim", "result", "complete", "retry", "fail", "requeue"}
        /\ InLoop
    BY <1>7 DEF Propose, NothingToPropose, AcceptDuplicate, AcceptDone, StartTrial,
       RunBatch, CompleteTrial, FailTrial, IncrementRetry, InLoop, StrayOK, FindCandidate, Answered, FailedVerdict
  <2>2. TaskKeys' = TaskKeys
    <3>1. CASE RunBatch
      <4>1. PICK out \in [1 .. Len(tasks) -> Outcomes] :
                tasks' = [i \in 1 .. Len(tasks) |-> [tasks[i] EXCEPT !.outcome = out[i]]]
        BY <3>1 DEF RunBatch, Answered
      <4>2. Len(tasks') = Len(tasks) BY <4>1 DEF TypeOK
      <4>3. \A i \in 1 .. Len(tasks) : tasks[i] \in Tasks BY DEF TypeOK
      <4>4. \A i \in 1 .. Len(tasks) : tasks'[i].key = tasks[i].key
        BY <4>1, <4>3 DEF Tasks
      <4> QED BY <4>2, <4>4 DEF TaskKeys
    <3>2. CASE ~RunBatch
      <4>1. UNCHANGED tasks
        BY <1>7, <3>2 DEF Propose, NothingToPropose, AcceptDuplicate, AcceptDone,
           StartTrial, CompleteTrial, FailTrial, IncrementRetry, FindCandidate, FailedVerdict
      <4> QED BY <4>1 DEF TaskKeys
    <3> QED BY <3>1, <3>2
  <2> QED BY <2>1, <2>2 DEF StrayOK, InLoop, NoneRunning
<1>8. CASE AcceptInsert \/ AcceptReject \/ AcceptValidate \/ AcceptEnqueue
           \/ MarkCompleted \/ MarkFailed
  <2>1. /\ UNCHANGED <<searchStatus, reason, tasks>>
        /\ pc' \in {"accept", "check", "enqueue", "observe"}
        /\ InLoop
    BY <1>8 DEF AcceptInsert, AcceptReject, AcceptValidate, AcceptEnqueue,
       MarkCompleted, MarkFailed, InLoop, StrayOK, FindCandidate, AddCandidate
  <2>2. \A k \in Keys : status'[k] = "RUNNING" => status[k] = "RUNNING"
    BY <1>8 DEF AcceptInsert, AcceptReject, AcceptValidate, AcceptEnqueue,
       MarkCompleted, MarkFailed, Transition, TypeOK, FindCandidate, AddCandidate
  <2> QED BY <2>1, <2>2 DEF StrayOK, InLoop, NoneRunning, TaskKeys
<1>9. CASE ClaimNextQueued
  <2>1. PICK q \in Keys :
            /\ status' = [status EXCEPT ![q] = "RUNNING"]
            /\ tasks' = Append(tasks, [key |-> q, attempt |-> NextAttempt(q),
                                       outcome |-> "PENDING"])
    BY <1>9 DEF ClaimNextQueued, Transition
  <2>2. TaskKeys \cup {q} \subseteq TaskKeys'
    <3>1. /\ Len(tasks) \in Nat
          /\ Len(tasks') = Len(tasks) + 1
          /\ \A i \in 1 .. Len(tasks) : tasks'[i] = tasks[i]
          /\ tasks'[Len(tasks')].key = q
      BY <2>1 DEF TypeOK
    <3> QED BY <3>1 DEF TaskKeys
  <2>3. /\ UNCHANGED <<searchStatus, reason>> /\ pc' = "start" /\ InLoop
    BY <1>9 DEF ClaimNextQueued, InLoop, StrayOK
  <2> QED BY <2>1, <2>2, <2>3 DEF StrayOK, InLoop, TypeOK
<1>10. CASE Requeue \/ Observe
  <2>1. /\ UNCHANGED <<searchStatus, reason>>
        /\ pc' = "result" /\ InLoop /\ tasks # <<>>
        /\ tasks' = Tail(tasks)
    BY <1>10 DEF Requeue, Observe, InLoop, StrayOK, BatchOK, ProcessingOne
  <2>2. \A k \in Keys : status'[k] = "RUNNING" =>
            status[k] = "RUNNING" /\ k # Head(tasks).key
    BY <1>10, <2>1, HeadTyped
    DEF Requeue, Observe, Transition, BatchOK, ProcessingOne, HeadOK, TypeOK
  <2>3. TaskKeys \ {Head(tasks).key} \subseteq TaskKeys'
    <3>1. /\ Len(tasks) \in Nat \ {0}
          /\ Len(tasks') = Len(tasks) - 1
          /\ \A i \in 1 .. Len(tasks) - 1 : tasks'[i] = tasks[i + 1]
          /\ Head(tasks) = tasks[1]
      BY <2>1, HeadTyped
    <3>2. ASSUME NEW i \in 1 .. Len(tasks), tasks[i].key # tasks[1].key
          PROVE  tasks[i].key \in TaskKeys'
      <4>1. i - 1 \in 1 .. Len(tasks') /\ tasks'[i - 1] = tasks[i] BY <3>1, <3>2
      <4> QED BY <4>1 DEF TaskKeys
    <3> QED BY <3>1, <3>2 DEF TaskKeys
  <2> QED BY <2>1, <2>2, <2>3 DEF StrayOK, InLoop
<1>11. CASE SaveCheckpoint \/ PruneCheckpoints
  BY <1>11 DEF SaveCheckpoint, PruneCheckpoints, StrayOK, InLoop, NoneRunning, TaskKeys
<1>12. CASE CloseSearch
  BY <1>12 DEF CloseSearch, FinalStatus, StrayOK, InLoop, NoneRunning, Absent
<1>13. CASE Abort
  <2>1. reason' \in {"INTERRUPTED", "ERROR"} /\ pc' = "save"
    BY <1>13, EngineAssumption DEF Abort, Stop
  <2> QED BY <1>13, <2>1 DEF Abort, StrayOK, InLoop, NoneRunning
<1>14. CASE Crash
  BY <1>14 DEF Crash, FreshMemory, StrayOK, InLoop, NoneRunning
<1> QED
  BY <1>1, <1>2, <1>3, <1>4, <1>5, <1>6, <1>7, <1>8, <1>9, <1>10, <1>11, <1>12,
     <1>13, <1>14
  DEF Next, EngineStep, Terminated

-----------------------------------------------------------------------------
(***************************************************************************)
(* The theorems.                                                           *)
(***************************************************************************)
\* The inductive invariant holds of every state of every run.
THEOREM Invariance == Spec => []IInv
<1>1. Init => IInv
  BY EngineAssumption
  DEF Init, IInv, TypeOK, RowsOK, RowOK, BatchOK, TodoOK, StrayOK, NoneRunning, InLoop,
      FreshStrategy, Strategies, ProcessingOne, Attempts, NotTried, Absent
<1>2. IInv /\ [Next]_vars => IInv'
  BY TypeStep, RowsStep, BatchStep, TodoStep, StrayStep DEF IInv
<1> QED BY <1>1, <1>2, PTL DEF Spec

\* Every variable keeps its type; attempt numbers never leave 0..MaxRetries, so
\* the retry path and the recovery sweep never number a trial out of range.
THEOREM TypeCorrect == Spec => []TypeOK
<1>1. IInv => TypeOK BY DEF IInv
<1> QED BY <1>1, Invariance, PTL

\* start_trial never inserts a second trial with a (candidate, attempt) that the
\* table already holds: _build_tasks numbers attempts consistently with
\* increment_retry and recover_interrupted.
THEOREM AttemptIsAlwaysFresh == Spec => []AttemptIsFresh
<1>1. IInv => AttemptIsFresh BY DEF IInv, BatchOK, AttemptIsFresh
<1> QED BY <1>1, Invariance, PTL

\* However often a candidate fails, times out or is interrupted, it is tried at
\* most MaxRetries times after the first, and retry_count says so.
THEOREM RetriesAreBounded == Spec => []RetryBound
<1>1. IInv => RetryBound BY DEF IInv, RowsOK, RowOK, RetryBound
<1> QED BY <1>1, Invariance, PTL

\* validate_transition never raises in the engine: every update it asks for is
\* an edge of the lifecycle table.
THEOREM TransitionsAreNeverRefused == Spec => []NeverRefused
<1>1. ASSUME IInv PROVE NeverRefused
  <2>1. pc \in ProcessingOne => Head(tasks) = tasks[1] /\ HeadOK(Head(tasks))
    BY <1>1, HeadTyped DEF IInv, BatchOK
  <2> QED BY <1>1, <2>1 DEF IInv, TodoOK, HeadOK, ProcessingOne, NeverRefused
<1> QED BY <1>1, Invariance, PTL

\* A candidate has at most one running trial, and only while it is RUNNING,
\* also in the database a dead process leaves behind.
THEOREM TrialsAreExclusive == Spec => []OneLiveTrial
<1>1. IInv => OneLiveTrial BY DEF IInv, RowsOK, RowOK, OneLiveTrial
<1> QED BY <1>1, Invariance, PTL

\* A candidate that is COMPLETED has its metrics in the trial of its last
\* attempt, in whatever order crashes cut complete_trial from the update of
\* the candidate.
THEOREM CompletionsAreMeasured == Spec => []CompletedHasMetrics
<1>1. IInv => CompletedHasMetrics
  BY DEF IInv, RowsOK, RowOK, CompletedHasMetrics, InState
<1> QED BY <1>1, Invariance, PTL

\* While the loop runs, RUNNING rows and unfinished tasks are the same thing.
THEOREM NothingIsOrphaned == Spec => []NoOrphans
<1>1. ASSUME IInv, InLoop
      PROVE  InState("RUNNING") = TaskKeys \ (IF pc = "observe" THEN {Head(tasks).key} ELSE {})
  <2> DEFINE done == IF pc = "observe" THEN {Head(tasks).key} ELSE {}
  <2>1. ASSUME NEW k \in InState("RUNNING") PROVE k \in TaskKeys \ done
    <3>1. k \in TaskKeys BY <1>1 DEF IInv, StrayOK, InState
    <3>2. pc = "observe" => status[Head(tasks).key] # "RUNNING"
      BY <1>1, HeadTyped DEF IInv, BatchOK, ProcessingOne, HeadOK
    <3> QED BY <3>1, <3>2 DEF InState
  <2>2. ASSUME NEW k \in TaskKeys \ done PROVE k \in InState("RUNNING")
    <3>1. PICK i \in 1 .. Len(tasks) : tasks[i].key = k BY DEF TaskKeys
    <3>2. tasks[i] \in Tasks /\ tasks # <<>> BY <1>1 DEF IInv, TypeOK
    <3>3. k \in Keys BY <3>1, <3>2 DEF Tasks
    <3>4. CASE pc \in {"claim", "result"}
      BY <1>1, <3>1, <3>3, <3>4 DEF IInv, BatchOK, TaskOK, InState
    <3>5. CASE pc = "start"
      <4>1. CASE i = Len(tasks) BY <1>1, <3>1, <3>3, <3>5, <4>1 DEF IInv, BatchOK, InState
      <4>2. CASE i # Len(tasks)
        <5>1. i \in 1 .. Len(tasks) - 1 BY <1>1, <4>2 DEF IInv, TypeOK
        <5> QED BY <1>1, <3>1, <3>3, <3>5, <5>1 DEF IInv, BatchOK, TaskOK, InState
      <4> QED BY <4>1, <4>2
    <3>6. CASE pc \in ProcessingOne
      <4>1. Head(tasks) = tasks[1] /\ HeadOK(tasks[1])
        BY <1>1, <3>2, <3>6, HeadTyped DEF IInv, BatchOK
      <4>2. CASE i = 1 BY <2>2, <3>1, <3>3, <4>1, <4>2 DEF HeadOK, InState
      <4>3. CASE i # 1
        <5>1. i \in 2 .. Len(tasks) BY <4>3
        <5> QED BY <1>1, <3>1, <3>3, <3>6, <5>1 DEF IInv, BatchOK, TaskOK, InState
      <4> QED BY <4>2, <4>3
    <3> QED BY <1>1, <3>2, <3>4, <3>5, <3>6 DEF IInv, BatchOK
  <2> QED BY <2>1, <2>2
<1>2. IInv => NoOrphans BY <1>1 DEF NoOrphans
<1> QED BY <1>2, Invariance, PTL

\* A search that is marked completed has no evaluation under way.
THEOREM CompletedSearchIsQuiet == Spec => []CompletedIsQuiet
<1>1. IInv => CompletedIsQuiet
  BY DEF IInv, StrayOK, NoneRunning, RowsOK, RowOK, CompletedIsQuiet, InState
<1> QED BY <1>1, Invariance, PTL

\* Every change of a candidate's status is an edge of the lifecycle table, the
\* ones of recover_interrupted included.
THEOREM StatusFollowsTable == Spec => FollowsTable
<1> DEFINE Edges == \A k \in Keys :
                \/ status'[k] = status[k]
                \/ status[k] = Absent /\ status'[k] = "PROPOSED"
                \/ CanTransition(status[k], status'[k])
<1>1. ASSUME TypeOK, [Next]_vars PROVE [Edges]_vars
  <2> USE DEF durable, memory
  <2>1. CASE UNCHANGED status BY <2>1
  <2>2. ASSUME NEW h, NEW target, Transition(h, target) PROVE Edges
    BY <1>1, <2>2 DEF Transition, TypeOK
  <2>3. CASE AcceptInsert BY <1>1, <2>3 DEF AcceptInsert, TypeOK, FindCandidate, AddCandidate
  <2>4. CASE RecoverInterrupted
    BY <2>4 DEF RecoverInterrupted, RecoveredStatus, CanTransition, AllowedTransitions,
       CandidateState
  <2>5. CASE AcceptReject \/ AcceptValidate \/ AcceptEnqueue \/ ClaimNextQueued
             \/ MarkCompleted \/ Requeue \/ MarkFailed
    BY <2>2, <2>5 DEF AcceptReject, AcceptValidate, AcceptEnqueue, ClaimNextQueued,
       MarkCompleted, Requeue, MarkFailed
  <2> QED
    BY <1>1, <2>1, <2>3, <2>4, <2>5
    DEF Next, EngineStep, Terminated, vars, CreateSearch, BeginSearch, ResumeSearch,
        StopOnBudget, StopOnTime, Propose, NothingToPropose, AcceptDuplicate,
        AcceptDone, StartTrial, ClaimedNothing, RunBatch, CompleteTrial, FailTrial,
        IncrementRetry, Observe, BatchDone, SaveCheckpoint, PruneCheckpoints,
        CloseSearch, Abort, Crash, LatestCheckpoint, FindCandidate, Answered, FailedVerdict
<1>2. IInv /\ [Next]_vars => [Edges]_vars BY <1>1 DEF IInv
<1> QED BY <1>2, Invariance, PTL DEF Spec, FollowsTable

\* complete_trial, fail_trial and recover_interrupted overwrite a row without
\* looking at it, and yet never overwrite a verdict.
THEOREM TrialsAreWrittenOnce == Spec => TrialWrittenOnce
<1> DEFINE Kept == \A k \in Keys, a \in Attempts :
                trial[k][a] \in TrialState \ {"RUNNING"} => trial'[k][a] = trial[k][a]
<1>1. ASSUME IInv, [Next]_vars PROVE [Kept]_vars
  <2> USE DEF durable, memory
  <2>1. CASE UNCHANGED trial BY <2>1
  <2>2. CASE RecoverInterrupted BY <2>2 DEF RecoverInterrupted, RecoveredTrial
  <2>3. CASE StartTrial
    BY <1>1, <2>3 DEF StartTrial, IInv, TypeOK, TrialState, Absent
  <2>4. CASE CompleteTrial \/ FailTrial
    <3>1. TaskOK(Head(tasks)) /\ Head(tasks) \in Tasks
      BY <1>1, <2>4, HeadTyped DEF CompleteTrial, FailTrial, IInv, BatchOK, FailedVerdict
    <3>2. PICK v \in {"COMPLETED", "TIMEOUT", "FAILED"} :
              trial' = [trial EXCEPT ![Head(tasks).key][Head(tasks).attempt] = v]
      BY <2>4 DEF CompleteTrial, FailTrial, FailedVerdict
    <3>3. ASSUME NEW k \in Keys, NEW a \in Attempts
          PROVE  trial'[k][a] = IF k = Head(tasks).key /\ a = Head(tasks).attempt
                                THEN v ELSE trial[k][a]
      BY <1>1, <3>2 DEF IInv, TypeOK
    <3> QED BY <3>1, <3>3 DEF TaskOK
  <2> QED
    BY <1>1, <2>1, <2>2, <2>3, <2>4
    DEF Next, EngineStep, Terminated, vars, CreateSearch, BeginSearch, ResumeSearch,
        StopOnBudget, StopOnTime, Propose, NothingToPropose, AcceptDuplicate,
        AcceptInsert, AcceptReject, AcceptValidate, AcceptEnqueue, AcceptDone,
        ClaimNextQueued, ClaimedNothing, RunBatch, MarkCompleted, IncrementRetry,
        Requeue, MarkFailed, Observe, BatchDone, SaveCheckpoint, PruneCheckpoints,
        CloseSearch, Abort, Crash, LatestCheckpoint, FindCandidate, AddCandidate, Answered
<1> QED BY <1>1, Invariance, PTL DEF Spec, TrialWrittenOnce

-----------------------------------------------------------------------------
(***************************************************************************)
(* SearchEngine implements TrialLedger: every step of the engine is a step *)
(* of the ledger or leaves it unchanged, under the mapping of SearchEngine *)
(* (the trial rows are the ledger, the candidate's status the verdict).    *)
(* The inductive invariant says why the engine's blind writes are always   *)
(* writes the ledger allows.                                               *)
(***************************************************************************)

\* The two sides of the mapping, named.
Entries == [k \in Keys |-> [a \in Attempts |-> LedgerEntry(trial[k][a])]]
Verdicts == [k \in Keys |-> Verdict(status[k])]

\* The ledger's entries tell the trial states apart as far as it needs.
LEMMA EntryOf ==
    ASSUME NEW s
    PROVE  /\ LedgerEntry(s) = "none" <=> s = Absent
           /\ LedgerEntry(s) = "live" <=> s = "RUNNING"
           /\ LedgerEntry(s) = "ok" <=> s = "COMPLETED"
BY DEF LedgerEntry, Absent

\* A candidate is open until its status is final.
LEMMA VerdictOf ==
    ASSUME NEW s
    PROVE  /\ Verdict(s) = "done" <=> s = "COMPLETED"
           /\ Verdict(s) = "dropped" <=> s \in {"FAILED", "PRUNED", "CANCELLED"}
           /\ Verdict(s) = "open" <=> s \notin TerminalStates
BY DEF Verdict, TerminalStates

\* A step that changes no trial row and no verdict is invisible in the ledger.
LEMMA Invisible ==
    ASSUME UNCHANGED trial, \A k \in Keys : Verdict(status'[k]) = Verdict(status[k])
    PROVE  UNCHANGED Ledger!vars
BY DEF Ledger!vars

\* A step that writes one trial row closes that attempt.
LEMMA Closes ==
    ASSUME TypeOK, NEW k \in Keys, NEW a \in Attempts, NEW r \in TrialState \ {"RUNNING"},
           trial[k][a] = "RUNNING", trial' = [trial EXCEPT ![k][a] = r], UNCHANGED status
    PROVE  Ledger!Next
<1>1. Entries[k][a] = "live" BY EntryOf DEF Entries
<1>2. LedgerEntry(r) \in {"ok", "bad"} BY DEF LedgerEntry, TrialState, Absent
<1>3. Entries' = [Entries EXCEPT ![k][a] = LedgerEntry(r)] BY DEF Entries, TypeOK
<1>4. Verdicts' = Verdicts BY DEF Verdicts
<1>5. Ledger!Close(k, a, LedgerEntry(r))
  BY <1>1, <1>3, <1>4 DEF Ledger!Close, Entries, Verdicts
<1> QED BY <1>2, <1>5 DEF Ledger!Next, Ledger!Attempts, Attempts

\* A step that gives a candidate up, while none of its trials runs, drops it.
LEMMA Drops ==
    ASSUME TypeOK, NEW k \in Keys, NEW s \in {"FAILED", "PRUNED"},
           status[k] \notin TerminalStates, \A a \in Attempts : trial[k][a] # "RUNNING",
           status' = [status EXCEPT ![k] = s], UNCHANGED trial
    PROVE  Ledger!Next
<1>1. Verdicts[k] = "open" BY VerdictOf DEF Verdicts
<1>2. \A a \in Attempts : Entries[k][a] # "live" BY EntryOf DEF Entries
<1>3. Verdicts' = [Verdicts EXCEPT ![k] = "dropped"] BY VerdictOf DEF Verdicts, TypeOK
<1>4. Entries' = Entries BY DEF Entries
<1>5. Ledger!Drop(k)
  BY <1>1, <1>2, <1>3, <1>4
  DEF Ledger!Drop, Ledger!Idle, Ledger!Attempts, Attempts, Entries, Verdicts
<1> QED BY <1>5 DEF Ledger!Next

LEMMA LedgerStep ==
    ASSUME IInv, [Next]_vars
    PROVE  [Ledger!Next]_(Ledger!vars)
<1> USE DEF IInv, durable, memory
<1>1. CASE UNCHANGED <<status, trial>>
  BY <1>1, Invisible
<1>2. CASE \/ AcceptInsert \/ AcceptValidate \/ AcceptEnqueue \/ ClaimNextQueued
           \/ Requeue
  <2>1. UNCHANGED trial
    BY <1>2 DEF AcceptInsert, AcceptValidate, AcceptEnqueue, ClaimNextQueued, Requeue, FindCandidate, AddCandidate
  <2>2. ASSUME NEW h, NEW s, s \notin TerminalStates, status[h] \notin TerminalStates,
               status' = [status EXCEPT ![h] = s]
        PROVE  \A k \in Keys : Verdict(status'[k]) = Verdict(status[k])
    BY <2>2, VerdictOf DEF TypeOK
  <2>3. ASSUME NEW h, NEW s, s \notin TerminalStates, Transition(h, s)
        PROVE  \A k \in Keys : Verdict(status'[k]) = Verdict(status[k])
    <3>1. status[h] \notin TerminalStates
      BY <2>3 DEF Transition, CanTransition, AllowedTransitions, CandidateState, TerminalStates
    <3> QED BY <2>2, <2>3, <3>1 DEF Transition
  <2>4. {"PROPOSED", "VALIDATED", "QUEUED", "RUNNING", Absent} \cap TerminalStates = {}
    BY DEF TerminalStates, Absent
  <2>5. CASE AcceptInsert
    <3>1. status[Head(todo)] = Absent /\ status' = [status EXCEPT ![Head(todo)] = "PROPOSED"]
      BY <2>5 DEF AcceptInsert, FindCandidate, AddCandidate
    <3> QED BY <2>1, <2>2, <2>4, <3>1, Invisible
  <2>6. CASE AcceptValidate
    <3>1. PICK h : Transition(h, "VALIDATED") BY <2>6 DEF AcceptValidate
    <3> QED BY <2>1, <2>3, <2>4, <3>1, Invisible
  <2>7. CASE AcceptEnqueue
    <3>1. PICK h : Transition(h, "QUEUED") BY <2>7 DEF AcceptEnqueue
    <3> QED BY <2>1, <2>3, <2>4, <3>1, Invisible
  <2>8. CASE ClaimNextQueued
    <3>1. PICK h : Transition(h, "RUNNING") BY <2>8 DEF ClaimNextQueued
    <3> QED BY <2>1, <2>3, <2>4, <3>1, Invisible
  <2>9. CASE Requeue
    <3>1. PICK h : Transition(h, "QUEUED") BY <2>9 DEF Requeue
    <3> QED BY <2>1, <2>3, <2>4, <3>1, Invisible
  <2> QED BY <1>2, <2>5, <2>6, <2>7, <2>8, <2>9
<1>3. CASE AcceptReject
  <2>1. PICK s \in {"FAILED", "PRUNED"} : status' = [status EXCEPT ![Head(todo)] = s]
    BY <1>3 DEF AcceptReject, Transition
  <2>2. Head(todo) \in Keys /\ status[Head(todo)] = "PROPOSED"
    BY <1>3 DEF AcceptReject, TodoOK, TypeOK
  <2>3. \A a \in Attempts : trial[Head(todo)][a] # "RUNNING"
    BY <2>2 DEF RowsOK, RowOK
  <2>4. UNCHANGED trial BY <1>3 DEF AcceptReject
  <2> QED BY <2>1, <2>2, <2>3, <2>4, Drops DEF TerminalStates
<1>4. CASE StartTrial
  <2> DEFINE t == tasks[Len(tasks)]
  <2>1. t \in Tasks BY <1>4 DEF StartTrial, BatchOK, TypeOK
  <2>2. /\ t.key \in Keys /\ t.attempt \in Attempts
        /\ status[t.key] = "RUNNING" /\ t.attempt = retries[t.key]
        /\ trial[t.key][t.attempt] = Absent
        /\ trial' = [trial EXCEPT ![t.key][t.attempt] = "RUNNING"]
        /\ UNCHANGED status
    BY <1>4, <2>1 DEF StartTrial, BatchOK, Tasks
  <2> HIDE DEF t
  <2>3. \A b \in Attempts :
            /\ trial[t.key][b] # "RUNNING"
            /\ b >= t.attempt => trial[t.key][b] = Absent
    BY <2>2 DEF RowsOK, RowOK, Attempts, Absent
  <2>4. Verdicts[t.key] = "open" BY <2>2, VerdictOf DEF Verdicts, TerminalStates
  <2>5. \A b \in Attempts :
            /\ Entries[t.key][b] # "live"
            /\ b >= t.attempt => Entries[t.key][b] = "none"
    BY <2>2, <2>3, EntryOf DEF Entries
  <2>6. Entries' = [Entries EXCEPT ![t.key][t.attempt] = "live"]
    BY <2>2, EntryOf DEF Entries, TypeOK
  <2>7. Verdicts' = Verdicts BY <2>2 DEF Verdicts
  <2>8. Ledger!Open(t.key, t.attempt)
    BY <2>4, <2>5, <2>6, <2>7
    DEF Ledger!Open, Ledger!Idle, Ledger!Attempts, Attempts, Entries, Verdicts
  <2> QED BY <2>2, <2>8 DEF Ledger!Next, Ledger!Attempts, Attempts
<1>5. CASE CompleteTrial \/ FailTrial
  <2> DEFINE t == Head(tasks)
  <2>1. TaskOK(t) /\ t.key \in Keys /\ t.attempt \in Attempts
    BY <1>5, HeadTyped DEF CompleteTrial, FailTrial, BatchOK, FailedVerdict
  <2>2. PICK r \in {"COMPLETED", "TIMEOUT", "FAILED"} :
            trial' = [trial EXCEPT ![t.key][t.attempt] = r]
    BY <1>5 DEF CompleteTrial, FailTrial, FailedVerdict
  <2>3. UNCHANGED status BY <1>5 DEF CompleteTrial, FailTrial, FailedVerdict
  <2> QED BY <2>1, <2>2, <2>3, Closes DEF TaskOK, TrialState
<1>6. CASE MarkCompleted
  <2> DEFINE t == Head(tasks)
  <2>1. HeadOK(t) /\ t.key \in Keys /\ t.attempt \in Attempts
    BY <1>6, HeadTyped DEF MarkCompleted, BatchOK, ProcessingOne
  <2>2. /\ status[t.key] = "RUNNING" /\ t.attempt = retries[t.key]
        /\ trial[t.key][t.attempt] = "COMPLETED"
        /\ status' = [status EXCEPT ![t.key] = "COMPLETED"]
        /\ UNCHANGED trial
    BY <1>6, <2>1 DEF MarkCompleted, Transition, HeadOK
  <2> HIDE DEF t
  <2>3. \A b \in Attempts : b > t.attempt => trial[t.key][b] = Absent
    BY <2>1, <2>2 DEF RowsOK, RowOK, Attempts
  <2>4. Verdicts[t.key] = "open" BY <2>1, <2>2, VerdictOf DEF Verdicts, TerminalStates
  <2>5. /\ Entries[t.key][t.attempt] = "ok"
        /\ \A b \in Attempts : b > t.attempt => Entries[t.key][b] = "none"
    BY <2>1, <2>2, <2>3, EntryOf DEF Entries
  <2>6. Verdicts' = [Verdicts EXCEPT ![t.key] = "done"]
    <3>1. Verdict("COMPLETED") = "done" BY DEF Verdict
    <3>2. \A k \in Keys : status'[k] = IF k = t.key THEN "COMPLETED" ELSE status[k]
      BY <2>2 DEF TypeOK
    <3> QED BY <2>1, <3>1, <3>2 DEF Verdicts
  <2>7. Entries' = Entries BY <2>2 DEF Entries
  <2>8. Ledger!Done(t.key)
    BY <2>1, <2>4, <2>5, <2>6, <2>7
    DEF Ledger!Done, Ledger!Attempts, Attempts, Entries, Verdicts
  <2> QED BY <2>1, <2>8 DEF Ledger!Next
<1>7. CASE MarkFailed
  <2>1. HeadOK(Head(tasks)) /\ Head(tasks).key \in Keys
    BY <1>7, HeadTyped DEF MarkFailed, BatchOK, ProcessingOne
  <2>2. /\ status[Head(tasks).key] = "RUNNING"
        /\ \A a \in Attempts : trial[Head(tasks).key][a] # "RUNNING"
        /\ status' = [status EXCEPT ![Head(tasks).key] = "FAILED"]
        /\ UNCHANGED trial
    BY <1>7, <2>1 DEF MarkFailed, Transition, HeadOK
  <2> QED BY <2>1, <2>2, Drops DEF TerminalStates
<1>8. CASE RecoverInterrupted
  <2> DEFINE S == {k \in Keys : status[k] = "RUNNING" /\ ~(retries[k] < MaxRetries)}
  <2>1. Entries' = [k \in Keys |-> [a \in Attempts |->
                       IF Entries[k][a] = "live" THEN "bad" ELSE Entries[k][a]]]
    <3>1. ASSUME NEW k \in Keys, NEW a \in Attempts
          PROVE  LedgerEntry(trial'[k][a]) =
                     IF LedgerEntry(trial[k][a]) = "live" THEN "bad" ELSE LedgerEntry(trial[k][a])
      <4>1. trial'[k][a] = IF trial[k][a] = "RUNNING" THEN "INTERRUPTED" ELSE trial[k][a]
        BY <1>8 DEF RecoverInterrupted, RecoveredTrial, RowsOK, RowOK
      <4>2. LedgerEntry("INTERRUPTED") = "bad" BY DEF LedgerEntry, Absent
      <4> QED BY <4>1, <4>2, EntryOf
    <3> QED BY <3>1 DEF Entries
  <2>2. Verdicts' = [k \in Keys |-> IF k \in S THEN "dropped" ELSE Verdicts[k]]
    <3>1. ASSUME NEW k \in Keys
          PROVE  Verdict(status'[k]) = IF k \in S THEN "dropped" ELSE Verdict(status[k])
      <4>1. status'[k] = RecoveredStatus(k) BY <1>8 DEF RecoverInterrupted
      <4> QED BY <4>1 DEF RecoveredStatus, Verdict
    <3> QED BY <3>1 DEF Verdicts
  <2>3. S \in SUBSET {k \in Keys : Verdicts[k] = "open"}
    BY VerdictOf DEF Verdicts, TerminalStates
  <2> HIDE DEF S
  <2>4. Ledger!Sweep
    BY <2>1, <2>2, <2>3 DEF Ledger!Sweep, Ledger!Attempts, Attempts, Entries, Verdicts
  <2> QED BY <2>4 DEF Ledger!Next
<1> QED
  BY <1>1, <1>2, <1>3, <1>4, <1>5, <1>6, <1>7, <1>8
  DEF Next, EngineStep, Terminated, vars, CreateSearch, BeginSearch, ResumeSearch,
      StopOnBudget, StopOnTime, Propose, NothingToPropose, AcceptDuplicate, AcceptDone,
      ClaimedNothing, RunBatch, IncrementRetry, Observe, BatchDone, SaveCheckpoint,
      PruneCheckpoints, CloseSearch, Abort, Crash, LatestCheckpoint, FindCandidate, Answered

\* The database the engine writes, read through its trial rows and candidate
\* statuses, behaves like the ledger: numbered attempts, at most one live, each
\* closed once, and "done" only after a measured last attempt, through crashes,
\* interrupts and recoveries.
THEOREM EngineKeepsLedger == Spec => KeepsLedger
<1>1. Init => Ledger!Init
  BY EntryOf, VerdictOf DEF Init, Ledger!Init, Ledger!Attempts, Attempts, TerminalStates, Absent
<1>2. IInv /\ [Next]_vars => [Ledger!Next]_(Ledger!vars) BY LedgerStep
<1> QED BY <1>1, <1>2, Invariance, PTL DEF Spec, KeepsLedger, Ledger!Spec

-----------------------------------------------------------------------------
(***************************************************************************)
(* The engine's accounts: the completion counter, the strategy's knowledge *)
(* and the checkpoints, against the rows, for every budget and in-flight   *)
(* limit and any number of retries, aborts, crashes and resumes.           *)
(*                                                                         *)
(* EngineState.completed and the strategy live in memory, the rows in the  *)
(* database, and one transaction separates mark_completed from the line    *)
(* that counts it.  CountOK says by how much the two may differ at each    *)
(* program point, RoomOK what is left of the budget, ToldOK what the       *)
(* strategy knows.  They are inductive relative to IInv and to each other. *)
(***************************************************************************)
Finished == Cardinality(InState("COMPLETED"))

\* The candidate of the task in hand.
Hand == Head(tasks).key

\* The counter lags behind the rows by the completion in hand, and for good
\* only once an abort or a crash fell between the row and the count.
CountOK ==
    /\ completed <= Finished
    /\ pc \in {"down", "created", "recovered"} => completed = 0 /\ strat = FreshStrategy
    /\ InLoop /\ pc # "observe" => completed = Finished
    /\ pc = "observe" => completed + CompletionOf(Hand) = Finished
    /\ reason = "BUDGET_EXHAUSTED" => completed >= MaxEvaluations

\* What the rest of the batch may still add to the completions.
RoomOK ==
    /\ Finished <= MaxEvaluations + InFlight - 1
    /\ Len(tasks) <= InFlight
    /\ pc \in {"accept", "check", "enqueue", "claim", "start"} => Finished < MaxEvaluations
    /\ pc \in {"result", "complete", "retry", "requeue", "fail"} =>
          Finished + Len(tasks) <= MaxEvaluations + InFlight - 1
    /\ pc = "observe" => Finished + Len(tasks) <= MaxEvaluations + InFlight

\* The strategy knows outcomes of the database, and before the first resume
\* every one but that of the task in hand.
ToldOK ==
    /\ strat.told \subseteq Settled
    /\ pc = "fail" => trial[Hand][Head(tasks).attempt] # Absent
    /\ pc = "observe" => Hand \in Settled \ strat.told
    /\ pc = "recovered" => resumes > 0
    /\ InLoop /\ resumes = 0 =>
          Settled = strat.told \cup (IF pc = "observe" THEN {Hand} ELSE {})

AccountsOK == CountOK /\ RoomOK /\ ToldOK /\ CheckpointNeverAhead

-----------------------------------------------------------------------------
(***************************************************************************)
(* Which steps complete a candidate, and which settle one.                 *)
(***************************************************************************)
\* Nothing leaves COMPLETED, and only mark_completed enters it.
LEMMA DoneKept ==
    ASSUME IInv, [Next]_vars, ~MarkCompleted
    PROVE  Finished' = Finished
<1> USE DEF durable, memory
<1>1. TypeOK BY DEF IInv
<1>2. CASE UNCHANGED status BY <1>2 DEF Finished, InState
<1>3. ASSUME NEW h \in Keys, NEW target, target # "COMPLETED", Transition(h, target)
      PROVE  Finished' = Finished
  <2>1. status[h] # "COMPLETED"
    BY <1>3 DEF Transition, CanTransition, AllowedTransitions
  <2>2. InState("COMPLETED")' = InState("COMPLETED")
    BY <1>1, <1>3, <2>1 DEF Transition, InState, TypeOK
  <2> QED BY <2>2 DEF Finished
<1>4. CASE AcceptInsert
  <2>1. InState("COMPLETED")' = InState("COMPLETED")
    BY <1>1, <1>4 DEF AcceptInsert, AddCandidate, InState, TypeOK, Absent
  <2> QED BY <2>1 DEF Finished
<1>5. CASE RecoverInterrupted
  <2>1. InState("COMPLETED")' = InState("COMPLETED")
    BY <1>1, <1>5 DEF RecoverInterrupted, RecoveredStatus, InState, TypeOK
  <2> QED BY <2>1 DEF Finished
<1>6. CASE AcceptReject \/ AcceptValidate \/ AcceptEnqueue
  <2>1. Head(todo) \in Keys
    BY <1>1, <1>6 DEF IInv, TodoOK, TypeOK, AcceptReject, AcceptValidate, AcceptEnqueue
  <2> QED BY <1>3, <1>6, <2>1 DEF AcceptReject, AcceptValidate, AcceptEnqueue
<1>7. CASE ClaimNextQueued BY <1>3, <1>7 DEF ClaimNextQueued
<1>8. CASE Requeue \/ MarkFailed
  <2>1. tasks # <<>> BY <1>8 DEF IInv, BatchOK, ProcessingOne, Requeue, MarkFailed
  <2>2. Head(tasks).key \in Keys BY <1>1, <2>1, HeadTyped
  <2> QED BY <1>3, <1>8, <2>2 DEF Requeue, MarkFailed
<1> QED
  BY <1>2, <1>4, <1>5, <1>6, <1>7, <1>8
  DEF Next, EngineStep, Terminated, vars, CreateSearch, BeginSearch, ResumeSearch,
      StopOnBudget, StopOnTime, Propose, NothingToPropose, AcceptDuplicate,
      AcceptDone, StartTrial, ClaimedNothing, RunBatch, CompleteTrial, FailTrial,
      IncrementRetry, Observe, BatchDone, SaveCheckpoint, PruneCheckpoints,
      CloseSearch, Abort, Crash

\* mark_completed adds one.
LEMMA DoneMore ==
    ASSUME IInv, MarkCompleted
    PROVE  /\ Finished' = Finished + 1
           /\ tasks # <<>>
           /\ Hand \in Keys
           /\ status[Hand] = "RUNNING"
           /\ status' = [status EXCEPT ![Hand] = "COMPLETED"]
<1>1. TypeOK /\ tasks # <<>> /\ HeadOK(tasks[1])
  BY DEF IInv, BatchOK, ProcessingOne, MarkCompleted
<1>2. Hand \in Keys /\ status[Hand] = "RUNNING"
  BY <1>1, HeadTyped DEF Hand, HeadOK, MarkCompleted
<1>3. status' = [status EXCEPT ![Hand] = "COMPLETED"]
  BY DEF MarkCompleted, Transition, Hand
<1>4. InState("COMPLETED")' = InState("COMPLETED") \cup {Hand}
  BY <1>1, <1>2, <1>3 DEF InState, TypeOK
<1>5. Hand \notin InState("COMPLETED") BY <1>2 DEF InState
<1>6. IsFiniteSet(InState("COMPLETED")) BY EngineAssumption, FS_Subset DEF InState
<1>7. Finished' = Finished + 1 BY <1>4, <1>5, <1>6, FS_AddElement DEF Finished
<1> QED BY <1>1, <1>2, <1>3, <1>7

\* A candidate is settled by a verdict on its row and a trial that was started.
LEMMA SettledMeans ==
    ASSUME TypeOK, NEW k \in Keys
    PROVE  k \in Settled <=> status[k] \in {"COMPLETED", "FAILED"} /\ Evaluated(k)
BY DEF Settled, InState

\* A step that changes neither a verdict nor what a verdict rests on settles
\* nothing.
LEMMA SettledSame ==
    ASSUME \A k \in Keys :
               \/ status'[k] = status[k] /\ trial'[k] = trial[k]
               \/ /\ status[k] \notin {"COMPLETED", "FAILED"} \/ ~Evaluated(k)
                  /\ status'[k] \notin {"COMPLETED", "FAILED"} \/ ~Evaluated(k)'
    PROVE  Settled' = Settled
<1> SUFFICES ASSUME NEW k \in Keys PROVE k \in Settled' <=> k \in Settled
  BY DEF Settled, InState
<1> QED BY DEF Settled, InState, Evaluated

\* Only mark_completed, _mark_failed and the recovery sweep settle a candidate.
LEMMA SettledKept ==
    ASSUME IInv, [Next]_vars, ~MarkCompleted, ~MarkFailed, ~RecoverInterrupted
    PROVE  Settled' = Settled
<1> USE DEF durable, memory
<1>1. TypeOK /\ RowsOK BY DEF IInv
<1>2. CASE UNCHANGED <<status, trial>> BY <1>2, SettledSame
<1>3. ASSUME NEW h \in Keys, NEW target, target \notin {"COMPLETED", "FAILED"},
             Transition(h, target), UNCHANGED trial
      PROVE  Settled' = Settled
  <2>1. status[h] \notin {"COMPLETED", "FAILED"}
    BY <1>3 DEF Transition, CanTransition, AllowedTransitions
  <2> QED BY <1>1, <1>3, <2>1, SettledSame DEF Transition, TypeOK
<1>4. CASE AcceptInsert
  <2>1. /\ status[Head(todo)] = Absent /\ UNCHANGED trial
        /\ status' = [status EXCEPT ![Head(todo)] = "PROPOSED"]
    BY <1>4 DEF AcceptInsert, AddCandidate
  <2> QED BY <1>1, <2>1, SettledSame DEF TypeOK, Absent
<1>5. CASE AcceptReject
  <2> DEFINE h == Head(todo)
  <2>1. h \in Keys /\ status[h] = "PROPOSED"
    BY <1>1, <1>5 DEF IInv, TodoOK, TypeOK, AcceptReject
  <2>2. PICK v \in {"PRUNED", "FAILED"} : status' = [status EXCEPT ![h] = v]
    BY <1>5 DEF AcceptReject, Transition
  <2>3. UNCHANGED trial BY <1>5 DEF AcceptReject
  <2>4. \A k \in Keys : k = h => ~Evaluated(k) /\ ~Evaluated(k)'
    BY <1>1, <2>1, <2>3 DEF RowsOK, RowOK, Evaluated
  <2> HIDE DEF h
  <2> QED BY <1>1, <2>1, <2>2, <2>3, <2>4, SettledSame DEF TypeOK
<1>6. CASE AcceptValidate \/ AcceptEnqueue
  <2>1. Head(todo) \in Keys
    BY <1>1, <1>6 DEF IInv, TodoOK, TypeOK, AcceptValidate, AcceptEnqueue
  <2> QED BY <1>3, <1>6, <2>1 DEF AcceptValidate, AcceptEnqueue
<1>7. CASE ClaimNextQueued BY <1>3, <1>7 DEF ClaimNextQueued
<1>8. CASE Requeue
  <2>1. tasks # <<>> BY <1>8 DEF IInv, BatchOK, ProcessingOne, Requeue
  <2>2. Head(tasks).key \in Keys BY <1>1, <2>1, HeadTyped
  <2> QED BY <1>3, <1>8, <2>2 DEF Requeue
<1>9. ASSUME NEW t \in Tasks, NEW v, status[t.key] = "RUNNING", UNCHANGED status,
             trial' = [trial EXCEPT ![t.key][t.attempt] = v]
      PROVE  Settled' = Settled
  <2>1. t.key \in Keys BY <1>9 DEF Tasks
  <2> QED BY <1>1, <1>9, <2>1, SettledSame DEF TypeOK
<1>10. CASE StartTrial
  <2> DEFINE t == tasks[Len(tasks)]
  <2>1. t \in Tasks /\ status[t.key] = "RUNNING"
    BY <1>1, <1>10 DEF IInv, BatchOK, StartTrial, TypeOK
  <2>2. UNCHANGED status /\ trial' = [trial EXCEPT ![t.key][t.attempt] = "RUNNING"]
    BY <1>10 DEF StartTrial
  <2> HIDE DEF t
  <2> QED BY <1>9, <2>1, <2>2
<1>11. CASE CompleteTrial \/ FailTrial
  <2> DEFINE t == Head(tasks)
  <2>1. t \in Tasks /\ TaskOK(t)
    BY <1>1, <1>11, HeadTyped DEF IInv, BatchOK, CompleteTrial, FailTrial
  <2>2. PICK v \in {"COMPLETED", "TIMEOUT", "FAILED"} :
            UNCHANGED status /\ trial' = [trial EXCEPT ![t.key][t.attempt] = v]
    BY <1>11 DEF CompleteTrial, FailTrial, FailedVerdict
  <2> HIDE DEF t
  <2> QED BY <1>9, <2>1, <2>2 DEF TaskOK
<1> QED
  BY <1>2, <1>4, <1>5, <1>6, <1>7, <1>8, <1>10, <1>11
  DEF Next, EngineStep, Terminated, vars, CreateSearch, BeginSearch, ResumeSearch,
      StopOnBudget, StopOnTime, Propose, NothingToPropose, AcceptDuplicate,
      AcceptDone, ClaimedNothing, RunBatch, IncrementRetry, Observe, BatchDone,
      SaveCheckpoint, PruneCheckpoints, CloseSearch, Abort, Crash

\* The task in hand is settled, and was not before.
LEMMA SettledMore ==
    ASSUME IInv, ToldOK, MarkCompleted \/ MarkFailed
    PROVE  /\ Settled' = Settled \cup {Hand}
           /\ Hand \in Keys \ Settled
           /\ tasks # <<>> /\ tasks' = tasks /\ strat' = strat
<1>1. TypeOK /\ tasks # <<>> /\ HeadOK(tasks[1]) /\ pc \in {"complete", "fail"}
  BY DEF IInv, BatchOK, ProcessingOne, MarkCompleted, MarkFailed
<1>2. Hand \in Keys /\ status[Hand] = "RUNNING" /\ Head(tasks).attempt \in Attempts
  BY <1>1, HeadTyped DEF Hand, HeadOK
<1>3. PICK v \in {"COMPLETED", "FAILED"} : status' = [status EXCEPT ![Hand] = v]
  BY DEF MarkCompleted, MarkFailed, Transition, Hand
<1>4. UNCHANGED <<trial, tasks, strat>>
  BY DEF MarkCompleted, MarkFailed, memory
<1>5. trial[Hand][Head(tasks).attempt] # Absent
  BY <1>1, HeadTyped DEF ToldOK, Hand, HeadOK, Absent, MarkCompleted, MarkFailed
<1>6. Evaluated(Hand) BY <1>2, <1>5 DEF Evaluated
<1>7. Hand \notin Settled BY <1>1, <1>2, SettledMeans
<1>8. ASSUME NEW k \in Keys
      PROVE  k \in Settled' <=> k \in Settled \/ k = Hand
  <2>1. Evaluated(k)' <=> Evaluated(k) BY <1>4 DEF Evaluated
  <2>2. status'[k] = IF k = Hand THEN v ELSE status[k] BY <1>1, <1>2, <1>3 DEF TypeOK
  <2> QED BY <1>2, <1>6, <2>1, <2>2 DEF Settled, InState
<1>9. Settled' \subseteq Keys /\ Settled \subseteq Keys BY DEF Settled, InState
<1> QED BY <1>1, <1>2, <1>4, <1>7, <1>8, <1>9

\* The recovery sweep keeps every verdict.
LEMMA SettledRecovered ==
    ASSUME IInv, RecoverInterrupted
    PROVE  Settled \subseteq Settled'
<1> SUFFICES ASSUME NEW k \in Settled PROVE k \in Settled'
  OBVIOUS
<1>1. TypeOK /\ k \in Keys BY DEF IInv, Settled, InState
<1>2. status[k] \in {"COMPLETED", "FAILED"} /\ Evaluated(k) BY <1>1, SettledMeans
<1>3. status'[k] = status[k] /\ \A a \in Attempts : trial'[k][a] = trial[k][a]
  BY <1>1, <1>2 DEF RecoverInterrupted, RecoveredStatus, RecoveredTrial
<1> QED BY <1>1, <1>2, <1>3 DEF Settled, InState, Evaluated

\* What has been settled stays settled.
LEMMA SettledGrows ==
    ASSUME IInv, ToldOK, [Next]_vars
    PROVE  Settled \subseteq Settled'
BY SettledKept, SettledMore, SettledRecovered

-----------------------------------------------------------------------------
(***************************************************************************)
(* The counter agrees with the rows.                                       *)
(***************************************************************************)
LEMMA FinishedTyped == Finished \in Nat
BY InStateCount DEF Finished

LEMMA DoneGrows ==
    ASSUME IInv, [Next]_vars
    PROVE  Finished <= Finished' /\ Finished' \in Nat
BY DoneKept, DoneMore, FinishedTyped

LEMMA CountStep ==
    ASSUME IInv, CountOK, [Next]_vars
    PROVE  CountOK'
<1> USE EngineAssumption, FinishedTyped DEF IInv, durable, memory
<1>1. completed \in Nat /\ completed' \in Nat
  BY TypeStep DEF TypeOK
<1>2. CASE UNCHANGED vars
  BY <1>2 DEF vars, CountOK, InLoop, CompletionOf, Hand, Finished, InState
<1>3. CASE CreateSearch
  BY <1>3, DoneKept DEF CreateSearch, MarkCompleted, CountOK, InLoop
<1>4. CASE BeginSearch
  <2>1. InState("COMPLETED") = {} BY <1>4 DEF BeginSearch, StrayOK, InState, Absent
  <2>2. Finished = 0 BY <2>1, FS_EmptySet DEF Finished
  <2> QED BY <1>4, <2>2, DoneKept DEF BeginSearch, MarkCompleted, CountOK, InLoop, StrayOK
<1>5. CASE RecoverInterrupted \/ Crash
  BY <1>5, DoneGrows
  DEF RecoverInterrupted, Crash, FreshMemory, CountOK, InLoop
<1>6. CASE ResumeSearch
  BY <1>6, DoneKept
  DEF ResumeSearch, MarkCompleted, Reconciled, Finished, CountOK, InLoop, StrayOK
<1>7. CASE StopOnBudget \/ StopOnTime \/ ClaimedNothing \/ Abort
  <2>1. Finished' = Finished /\ completed' = completed
    BY <1>7, DoneKept
    DEF StopOnBudget, StopOnTime, ClaimedNothing, Abort, MarkCompleted, InLoop, Finished, InState
  <2>2. InLoop /\ pc' \in {"save", "loop"}
    BY <1>7 DEF StopOnBudget, StopOnTime, ClaimedNothing, Abort, Stop, InLoop, StrayOK
  <2>3. reason' = "BUDGET_EXHAUSTED" => completed >= MaxEvaluations
    BY <1>7, <2>2
    DEF StopOnBudget, StopOnTime, ClaimedNothing, Abort, Stop, BudgetSpent, InLoop
  <2>4. pc' = "loop" => pc = "claim" BY <1>7
    DEF StopOnBudget, StopOnTime, ClaimedNothing, Abort, Stop
  <2>5. reason' = "NONE" => pc = "claim"
    BY <1>7 DEF StopOnBudget, StopOnTime, ClaimedNothing, Abort, Stop
  <2> QED BY <1>1, <2>1, <2>2, <2>3, <2>4, <2>5 DEF CountOK, InLoop
<1>8. CASE \/ Propose \/ NothingToPropose \/ AcceptDuplicate \/ AcceptInsert
           \/ AcceptReject \/ AcceptValidate \/ AcceptEnqueue \/ AcceptDone
           \/ ClaimNextQueued \/ StartTrial \/ RunBatch \/ CompleteTrial
           \/ FailTrial \/ IncrementRetry \/ Requeue \/ BatchDone
  <2>1. /\ completed' = completed /\ reason' = reason
        /\ pc' \in {"accept", "check", "enqueue", "claim", "start", "result",
                    "complete", "retry", "requeue", "fail", "save", "loop"}
        /\ InLoop /\ pc # "observe" /\ ~MarkCompleted
    BY <1>8 DEF Propose, NothingToPropose, AcceptDuplicate, AcceptInsert, AcceptReject,
       AcceptValidate, AcceptEnqueue, AcceptDone, ClaimNextQueued, StartTrial, RunBatch,
       CompleteTrial, FailTrial, IncrementRetry, Requeue, BatchDone, MarkCompleted,
       InLoop, StrayOK
  <2> QED BY <1>1, <2>1, DoneKept DEF CountOK, InLoop
<1>9. CASE MarkCompleted
  <2>1. /\ pc = "complete" /\ pc' = "observe" /\ InLoop
        /\ completed' = completed /\ reason' = reason /\ tasks' = tasks
    BY <1>9 DEF MarkCompleted, InLoop, StrayOK
  <2>2. /\ Finished' = Finished + 1 /\ Hand \in Keys
        /\ status' = [status EXCEPT ![Hand] = "COMPLETED"]
    BY <1>9, DoneMore
  <2>3. CompletionOf(Hand)' = 1 BY <2>1, <2>2 DEF CompletionOf, Hand, TypeOK
  <2> QED BY <1>1, <2>1, <2>2, <2>3 DEF CountOK, InLoop
<1>10. CASE MarkFailed
  <2>1. /\ pc = "fail" /\ pc' = "observe" /\ InLoop /\ tasks # <<>>
        /\ completed' = completed /\ reason' = reason /\ tasks' = tasks
        /\ status' = [status EXCEPT ![Hand] = "FAILED"]
    BY <1>10 DEF MarkFailed, Transition, Hand, InLoop, StrayOK, BatchOK, ProcessingOne
  <2>2. Hand \in Keys BY <2>1, HeadTyped DEF Hand
  <2>3. CompletionOf(Hand)' = 0 BY <2>1, <2>2 DEF CompletionOf, Hand, TypeOK
  <2>4. Finished' = Finished BY <2>1, DoneKept DEF MarkCompleted
  <2> QED BY <1>1, <2>1, <2>3, <2>4 DEF CountOK, InLoop
<1>11. CASE Observe
  <2>1. /\ pc = "observe" /\ pc' = "result" /\ reason' = reason
        /\ completed' = completed + CompletionOf(Hand)
    BY <1>11 DEF Observe, Hand
  <2>2. Finished' = Finished BY <2>1, DoneKept DEF MarkCompleted
  <2>3. reason = "NONE" BY <2>1 DEF StrayOK
  <2> QED BY <1>1, <2>1, <2>2, <2>3 DEF CountOK, InLoop
<1>12. CASE SaveCheckpoint \/ PruneCheckpoints \/ CloseSearch
  <2>1. /\ completed' = completed /\ reason' = reason
        /\ pc \in {"save", "prune", "close"} /\ pc' \in {"prune", "close", "loop", "stopped"}
        /\ pc' = "loop" => reason = "NONE"
        /\ pc = "close" => pc' = "stopped"
    BY <1>12 DEF SaveCheckpoint, PruneCheckpoints, CloseSearch
  <2>2. Finished' = Finished BY <2>1, DoneKept DEF MarkCompleted
  <2> QED BY <1>1, <2>1, <2>2 DEF CountOK, InLoop
<1> QED
  BY <1>2, <1>3, <1>4, <1>5, <1>6, <1>7, <1>8, <1>9, <1>10, <1>11, <1>12
  DEF Next, EngineStep, Terminated

-----------------------------------------------------------------------------
(***************************************************************************)
(* The batch fits in what is left of the budget.                           *)
(***************************************************************************)
LEMMA RoomStep ==
    ASSUME IInv, CountOK, RoomOK, [Next]_vars
    PROVE  RoomOK'
<1> USE EngineAssumption, FinishedTyped DEF IInv, durable, memory
<1>1. Len(tasks) \in Nat /\ completed \in Nat
  BY DEF TypeOK
<1>2. CASE UNCHANGED vars BY <1>2 DEF vars, RoomOK, Finished, InState
<1>3. CASE Propose \/ NothingToPropose
  <2>1. /\ pc = "loop" /\ pc' \in {"accept", "claim"} /\ tasks' = tasks
        /\ ~BudgetSpent
    BY <1>3 DEF Propose, NothingToPropose
  <2>2. completed < MaxEvaluations BY <1>1, <2>1 DEF BudgetSpent
  <2>3. completed = Finished BY <2>1 DEF CountOK, InLoop, StrayOK
  <2>4. Finished' = Finished BY <2>1, DoneKept DEF MarkCompleted
  <2> QED BY <1>1, <2>1, <2>2, <2>3, <2>4 DEF RoomOK
<1>4. CASE \/ CreateSearch \/ BeginSearch \/ RecoverInterrupted \/ ResumeSearch
           \/ StopOnBudget \/ StopOnTime \/ ClaimedNothing \/ BatchDone
           \/ SaveCheckpoint \/ PruneCheckpoints \/ CloseSearch \/ Abort \/ Crash
  <2>1. tasks' = tasks \/ tasks' = <<>>
    BY <1>4 DEF CreateSearch, BeginSearch, RecoverInterrupted, ResumeSearch,
       StopOnBudget, StopOnTime, ClaimedNothing, BatchDone, SaveCheckpoint,
       PruneCheckpoints, CloseSearch, Abort, Crash, FreshMemory
  <2>2. pc' \in {"down", "created", "recovered", "loop", "save", "prune", "close", "stopped"}
    BY <1>4 DEF CreateSearch, BeginSearch, RecoverInterrupted, ResumeSearch,
       StopOnBudget, StopOnTime, ClaimedNothing, BatchDone, SaveCheckpoint,
       PruneCheckpoints, CloseSearch, Abort, Crash, Stop
  <2>3. ~MarkCompleted
    BY <1>4, <2>2 DEF MarkCompleted
  <2>4. Finished' = Finished BY <2>3, DoneKept
  <2>5. Len(<<>>) = 0 OBVIOUS
  <2> QED BY <1>1, <2>1, <2>2, <2>4, <2>5 DEF RoomOK
<1>5. CASE \/ AcceptDuplicate \/ AcceptInsert \/ AcceptReject \/ AcceptValidate
           \/ AcceptEnqueue \/ AcceptDone \/ StartTrial
  <2>1. /\ pc \in {"accept", "check", "enqueue", "start"}
        /\ pc' \in {"accept", "check", "enqueue", "claim"}
        /\ tasks' = tasks
    BY <1>5 DEF AcceptDuplicate, AcceptInsert, AcceptReject, AcceptValidate,
       AcceptEnqueue, AcceptDone, StartTrial
  <2>2. Finished' = Finished BY <2>1, DoneKept DEF MarkCompleted
  <2> QED BY <1>1, <2>1, <2>2 DEF RoomOK
<1>6. CASE ClaimNextQueued
  <2>1. /\ pc = "claim" /\ pc' = "start" /\ Len(tasks) < InFlight
        /\ \E t : tasks' = Append(tasks, t)
    BY <1>6 DEF ClaimNextQueued
  <2>2. Len(tasks') = Len(tasks) + 1 BY <2>1 DEF TypeOK
  <2>3. Finished' = Finished BY <2>1, DoneKept DEF MarkCompleted
  <2> QED BY <1>1, <2>1, <2>2, <2>3 DEF RoomOK
<1>7. CASE RunBatch
  <2>1. /\ pc = "claim" /\ pc' = "result"
        /\ \E out : tasks' = Answered(out)
    BY <1>7 DEF RunBatch
  <2>2. Len(tasks') = Len(tasks) BY <1>1, <2>1 DEF Answered
  <2>3. Finished' = Finished BY <2>1, DoneKept DEF MarkCompleted
  <2> QED BY <1>1, <2>1, <2>2, <2>3 DEF RoomOK
<1>8. CASE CompleteTrial \/ FailTrial \/ IncrementRetry
  <2>1. /\ pc \in {"result", "retry"} /\ pc' \in {"complete", "retry", "requeue", "fail"}
        /\ tasks' = tasks
    BY <1>8 DEF CompleteTrial, FailTrial, IncrementRetry
  <2>2. Finished' = Finished BY <2>1, DoneKept DEF MarkCompleted
  <2> QED BY <1>1, <2>1, <2>2 DEF RoomOK
<1>9. CASE MarkCompleted \/ MarkFailed
  <2>1. /\ pc \in {"complete", "fail"} /\ pc' = "observe" /\ tasks' = tasks
        /\ tasks # <<>>
    BY <1>9 DEF MarkCompleted, MarkFailed, BatchOK, ProcessingOne
  <2>2. Finished' \in {Finished, Finished + 1} BY <1>9, DoneKept, DoneMore
  <2>3. Len(tasks) >= 1 BY <2>1, HeadTyped
  <2> QED BY <1>1, <2>1, <2>2, <2>3 DEF RoomOK
<1>10. CASE Requeue \/ Observe
  <2>1. /\ pc \in {"requeue", "observe"} /\ pc' = "result" /\ tasks' = Tail(tasks)
        /\ tasks # <<>>
    BY <1>10 DEF Requeue, Observe, BatchOK, ProcessingOne
  <2>2. Len(tasks') = Len(tasks) - 1 BY <2>1, HeadTyped
  <2>3. Finished' = Finished BY <2>1, DoneKept DEF MarkCompleted
  <2> QED BY <1>1, <2>1, <2>2, <2>3 DEF RoomOK
<1> QED
  BY <1>2, <1>3, <1>4, <1>5, <1>6, <1>7, <1>8, <1>9, <1>10
  DEF Next, EngineStep, Terminated

-----------------------------------------------------------------------------
(***************************************************************************)
(* The strategy and its checkpoints never know more than the database.     *)
(***************************************************************************)
LEMMA CheckpointStep ==
    ASSUME IInv, CountOK, ToldOK, CheckpointNeverAhead, [Next]_vars
    PROVE  CheckpointNeverAhead'
<1> USE DEF durable, memory
<1>1. TypeOK BY DEF IInv
<1>2. Finished \in Nat /\ Finished' \in Nat /\ Finished <= Finished'
  BY DoneGrows, FinishedTyped
<1>3. Settled \subseteq Settled' BY SettledGrows
<1> DEFINE Behind(c) == c.completed <= Finished /\ c.strat.told \subseteq Settled
<1>4. ASSUME NEW c \in SearchCheckpoints, Behind(c)
      PROVE  c.completed <= Finished' /\ c.strat.told \subseteq Settled'
  <2>1. c.completed \in Nat BY DEF SearchCheckpoints
  <2> QED BY <1>2, <1>3, <1>4, <2>1
<1>5. \A i \in 1 .. Len(checkpoints) :
          checkpoints[i] \in SearchCheckpoints /\ Behind(checkpoints[i])
  BY <1>1 DEF CheckpointNeverAhead, Finished, TypeOK
<1>6. Snapshot \in SearchCheckpoints /\ Behind(Snapshot)
  BY <1>1 DEF Snapshot, SearchCheckpoints, CountOK, ToldOK, TypeOK
<1>7. ASSUME \A i \in 1 .. Len(checkpoints') :
                 checkpoints'[i] \in SearchCheckpoints /\ Behind(checkpoints'[i])
      PROVE  CheckpointNeverAhead'
  BY <1>4, <1>7 DEF CheckpointNeverAhead, Finished
<1> HIDE DEF Behind
<1>8. CASE UNCHANGED checkpoints BY <1>5, <1>7, <1>8
<1>9. CASE SaveCheckpoint
  <2>1. checkpoints' = Append(checkpoints, Snapshot) BY <1>9 DEF SaveCheckpoint
  <2>2. /\ Len(checkpoints) \in Nat /\ Len(checkpoints') = Len(checkpoints) + 1
        /\ \A i \in 1 .. Len(checkpoints) : checkpoints'[i] = checkpoints[i]
        /\ checkpoints'[Len(checkpoints) + 1] = Snapshot
    BY <1>1, <1>6, <2>1, AppendProperties DEF TypeOK
  <2> QED BY <1>5, <1>6, <1>7, <2>2
<1>10. CASE PruneCheckpoints
  <2>1. checkpoints' = SubSeq(checkpoints, KeptFrom, Len(checkpoints))
    BY <1>10 DEF PruneCheckpoints
  <2>2. Len(checkpoints) \in Nat /\ KeptFrom \in 1 .. Len(checkpoints) + 1
    BY <1>1, EngineAssumption DEF TypeOK, KeptFrom, MaxOf
  <2>3. \A i \in 1 .. Len(checkpoints') :
            \E j \in 1 .. Len(checkpoints) : checkpoints'[i] = checkpoints[j]
    BY <1>1, <2>1, <2>2, SubSeqProperties DEF TypeOK
  <2> QED BY <1>5, <1>7, <2>3
<1> QED
  BY <1>8, <1>9, <1>10
  DEF Next, EngineStep, Terminated, vars, CreateSearch, BeginSearch, ResumeSearch,
      RecoverInterrupted, StopOnBudget, StopOnTime, Propose, NothingToPropose,
      AcceptDuplicate, AcceptInsert, AcceptReject, AcceptValidate, AcceptEnqueue,
      AcceptDone, ClaimNextQueued, StartTrial, ClaimedNothing, RunBatch,
      CompleteTrial, MarkCompleted, FailTrial, IncrementRetry, Requeue, MarkFailed,
      Observe, BatchDone, CloseSearch, Abort, Crash

LEMMA ToldStep ==
    ASSUME IInv, CountOK, ToldOK, CheckpointNeverAhead, [Next]_vars
    PROVE  ToldOK'
<1> USE DEF durable, memory
<1>1. TypeOK /\ resumes \in Nat BY DEF IInv, TypeOK
<1>2. CASE UNCHANGED vars
  BY <1>2 DEF vars, ToldOK, InLoop, Hand, Settled, InState, Evaluated
<1>3. CASE CreateSearch \/ Crash
  <2>1. Settled' = Settled /\ strat'.told \in {strat.told, {}} /\ pc' \in {"created", "down"}
    BY <1>3, SettledKept
    DEF CreateSearch, Crash, FreshMemory, FreshStrategy, MarkCompleted, MarkFailed,
        RecoverInterrupted, Settled, InState, Evaluated
  <2> QED BY <2>1 DEF ToldOK, InLoop
<1>4. CASE BeginSearch
  <2>1. /\ pc = "created" /\ pc' = "loop" /\ UNCHANGED <<status, trial, strat>>
    BY <1>4 DEF BeginSearch
  <2>2. strat.told = {} BY <2>1 DEF CountOK, FreshStrategy
  <2>3. Settled' = {} BY <2>1 DEF IInv, StrayOK, Settled, InState, Absent
  <2> QED BY <2>1, <2>2, <2>3 DEF ToldOK
<1>5. CASE RecoverInterrupted
  <2>1. strat'.told = {} /\ pc' = "recovered" /\ resumes' = resumes + 1
    BY <1>5 DEF RecoverInterrupted, FreshMemory, FreshStrategy
  <2> QED BY <1>1, <2>1 DEF ToldOK, InLoop
<1>6. CASE ResumeSearch
  <2>1. /\ pc = "recovered" /\ pc' = "loop" /\ resumes' = resumes
        /\ strat' = LatestCheckpoint.strat
        /\ UNCHANGED <<status, trial>>
    BY <1>6 DEF ResumeSearch
  <2>2. Settled' = Settled BY <2>1, SettledSame
  <2>3. checkpoints # <<>> => Len(checkpoints) \in 1 .. Len(checkpoints)
    BY <1>1, EmptySeq, LenProperties DEF TypeOK
  <2>4. LatestCheckpoint.strat.told \subseteq Settled
    BY <2>3 DEF LatestCheckpoint, FreshStrategy, CheckpointNeverAhead
  <2> QED BY <1>1, <2>1, <2>2, <2>4 DEF ToldOK
<1>7. CASE \/ StopOnBudget \/ StopOnTime \/ Propose \/ NothingToPropose
           \/ AcceptDuplicate \/ AcceptInsert \/ AcceptReject \/ AcceptValidate
           \/ AcceptEnqueue \/ AcceptDone \/ ClaimNextQueued \/ StartTrial
           \/ ClaimedNothing \/ RunBatch \/ CompleteTrial \/ FailTrial
           \/ IncrementRetry \/ Requeue \/ BatchDone
  <2>1. /\ pc \notin {"observe", "recovered"} /\ InLoop
        /\ pc' \in {"loop", "accept", "check", "enqueue", "claim", "start", "result",
                    "complete", "retry", "requeue", "fail", "save"}
        /\ resumes' = resumes
        /\ ~MarkCompleted /\ ~MarkFailed /\ ~RecoverInterrupted
    BY <1>7 DEF StopOnBudget, StopOnTime, Propose, NothingToPropose, AcceptDuplicate,
       AcceptInsert, AcceptReject, AcceptValidate, AcceptEnqueue, AcceptDone,
       ClaimNextQueued, StartTrial, ClaimedNothing, RunBatch, CompleteTrial, FailTrial,
       IncrementRetry, Requeue, BatchDone, MarkCompleted, MarkFailed,
       RecoverInterrupted, InLoop, Stop, IInv, StrayOK
  <2>2. strat'.told = strat.told
    <3>1. CASE Propose
      <4>1. PICK p, f : strat' = [strat EXCEPT !.asked = @ \cup AskedFor(p), !.finished = f]
        BY <3>1 DEF Propose
      <4> QED BY <1>1, <4>1 DEF TypeOK, Strategies
    <3>2. CASE ~Propose
      BY <1>7, <3>2 DEF StopOnBudget, StopOnTime, NothingToPropose, AcceptDuplicate,
         AcceptInsert, AcceptReject, AcceptValidate, AcceptEnqueue, AcceptDone,
         ClaimNextQueued, StartTrial, ClaimedNothing, RunBatch, CompleteTrial,
         FailTrial, IncrementRetry, Requeue, BatchDone
    <3> QED BY <3>1, <3>2
  <2>3. Settled' = Settled BY <2>1, SettledKept
  <2>4. pc' = "fail" => trial'[Hand'][Head(tasks').attempt] # Absent
    <3>1. SUFFICES ASSUME pc' = "fail" PROVE trial'[Hand'][Head(tasks').attempt] # Absent
      OBVIOUS
    <3>2. FailTrial
      BY <1>7, <3>1 DEF StopOnBudget, StopOnTime, Propose, NothingToPropose,
         AcceptDuplicate, AcceptInsert, AcceptReject, AcceptValidate, AcceptEnqueue,
         AcceptDone, ClaimNextQueued, StartTrial, ClaimedNothing, RunBatch,
         CompleteTrial, IncrementRetry, Requeue, BatchDone, Stop
    <3>3. /\ tasks # <<>> /\ tasks' = tasks
          /\ trial' = [trial EXCEPT ![Hand][Head(tasks).attempt] =
                           FailedVerdict(Head(tasks).outcome)]
      BY <3>2 DEF FailTrial, Hand
    <3>4. Hand' = Hand BY <3>3 DEF Hand
    <3>5. Hand \in Keys /\ Head(tasks).attempt \in Attempts
      BY <1>1, <3>3, HeadTyped DEF Hand
    <3>6. trial'[Hand][Head(tasks).attempt] = FailedVerdict(Head(tasks).outcome)
      BY <1>1, <3>3, <3>5 DEF TypeOK
    <3> QED BY <3>3, <3>4, <3>6 DEF FailedVerdict, Absent
  <2> QED BY <2>1, <2>2, <2>3, <2>4 DEF ToldOK, InLoop
<1>8. CASE MarkCompleted \/ MarkFailed
  <2>1. /\ Settled' = Settled \cup {Hand}
        /\ Hand \notin Settled /\ tasks' = tasks /\ strat' = strat
    BY <1>8, SettledMore
  <2>2. /\ pc \in {"complete", "fail"} /\ pc' = "observe" /\ reason' = reason
        /\ resumes' = resumes /\ InLoop
    BY <1>8 DEF MarkCompleted, MarkFailed, InLoop, IInv, StrayOK
  <2>3. Hand' = Hand BY <2>1 DEF Hand
  <2>4. resumes = 0 => Settled = strat.told BY <2>2 DEF ToldOK
  <2>5. strat.told \subseteq Settled BY DEF ToldOK
  <2> QED BY <2>1, <2>2, <2>3, <2>4, <2>5 DEF ToldOK
<1>9. CASE Observe
  <2>1. /\ pc = "observe" /\ pc' = "result" /\ resumes' = resumes
        /\ strat'.told = strat.told \cup {Hand}
        /\ UNCHANGED <<status, trial, reason>>
    BY <1>9 DEF Observe, ToldOf, Hand
  <2>2. Settled' = Settled BY <2>1, SettledSame
  <2>3. InLoop BY <2>1 DEF InLoop, IInv, StrayOK
  <2> QED BY <2>1, <2>2, <2>3 DEF ToldOK
<1>10. CASE SaveCheckpoint \/ PruneCheckpoints \/ CloseSearch \/ Abort
  <2>1. /\ pc' \in {"prune", "loop", "close", "stopped", "save"}
        /\ UNCHANGED <<status, trial, strat, resumes>>
    BY <1>10 DEF SaveCheckpoint, PruneCheckpoints, CloseSearch, Abort, Stop
  <2>2. Settled' = Settled BY <2>1, SettledSame
  <2>3. InLoop' => InLoop /\ pc # "observe"
    <3>1. CASE SaveCheckpoint BY <3>1 DEF SaveCheckpoint, InLoop
    <3>2. CASE PruneCheckpoints BY <3>2 DEF PruneCheckpoints, InLoop
    <3>3. CASE CloseSearch BY <3>3 DEF CloseSearch, InLoop
    <3>4. CASE Abort BY <3>4, EngineAssumption DEF Abort, Stop, InLoop
    <3> QED BY <1>10, <3>1, <3>2, <3>3, <3>4
  <2> QED BY <2>1, <2>2, <2>3 DEF ToldOK
<1> QED
  BY <1>2, <1>3, <1>4, <1>5, <1>6, <1>7, <1>8, <1>9, <1>10
  DEF Next, EngineStep, Terminated

-----------------------------------------------------------------------------
(***************************************************************************)
(* The theorems.                                                           *)
(***************************************************************************)
\* At every program point of every run the counter, the budget's room, the
\* strategy's knowledge and the saved checkpoints fit the rows.
THEOREM AccountsAgree == Spec => []AccountsOK
<1>1. Init => AccountsOK
  <2> SUFFICES ASSUME Init PROVE AccountsOK
    OBVIOUS
  <2>1. InState("COMPLETED") = {} /\ Settled = {}
    BY DEF Init, InState, Settled, Absent
  <2>2. Finished = 0 BY <2>1, FS_EmptySet DEF Finished
  <2> QED BY <2>1, <2>2, EngineAssumption
          DEF Init, AccountsOK, CountOK, RoomOK, ToldOK, CheckpointNeverAhead,
              FreshStrategy, InLoop
<1>2. IInv /\ AccountsOK /\ [Next]_vars => AccountsOK'
  BY CountStep, RoomStep, ToldStep, CheckpointStep DEF AccountsOK
<1> QED BY <1>1, <1>2, Invariance, PTL DEF Spec

\* The counter that _run_loop compares with max_evaluations is the number of
\* completed rows, a batch overruns the budget by less than its own size, and
\* a run that says it stopped on its budget spent it, after any number of
\* resumes from checkpoints that lag behind.
THEOREM BudgetIsKept == Spec => []BudgetHolds
<1>1. ASSUME IInv, AccountsOK PROVE BudgetHolds
  <2>1. CountAgrees
    BY <1>1 DEF IInv, StrayOK, AccountsOK, CountOK, CountAgrees, InLoop, Finished
  <2>2. OvershootBound BY <1>1 DEF AccountsOK, RoomOK, OvershootBound, Finished
  <2>3. BudgetIsHonest
    <3>1. /\ completed \in Nat /\ Finished \in Nat
          /\ completed <= Finished
          /\ reason = "BUDGET_EXHAUSTED" => completed >= MaxEvaluations
      BY <1>1, FinishedTyped DEF IInv, TypeOK, AccountsOK, CountOK
    <3> QED BY <3>1, EngineAssumption DEF BudgetIsHonest, Finished
  <2> QED BY <2>1, <2>2, <2>3 DEF BudgetHolds
<1> QED BY <1>1, Invariance, AccountsAgree, PTL

\* No checkpoint, kept or pruned, ever records a completion or an outcome the
\* rows do not hold, wherever the process dies between the two transactions.
THEOREM CheckpointsLagBehind == Spec => []CheckpointNeverAhead
<1>1. AccountsOK => CheckpointNeverAhead BY DEF AccountsOK
<1> QED BY <1>1, AccountsAgree, PTL

\* The strategy is told no outcome twice, also across resumes, and until the
\* first resume it is told every one.
THEOREM OutcomesAreHeard == Spec => []HearsOutcomes
<1>1. ASSUME IInv, AccountsOK PROVE HearsOutcomes
  <2>1. ToldOnce BY <1>1 DEF AccountsOK, ToldOK, ToldOnce, Hand
  <2>2. ToldEverything
    BY <1>1 DEF IInv, StrayOK, AccountsOK, ToldOK, ToldEverything, InLoop
  <2> QED BY <2>1, <2>2 DEF HearsOutcomes
<1> QED BY <1>1, Invariance, AccountsAgree, PTL
=============================================================================
