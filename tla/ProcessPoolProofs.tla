-------------------------- MODULE ProcessPoolProofs --------------------------
(***************************************************************************)
(* ProcessPool keeps BatchContract, and the verdicts the engine draws from *)
(* its answers are earned, for any candidates, any number of workers, any  *)
(* in-flight limit and retry allowance.                                    *)
(*                                                                         *)
(* An outcome, once it is there, is never replaced (OutcomeStays).  An     *)
(* answer that matches an outcome therefore matches it for good, and what  *)
(* remains is that results, tasks and the candidates' attempts keep their  *)
(* positions from the claim to the verdict (BatchOK, AnswersOK).           *)
(***************************************************************************)
EXTENDS ProcessPool, TLAPS, SequenceTheorems

\* Where the engine's thread is inside of its loop.
Working == {"loop", "claim", "dispatch", "submit", "collect", "results"}

\* What the program point says about the locals of the round.
PhaseOK ==
    /\ pc = "loop" => batch = <<>>
    /\ pc \in {"loop", "claim", "dispatch", "submit"} => results = <<>>
    /\ pc = "collect" => handled = 0 /\ Len(results) <= Len(batch)
    /\ pc = "results" => Len(results) = Len(batch)
    /\ reason = "NONE" <=> pc \in Working

\* The tasks of a batch are about different candidates, and those that the
\* engine has not dealt with yet are the attempts their candidates are at.
BatchOK ==
    pc \in Working =>
        /\ \A i, j \in DOMAIN batch : batch[i][1] = batch[j][1] => i = j
        /\ \A i \in DOMAIN batch : i > handled =>
              /\ status[batch[i][1]] = "RUNNING"
              /\ batch[i] = <<batch[i][1], attempt[batch[i][1]]>>

\* An answer that a worker gave is the outcome of the task at its position.
AnswersOK ==
    pc \in {"collect", "results"} =>
        \A i \in DOMAIN results :
            results[i] \in {"OK", "PERMANENT"} => future[batch[i]] = results[i]

\* Only a pool that is up has open futures, and there is none at the end.
PoolOK ==
    /\ pool # "up" => Live = {}
    /\ pc = "ended" => pool = "absent"
    /\ pc = "finalise" /\ reason # "ERROR" => pool = "absent"

IInv ==
    /\ TypeOK
    /\ PhaseOK
    /\ BatchOK
    /\ AnswersOK
    /\ PoolOK
    /\ CompletedWasMeasured
    /\ GivenUpOnlyAfterRetries

-----------------------------------------------------------------------------
(***************************************************************************)
(* What the steps do to candidates and futures.                            *)
(***************************************************************************)
USE DEF Outcomes, Retriable

LEMMA FirstOfIsSubset == ASSUME NEW n, NEW S PROVE FirstOf(n, S) \subseteq S
BY DEF FirstOf

\* An outcome stays.
LEMMA OutcomeStays ==
    ASSUME TypeOK, [Next]_vars
    PROVE  \A t \in Tasks : future[t] \in Outcomes => future'[t] = future[t]
<1> SUFFICES ASSUME NEW t \in Tasks, future[t] \in Outcomes PROVE future'[t] = future[t]
  OBVIOUS
<1>1. CASE Submit BY <1>1 DEF Submit, NotSubmitted, TypeOK
<1>2. CASE InterruptCollect BY <1>2 DEF InterruptCollect, TypeOK
<1>3. CASE StartTask BY <1>3 DEF StartTask, TypeOK
<1>4. CASE \E u \in Tasks : FinishTask(u) BY <1>4 DEF FinishTask, TypeOK
<1>5. CASE WorkerDies BY <1>5 DEF WorkerDies, TypeOK, Live
<1> QED
  BY <1>1, <1>2, <1>3, <1>4, <1>5
  DEF Next, Parent, Worker, Propose, Claim, Claimed, SearchOver, EnsurePool, CannotStart,
      SubmitRefused, AllSubmitted, CollectDone, CollectBroken, CollectTimeout, Collect,
      BatchReturned, Process, RoundDone, Shutdown, Finalise, Interrupt, DropTask, Ended, vars

\* The steps that touch neither candidates nor the batch.
Elsewhere ==
    \/ Claimed \/ SearchOver \/ EnsurePool \/ CannotStart
    \/ Submit \/ SubmitRefused \/ AllSubmitted
    \/ CollectDone \/ CollectBroken \/ CollectTimeout \/ BatchReturned
    \/ Shutdown \/ Finalise \/ InterruptCollect \/ Interrupt
    \/ Worker \/ WorkerDies \/ Ended \/ UNCHANGED vars

LEMMA Split == ASSUME [Next]_vars PROVE Propose \/ Claim \/ Process \/ RoundDone \/ Elsewhere
BY DEF Next, Parent, Elsewhere

LEMMA ElsewhereKeeps == ASSUME Elsewhere PROVE UNCHANGED <<status, attempt, handled, batch>>
BY DEF Elsewhere, Claimed, SearchOver, EnsurePool, CannotStart, Submit, SubmitRefused,
       AllSubmitted, CollectDone, CollectBroken, CollectTimeout, Collect, BatchReturned,
       Shutdown, Finalise, InterruptCollect, Interrupt, Worker, StartTask, DropTask,
       FinishTask, WorkerDies, Ended, vars, engine

\* Process deals with the attempt that its candidate is at.
LEMMA ProcessFacts ==
    ASSUME TypeOK, PhaseOK, BatchOK, AnswersOK, Process
    PROVE  \E c \in Candidates, answer \in Answers :
              /\ status[c] = "RUNNING"
              /\ batch[handled + 1] = <<c, attempt[c]>>
              /\ answer \in {"OK", "PERMANENT"} => future[<<c, attempt[c]>>] = answer
              /\ status' = [status EXCEPT ![c] =
                               IF answer = "OK" THEN "COMPLETED"
                               ELSE IF ShouldRetry(answer, attempt[c]) THEN "QUEUED"
                               ELSE "FAILED"]
              /\ attempt' = [attempt EXCEPT ![c] =
                                IF ShouldRetry(answer, attempt[c]) THEN @ + 1 ELSE @]
<1>1. handled + 1 \in DOMAIN batch /\ handled + 1 \in DOMAIN results /\ handled + 1 > handled
  BY DEF Process, TypeOK, PhaseOK
<1> DEFINE c == batch[handled + 1][1]
           answer == results[handled + 1]
<1>2. c \in Candidates /\ answer \in Answers
  BY <1>1 DEF TypeOK, Tasks
<1>3. status[c] = "RUNNING" /\ batch[handled + 1] = <<c, attempt[c]>>
  BY <1>1 DEF Process, BatchOK, Working
<1>4. answer \in {"OK", "PERMANENT"} => future[<<c, attempt[c]>>] = answer
  BY <1>1, <1>3 DEF Process, AnswersOK
<1> QED BY <1>2, <1>3, <1>4 DEF Process

-----------------------------------------------------------------------------
LEMMA TypeStep == ASSUME TypeOK, PhaseOK, BatchOK, AnswersOK, [Next]_vars PROVE TypeOK'
<1>1. CASE Propose BY <1>1 DEF Propose, TypeOK, engine
<1>2. CASE Claim
  <2>1. PICK c \in FirstOf(1, WithStatus("QUEUED")) :
           /\ status' = [status EXCEPT ![c] = "RUNNING"]
           /\ batch' = Append(batch, <<c, attempt[c]>>)
    BY <1>2 DEF Claim
  <2>2. c \in Candidates BY FirstOfIsSubset DEF WithStatus
  <2>3. <<c, attempt[c]>> \in Tasks BY <2>2 DEF TypeOK, Tasks
  <2>4. batch' \in Seq(Tasks) BY <2>1, <2>3, AppendProperties DEF TypeOK
  <2>5. status' \in [Candidates -> {"NEW", "QUEUED", "RUNNING", "COMPLETED", "FAILED"}]
    BY <2>1, <2>2 DEF TypeOK
  <2> QED BY <1>2, <2>4, <2>5 DEF Claim, TypeOK
<1>3. CASE Process
  <2>1. PICK c \in Candidates, answer \in Answers :
           /\ status' = [status EXCEPT ![c] =
                            IF answer = "OK" THEN "COMPLETED"
                            ELSE IF ShouldRetry(answer, attempt[c]) THEN "QUEUED"
                            ELSE "FAILED"]
           /\ attempt' = [attempt EXCEPT ![c] =
                             IF ShouldRetry(answer, attempt[c]) THEN @ + 1 ELSE @]
    BY <1>3, ProcessFacts
  <2>2. attempt[c] \in 0..MaxRetries BY DEF TypeOK
  <2>3. ShouldRetry(answer, attempt[c]) => attempt[c] + 1 \in 0..MaxRetries
    BY <2>2, PoolAssumption DEF ShouldRetry
  <2>4. attempt' \in [Candidates -> 0..MaxRetries] BY <2>1, <2>3 DEF TypeOK
  <2>5. handled + 1 \in 0..Len(results) BY <1>3 DEF Process, PhaseOK, TypeOK
  <2> QED BY <1>3, <2>1, <2>4, <2>5 DEF Process, TypeOK
<1>4. CASE RoundDone BY <1>4 DEF RoundDone, TypeOK
<1>5. CASE Elsewhere
  <2> USE ElsewhereKeeps
  <2>1. CASE Submit
    <3>1. \A i \in NotSubmitted : batch[i] \in Tasks BY DEF NotSubmitted, TypeOK
    <3> QED BY <2>1, <3>1 DEF Submit, TypeOK, engine
  <2>2. CASE CollectDone \/ CollectBroken \/ CollectTimeout
    <3>1. Current \in Tasks BY <2>2 DEF CollectDone, CollectBroken, CollectTimeout, Collecting, Current, TypeOK
    <3>2. \E a \in Answers : Collect(a)
      BY <2>2, <3>1 DEF CollectDone, CollectBroken, CollectTimeout, Answers
    <3> QED BY <3>2 DEF Collect, TypeOK, engine
  <2>3. CASE InterruptCollect BY <2>3 DEF InterruptCollect, TypeOK, engine
  <2>4. CASE StartTask BY <2>4 DEF StartTask, TypeOK, engine
  <2>5. CASE DropTask BY <2>5 DEF DropTask, TypeOK, engine
  <2>6. CASE \E t \in Tasks : FinishTask(t) BY <2>6 DEF FinishTask, TypeOK, engine
  <2>7. CASE WorkerDies BY <2>7 DEF WorkerDies, TypeOK, engine
  <2>8. CASE \/ Claimed \/ SearchOver \/ EnsurePool \/ CannotStart \/ SubmitRefused
             \/ AllSubmitted \/ BatchReturned \/ Interrupt \/ Shutdown \/ Finalise
             \/ Ended \/ UNCHANGED vars
    BY <1>5, <2>8
    DEF Claimed, SearchOver, EnsurePool, CannotStart, SubmitRefused, AllSubmitted,
        BatchReturned, Interrupt, Shutdown, Finalise, Ended, vars, engine, TypeOK
  <2> QED BY <1>5, <2>1, <2>2, <2>3, <2>4, <2>5, <2>6, <2>7, <2>8 DEF Elsewhere, Worker
<1> QED BY <1>1, <1>2, <1>3, <1>4, <1>5, Split

LEMMA PhaseStep == ASSUME TypeOK, PhaseOK, [Next]_vars PROVE PhaseOK'
<1> USE DEF PhaseOK, Working
<1>1. CASE CollectDone \/ CollectBroken \/ CollectTimeout
  <2>1. \E a : Collecting /\ Collect(a)
    BY <1>1 DEF CollectDone, CollectBroken, CollectTimeout
  <2>2. pc' = "collect" /\ handled' = 0 /\ Len(results') = Len(results) + 1 /\ batch' = batch
        /\ reason' = reason
    BY <2>1 DEF Collecting, Collect, engine, TypeOK
  <2> QED BY <2>1, <2>2 DEF Collecting, TypeOK
<1>2. CASE Claim BY <1>2 DEF Claim, TypeOK
<1>3. CASE Propose \/ Claimed \/ SearchOver \/ EnsurePool \/ CannotStart
  BY <1>3 DEF Propose, Claimed, SearchOver, EnsurePool, CannotStart, engine, TypeOK
<1>4. CASE Submit \/ SubmitRefused \/ AllSubmitted
  BY <1>4 DEF Submit, SubmitRefused, AllSubmitted, engine, TypeOK
<1>5. CASE BatchReturned \/ InterruptCollect \/ Interrupt \/ Process \/ RoundDone
  BY <1>5 DEF BatchReturned, InterruptCollect, Interrupt, Process, RoundDone, Collecting,
              engine, TypeOK
<1>6. CASE Shutdown \/ Finalise \/ Ended \/ UNCHANGED vars
  BY <1>6 DEF Shutdown, Finalise, Ended, vars, engine, TypeOK
<1>7. CASE Worker \/ WorkerDies
  BY <1>7 DEF Worker, StartTask, DropTask, FinishTask, WorkerDies, engine, TypeOK
<1> QED BY <1>1, <1>2, <1>3, <1>4, <1>5, <1>6, <1>7 DEF Next, Parent

LEMMA BatchStep ==
    ASSUME TypeOK, PhaseOK, BatchOK, AnswersOK, [Next]_vars PROVE BatchOK'
<1>1. CASE Propose BY <1>1 DEF Propose, BatchOK, PhaseOK, TypeOK
<1>2. CASE Claim
  <2>1. PICK c \in FirstOf(1, WithStatus("QUEUED")) :
           /\ status' = [status EXCEPT ![c] = "RUNNING"]
           /\ batch' = Append(batch, <<c, attempt[c]>>)
    BY <1>2 DEF Claim
  <2>2. c \in Candidates /\ status[c] = "QUEUED" BY FirstOfIsSubset DEF WithStatus
  <2>3. handled = 0 /\ UNCHANGED <<handled, attempt, pc>>
    BY <1>2 DEF Claim, PhaseOK, TypeOK
  <2>4. \A i \in DOMAIN batch :
           /\ batch[i] \in Tasks
           /\ batch[i][1] \in Candidates
           /\ status[batch[i][1]] = "RUNNING"
           /\ batch[i] = <<batch[i][1], attempt[batch[i][1]]>>
    <3>1. \A i \in DOMAIN batch : i > handled BY <2>3 DEF TypeOK
    <3> QED BY <1>2, <3>1 DEF Claim, BatchOK, Working, TypeOK, Tasks
  <2>5. DOMAIN batch' = 1..Len(batch) + 1 /\ DOMAIN batch = 1..Len(batch)
    BY <2>1 DEF TypeOK
  <2>6. \A i \in DOMAIN batch' : batch'[i] = IF i \in DOMAIN batch THEN batch[i] ELSE <<c, attempt[c]>>
    BY <2>1, <2>5 DEF TypeOK
  <2>7. \A i \in DOMAIN batch' :
           /\ status'[batch'[i][1]] = "RUNNING"
           /\ batch'[i] = <<batch'[i][1], attempt'[batch'[i][1]]>>
    BY <2>1, <2>2, <2>3, <2>4, <2>6 DEF TypeOK
  <2>8. \A i \in DOMAIN batch : batch[i][1] # c BY <2>2, <2>4
  <2>9. \A i, j \in DOMAIN batch' : batch'[i][1] = batch'[j][1] => i = j
    <3>1. \A i, j \in DOMAIN batch : batch[i][1] = batch[j][1] => i = j
      BY <1>2 DEF Claim, BatchOK, Working
    <3>2. \A i, j \in DOMAIN batch' : i \notin DOMAIN batch /\ j \notin DOMAIN batch => i = j
      BY <2>5 DEF TypeOK
    <3>3. \A i \in DOMAIN batch' : i \notin DOMAIN batch => batch'[i][1] = c BY <2>6
    <3>4. \A i \in DOMAIN batch : i \in DOMAIN batch' /\ batch'[i][1] = batch[i][1]
      BY <2>5, <2>6 DEF TypeOK
    <3> QED BY <2>8, <3>1, <3>2, <3>3, <3>4
  <2> QED BY <2>7, <2>9 DEF BatchOK
<1>3. CASE Process
  <2>1. PICK c \in Candidates, answer \in Answers :
           /\ batch[handled + 1] = <<c, attempt[c]>>
           /\ \A d \in Candidates \ {c} : status'[d] = status[d] /\ attempt'[d] = attempt[d]
    <3>1. PICK c \in Candidates, answer \in Answers :
              /\ batch[handled + 1] = <<c, attempt[c]>>
              /\ status' = [status EXCEPT ![c] =
                               IF answer = "OK" THEN "COMPLETED"
                               ELSE IF ShouldRetry(answer, attempt[c]) THEN "QUEUED"
                               ELSE "FAILED"]
              /\ attempt' = [attempt EXCEPT ![c] =
                                IF ShouldRetry(answer, attempt[c]) THEN @ + 1 ELSE @]
      BY <1>3, ProcessFacts
    <3>2. \A d \in Candidates \ {c} : status'[d] = status[d] /\ attempt'[d] = attempt[d]
      BY <3>1 DEF TypeOK
    <3> QED BY <3>1, <3>2
  <2>2. /\ pc \in Working /\ UNCHANGED <<pc, batch>> /\ handled' = handled + 1
        /\ handled + 1 \in DOMAIN batch
    BY <1>3 DEF Process, Working, TypeOK
  <2>3. ASSUME NEW i \in DOMAIN batch, i > handled + 1
        PROVE  /\ status'[batch[i][1]] = "RUNNING"
               /\ batch[i] = <<batch[i][1], attempt'[batch[i][1]]>>
    <3>1. batch[i][1] \in Candidates BY DEF TypeOK, Tasks
    <3>2. batch[i][1] # c
      <4>1. i # handled + 1 BY <2>3 DEF TypeOK
      <4>2. batch[handled + 1][1] = c BY <2>1
      <4> QED BY <2>2, <4>1, <4>2 DEF BatchOK
    <3>3. i > handled BY <2>3 DEF TypeOK
    <3> QED BY <2>1, <2>2, <3>1, <3>2, <3>3 DEF BatchOK
  <2> QED BY <2>2, <2>3 DEF BatchOK
<1>4. CASE RoundDone BY <1>4 DEF RoundDone, BatchOK
<1>5. CASE Elsewhere
  <2>1. UNCHANGED <<status, attempt, handled, batch>> BY <1>5, ElsewhereKeeps
  <2>2. pc' \in Working => pc \in Working
    BY <1>5
    DEF Elsewhere, Claimed, SearchOver, EnsurePool, CannotStart, Submit, SubmitRefused,
        AllSubmitted, CollectDone, CollectBroken, CollectTimeout, Collect, Collecting,
        BatchReturned, Shutdown, Finalise, InterruptCollect, Interrupt, Worker, StartTask,
        DropTask, FinishTask, WorkerDies, Ended, vars, engine, Working
  <2> QED BY <2>1, <2>2 DEF BatchOK
<1> QED BY <1>1, <1>2, <1>3, <1>4, <1>5, Split

LEMMA AnswersStep ==
    ASSUME TypeOK, PhaseOK, BatchOK, AnswersOK, [Next]_vars PROVE AnswersOK'
<1> SUFFICES ASSUME pc' \in {"collect", "results"}, NEW i \in DOMAIN results',
                    results'[i] \in {"OK", "PERMANENT"}
             PROVE  future'[batch'[i]] = results'[i]
  BY DEF AnswersOK
<1>1. \A t \in Tasks : future[t] \in {"OK", "PERMANENT"} => future'[t] = future[t]
  BY OutcomeStays
<1>2. CASE CollectDone \/ CollectBroken \/ CollectTimeout
  <2>1. PICK a : /\ Collecting /\ Collect(a)
                 /\ a \in {"OK", "PERMANENT"} => future[Current] = a
    BY <1>2 DEF CollectDone, CollectBroken, CollectTimeout
  <2>2. results' = Append(results, a) /\ UNCHANGED <<batch, future>>
    BY <2>1 DEF Collect, engine
  <2>3. CASE i \in DOMAIN results
    <3>1. results'[i] = results[i] BY <2>2, <2>3 DEF TypeOK
    <3> QED BY <2>1, <2>2, <2>3, <3>1 DEF AnswersOK, Collecting
  <2>4. CASE i = Len(results) + 1
    <3>1. results'[i] = a BY <2>2, <2>4 DEF TypeOK
    <3> QED BY <2>1, <2>2, <2>4, <3>1 DEF Current
  <2> QED BY <2>2, <2>3, <2>4 DEF TypeOK
<1>3. CASE AllSubmitted
  BY <1>3 DEF AllSubmitted, PhaseOK, TypeOK
<1>4. CASE ~(CollectDone \/ CollectBroken \/ CollectTimeout \/ AllSubmitted)
  <2>1. UNCHANGED <<batch, results>> /\ pc \in {"collect", "results"}
    BY <1>4
    DEF Next, Parent, Propose, Claim, Claimed, SearchOver, EnsurePool, CannotStart,
        Submit, SubmitRefused, BatchReturned, Process, RoundDone, Shutdown, Finalise,
        InterruptCollect, Interrupt, Worker, StartTask, DropTask, FinishTask, WorkerDies,
        Ended, vars, engine, Collecting
  <2>2. i \in DOMAIN batch /\ batch[i] \in Tasks BY <2>1 DEF PhaseOK, TypeOK
  <2> QED BY <1>1, <2>1, <2>2 DEF AnswersOK
<1> QED BY <1>2, <1>3, <1>4

LEMMA PoolStep == ASSUME TypeOK, PhaseOK, PoolOK, [Next]_vars PROVE PoolOK'
<1> USE DEF PoolOK
<1>1. CASE Submit BY <1>1 DEF Submit, Live
<1>2. CASE EnsurePool BY <1>2 DEF EnsurePool, Live
<1>3. CASE Shutdown BY <1>3 DEF Shutdown, Live, TypeOK
<1>4. CASE Finalise BY <1>4 DEF Finalise, Live
<1>5. CASE InterruptCollect
  <2>1. Live' \subseteq Live BY <1>5 DEF InterruptCollect, Live, TypeOK
  <2> QED BY <1>5, <2>1 DEF InterruptCollect
<1>6. CASE StartTask \/ DropTask
  BY <1>6 DEF StartTask, DropTask, PoolOK
<1>7. CASE \E t \in Tasks : FinishTask(t)
  <2>1. Live' \subseteq Live BY <1>7 DEF FinishTask, Live, TypeOK
  <2> QED BY <1>7, <2>1 DEF FinishTask
<1>8. CASE WorkerDies
  <2>1. Live' = {} BY <1>8 DEF WorkerDies, Live, TypeOK
  <2> QED BY <1>8, <2>1 DEF WorkerDies
<1>9. CASE CannotStart \/ SubmitRefused \/ SearchOver \/ Interrupt
  BY <1>9 DEF CannotStart, SubmitRefused, SearchOver, Interrupt, Live
<1>10. CASE \/ Propose \/ Claim \/ Claimed \/ AllSubmitted \/ CollectDone \/ CollectBroken
            \/ CollectTimeout \/ BatchReturned \/ Process \/ RoundDone \/ Ended
            \/ UNCHANGED vars
  <2>1. UNCHANGED <<pool, reason, future>>
    BY <1>10
    DEF Propose, Claim, Claimed, AllSubmitted, CollectDone, CollectBroken, CollectTimeout,
        Collect, BatchReturned, Process, RoundDone, Ended, vars
  <2>2. pc' \in Working \/ pc' = pc
    BY <1>10
    DEF Propose, Claim, Claimed, AllSubmitted, CollectDone, CollectBroken, CollectTimeout,
        Collect, BatchReturned, Process, RoundDone, Ended, vars, Working
  <2> QED BY <2>1, <2>2 DEF Live, Working
<1> QED
  BY <1>1, <1>2, <1>3, <1>4, <1>5, <1>6, <1>7, <1>8, <1>9, <1>10 DEF Next, Parent, Worker

\* A verdict is earned when it is drawn, and what earned it stays.
LEMMA VerdictStep ==
    ASSUME IInv, [Next]_vars
    PROVE  CompletedWasMeasured' /\ GivenUpOnlyAfterRetries'
<1> USE DEF IInv
<1> SUFFICES ASSUME NEW d \in Candidates
             PROVE  /\ status'[d] = "COMPLETED" => future'[<<d, attempt'[d]>>] = "OK"
                    /\ status'[d] = "FAILED" =>
                          \/ attempt'[d] = MaxRetries
                          \/ future'[<<d, attempt'[d]>>] = "PERMANENT"
  BY DEF CompletedWasMeasured, GivenUpOnlyAfterRetries, WithStatus
<1>1. <<d, attempt[d]>> \in Tasks BY DEF TypeOK, Tasks
<1>2. future[<<d, attempt[d]>>] \in {"OK", "PERMANENT"}
          => future'[<<d, attempt[d]>>] = future[<<d, attempt[d]>>]
  BY <1>1, OutcomeStays
<1>3. ASSUME status'[d] \in {"COMPLETED", "FAILED"} => status'[d] = status[d],
             attempt'[d] = attempt[d]
      PROVE  /\ status'[d] = "COMPLETED" => future'[<<d, attempt'[d]>>] = "OK"
             /\ status'[d] = "FAILED" =>
                   \/ attempt'[d] = MaxRetries
                   \/ future'[<<d, attempt'[d]>>] = "PERMANENT"
  BY <1>2, <1>3 DEF CompletedWasMeasured, GivenUpOnlyAfterRetries, WithStatus
<1>4. CASE Propose BY <1>3, <1>4 DEF Propose, TypeOK
<1>5. CASE Claim
  <2>1. PICK c \in FirstOf(1, WithStatus("QUEUED")) : status' = [status EXCEPT ![c] = "RUNNING"]
    BY <1>5 DEF Claim
  <2> QED BY <1>3, <1>5, <2>1 DEF Claim, TypeOK
<1>6. CASE Process
  <2>1. PICK c \in Candidates, answer \in Answers :
           /\ answer \in {"OK", "PERMANENT"} => future[<<c, attempt[c]>>] = answer
           /\ status' = [status EXCEPT ![c] =
                            IF answer = "OK" THEN "COMPLETED"
                            ELSE IF ShouldRetry(answer, attempt[c]) THEN "QUEUED"
                            ELSE "FAILED"]
           /\ attempt' = [attempt EXCEPT ![c] =
                             IF ShouldRetry(answer, attempt[c]) THEN @ + 1 ELSE @]
    BY <1>6, ProcessFacts
  <2>2. CASE d # c BY <1>3, <2>1, <2>2 DEF TypeOK
  <2>3. CASE d = c
    <3>1. CASE answer = "OK"
      BY <1>2, <2>1, <2>3, <3>1 DEF TypeOK, ShouldRetry
    <3>2. CASE answer = "PERMANENT"
      BY <1>2, <2>1, <2>3, <3>2 DEF TypeOK, ShouldRetry
    <3>3. CASE answer \in Retriable
      <4>1. attempt[d] \in 0..MaxRetries BY DEF TypeOK
      <4> QED BY <2>1, <2>3, <3>3, <4>1, PoolAssumption DEF TypeOK, ShouldRetry
    <3> QED BY <3>1, <3>2, <3>3 DEF Answers
  <2> QED BY <2>2, <2>3
<1>7. CASE RoundDone BY <1>3, <1>7 DEF RoundDone
<1>8. CASE Elsewhere BY <1>3, <1>8, ElsewhereKeeps
<1> QED BY <1>4, <1>5, <1>6, <1>7, <1>8, Split

-----------------------------------------------------------------------------
(***************************************************************************)
(* The theorems.                                                           *)
(***************************************************************************)
\* The round, the tasks, the futures and the candidates keep their relation in
\* every reachable state (run_batch and the loop around it).
THEOREM Invariance == Spec => []IInv
<1>1. Init => IInv
  BY PoolAssumption
  DEF Init, IInv, TypeOK, PhaseOK, BatchOK, AnswersOK, PoolOK, CompletedWasMeasured,
      GivenUpOnlyAfterRetries, WithStatus, Live, Working
<1>2. IInv /\ [Next]_vars => IInv'
  BY TypeStep, PhaseStep, BatchStep, AnswersStep, PoolStep, VerdictStep DEF IInv
<1> QED BY <1>1, <1>2, PTL DEF Spec

\* The variables have their types, attempt numbers within 0..MaxRetries
\* (run_batch, RetryPolicy.decide).
THEOREM TypeCorrect == Spec => []TypeOK
BY Invariance, PTL DEF IInv

\* A candidate is completed only by the success of the attempt it is at, late
\* answers, timeouts and dead workers notwithstanding (run_batch,
\* _process_result).
THEOREM CompletionsAreEarned == Spec => []CompletedWasMeasured
BY Invariance, PTL DEF IInv

\* A candidate fails for good only by a permanent failure of its own or after
\* all its retries (run_batch, RetryPolicy.decide).
THEOREM RetriesAreGranted == Spec => []GivenUpOnlyAfterRetries
BY Invariance, PTL DEF IInv

\* Every verdict is earned: a completion by the attempt's own success, a
\* failure by a permanent answer or by the last retry (_process_result).
THEOREM VerdictsEarned == Spec => []VerdictsAreEarned
<1> QED BY CompletionsAreEarned, RetriesAreGranted, PTL DEF VerdictsAreEarned

\* No evaluation is open when the final status is written, or, after an
\* exception, when run has returned (shutdown, _finalise).
THEOREM NothingRunsAfterwards == Spec => []QuietWhenFinalised
<1>1. IInv => QuietWhenFinalised BY DEF IInv, PoolOK, QuietWhenFinalised
<1> QED BY <1>1, Invariance, PTL

-----------------------------------------------------------------------------
(***************************************************************************)
(* The refinement.                                                         *)
(***************************************************************************)
\* The three sides of the mapping, named.
Asked == IF phase \in {"running", "answered"} THEN batch ELSE <<>>
Answered == IF phase = "answered" THEN results ELSE <<>>
Measured == {t \in Tasks : future[t] = "OK"}

\* The steps of the workers: one of them may have measured something.
LEMMA WorkersStep ==
    ASSUME TypeOK, Worker \/ WorkerDies
    PROVE  [Contract!Next]_<<phase, Asked, Answered, Measured>>
<1>1. UNCHANGED <<phase, Asked, Answered>>
  BY DEF Worker, StartTask, DropTask, FinishTask, WorkerDies, engine, phase, Asked, Answered
<1>2. CASE ~\E t \in Tasks : FinishTask(t)
  <2>1. \A t \in Tasks : future'[t] = "OK" <=> future[t] = "OK"
    BY <1>2 DEF Worker, StartTask, DropTask, WorkerDies, Live, TypeOK
  <2> QED BY <1>1, <2>1 DEF Measured
<1>3. ASSUME NEW t \in Tasks, FinishTask(t)
      PROVE  [Contract!Next]_<<phase, Asked, Answered, Measured>>
  <2>1. PICK o \in Outcomes : future' = [future EXCEPT ![t] = o] BY <1>3 DEF FinishTask
  <2>2. \A u \in Tasks : future'[u] = IF u = t THEN o ELSE future[u] BY <2>1 DEF TypeOK
  <2>3. CASE o = "OK"
    <3>1. Measured' = Measured \cup {t} BY <2>2, <2>3 DEF Measured
    <3> QED BY <1>1, <3>1 DEF Contract!Next, Contract!Measure, Asked, Answered, Measured
  <2>4. CASE o # "OK"
    <3>1. Measured' = Measured BY <1>3, <2>2, <2>4 DEF Measured, FinishTask
    <3> QED BY <1>1, <3>1
  <2> QED BY <2>3, <2>4
<1> QED BY <1>2, <1>3

\* Every step of the pool and the loop around it is a step of the contract.
LEMMA ContractStep ==
    ASSUME IInv, [Next]_vars
    PROVE  [Contract!Next]_<<phase, Asked, Answered, Measured>>
<1> USE DEF IInv
<1>1. CASE Worker \/ WorkerDies BY <1>1, WorkersStep
<1>2. ASSUME ~(Worker \/ WorkerDies) PROVE Measured' = Measured
  <2>1. \A t \in Tasks : future'[t] = "OK" <=> future[t] = "OK"
    <3>1. CASE Submit
      BY <3>1 DEF Submit, NotSubmitted, TypeOK
    <3>2. CASE InterruptCollect BY <3>2 DEF InterruptCollect, TypeOK
    <3> QED
      BY <1>2, <3>1, <3>2
      DEF Next, Parent, Propose, Claim, Claimed, SearchOver, EnsurePool, CannotStart,
          SubmitRefused, AllSubmitted, CollectDone, CollectBroken, CollectTimeout, Collect,
          BatchReturned, Process, RoundDone, Shutdown, Finalise, Interrupt, Ended, vars
  <2> QED BY <2>1 DEF Measured
<1>3. ASSUME Claimed PROVE Contract!Ask
  <2>1. Measured' = Measured BY <1>3 DEF Claimed, Measured
  <2>2. reason = "NONE" BY <1>3 DEF Claimed, PhaseOK, Working
  <2> QED
    BY <1>3, <2>1, <2>2
    DEF Claimed, engine, Contract!Ask, phase, Asked, Answered, Measured, TypeOK
<1>4. ASSUME BatchReturned PROVE Contract!Answer
  <2>1. Measured' = Measured BY <1>4 DEF BatchReturned, Measured
  <2>2. reason = "NONE" BY <1>4 DEF BatchReturned, PhaseOK, Working
  <2>3. \A i \in DOMAIN results : results[i] = "OK" => batch[i] \in Measured
    BY <1>4 DEF BatchReturned, AnswersOK, Measured, TypeOK
  <2> QED
    BY <1>4, <2>1, <2>2, <2>3
    DEF BatchReturned, engine, Contract!Answer, phase, Asked, Answered, Measured, TypeOK
<1>5. ASSUME RoundDone PROVE Contract!Take
  <2>1. Measured' = Measured BY <1>5 DEF RoundDone, Measured
  <2>2. reason = "NONE" BY <1>5 DEF RoundDone, PhaseOK, Working
  <2> QED
    BY <1>5, <2>1, <2>2 DEF RoundDone, Contract!Take, phase, Asked, Answered, Measured
<1>6. ASSUME CannotStart \/ SubmitRefused \/ InterruptCollect \/ Interrupt PROVE Contract!Raise
  <2>1. Measured' = Measured
    <3>1. ~(Worker \/ WorkerDies)
      BY <1>6
      DEF CannotStart, SubmitRefused, InterruptCollect, Collecting, Interrupt, Worker,
          StartTask, DropTask, FinishTask, WorkerDies
    <3> QED BY <1>2, <3>1
  <2>2. reason = "NONE"
    BY <1>6
    DEF CannotStart, SubmitRefused, InterruptCollect, Collecting, Interrupt, PhaseOK, Working
  <2>3. reason' \in {"INTERRUPTED", "ERROR"}
    BY <1>6 DEF CannotStart, SubmitRefused, InterruptCollect, Interrupt
  <2> QED BY <2>1, <2>2, <2>3 DEF Contract!Raise, phase, Asked, Answered, Measured
<1>7. CASE \/ Propose \/ Claim \/ SearchOver \/ EnsurePool \/ Submit \/ AllSubmitted
           \/ CollectDone \/ CollectBroken \/ CollectTimeout \/ Process
           \/ Shutdown \/ Finalise \/ Ended \/ UNCHANGED vars
  <2>1. UNCHANGED <<phase, Asked, Answered>>
    BY <1>7
    DEF Propose, Claim, SearchOver, EnsurePool, Submit, AllSubmitted, CollectDone,
        CollectBroken, CollectTimeout, Collecting, Collect, Process, Shutdown, Finalise,
        Ended, vars, engine, phase, Asked, Answered, PhaseOK, Working
  <2>2. CASE ~(Worker \/ WorkerDies) BY <1>2, <2>1, <2>2
  <2> QED BY <1>1, <2>2
<1> QED BY <1>1, <1>3, <1>4, <1>5, <1>6, <1>7
        DEF Next, Parent, Contract!Next, Asked, Answered, Measured

\* The engine gets one answer per task, in the order of the tasks, and a
\* success only for a task that a worker has measured, whatever the workers,
\* timeouts and interrupts do (run_batch).
THEOREM PoolKeepsContract == Spec => KeepsContract
<1>1. Init => Contract!Init BY DEF Init, Contract!Init, phase
<1>2. IInv /\ [Next]_vars => [Contract!Next]_<<phase, Asked, Answered, Measured>>
  BY ContractStep
<1> QED BY <1>1, <1>2, Invariance, PTL
        DEF Spec, KeepsContract, Contract!Spec, Asked, Answered, Measured
=============================================================================
