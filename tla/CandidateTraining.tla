------------------------- MODULE CandidateTraining -------------------------
(***************************************************************************)
(* The evaluation of one candidate at one budget: Trainer.fit inside       *)
(* CandidateEvaluator.evaluate, attempt after attempt, around one training *)
(* checkpoint file (training/, evaluation/evaluator.py).                   *)
(*                                                                         *)
(* Weights are abstracted to the validation score they measure.  An epoch  *)
(* of training is one step, since what it does before it ends is lost when *)
(* it fails.  A write of the checkpoint is three: open the temporary file, *)
(* fill it, rename it.  A crash kills every running attempt.  An attempt   *)
(* whose future timed out in the parent keeps running beside its retry     *)
(* (ProcessPool).                                                          *)
(***************************************************************************)
EXTENDS Integers, Sequences

CONSTANTS
    Epochs,         \* TrainingBudget.epochs
    StepsPerEpoch,  \* len(loaders.train)
    Scores,         \* validation accuracies
    MaxAttempts,    \* BOUND: attempts of the candidate, retries and resumes
    AllSettings,    \* the settings a behaviour may choose from
    MayCrash,       \* whether the process may die
    MayOverlap      \* whether a parent may give up on a running attempt

ASSUME EpochsAssumption == Epochs \in Nat \ {0} /\ StepsPerEpoch \in Nat \ {0}

ASSUME ScoresAssumption == Scores \subseteq Nat /\ Scores # {}

ASSUME AttemptsAssumption == MaxAttempts \in Nat \ {0}

Settings == [patience : Nat, delta : Nat, every : Nat,
             restore : BOOLEAN, save : BOOLEAN, limited : BOOLEAN]

ASSUME SettingsAssumption == AllSettings \subseteq Settings

VARIABLES
    settings,   \* TrainingSettings and EvaluationSettings of the search
    att,        \* the trainer of every attempt
    temp,       \* the file .training_<key>.pt.tmp
    file,       \* the file training_<key>.pt
    weights,    \* the file weights_<key>.pt
    overlapped  \* whether an attempt was ever given up while it ran

vars == <<settings, att, temp, file, weights, overlapped>>

Attempts == 1..MaxAttempts

NoScore == -1

\* No file of that name.
NoFile == [inode |-> FALSE]

Stopper == [best : Scores \cup {NoScore}, bestEpoch : -1..(Epochs - 1), stale : 0..Epochs]

Checkpoint == [epoch : 0..Epochs, step : 0..(Epochs * StepsPerEpoch),
               model : Scores \cup {NoScore}, stop : Stopper, hist : Seq(Scores)]

(***************************************************************************)
(* Early stopping                                                          *)
(***************************************************************************)

FreshStopper == [best |-> NoScore, bestEpoch |-> -1, stale |-> 0]

Improves(s, score) == s.best = NoScore \/ score > s.best + settings.delta

\* Variant: an improvement does not reset the counter.
UpdatedKeeping(s, score, epoch) ==
    IF Improves(s, score)
    THEN [best |-> score, bestEpoch |-> epoch, stale |-> s.stale]
    ELSE [s EXCEPT !.stale = @ + 1]

Updated(s, score, epoch) ==
    IF Improves(s, score)
    THEN [best |-> score, bestEpoch |-> epoch, stale |-> 0]
    ELSE [s EXCEPT !.stale = @ + 1]

ShouldStop(s) == settings.patience > 0 /\ s.stale >= settings.patience

\* A best epoch of 0 is false, and comes back as -1.
LoadedStopper(s) == [s EXCEPT !.bestEpoch = IF @ = 0 THEN -1 ELSE @]

(***************************************************************************)
(* What an attempt holds in memory                                         *)
(***************************************************************************)

NoOutcome == [acc |-> NoScore, bestEpoch |-> -1, epochs |-> 0]

Idle == [pc |-> "idle", epoch |-> 0, step |-> 0, model |-> NoScore,
         stop |-> FreshStopper, hist |-> << >>, kept |-> NoScore, seen |-> NoScore,
         closing |-> FALSE, resumed |-> FALSE, out |-> NoOutcome, given |-> FALSE]

Running == {"loop", "open", "fill", "rename", "measure", "export"}

\* Failures that another attempt follows, and failures that end the candidate.
Retriable == {"TIMEOUT", "TRAINING", "RESOURCE"}

Permanent == {"DIVERGED", "CHECKPOINT"}

Snapshot(m) == [epoch |-> m.epoch, step |-> m.step, model |-> m.model,
                stop |-> m.stop, hist |-> m.hist]

\* Variant: the score of the last epoch, whatever was restored.
OutcomeOfLast(m) == [acc |-> IF m.hist = << >> THEN m.model ELSE m.hist[Len(m.hist)],
                     bestEpoch |-> IF m.stop.bestEpoch >= 0 THEN m.stop.bestEpoch ELSE 0,
                     epochs |-> m.epoch]

\* best_validation is None when this attempt saw no improvement: the weights
\* it ends with are measured instead.
Outcome(m) == [acc |-> IF m.seen # NoScore THEN m.seen ELSE m.model,
               bestEpoch |-> IF m.stop.bestEpoch >= 0 THEN m.stop.bestEpoch ELSE 0,
               epochs |-> m.epoch]

\* After the loop: restore the best weights seen by this attempt, write the
\* final checkpoint, build the outcome.
Finished(m) ==
    LET r == IF settings.restore /\ m.kept # NoScore THEN [m EXCEPT !.model = m.kept] ELSE m
    IN  IF settings.save THEN [r EXCEPT !.closing = TRUE, !.pc = "open"]
        ELSE [r EXCEPT !.out = Outcome(r), !.pc = "measure"]

AtLoop(m) == IF m.epoch < Epochs THEN [m EXCEPT !.pc = "loop"] ELSE Finished(m)

Restored(ck) ==
    [Idle EXCEPT !.epoch = ck.epoch, !.step = ck.step, !.model = ck.model,
                 !.stop = LoadedStopper(ck.stop), !.hist = ck.hist, !.resumed = TRUE]

(***************************************************************************)
(* The files                                                               *)
(***************************************************************************)

\* An inode: the attempts that have it open for writing, and whether its bytes
\* are those of one whole checkpoint.
Whole(f) == f.inode /\ f.open = {} /\ ~f.mixed

Opened(f, a) ==
    IF f.inode /\ f.open # {}
    THEN [f EXCEPT !.open = @ \cup {a}, !.mixed = TRUE]
    ELSE [inode |-> TRUE, ck |-> Snapshot(att[a]), open |-> {a}, mixed |-> FALSE]

Filled(f, a) == IF f.inode THEN [f EXCEPT !.open = @ \ {a}] ELSE f

\* A write that stops half-way.
Truncated(f, a) ==
    IF f.inode /\ a \in f.open THEN [f EXCEPT !.open = @ \ {a}, !.mixed = TRUE] ELSE f

\* The bytes an attempt had not written are never written.
Abandoned(f) ==
    IF f.inode /\ f.open # {} THEN [f EXCEPT !.open = {}, !.mixed = TRUE] ELSE f

Init ==
    /\ settings \in AllSettings
    /\ att = [a \in Attempts |-> Idle]
    /\ temp = NoFile
    /\ file = NoFile
    /\ weights = NoScore
    /\ overlapped = FALSE

-----------------------------------------------------------------------------
(***************************************************************************)
(* Steps of attempt a                                                      *)
(***************************************************************************)

Set(a, m) == att' = [att EXCEPT ![a] = m]

\* What a failed or killed attempt had in memory is gone.
Gone(m, kind) == [Idle EXCEPT !.pc = kind, !.given = m.given]

Fail(a, kind) == Set(a, Gone(att[a], kind))

\* Whether the candidate is given another attempt: after a retriable failure,
\* after a crash (recover_interrupted), or beside one that was given up.
MayFollow(m) == m.pc \in Retriable \cup {"KILLED"} \/ m.given

\* fit, up to its loop: a checkpoint that exists is loaded or the attempt fails.
Start(a) ==
    /\ att[a].pc = "idle"
    /\ a > 1 => MayFollow(att[a - 1])
    /\ IF ~(settings.save /\ file.inode) THEN Set(a, AtLoop(Idle))
       ELSE IF Whole(file) THEN Set(a, AtLoop(Restored(file.ck)))
       ELSE Fail(a, "CHECKPOINT")
    /\ UNCHANGED <<settings, temp, file, weights, overlapped>>

\* The attempt after an epoch: the checkpoint of the epoch comes before the
\* tests that may end the loop.
DueCheckpoint(m) ==
    settings.save /\ settings.every > 0 /\ m.epoch % settings.every = 0

AfterEpoch(m) == IF ShouldStop(m.stop) THEN Finished(m) ELSE AtLoop(m)

\* One pass over the training data, validation, and what early stopping makes
\* of the score.
Trained(m) == [m EXCEPT !.epoch = @ + 1, !.step = @ + StepsPerEpoch]

Validated(m, score) == [m EXCEPT !.model = score, !.hist = Append(@, score)]

Judged(m, score, epoch) ==
    LET gain == Improves(m.stop, score) IN
    [m EXCEPT !.stop = Updated(m.stop, score, epoch),
              !.seen = IF gain THEN score ELSE @,
              !.kept = IF gain /\ settings.restore THEN score ELSE @]

TrainEpoch(a) ==
    /\ att[a].pc = "loop"
    /\ \E score \in Scores :
         LET m == Judged(Validated(Trained(att[a]), score), score, att[a].epoch)
         IN  Set(a, IF DueCheckpoint(m) THEN [m EXCEPT !.pc = "open"] ELSE AfterEpoch(m))
    /\ UNCHANGED <<settings, temp, file, weights, overlapped>>

\* A non-finite loss, an error of a step, or the deadline; the deadline is also
\* tested after the last epoch.
FailEpoch(a) ==
    /\ att[a].pc = "loop"
    /\ \E kind \in {"DIVERGED", "TRAINING"} \cup (IF settings.limited THEN {"TIMEOUT"} ELSE {}) :
         Fail(a, kind)
    /\ UNCHANGED <<settings, temp, file, weights, overlapped>>

\* Variant: the checkpoint is written in place.
OpenInPlace(a) ==
    /\ att[a].pc = "open"
    /\ file' = Opened(file, a)
    /\ att' = [att EXCEPT ![a].pc = "fill"]
    /\ UNCHANGED <<settings, temp, weights, overlapped>>

OpenTemp(a) ==
    /\ att[a].pc = "open"
    /\ temp' = Opened(temp, a)
    /\ att' = [att EXCEPT ![a].pc = "fill"]
    /\ UNCHANGED <<settings, file, weights, overlapped>>

\* torch.save ends, or runs out of disk.
FillTemp(a) ==
    /\ att[a].pc = "fill"
    /\ \/ /\ temp' = Filled(temp, a)
          /\ file' = Filled(file, a)
          /\ att' = [att EXCEPT ![a].pc = "rename"]
       \/ /\ temp' = Truncated(temp, a)
          /\ file' = Truncated(file, a)
          /\ Fail(a, "CHECKPOINT")
    /\ UNCHANGED <<settings, weights, overlapped>>

\* Variant: a missing temporary file is waited for.
RenameWaiting(a) ==
    /\ att[a].pc = "rename"
    /\ temp.inode
    /\ file' = temp
    /\ temp' = NoFile
    /\ LET m == att[a] IN
       Set(a, IF m.closing THEN [m EXCEPT !.out = Outcome(m), !.pc = "measure"] ELSE AfterEpoch(m))
    /\ UNCHANGED <<settings, weights, overlapped>>

\* os.replace; without a temporary file it raises.
RenameTemp(a) ==
    /\ att[a].pc = "rename"
    /\ IF temp.inode
       THEN LET m == att[a] IN
            /\ file' = temp
            /\ temp' = NoFile
            /\ \/ Set(a, IF m.closing THEN [m EXCEPT !.out = Outcome(m), !.pc = "measure"]
                       ELSE AfterEpoch(m))
               \/ settings.limited /\ ~m.closing /\ ~ShouldStop(m.stop) /\ Fail(a, "TIMEOUT")
       ELSE Fail(a, "CHECKPOINT") /\ UNCHANGED <<temp, file>>
    /\ UNCHANGED <<settings, weights, overlapped>>

\* Latency and size; out of memory is retriable.
Measure(a) ==
    /\ att[a].pc = "measure"
    /\ \/ att' = [att EXCEPT ![a].pc = "export"]
       \/ Fail(a, "RESOURCE")
    /\ UNCHANGED <<settings, temp, file, weights, overlapped>>

\* save_model_weights, and the successful EvaluationResult.
Export(a) ==
    /\ att[a].pc = "export"
    /\ weights' = att[a].model
    /\ att' = [att EXCEPT ![a].pc = "DONE"]
    /\ UNCHANGED <<settings, temp, file, overlapped>>

-----------------------------------------------------------------------------
(***************************************************************************)
(* What happens to the process                                             *)
(***************************************************************************)

\* The parent's wait for the future times out; the worker goes on.
GiveUp(a) ==
    /\ MayOverlap
    /\ settings.limited
    /\ att[a].pc \in Running
    /\ ~att[a].given
    /\ att' = [att EXCEPT ![a].given = TRUE]
    /\ overlapped' = TRUE
    /\ UNCHANGED <<settings, temp, file, weights>>

Crash ==
    /\ MayCrash
    /\ \E a \in Attempts : att[a].pc \in Running
    /\ att' = [a \in Attempts |-> IF att[a].pc \in Running
                                 THEN Gone(att[a], "KILLED") ELSE att[a]]
    /\ temp' = Abandoned(temp)
    /\ file' = Abandoned(file)
    /\ UNCHANGED <<settings, weights, overlapped>>

Step(a) ==
    \/ TrainEpoch(a)
    \/ FailEpoch(a)
    \/ OpenTemp(a)
    \/ FillTemp(a)
    \/ RenameTemp(a)
    \/ Measure(a)
    \/ Export(a)

Next ==
    \/ \E a \in Attempts : Start(a) \/ Step(a) \/ GiveUp(a)
    \/ Crash

Spec == Init /\ [][Next]_vars

\* A process that is not dead runs.
FairSpec == Spec /\ \A a \in Attempts : WF_vars(Step(a))

-----------------------------------------------------------------------------
Ended == Retriable \cup Permanent \cup {"DONE", "KILLED"}

ReportedEpoch(s) == IF s.bestEpoch >= 0 THEN s.bestEpoch ELSE 0

\* The counters of early stopping tell the history they stand next to: the
\* best score is that of the reported epoch, nothing later beats it by more
\* than min_delta, and the epochs since then are counted.
TellsHistory(s, hist) ==
    hist # << >> =>
        LET b == ReportedEpoch(s) + 1 IN
        /\ b <= Len(hist)
        /\ s.best = hist[b]
        /\ \A i \in 1..Len(hist) : hist[i] <= s.best + settings.delta
        /\ s.stale = Len(hist) - b

\* A trajectory: history, epoch and optimiser steps are those of one run.
OneTrajectory(m) == Len(m.hist) = m.epoch /\ m.step = m.epoch * StepsPerEpoch

\* Whatever was resumed from whatever checkpoint, an attempt continues one
\* run: its epochs, steps and history are those of an uninterrupted one
\* (trainer.py:590-625), early stopping is what it would be had the run not
\* stopped, although a best epoch of 0 is loaded as -1 (early_stopping.py:150,
\* trainer.py:723), at most patience epochs follow the best and one more for
\* every resume of a stopped run (trainer.py:677); and every checkpoint that
\* would be accepted can be continued in the same way.
ContinuesOneRun ==
    /\ \A a \in Attempts :
         /\ OneTrajectory(att[a])
         /\ TellsHistory(att[a].stop, att[a].hist)
         /\ settings.patience > 0 => att[a].stop.stale <= settings.patience + a - 1
    /\ Whole(file) => OneTrajectory(file.ck) /\ TellsHistory(file.ck.stop, file.ck.hist)

\* A process that dies leaves the previous checkpoint or the new one; only two
\* attempts at once can leave a file that does not load (checkpointing.py:126).
TornOnlyByTwins == file.inode /\ ~Whole(file) => overlapped

\* The accuracy of the accepted result is that of the weights on disk, also
\* when the attempt trained no epoch at all, unless an attempt that was given up
\* ended and wrote its own over them (trainer.py:690-714, evaluator.py:501).
WeightsAreTheResult ==
    \A a \in Attempts :
        settings.restore /\ att[a].pc = "DONE" /\ ~att[a].given
            => weights = att[a].out.acc \/ \E b \in Attempts : att[b].given /\ att[b].pc = "DONE"

\* An attempt that trained from epoch 0 reports an accuracy that no epoch
\* beats by more than min_delta, at the epoch that has it (trainer.py:643, 723).
FreshReportsBest ==
    \A a \in Attempts :
        LET m == att[a] IN
        m.pc = "DONE" /\ ~m.resumed =>
            /\ m.out.acc = m.hist[m.out.bestEpoch + 1]
            /\ \A i \in 1..Len(m.hist) : m.hist[i] <= m.out.acc + settings.delta

\* An attempt that runs ends, whatever its twin does to the file they share.
AttemptsEnd == \A a \in Attempts : att[a].pc \in Running ~> att[a].pc \in Ended

\* training-and-evaluation.md:294, early_stopping.py:16: the accuracy reported
\* is that of the best epoch.
ReportsBestEpoch ==
    \A a \in Attempts :
        settings.restore /\ att[a].pc = "DONE"
            => att[a].out.acc = att[a].hist[att[a].out.bestEpoch + 1]
=============================================================================
