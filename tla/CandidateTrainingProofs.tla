---------------------- MODULE CandidateTrainingProofs ----------------------
(***************************************************************************)
(* What TLAPS proves of CandidateTraining, for every number of epochs and  *)
(* attempts, every set of scores and every setting of early stopping and   *)
(* checkpoints: a chain of attempts continues one training run, only twins *)
(* tear a checkpoint, and the result is that of the weights on disk.       *)
(*                                                                         *)
(* What an attempt holds is one record, so the invariant is mostly a       *)
(* predicate of that record: Sound says what its fields tell of each       *)
(* other, Placed what they are worth at each line of fit.  What attempts   *)
(* have to do with each other is InOrder (a new one starts only beside an  *)
(* attempt that failed, died or was given up) and FilesOK, AloneOK (who    *)
(* has the two files open).                                                *)
(***************************************************************************)
EXTENDS CandidateTraining, TLAPS, SequenceTheorems

Values == Scores \cup {NoScore}

Outcomes == [acc : Values, bestEpoch : -1..(Epochs - 1), epochs : 0..Epochs]

Memories ==
    [pc : {"idle"} \cup Running \cup Ended, epoch : 0..Epochs, step : Nat,
     model : Values, stop : Stopper, hist : Seq(Scores), kept : Values,
     seen : Values, closing : BOOLEAN, resumed : BOOLEAN, out : Outcomes,
     given : BOOLEAN]

Files == {NoFile} \cup
    [inode : {TRUE}, ck : Checkpoint, open : SUBSET Attempts, mixed : BOOLEAN]

TypeOK ==
    /\ settings \in Settings
    /\ att \in [Attempts -> Memories]
    /\ temp \in Files
    /\ file \in Files
    /\ weights \in Values
    /\ overlapped \in BOOLEAN

(***************************************************************************)
(* One attempt                                                             *)
(***************************************************************************)
\* A history with the counters that belong to it, in memory or in a file.
Coherent(r) ==
    /\ OneTrajectory(r)
    /\ TellsHistory(r.stop, r.hist)
    /\ r.hist = << >> => r.stop.best = NoScore /\ r.stop.stale = 0

\* The weights kept for restoring are those of the best score this attempt saw,
\* which is the best there is unless it was resumed.
Sound(m) ==
    /\ Coherent(m)
    /\ settings.restore => m.kept = m.seen
    /\ ~m.resumed => m.seen = m.stop.best

Measured == {"measure", "export", "DONE"}

Placed(m) ==
    /\ m.pc = "loop" => m.epoch < Epochs /\ ~m.closing
    /\ m.pc \in {"open", "fill", "rename"} \cup Measured => m.hist # << >>
    /\ (m.closing \/ m.pc \in Measured) /\ settings.restore /\ m.kept # NoScore
          => m.model = m.kept
    /\ m.pc \in Measured => m.out = Outcome(m)
    /\ m.given => m.pc # "idle"

\* Early stopping lets an attempt pass patience by one epoch for each attempt
\* before it.
Patient(a, m) ==
    settings.patience > 0 =>
        /\ m.stop.stale <= settings.patience + a - 1
        /\ m.pc \in {"idle", "loop"} => m.stop.stale <= settings.patience + a - 2
        /\ m.pc = "idle" => m.stop.stale = 0

AttemptsOK ==
    \A a \in Attempts : Sound(att[a]) /\ Placed(att[a]) /\ Patient(a, att[a])

(***************************************************************************)
(* All of them                                                             *)
(***************************************************************************)
\* Attempts start in order, each beside or after one that makes room for it.
InOrder ==
    \A a, b \in Attempts :
        b > a /\ att[b].pc # "idle" =>
            att[a].pc # "idle" /\ MayFollow(att[a])

\* What a file holds can be continued by whoever has not started yet.
Waiting == {a \in Attempts : att[a].pc = "idle"}

Continues(f, waiting) ==
    f.inode =>
        /\ Coherent(f.ck)
        /\ f.ck.hist # << >>
        /\ settings.patience > 0 =>
              \A a \in waiting : f.ck.stop.stale <= settings.patience + a - 2

FilesOK == Continues(temp, Waiting) /\ Continues(file, Waiting)

\* Nobody was given up: the one attempt that runs has the temporary file to
\* itself, and the checkpoint is whole.
AloneOK ==
    ~overlapped =>
        /\ \A a \in Attempts : ~att[a].given
        /\ file.inode => Whole(file)
        /\ \A a \in Attempts : att[a].pc = "fill" =>
              temp.inode /\ temp.open = {a} /\ ~temp.mixed
        /\ \A a \in Attempts : att[a].pc = "rename" => Whole(temp)
        /\ temp.inode => \A a \in temp.open : att[a].pc = "fill"

IInv == TypeOK /\ AttemptsOK /\ InOrder /\ FilesOK /\ AloneOK /\ WeightsAreTheResult

-----------------------------------------------------------------------------
(***************************************************************************)
(* The operators on one attempt's record keep it sound.                    *)
(***************************************************************************)
\* Steps never outrun epochs.
LEMMA StepsBounded ==
    ASSUME NEW e \in 0..Epochs
    PROVE  e * StepsPerEpoch \in 0..(Epochs * StepsPerEpoch)
BY EpochsAssumption

\* What reports and comparisons read is a score or the absence of one.
LEMMA OutcomeTyped ==
    ASSUME NEW m \in Memories
    PROVE  Outcome(m) \in Outcomes
BY EpochsAssumption DEF Memories, Outcome, Outcomes, Stopper

\* A record with nothing in it.
LEMMA IdleSound ==
    /\ Idle \in Memories /\ Sound(Idle)
    /\ Idle.hist = << >> /\ Idle.epoch = 0 /\ ~Idle.closing /\ Idle.kept = NoScore
    /\ Idle.stop.stale = 0 /\ ~Idle.given /\ Idle.pc = "idle"
BY EpochsAssumption
DEF Idle, Memories, Values, Stopper, FreshStopper, Outcomes, NoOutcome, Sound, Coherent,
    OneTrajectory, TellsHistory

\* What is left of an attempt that failed or was killed.
LEMMA GoneSound ==
    ASSUME NEW a \in Attempts, NEW m \in Memories, NEW kind \in Ended \ {"DONE"},
           settings \in Settings
    PROVE  /\ Gone(m, kind) \in Memories
           /\ Sound(Gone(m, kind)) /\ Placed(Gone(m, kind)) /\ Patient(a, Gone(m, kind))
           /\ Gone(m, kind).pc = kind /\ Gone(m, kind).given = m.given
<1> DEFINE g == Gone(m, kind)
<1>1. g = [Idle EXCEPT !.pc = kind, !.given = m.given] BY DEF Gone
<1>2. /\ g.pc = kind /\ g.given = m.given /\ g.epoch = 0 /\ g.step = 0
      /\ g.model = NoScore /\ g.stop = FreshStopper /\ g.hist = << >>
      /\ g.kept = NoScore /\ g.seen = NoScore /\ g.closing = FALSE
      /\ g.resumed = FALSE /\ g.out = NoOutcome
  BY <1>1 DEF Idle
<1>3. g \in Memories
  BY <1>1, IdleSound DEF Memories, Idle
<1>4. Sound(g)
  BY <1>2, EpochsAssumption
  DEF Sound, Coherent, OneTrajectory, TellsHistory, FreshStopper
<1>5. kind \notin {"idle", "loop", "open", "fill", "rename"} \cup Measured
  BY DEF Ended, Retriable, Permanent, Measured
<1> HIDE DEF g
<1>6. Placed(g) BY <1>2, <1>5 DEF Placed
<1>7. Patient(a, g)
  <2>1. a \in Nat /\ a >= 1 /\ settings.patience \in Nat BY AttemptsAssumption DEF Attempts, Settings
  <2> QED BY <1>2, <1>5, <2>1 DEF Patient, FreshStopper
<1> QED BY <1>2, <1>3, <1>4, <1>6, <1>7 DEF g

\* Restoring the best weights and turning to the last checkpoint or to the
\* outcome.
LEMMA FinishedSound ==
    ASSUME NEW m \in Memories, Sound(m), m.hist # << >>, ~m.closing,
           m.given => m.pc # "idle", settings \in Settings
    PROVE  /\ Finished(m) \in Memories
           /\ Sound(Finished(m)) /\ Placed(Finished(m))
           /\ Finished(m).pc \in {"open", "measure"}
           /\ Finished(m).stop = m.stop /\ Finished(m).given = m.given
<1> DEFINE r == IF settings.restore /\ m.kept # NoScore THEN [m EXCEPT !.model = m.kept] ELSE m
<1>1. /\ r \in Memories
      /\ r.pc = m.pc /\ r.epoch = m.epoch /\ r.step = m.step /\ r.stop = m.stop
      /\ r.hist = m.hist /\ r.kept = m.kept /\ r.seen = m.seen /\ r.closing = m.closing
      /\ r.resumed = m.resumed /\ r.given = m.given
      /\ settings.restore /\ m.kept # NoScore => r.model = m.kept
  BY DEF Memories
<1>2. Outcome(r) \in Outcomes BY <1>1, OutcomeTyped
<1>3. Finished(m) = IF settings.save THEN [r EXCEPT !.closing = TRUE, !.pc = "open"]
                    ELSE [r EXCEPT !.out = Outcome(r), !.pc = "measure"]
  BY DEF Finished
<1> DEFINE f == Finished(m)
<1> HIDE DEF r
<1>4. CASE settings.save
  <2>1. f = [r EXCEPT !.closing = TRUE, !.pc = "open"] BY <1>3, <1>4
  <2> HIDE DEF f
  <2>2. /\ f \in Memories /\ f.pc = "open" /\ f.epoch = r.epoch /\ f.step = r.step
        /\ f.stop = r.stop /\ f.hist = r.hist /\ f.kept = r.kept /\ f.seen = r.seen
        /\ f.resumed = r.resumed /\ f.given = r.given /\ f.model = r.model
    BY <1>1, <2>1 DEF Memories, Running
  <2>3. Sound(f) BY <1>1, <2>2 DEF Sound, Coherent, OneTrajectory, TellsHistory
  <2>4. Placed(f) BY <1>1, <2>2 DEF Placed, Measured
  <2> QED BY <1>1, <2>2, <2>3, <2>4 DEF f
<1>5. CASE ~settings.save
  <2>1. f = [r EXCEPT !.out = Outcome(r), !.pc = "measure"] BY <1>3, <1>5
  <2> HIDE DEF f
  <2>2. /\ f \in Memories /\ f.pc = "measure" /\ f.epoch = r.epoch /\ f.step = r.step
        /\ f.stop = r.stop /\ f.hist = r.hist /\ f.kept = r.kept /\ f.seen = r.seen
        /\ f.resumed = r.resumed /\ f.given = r.given /\ f.model = r.model
        /\ f.out = Outcome(r) /\ f.closing = r.closing
    BY <1>1, <1>2, <2>1 DEF Memories, Running
  <2>3. Sound(f) BY <1>1, <2>2 DEF Sound, Coherent, OneTrajectory, TellsHistory
  <2>4. Outcome(f) = Outcome(r) BY <2>2 DEF Outcome
  <2>5. Placed(f) BY <1>1, <2>2, <2>4 DEF Placed, Measured
  <2> QED BY <1>1, <2>2, <2>3, <2>5 DEF f
<1> QED BY <1>4, <1>5

\* Entering the loop, or passing it by when no epoch is left.
LEMMA AtLoopSound ==
    ASSUME NEW m \in Memories, Sound(m), m.epoch > 0 => m.hist # << >>, ~m.closing,
           m.pc \notin Measured, m.given => m.pc # "idle", settings \in Settings
    PROVE  /\ AtLoop(m) \in Memories
           /\ Sound(AtLoop(m)) /\ Placed(AtLoop(m))
           /\ AtLoop(m).pc \in {"loop", "open", "measure"}
           /\ AtLoop(m).stop = m.stop /\ AtLoop(m).given = m.given
<1>1. m.epoch \in Nat BY DEF Memories
<1>2. CASE m.epoch < Epochs
  <2> DEFINE l == AtLoop(m)
  <2>1. l = [m EXCEPT !.pc = "loop"] BY <1>2 DEF AtLoop
  <2> HIDE DEF l
  <2>2. /\ l \in Memories /\ l.pc = "loop" /\ l.epoch = m.epoch /\ l.step = m.step
        /\ l.stop = m.stop /\ l.hist = m.hist /\ l.kept = m.kept /\ l.seen = m.seen
        /\ l.resumed = m.resumed /\ l.given = m.given /\ l.closing = m.closing
    BY <2>1 DEF Memories, Running
  <2>3. Sound(l) BY <2>2 DEF Sound, Coherent, OneTrajectory, TellsHistory
  <2>4. Placed(l) BY <1>2, <2>2 DEF Placed, Measured
  <2> QED BY <2>2, <2>3, <2>4 DEF l
<1>3. CASE ~(m.epoch < Epochs)
  <2>1. AtLoop(m) = Finished(m) BY <1>3 DEF AtLoop
  <2>2. m.hist # << >> BY <1>1, <1>3, EpochsAssumption
  <2> QED BY <2>1, <2>2, FinishedSound
<1> QED BY <1>2, <1>3

\* A checkpoint is continued with the early stopping it was written with: the
\* best epoch 0 that is loaded as -1 is reported as 0 again.
LEMMA RestoredSound ==
    ASSUME NEW ck \in Checkpoint, Coherent(ck), ck.hist # << >>
    PROVE  LET m == Restored(ck) IN
           /\ m \in Memories /\ Sound(m) /\ m.hist # << >> /\ ~m.closing
           /\ m.pc = "idle" /\ ~m.given /\ m.stop.stale = ck.stop.stale
<1> DEFINE m == Restored(ck)
           s == LoadedStopper(ck.stop)
<1>1. /\ s \in Stopper /\ s.best = ck.stop.best /\ s.stale = ck.stop.stale
      /\ ReportedEpoch(s) = ReportedEpoch(ck.stop)
  <2>1. ck.stop \in Stopper BY DEF Checkpoint
  <2>2. s = [ck.stop EXCEPT !.bestEpoch =
                 IF ck.stop.bestEpoch = 0 THEN -1 ELSE ck.stop.bestEpoch]
    BY DEF LoadedStopper
  <2> HIDE DEF s
  <2>3. s \in Stopper /\ s.best = ck.stop.best /\ s.stale = ck.stop.stale
    BY <2>1, <2>2, EpochsAssumption DEF Stopper
  <2>4. s.bestEpoch = IF ck.stop.bestEpoch = 0 THEN -1 ELSE ck.stop.bestEpoch
    BY <2>1, <2>2 DEF Stopper
  <2>5. ReportedEpoch(s) = ReportedEpoch(ck.stop)
    BY <2>1, <2>4 DEF ReportedEpoch, Stopper
  <2> QED BY <2>3, <2>5
<1>2. m = [Idle EXCEPT !.epoch = ck.epoch, !.step = ck.step, !.model = ck.model,
                       !.stop = s, !.hist = ck.hist, !.resumed = TRUE]
  BY DEF Restored
<1> HIDE DEF m, s
<1>3. /\ m.pc = "idle" /\ m.epoch = ck.epoch /\ m.step = ck.step /\ m.model = ck.model
      /\ m.stop = s /\ m.hist = ck.hist /\ m.kept = NoScore /\ m.seen = NoScore
      /\ m.closing = FALSE /\ m.resumed = TRUE /\ m.out = NoOutcome /\ m.given = FALSE
  BY <1>2 DEF Idle
<1>4. m \in Memories
  <2>1. ck.step \in Nat BY EpochsAssumption DEF Checkpoint
  <2>2. /\ ck.epoch \in 0..Epochs /\ ck.model \in Values /\ ck.hist \in Seq(Scores)
    BY DEF Checkpoint, Values
  <2> QED BY <1>1, <1>2, <2>1, <2>2, IdleSound DEF Memories, Idle
<1>5. Sound(m)
  <2>1. OneTrajectory(m) BY <1>3 DEF Coherent, OneTrajectory
  <2>2. TellsHistory(m.stop, m.hist) BY <1>1, <1>3 DEF Coherent, TellsHistory
  <2> QED BY <1>3, <2>1, <2>2 DEF Sound, Coherent
<1> QED BY <1>1, <1>3, <1>4, <1>5 DEF m

\* Early stopping is told of one more score.
LEMMA UpdatedTells ==
    ASSUME NEW s \in Stopper, NEW hist \in Seq(Scores), NEW score \in Scores,
           settings \in Settings, Len(hist) < Epochs, TellsHistory(s, hist),
           hist = << >> => s.best = NoScore /\ s.stale = 0
    PROVE  LET u == Updated(s, score, Len(hist)) IN
           /\ u \in Stopper
           /\ TellsHistory(u, Append(hist, score))
           /\ u.best = IF Improves(s, score) THEN score ELSE s.best
           /\ u.stale = IF Improves(s, score) THEN 0 ELSE s.stale + 1
<1> DEFINE u == Updated(s, score, Len(hist))
           longer == Append(hist, score)
<1>1. /\ score \in Nat /\ settings.delta \in Nat /\ Len(hist) \in 0..(Epochs - 1)
      /\ s.best \in Scores \cup {NoScore} /\ s.bestEpoch \in -1..(Epochs - 1)
      /\ s.stale \in 0..Epochs
  BY ScoresAssumption, EpochsAssumption DEF Settings, Stopper
<1>2. /\ Len(longer) = Len(hist) + 1 /\ longer # << >>
      /\ longer[Len(hist) + 1] = score
      /\ \A i \in 1..Len(hist) : longer[i] = hist[i] /\ hist[i] \in Nat
  <2>1. \A i \in 1..Len(hist) : hist[i] \in Nat
    <3> SUFFICES ASSUME NEW i \in 1..Len(hist) PROVE hist[i] \in Nat
      OBVIOUS
    <3>1. hist[i] \in Scores BY ElementOfSeq
    <3> QED BY <3>1, ScoresAssumption
  <2>2. /\ Len(longer) = Len(hist) + 1 /\ longer # << >>
        /\ longer[Len(hist) + 1] = score
        /\ \A i \in 1..Len(hist) : longer[i] = hist[i]
    BY AppendProperties
  <2> QED BY <2>1, <2>2
<1> HIDE DEF longer
<1>3. CASE Improves(s, score)
  <2>1. u = [best |-> score, bestEpoch |-> Len(hist), stale |-> 0]
    BY <1>3 DEF Updated
  <2> HIDE DEF u
  <2>2. u \in Stopper BY <1>1, <2>1, EpochsAssumption DEF Stopper
  <2>3. \A i \in 1..Len(hist) : hist[i] <= score + settings.delta
    <3>1. CASE hist = << >> BY <3>1
    <3>2. CASE hist # << >>
      <4>1. s.best = hist[ReportedEpoch(s) + 1] /\ ReportedEpoch(s) + 1 <= Len(hist)
            /\ \A i \in 1..Len(hist) : hist[i] <= s.best + settings.delta
        BY <3>2 DEF TellsHistory
      <4>2. ReportedEpoch(s) \in Nat BY <1>1 DEF ReportedEpoch
      <4>3. s.best \in Nat /\ s.best # NoScore BY <1>1, <1>2, <4>1, <4>2 DEF NoScore
      <4>4. score > s.best + settings.delta BY <1>3, <4>3 DEF Improves
      <4> QED BY <1>1, <1>2, <4>1, <4>3, <4>4
    <3> QED BY <3>1, <3>2
  <2>4. ReportedEpoch(u) = Len(hist) BY <1>1, <2>1 DEF ReportedEpoch
  <2>5. TellsHistory(u, longer)
    BY <1>1, <1>2, <2>1, <2>3, <2>4 DEF TellsHistory
  <2> QED BY <1>3, <2>1, <2>2, <2>5 DEF longer, u
<1>4. CASE ~Improves(s, score)
  <2>1. u = [s EXCEPT !.stale = s.stale + 1] BY <1>4 DEF Updated
  <2> HIDE DEF u
  <2>2. hist # << >> /\ s.best # NoScore /\ score <= s.best + settings.delta
    <3>1. s.best # NoScore /\ ~(score > s.best + settings.delta) BY <1>4 DEF Improves
    <3>2. s.best \in Nat BY <1>1, <3>1, ScoresAssumption
    <3> QED BY <1>1, <3>1, <3>2
  <2>3. /\ s.best = hist[ReportedEpoch(s) + 1] /\ ReportedEpoch(s) + 1 <= Len(hist)
        /\ \A i \in 1..Len(hist) : hist[i] <= s.best + settings.delta
        /\ s.stale = Len(hist) - (ReportedEpoch(s) + 1)
    BY <2>2 DEF TellsHistory
  <2>4. ReportedEpoch(s) \in Nat BY <1>1 DEF ReportedEpoch
  <2>5. u.best = s.best /\ u.bestEpoch = s.bestEpoch /\ u.stale = s.stale + 1
    BY <2>1 DEF Stopper
  <2>6. u \in Stopper
    <3>1. s.stale + 1 \in 0..Epochs BY <1>1, <2>3, <2>4, EpochsAssumption
    <3> QED BY <2>1, <3>1 DEF Stopper
  <2>7. ReportedEpoch(u) = ReportedEpoch(s) BY <2>5 DEF ReportedEpoch
  <2>8. \A i \in 1..Len(longer) : longer[i] <= u.best + settings.delta
    <3> SUFFICES ASSUME NEW i \in 1..Len(longer) PROVE longer[i] <= u.best + settings.delta
      OBVIOUS
    <3>1. CASE i = Len(hist) + 1 BY <1>2, <2>2, <2>5, <3>1
    <3>2. CASE i # Len(hist) + 1
      <4>1. i \in 1..Len(hist) BY <1>1, <1>2, <3>2
      <4> QED BY <1>2, <2>3, <2>5, <4>1
    <3> QED BY <3>1, <3>2
  <2>9. TellsHistory(u, longer)
    BY <1>1, <1>2, <2>3, <2>4, <2>5, <2>7, <2>8 DEF TellsHistory
  <2> QED BY <1>4, <2>5, <2>6, <2>9 DEF longer, u
<1> QED BY <1>3, <1>4

\* One epoch, and what early stopping makes of its score.
LEMMA JudgedSound ==
    ASSUME NEW a \in Attempts, NEW m \in Memories, NEW score \in Scores,
           Sound(m), Placed(m), Patient(a, m), m.pc = "loop", settings \in Settings
    PROVE  LET j == Judged(Validated(Trained(m), score), score, m.epoch) IN
           /\ j \in Memories /\ Sound(j) /\ j.pc = "loop"
           /\ j.hist # << >> /\ ~j.closing /\ j.given = m.given
           /\ settings.patience > 0 => j.stop.stale <= settings.patience + a - 1
<1> DEFINE v == Validated(Trained(m), score)
           j == Judged(v, score, m.epoch)
           u == Updated(m.stop, score, m.epoch)
           gain == Improves(m.stop, score)
<1>1. /\ m.epoch \in 0..(Epochs - 1) /\ ~m.closing
      /\ m.step \in Nat /\ m.step = m.epoch * StepsPerEpoch
      /\ m.hist \in Seq(Scores) /\ Len(m.hist) = m.epoch
      /\ m.stop \in Stopper /\ m.stop.stale \in Nat
      /\ TellsHistory(m.stop, m.hist)
      /\ m.hist = << >> => m.stop.best = NoScore /\ m.stop.stale = 0
  BY EpochsAssumption
  DEF Placed, Sound, Coherent, OneTrajectory, Memories, Stopper
<1>2. /\ v \in Memories /\ v.pc = "loop" /\ v.epoch = m.epoch + 1
      /\ v.step = m.step + StepsPerEpoch /\ v.model = score /\ v.stop = m.stop
      /\ v.hist = Append(m.hist, score) /\ v.kept = m.kept /\ v.seen = m.seen
      /\ v.closing = m.closing /\ v.resumed = m.resumed /\ v.out = m.out
      /\ v.given = m.given
  <2> DEFINE t == Trained(m)
  <2>1. t = [m EXCEPT !.epoch = m.epoch + 1, !.step = m.step + StepsPerEpoch]
    BY DEF Trained
  <2>0. m.epoch + 1 \in 0..Epochs /\ m.step + StepsPerEpoch \in Nat
    BY <1>1, EpochsAssumption
  <2> HIDE DEF t, v, u, gain, j
  <2>2. /\ t \in Memories /\ t.pc = "loop" /\ t.epoch = m.epoch + 1
        /\ t.step = m.step + StepsPerEpoch /\ t.stop = m.stop
        /\ t.hist = m.hist /\ t.kept = m.kept /\ t.seen = m.seen
        /\ t.closing = m.closing /\ t.resumed = m.resumed /\ t.out = m.out
        /\ t.given = m.given
    BY <2>0, <2>1 DEF Memories
  <2>3. v = [t EXCEPT !.model = score, !.hist = Append(t.hist, score)]
    BY DEF Validated, t, v
  <2>4. Append(t.hist, score) \in Seq(Scores) BY <1>1, <2>2
  <2> QED BY <2>2, <2>3, <2>4 DEF Memories, Values
<1>3. /\ u \in Stopper /\ TellsHistory(u, Append(m.hist, score))
      /\ u.best = IF gain THEN score ELSE m.stop.best
      /\ u.stale = IF gain THEN 0 ELSE m.stop.stale + 1
  <2>1. Len(m.hist) < Epochs BY <1>1, EpochsAssumption
  <2> QED BY <1>1, <2>1, UpdatedTells
<1>4. j = [v EXCEPT !.stop = u, !.seen = IF gain THEN score ELSE v.seen,
                    !.kept = IF gain /\ settings.restore THEN score ELSE v.kept]
  BY <1>2 DEF Judged
<1> HIDE DEF v, u, gain, j
<1>5. /\ j \in Memories /\ j.pc = "loop" /\ j.epoch = m.epoch + 1
      /\ j.step = m.step + StepsPerEpoch /\ j.stop = u
      /\ j.hist = Append(m.hist, score)
      /\ j.kept = (IF gain /\ settings.restore THEN score ELSE m.kept)
      /\ j.seen = (IF gain THEN score ELSE m.seen)
      /\ j.closing = m.closing /\ j.resumed = m.resumed /\ j.given = m.given
  BY <1>2, <1>3, <1>4, ZenonT(60) DEF Memories, Values
<1>6. Len(j.hist) = m.epoch + 1 /\ j.hist # << >> BY <1>1, <1>5
<1>7. OneTrajectory(j)
  <2>1. (m.epoch + 1) * StepsPerEpoch = m.epoch * StepsPerEpoch + StepsPerEpoch
    BY <1>1, EpochsAssumption
  <2> QED BY <1>1, <1>5, <1>6, <2>1 DEF OneTrajectory
<1>8. Sound(j) BY <1>3, <1>5, <1>6, <1>7 DEF Sound, Coherent
<1>9. settings.patience > 0 => j.stop.stale <= settings.patience + a - 1
  <2>1. settings.patience \in Nat /\ a \in Nat /\ a >= 1
    BY AttemptsAssumption DEF Settings, Attempts
  <2>2. settings.patience > 0 => m.stop.stale <= settings.patience + a - 2
    BY DEF Patient
  <2> QED BY <1>1, <1>3, <1>5, <2>1, <2>2
<1> QED BY <1>1, <1>5, <1>6, <1>8, <1>9 DEF j, v

\* After an epoch and its checkpoint: the tests that end the loop.
LEMMA AfterEpochSound ==
    ASSUME NEW a \in Attempts, NEW m \in Memories, Sound(m), m.hist # << >>,
           ~m.closing, m.pc \in {"loop", "rename"}, settings \in Settings,
           settings.patience > 0 => m.stop.stale <= settings.patience + a - 1
    PROVE  LET n == AfterEpoch(m) IN
           /\ n \in Memories /\ Sound(n) /\ Placed(n) /\ Patient(a, n)
           /\ n.pc \in {"loop", "open", "measure"} /\ n.given = m.given
<1> DEFINE n == AfterEpoch(m)
<1>1. settings.patience \in Nat /\ a \in Nat /\ a >= 1 /\ m.stop.stale \in Nat
  BY AttemptsAssumption, EpochsAssumption DEF Settings, Attempts, Memories, Stopper
<1>2. CASE ShouldStop(m.stop)
  <2>1. n = Finished(m) BY <1>2 DEF AfterEpoch
  <2>2. /\ n \in Memories /\ Sound(n) /\ Placed(n) /\ n.pc \in {"open", "measure"}
        /\ n.stop = m.stop /\ n.given = m.given
    BY <2>1, FinishedSound
  <2> QED BY <2>2 DEF Patient
<1>3. CASE ~ShouldStop(m.stop)
  <2>1. n = AtLoop(m) BY <1>3 DEF AfterEpoch
  <2>2. m.pc \notin Measured BY DEF Measured
  <2>3. /\ n \in Memories /\ Sound(n) /\ Placed(n) /\ n.pc \in {"loop", "open", "measure"}
        /\ n.stop = m.stop /\ n.given = m.given
    BY <2>1, <2>2, AtLoopSound
  <2>4. settings.patience > 0 => m.stop.stale < settings.patience
    BY <1>1, <1>3 DEF ShouldStop
  <2>5. Patient(a, n) BY <1>1, <2>3, <2>4 DEF Patient
  <2> QED BY <2>3, <2>5
<1> QED BY <1>2, <1>3

-----------------------------------------------------------------------------
(***************************************************************************)
(* Each action, as what it does to the attempt that takes it.              *)
(***************************************************************************)
\* An attempt turns into one that is sound where it is.
Becomes(a, m) ==
    /\ att' = [att EXCEPT ![a] = m]
    /\ settings' = settings
    /\ m \in Memories /\ Sound(m) /\ Placed(m) /\ Patient(a, m)
    /\ m.pc # "idle"

\* Two records that differ in the line they are at, and in what only that
\* line reads.
LEMMA MovedOn ==
    ASSUME NEW a \in Attempts, NEW m \in Memories, NEW n \in Memories,
           Sound(m), Patient(a, m), m.pc \notin {"idle", "loop"},
           n.pc \notin {"idle", "loop"},
           n.epoch = m.epoch, n.step = m.step, n.stop = m.stop, n.hist = m.hist,
           n.kept = m.kept, n.seen = m.seen, n.resumed = m.resumed
    PROVE  Sound(n) /\ Patient(a, n)
BY DEF Sound, Patient, Coherent, OneTrajectory, TellsHistory

\* What the invariant says of the attempt that takes a step.
LEMMA Known ==
    ASSUME IInv, NEW a \in Attempts
    PROVE  /\ settings \in Settings
           /\ att[a] \in Memories /\ Sound(att[a]) /\ Placed(att[a]) /\ Patient(a, att[a])
           /\ a \in Nat /\ a >= 1
BY AttemptsAssumption DEF IInv, TypeOK, AttemptsOK, Attempts

\* A name with a file behind it.
LEMMA InodeTyped ==
    ASSUME NEW f \in Files, f.inode
    PROVE  f \in [inode : {TRUE}, ck : Checkpoint, open : SUBSET Attempts, mixed : BOOLEAN]
<1>1. NoFile.inode = FALSE BY DEF NoFile
<1>2. f # NoFile BY <1>1
<1> QED BY <1>2 DEF Files

LEMMA FailEffect ==
    ASSUME IInv, NEW a \in Attempts, NEW kind \in Ended \ {"DONE"}, Fail(a, kind),
           settings' = settings
    PROVE  \E m : Becomes(a, m) /\ m.pc = kind /\ m.given = att[a].given
<1> DEFINE m == Gone(att[a], kind)
<1>1. att' = [att EXCEPT ![a] = m] BY DEF Fail, Set
<1>2. /\ m \in Memories /\ Sound(m) /\ Placed(m) /\ Patient(a, m)
      /\ m.pc = kind /\ m.given = att[a].given
  BY Known, GoneSound
<1>3. kind # "idle" BY DEF Ended, Retriable, Permanent
<1> QED BY <1>1, <1>2, <1>3 DEF Becomes

LEMMA StartEffect ==
    ASSUME IInv, NEW a \in Attempts, Start(a)
    PROVE  \E m : /\ Becomes(a, m) /\ ~m.given
                  /\ m.pc \in {"loop", "open", "measure", "CHECKPOINT"}
<1> USE DEF IInv
<1>1. /\ att[a].pc = "idle" /\ ~att[a].given /\ settings' = settings
  BY Known DEF Start, Placed
<1>2. settings \in Settings /\ settings.patience \in Nat /\ a \in Nat /\ a >= 1
  BY Known DEF Settings
<1>3. CASE att' = [att EXCEPT ![a] = AtLoop(Idle)]
  <2> DEFINE m == AtLoop(Idle)
  <2>1. /\ m \in Memories /\ Sound(m) /\ Placed(m)
        /\ m.pc \in {"loop", "open", "measure"} /\ m.stop = Idle.stop /\ m.given = Idle.given
    <3>1. Idle.pc \notin Measured BY IdleSound DEF Measured
    <3> QED BY <1>2, <3>1, IdleSound, AtLoopSound
  <2> HIDE DEF m
  <2>2. m.stop.stale = 0 /\ ~m.given BY <2>1, IdleSound
  <2>3. Patient(a, m) BY <1>2, <2>1, <2>2 DEF Patient
  <2> QED BY <1>1, <1>3, <2>1, <2>2, <2>3 DEF Becomes, m
<1>4. CASE /\ file.inode
           /\ att' = [att EXCEPT ![a] = AtLoop(Restored(file.ck))]
  <2> DEFINE r == Restored(file.ck)
             m == AtLoop(r)
  <2>1. file.ck \in Checkpoint
    <3>1. file \in Files /\ file.inode BY <1>4 DEF TypeOK
    <3> QED BY <3>1, InodeTyped
  <2>2. /\ Coherent(file.ck) /\ file.ck.hist # << >>
        /\ settings.patience > 0 => file.ck.stop.stale <= settings.patience + a - 2
    BY <1>1, <1>4 DEF FilesOK, Continues, Waiting
  <2>3. /\ r \in Memories /\ Sound(r) /\ r.hist # << >> /\ ~r.closing
        /\ r.pc = "idle" /\ ~r.given /\ r.stop.stale = file.ck.stop.stale
    BY <2>1, <2>2, RestoredSound
  <2> HIDE DEF r
  <2>4. r.pc \notin Measured BY <2>3 DEF Measured
  <2>5. /\ m \in Memories /\ Sound(m) /\ Placed(m)
        /\ m.pc \in {"loop", "open", "measure"} /\ m.stop = r.stop /\ m.given = r.given
    BY <1>2, <2>3, <2>4, AtLoopSound
  <2> HIDE DEF m
  <2>6. m.stop.stale \in Nat BY <2>5, EpochsAssumption DEF Memories, Stopper
  <2>7. Patient(a, m) BY <1>2, <2>2, <2>3, <2>5, <2>6 DEF Patient
  <2> QED BY <1>1, <1>4, <2>3, <2>5, <2>7 DEF Becomes, m, r
<1>5. CASE Fail(a, "CHECKPOINT")
  <2>1. "CHECKPOINT" \in Ended \ {"DONE"} BY DEF Ended, Permanent
  <2> QED BY <1>1, <1>5, <2>1, FailEffect
<1> QED BY <1>3, <1>4, <1>5 DEF Start, Set

LEMMA TrainEffect ==
    ASSUME IInv, NEW a \in Attempts, TrainEpoch(a)
    PROVE  \E m : /\ Becomes(a, m) /\ m.given = att[a].given
                  /\ m.pc \in {"loop", "open", "measure"}
<1>1. /\ att[a].pc = "loop" /\ settings' = settings BY DEF TrainEpoch
<1>2. PICK score \in Scores :
          LET m == Judged(Validated(Trained(att[a]), score), score, att[a].epoch)
          IN  Set(a, IF DueCheckpoint(m) THEN [m EXCEPT !.pc = "open"] ELSE AfterEpoch(m))
  BY DEF TrainEpoch
<1> DEFINE j == Judged(Validated(Trained(att[a]), score), score, att[a].epoch)
           n == IF DueCheckpoint(j) THEN [j EXCEPT !.pc = "open"] ELSE AfterEpoch(j)
<1>3. att' = [att EXCEPT ![a] = n] BY <1>2 DEF Set
<1>4. /\ j \in Memories /\ Sound(j) /\ j.pc = "loop"
      /\ j.hist # << >> /\ ~j.closing /\ j.given = att[a].given
      /\ settings.patience > 0 => j.stop.stale <= settings.patience + a - 1
  BY <1>1, Known, JudgedSound
<1> HIDE DEF j
<1>5. CASE DueCheckpoint(j)
  <2>1. n = [j EXCEPT !.pc = "open"] BY <1>5
  <2> HIDE DEF n
  <2>2. /\ n \in Memories /\ n.pc = "open" /\ n.epoch = j.epoch /\ n.step = j.step
        /\ n.stop = j.stop /\ n.hist = j.hist /\ n.kept = j.kept /\ n.seen = j.seen
        /\ n.resumed = j.resumed /\ n.given = j.given /\ n.closing = j.closing
    BY <1>4, <2>1 DEF Memories, Running
  <2>3. Sound(n) BY <1>4, <2>2 DEF Sound, Coherent, OneTrajectory, TellsHistory
  <2>4. Placed(n) BY <1>4, <2>2 DEF Placed, Measured
  <2>5. Patient(a, n) BY <1>4, <2>2 DEF Patient
  <2> QED BY <1>1, <1>3, <1>4, <2>2, <2>3, <2>4, <2>5 DEF Becomes
<1>6. CASE ~DueCheckpoint(j)
  <2>1. n = AfterEpoch(j) BY <1>6
  <2> HIDE DEF n
  <2>2. /\ n \in Memories /\ Sound(n) /\ Placed(n) /\ Patient(a, n)
        /\ n.pc \in {"loop", "open", "measure"} /\ n.given = j.given
    BY <1>4, <2>1, Known, AfterEpochSound
  <2> QED BY <1>1, <1>3, <1>4, <2>2 DEF Becomes
<1> QED BY <1>5, <1>6

\* A step that only moves to another line of the same write or result.
LEMMA MoveEffect ==
    ASSUME IInv, NEW a \in Attempts, settings' = settings,
           NEW to, att' = [att EXCEPT ![a].pc = to],
           \/ att[a].pc = "open" /\ to = "fill"
           \/ att[a].pc = "fill" /\ to = "rename"
           \/ att[a].pc = "measure" /\ to = "export"
           \/ att[a].pc = "export" /\ to = "DONE"
    PROVE  \E m : /\ Becomes(a, m) /\ m.pc = to /\ m.given = att[a].given
                  /\ m.model = att[a].model
<1> DEFINE o == att[a]
           m == [o EXCEPT !.pc = to]
<1>1. /\ o \in Memories /\ Sound(o) /\ Placed(o) /\ Patient(a, o) BY Known
<1>2. att' = [att EXCEPT ![a] = m] BY Known DEF IInv, TypeOK
<1>3. to \in Running \cup Ended BY DEF Running, Ended
<1> HIDE DEF m, o
<1>4. /\ m \in Memories /\ m.pc = to /\ m.epoch = o.epoch /\ m.step = o.step
      /\ m.stop = o.stop /\ m.hist = o.hist /\ m.kept = o.kept /\ m.seen = o.seen
      /\ m.resumed = o.resumed /\ m.given = o.given /\ m.closing = o.closing
      /\ m.model = o.model /\ m.out = o.out
  BY <1>1, <1>3 DEF Memories, m
<1>5. Sound(m) /\ Patient(a, m)
  <2>1. o.pc \notin {"idle", "loop"} /\ to \notin {"idle", "loop"} BY DEF o
  <2> QED BY <1>1, <1>4, <2>1, MovedOn
<1>6. Outcome(m) = Outcome(o) BY <1>4 DEF Outcome
<1>7. Placed(m) BY <1>1, <1>4, <1>6 DEF Placed, Measured, o
<1> QED BY <1>2, <1>4, <1>5, <1>7 DEF Becomes, o

LEMMA RenameEffect ==
    ASSUME IInv, NEW a \in Attempts, RenameTemp(a)
    PROVE  \E m : /\ Becomes(a, m) /\ m.given = att[a].given
                  /\ m.pc \in {"loop", "open", "measure", "TIMEOUT", "CHECKPOINT"}
<1> DEFINE o == att[a]
<1>1. /\ o.pc = "rename" /\ settings' = settings BY DEF RenameTemp
<1>2. /\ o \in Memories /\ Sound(o) /\ Placed(o) /\ Patient(a, o)
      /\ settings \in Settings
  BY Known
<1>3. CASE Fail(a, "TIMEOUT") \/ Fail(a, "CHECKPOINT")
  <2>1. {"TIMEOUT", "CHECKPOINT"} \subseteq Ended \ {"DONE"}
    BY DEF Ended, Retriable, Permanent
  <2> QED BY <1>1, <1>3, <2>1, FailEffect
<1>4. CASE o.closing /\ Set(a, [o EXCEPT !.out = Outcome(o), !.pc = "measure"])
  <2> DEFINE m == [o EXCEPT !.out = Outcome(o), !.pc = "measure"]
  <2>1. att' = [att EXCEPT ![a] = m] BY <1>4 DEF Set
  <2>2. Outcome(o) \in Outcomes BY <1>2, OutcomeTyped
  <2> HIDE DEF o
  <2>3. /\ m \in Memories /\ m.pc = "measure" /\ m.epoch = o.epoch /\ m.step = o.step
        /\ m.stop = o.stop /\ m.hist = o.hist /\ m.kept = o.kept /\ m.seen = o.seen
        /\ m.resumed = o.resumed /\ m.given = o.given /\ m.closing = o.closing
        /\ m.model = o.model /\ m.out = Outcome(o)
    BY <1>2, <2>2 DEF Memories, Running
  <2> HIDE DEF m
  <2>4. Sound(m) /\ Patient(a, m) BY <1>1, <1>2, <2>3, MovedOn
  <2>5. Outcome(m) = Outcome(o) BY <2>3 DEF Outcome
  <2>6. Placed(m) BY <1>1, <1>2, <1>4, <2>3, <2>5 DEF Placed, Measured
  <2> QED BY <1>1, <2>1, <2>3, <2>4, <2>6 DEF Becomes, o
<1>5. CASE ~o.closing /\ Set(a, AfterEpoch(o))
  <2> DEFINE m == AfterEpoch(o)
  <2>1. att' = [att EXCEPT ![a] = m] BY <1>5 DEF Set
  <2>2. /\ o.hist # << >>
        /\ settings.patience > 0 => o.stop.stale <= settings.patience + a - 1
    BY <1>1, <1>2 DEF Placed, Patient
  <2>3. /\ m \in Memories /\ Sound(m) /\ Placed(m) /\ Patient(a, m)
        /\ m.pc \in {"loop", "open", "measure"} /\ m.given = o.given
    BY <1>1, <1>2, <1>5, <2>2, AfterEpochSound
  <2> HIDE DEF m
  <2> QED BY <1>1, <2>1, <2>3 DEF Becomes
<1> QED BY <1>3, <1>4, <1>5 DEF RenameTemp

LEMMA GiveUpEffect ==
    ASSUME IInv, NEW a \in Attempts, GiveUp(a)
    PROVE  \E m : /\ Becomes(a, m) /\ m.given /\ m.pc = att[a].pc /\ m.model = att[a].model
                  /\ m.pc \in Running
<1> DEFINE o == att[a]
           m == [o EXCEPT !.given = TRUE]
<1>1. /\ o \in Memories /\ Sound(o) /\ Placed(o) /\ Patient(a, o) /\ o.pc \in Running
      /\ settings' = settings
  BY Known DEF GiveUp
<1>2. att' = [att EXCEPT ![a] = m] BY Known DEF IInv, TypeOK, GiveUp
<1> HIDE DEF m, o
<1>3. /\ m \in Memories /\ m.pc = o.pc /\ m.epoch = o.epoch /\ m.step = o.step
      /\ m.stop = o.stop /\ m.hist = o.hist /\ m.kept = o.kept /\ m.seen = o.seen
      /\ m.resumed = o.resumed /\ m.given = TRUE /\ m.closing = o.closing
      /\ m.model = o.model /\ m.out = o.out
  BY <1>1 DEF Memories, m
<1>4. Sound(m) BY <1>1, <1>3 DEF Sound, Coherent, OneTrajectory, TellsHistory
<1>5. Patient(a, m) BY <1>1, <1>3 DEF Patient
<1>6. Outcome(m) = Outcome(o) BY <1>3 DEF Outcome
<1>7. m.pc # "idle" BY <1>1, <1>3 DEF Running
<1>8. Placed(m) BY <1>1, <1>3, <1>6, <1>7 DEF Placed
<1> QED BY <1>1, <1>2, <1>3, <1>4, <1>5, <1>7, <1>8 DEF Becomes, o

-----------------------------------------------------------------------------
(***************************************************************************)
(* A step of one attempt, and a crash, as the other attempts see them.     *)
(***************************************************************************)
\* The lines an attempt may be at after a step that starts at another.
Moves(from, to) ==
    \/ from \in {"idle", "loop", "rename"} /\ to \in {"loop", "open", "measure"}
    \/ from = "open" /\ to = "fill"
    \/ from = "fill" /\ to = "rename"
    \/ from = "measure" /\ to = "export"
    \/ from = "export" /\ to = "DONE"
    \/ to \in Ended \ {"DONE"}

\* A step of attempt a changes no other attempt, starts where no attempt has
\* ended, and takes nothing back that was given up.
LEMMA StepEffect ==
    ASSUME IInv, NEW a \in Attempts, Start(a) \/ Step(a)
    PROVE  \E m : /\ Becomes(a, m) /\ m.given = att[a].given
                  /\ Moves(att[a].pc, m.pc)
                  /\ att[a].pc = "idle" => Start(a)
                  /\ att[a].pc \in Running \cup {"idle"}
<1>1. {"DIVERGED", "TRAINING", "TIMEOUT", "CHECKPOINT", "RESOURCE"} \subseteq Ended \ {"DONE"}
  BY DEF Ended, Retriable, Permanent
<1>2. CASE Start(a)
  <2>1. att[a].pc = "idle" /\ ~att[a].given BY <1>2, Known DEF Start, Placed
  <2>2. att[a].given = FALSE BY <2>1, Known DEF Memories
  <2>3. PICK m : /\ Becomes(a, m) /\ ~m.given
                 /\ m.pc \in {"loop", "open", "measure", "CHECKPOINT"}
    BY <1>2, StartEffect
  <2>4. m.given = FALSE BY <2>3 DEF Becomes, Memories
  <2> QED BY <1>1, <1>2, <2>1, <2>2, <2>3, <2>4 DEF Moves
<1>3. CASE TrainEpoch(a)
  BY <1>3, TrainEffect DEF TrainEpoch, Moves, Running
<1>4. CASE FailEpoch(a)
  <2>1. PICK kind \in {"DIVERGED", "TRAINING", "TIMEOUT"} : Fail(a, kind)
    BY <1>4 DEF FailEpoch
  <2>2. \E m : Becomes(a, m) /\ m.pc = kind /\ m.given = att[a].given
    BY <1>1, <1>4, <2>1, FailEffect DEF FailEpoch
  <2> QED BY <1>1, <1>4, <2>2 DEF FailEpoch, Moves, Running
<1>5. ASSUME NEW to, att' = [att EXCEPT ![a].pc = to], settings' = settings,
             \/ att[a].pc = "open" /\ to = "fill"
             \/ att[a].pc = "fill" /\ to = "rename"
             \/ att[a].pc = "measure" /\ to = "export"
             \/ att[a].pc = "export" /\ to = "DONE"
      PROVE  \E m : /\ Becomes(a, m) /\ m.given = att[a].given
                    /\ Moves(att[a].pc, m.pc)
                    /\ att[a].pc \in Running
  <2>1. \E m : Becomes(a, m) /\ m.pc = to /\ m.given = att[a].given
    BY <1>5, MoveEffect, ZenonT(60)
  <2> QED BY <1>5, <2>1 DEF Moves, Running
<1>6. CASE OpenTemp(a) \/ Export(a)
  <2>1. CASE OpenTemp(a) BY <1>5, <2>1 DEF OpenTemp, Running
  <2>2. CASE Export(a) BY <1>5, <2>2 DEF Export, Running
  <2> QED BY <1>6, <2>1, <2>2
<1>7. CASE RenameTemp(a)
  BY <1>1, <1>7, RenameEffect DEF RenameTemp, Moves, Running
<1>8. CASE FillTemp(a)
  <2>1. att[a].pc = "fill" /\ settings' = settings BY <1>8 DEF FillTemp
  <2>2. CASE att' = [att EXCEPT ![a].pc = "rename"]
    BY <1>5, <2>1, <2>2 DEF Running
  <2>3. CASE Fail(a, "CHECKPOINT")
    <3>1. \E m : Becomes(a, m) /\ m.pc = "CHECKPOINT" /\ m.given = att[a].given
      BY <1>1, <2>1, <2>3, FailEffect
    <3> QED BY <1>1, <2>1, <3>1 DEF Moves, Running
  <2> QED BY <1>8, <2>2, <2>3 DEF FillTemp
<1>9. CASE Measure(a)
  <2>1. att[a].pc = "measure" /\ settings' = settings BY <1>9 DEF Measure
  <2>2. CASE att' = [att EXCEPT ![a].pc = "export"]
    BY <1>5, <2>1, <2>2 DEF Running
  <2>3. CASE Fail(a, "RESOURCE")
    <3>1. \E m : Becomes(a, m) /\ m.pc = "RESOURCE" /\ m.given = att[a].given
      BY <1>1, <2>1, <2>3, FailEffect
    <3> QED BY <1>1, <2>1, <3>1 DEF Moves, Running
  <2> QED BY <1>9, <2>2, <2>3 DEF Measure
<1> QED BY <1>2, <1>3, <1>4, <1>6, <1>7, <1>8, <1>9 DEF Step

\* The one attempt that changes, and the others.
LEMMA BecomesOne ==
    ASSUME IInv, NEW a \in Attempts, NEW m, Becomes(a, m)
    PROVE  /\ att' \in [Attempts -> Memories]
           /\ \A b \in Attempts : att'[b] = IF b = a THEN m ELSE att[b]
           /\ AttemptsOK'
<1>1. /\ att' \in [Attempts -> Memories]
      /\ \A b \in Attempts : att'[b] = IF b = a THEN m ELSE att[b]
  BY DEF IInv, TypeOK, Becomes
<1>2. \A b \in Attempts : Sound(att'[b]) /\ Placed(att'[b]) /\ Patient(b, att'[b])
  BY <1>1, Known DEF Becomes
<1>3. settings' = settings BY DEF Becomes
<1>4. AttemptsOK'
  BY <1>2, <1>3
  DEF AttemptsOK, Sound, Placed, Patient, Coherent, OneTrajectory, TellsHistory, Outcome
<1> QED BY <1>1, <1>4

\* A giving-up or a step of one attempt.
LEMMA OneStep ==
    ASSUME IInv, NEW a \in Attempts, Start(a) \/ Step(a) \/ GiveUp(a)
    PROVE  \E m : /\ Becomes(a, m)
                  /\ att[a].given => m.given
                  /\ att[a].pc = "idle" => Start(a)
                  /\ att[a].pc \in Running \cup {"idle"}
                  /\ ~GiveUp(a) => m.given = att[a].given /\ Moves(att[a].pc, m.pc)
                  /\ GiveUp(a) => m.given /\ m.pc = att[a].pc
<1>1. CASE GiveUp(a)
  <2>1. att[a].pc \in Running BY <1>1 DEF GiveUp
  <2> QED BY <1>1, <2>1, GiveUpEffect DEF Running
<1>2. CASE ~GiveUp(a) BY <1>2, StepEffect
<1> QED BY <1>1, <1>2

\* What a crash leaves of the attempts.
LEMMA CrashEffect ==
    ASSUME IInv, Crash
    PROVE  /\ att' \in [Attempts -> Memories]
           /\ AttemptsOK'
           /\ \A a \in Attempts :
                 /\ att'[a].given = att[a].given
                 /\ att[a].pc \in Running => att'[a].pc = "KILLED"
                 /\ att[a].pc \notin Running => att'[a] = att[a]
<1>1. "KILLED" \in Ended \ {"DONE"} BY DEF Ended
<1>2. \A a \in Attempts :
          att'[a] = IF att[a].pc \in Running THEN Gone(att[a], "KILLED") ELSE att[a]
  BY DEF Crash
<1>3. ASSUME NEW a \in Attempts
      PROVE  /\ att'[a] \in Memories /\ Sound(att'[a]) /\ Placed(att'[a])
             /\ Patient(a, att'[a]) /\ att'[a].given = att[a].given
             /\ att[a].pc \in Running => att'[a].pc = "KILLED"
             /\ att[a].pc \notin Running => att'[a] = att[a]
  BY <1>1, <1>2, Known, GoneSound
<1>4. settings' = settings BY DEF Crash
<1>5. AttemptsOK'
  BY <1>3, <1>4
  DEF AttemptsOK, Sound, Placed, Patient, Coherent, OneTrajectory, TellsHistory, Outcome
<1>6. att' \in [Attempts -> Memories] BY <1>3 DEF Crash
<1> QED BY <1>3, <1>5, <1>6

LEMMA AttemptsStep ==
    ASSUME IInv, [Next]_vars
    PROVE  AttemptsOK' /\ att' \in [Attempts -> Memories] /\ settings' = settings
<1>1. CASE UNCHANGED vars
  BY <1>1 DEF vars, IInv, TypeOK, AttemptsOK, Sound, Placed, Patient, Coherent,
     OneTrajectory, TellsHistory, Outcome
<1>2. ASSUME NEW a \in Attempts, Start(a) \/ Step(a) \/ GiveUp(a)
      PROVE  AttemptsOK' /\ att' \in [Attempts -> Memories] /\ settings' = settings
  <2>1. PICK m : Becomes(a, m) BY <1>2, OneStep
  <2> QED BY <2>1, BecomesOne DEF Becomes
<1>3. CASE Crash BY <1>3, CrashEffect DEF Crash
<1> QED BY <1>1, <1>2, <1>3 DEF Next

\* Attempts go on starting in order.
LEMMA OrderStep ==
    ASSUME IInv, [Next]_vars
    PROVE  InOrder'
<1>1. CASE UNCHANGED vars BY <1>1 DEF vars, IInv, InOrder
<1>2. ASSUME NEW a \in Attempts, Start(a) \/ Step(a) \/ GiveUp(a)
      PROVE  InOrder'
  <2>1. PICK m : /\ Becomes(a, m)
                 /\ att[a].given => m.given
                 /\ att[a].pc = "idle" => Start(a)
                 /\ att[a].pc \in Running \cup {"idle"}
    BY <1>2, OneStep
  <2>2. \A b \in Attempts : att'[b] = IF b = a THEN m ELSE att[b]
    BY <2>1, BecomesOne
  <2>3. m.pc # "idle" BY <2>1 DEF Becomes
  <2>4. MayFollow(att[a]) => att[a].pc # "idle" /\ MayFollow(m)
    <3>1. att[a].given => att[a].pc # "idle" BY Known DEF Placed
    <3> QED BY <2>1, <3>1 DEF MayFollow, Running, Retriable
  <2> SUFFICES ASSUME NEW b \in Attempts, NEW c \in Attempts, c > b, att'[c].pc # "idle"
               PROVE  att'[b].pc # "idle" /\ MayFollow(att'[b])
    BY DEF InOrder
  <2>5. CASE att[c].pc # "idle"
    <3>1. att[b].pc # "idle" /\ MayFollow(att[b]) BY <2>5 DEF IInv, InOrder
    <3> QED BY <2>2, <2>3, <2>4, <3>1
  <2>6. CASE att[c].pc = "idle"
    <3>1. c = a /\ Start(a) BY <2>1, <2>2, <2>6
    <3>2. a - 1 \in Attempts /\ a > 1 /\ b <= a - 1
      BY <3>1, AttemptsAssumption DEF Attempts
    <3>3. MayFollow(att[a - 1]) BY <3>1, <3>2 DEF Start
    <3>4. att[a - 1].pc # "idle"
      <4>1. att[a - 1].given => att[a - 1].pc # "idle" BY <3>2, Known DEF Placed
      <4> QED BY <3>3, <4>1 DEF MayFollow, Retriable
    <3>5. att[b].pc # "idle" /\ MayFollow(att[b])
      <4>1. CASE b = a - 1 BY <3>3, <3>4, <4>1
      <4>2. CASE b # a - 1
        <5>1. a - 1 > b BY <3>2, <4>2, AttemptsAssumption DEF Attempts
        <5> QED BY <3>2, <3>4, <5>1 DEF IInv, InOrder
      <4> QED BY <4>1, <4>2
    <3>6. b # a BY <3>2, AttemptsAssumption DEF Attempts
    <3> QED BY <2>2, <3>5, <3>6
  <2> QED BY <2>5, <2>6
<1>3. CASE Crash
  <2>1. \A a \in Attempts :
            /\ att'[a].given = att[a].given
            /\ att[a].pc \in Running => att'[a].pc = "KILLED"
            /\ att[a].pc \notin Running => att'[a] = att[a]
    BY <1>3, CrashEffect
  <2>2. "idle" \notin Running BY DEF Running
  <2>3. \A a \in Attempts :
            /\ att'[a].pc = "idle" <=> att[a].pc = "idle"
            /\ MayFollow(att[a]) => MayFollow(att'[a])
    BY <2>1, <2>2 DEF MayFollow
  <2> QED BY <2>3 DEF IInv, InOrder
<1> QED BY <1>1, <1>2, <1>3 DEF Next

-----------------------------------------------------------------------------
(***************************************************************************)
(* The two files.                                                          *)
(***************************************************************************)
\* Writing, stopping half-way and dying change who has an inode open and
\* whether its bytes are whole, never the checkpoint it stands for.
LEMMA SameInode ==
    ASSUME NEW f \in Files, NEW a,
           NEW g \in {Filled(f, a), Truncated(f, a), Abandoned(f)}
    PROVE  /\ g \in Files /\ g.inode = f.inode
           /\ f.inode => g.ck = f.ck
<1>1. CASE f.inode
  <2>1. f \in [inode : {TRUE}, ck : Checkpoint, open : SUBSET Attempts, mixed : BOOLEAN]
    BY <1>1, InodeTyped
  <2> QED BY <1>1, <2>1 DEF Filled, Truncated, Abandoned, Files
<1>2. CASE ~f.inode BY <1>2 DEF Filled, Truncated, Abandoned
<1> QED BY <1>1, <1>2

\* Opening starts a new inode, unless another attempt has the name open.
LEMMA OpenedInode ==
    ASSUME NEW f \in Files, NEW a \in Attempts, Snapshot(att[a]) \in Checkpoint
    PROVE  LET g == Opened(f, a) IN
           /\ g \in Files /\ g.inode
           /\ \/ f.inode /\ f.open # {} /\ g.ck = f.ck
              \/ /\ ~f.inode \/ f.open = {}
                 /\ g.ck = Snapshot(att[a]) /\ g.open = {a} /\ ~g.mixed
<1>1. CASE f.inode /\ f.open # {}
  <2>1. f \in [inode : {TRUE}, ck : Checkpoint, open : SUBSET Attempts, mixed : BOOLEAN]
    BY <1>1, InodeTyped
  <2>2. Opened(f, a) = [f EXCEPT !.open = f.open \cup {a}, !.mixed = TRUE]
    BY <1>1 DEF Opened
  <2> QED BY <1>1, <2>1, <2>2 DEF Files
<1>2. CASE ~(f.inode /\ f.open # {})
  BY <1>2 DEF Opened, Files
<1> QED BY <1>1, <1>2

\* What an attempt saves.
LEMMA SnapshotSound ==
    ASSUME NEW m \in Memories, Sound(m)
    PROVE  /\ Snapshot(m) \in Checkpoint /\ Coherent(Snapshot(m))
           /\ Snapshot(m).hist = m.hist /\ Snapshot(m).stop = m.stop
<1>1. m.epoch \in 0..Epochs /\ m.step = m.epoch * StepsPerEpoch
  BY DEF Memories, Sound, Coherent, OneTrajectory
<1>2. m.step \in 0..(Epochs * StepsPerEpoch) BY <1>1, StepsBounded
<1>3. Snapshot(m) \in Checkpoint
  BY <1>2 DEF Snapshot, Checkpoint, Memories, Values
<1> QED BY <1>3 DEF Snapshot, Sound, Coherent, OneTrajectory, TellsHistory

\* A file stays one that can be continued while the same checkpoint is in it
\* and fewer attempts wait.
LEMMA ContinuesKept ==
    ASSUME NEW f, NEW g, NEW w, NEW v \in SUBSET w, Continues(f, w),
           g.inode => f.inode /\ g.ck = f.ck
    PROVE  Continues(g, v)
BY DEF Continues

\* What a step of one attempt does to the files.
FileSteps(a) ==
    \/ UNCHANGED <<temp, file>> /\ att[a].pc \notin {"open", "fill"}
    \/ /\ att[a].pc = "open" /\ att'[a].pc = "fill"
       /\ temp' = Opened(temp, a) /\ file' = file
    \/ /\ att[a].pc = "fill" /\ att'[a].pc = "rename"
       /\ temp' = Filled(temp, a) /\ file' = Filled(file, a)
    \/ /\ att[a].pc = "fill" /\ att'[a].pc \notin {"fill", "rename"}
       /\ temp' = Truncated(temp, a) /\ file' = Truncated(file, a)
    \/ att[a].pc = "rename" /\ temp.inode /\ file' = temp /\ temp' = NoFile
    \/ GiveUp(a) /\ UNCHANGED <<temp, file>>

LEMMA FilesEffect ==
    ASSUME IInv, NEW a \in Attempts, Start(a) \/ Step(a) \/ GiveUp(a)
    PROVE  FileSteps(a)
<1>1. CASE Start(a) \/ TrainEpoch(a) \/ FailEpoch(a) \/ Measure(a) \/ Export(a) \/ GiveUp(a)
  BY <1>1 DEF Start, TrainEpoch, FailEpoch, Measure, Export, GiveUp, FileSteps
<1>2. ASSUME NEW to, att' = [att EXCEPT ![a].pc = to]
      PROVE  att'[a].pc = to
  BY <1>2, Known DEF IInv, TypeOK, Memories
<1>3. CASE OpenTemp(a) BY <1>2, <1>3 DEF OpenTemp, FileSteps
<1>4. ASSUME Fail(a, "CHECKPOINT")
      PROVE  att'[a].pc = "CHECKPOINT"
  BY <1>4 DEF IInv, TypeOK, Fail, Set, Gone, Idle
<1>5. CASE FillTemp(a) BY <1>2, <1>4, <1>5 DEF FillTemp, FileSteps
<1>6. CASE RenameTemp(a) BY <1>6 DEF RenameTemp, FileSteps
<1> QED BY <1>1, <1>3, <1>5, <1>6 DEF Step

\* Nobody who waits has come before somebody who runs.
LEMMA WaitingLater ==
    ASSUME IInv, NEW a \in Attempts, NEW b \in Waiting, att[a].pc # "idle"
    PROVE  a < b
<1>1. b \in Attempts /\ att[b].pc = "idle" BY DEF Waiting
<1>2. ~(a > b) BY <1>1 DEF IInv, InOrder
<1> QED BY <1>1, <1>2, AttemptsAssumption DEF Attempts

LEMMA FilesStep ==
    ASSUME IInv, [Next]_vars
    PROVE  FilesOK' /\ temp' \in Files /\ file' \in Files
<1>1. /\ temp \in Files /\ file \in Files
      /\ Continues(temp, Waiting) /\ Continues(file, Waiting)
  BY DEF IInv, TypeOK, FilesOK
<1>2. settings' = settings /\ Waiting' \subseteq Waiting
  <2>1. settings' = settings BY AttemptsStep
  <2>2. CASE UNCHANGED vars BY <2>2 DEF vars, Waiting
  <2>3. ASSUME NEW a \in Attempts, Start(a) \/ Step(a) \/ GiveUp(a)
        PROVE  Waiting' \subseteq Waiting
    <3>1. PICK m : Becomes(a, m) BY <2>3, OneStep
    <3>2. \A b \in Attempts : att'[b] = IF b = a THEN m ELSE att[b]
      BY <3>1, BecomesOne
    <3> QED BY <3>1, <3>2 DEF Waiting, Becomes
  <2>4. CASE Crash
    <3>1. \A a \in Attempts :
              /\ att[a].pc \in Running => att'[a].pc = "KILLED"
              /\ att[a].pc \notin Running => att'[a] = att[a]
      BY <2>4, CrashEffect
    <3> QED BY <3>1, <2>1 DEF Waiting
  <2> QED BY <2>1, <2>2, <2>3, <2>4 DEF Next
<1>3. ASSUME Continues(temp', Waiting'), Continues(file', Waiting')
      PROVE  FilesOK'
  BY <1>2, <1>3
  DEF FilesOK, Continues, Coherent, OneTrajectory, TellsHistory
<1>4. ASSUME NEW f \in Files, Continues(f, Waiting), NEW g \in Files,
             g.inode => f.inode /\ g.ck = f.ck
      PROVE  Continues(g, Waiting')
  BY <1>2, <1>4, ContinuesKept
<1>5. CASE UNCHANGED <<temp, file>> BY <1>1, <1>3, <1>4, <1>5
<1>6. ASSUME NEW a \in Attempts, Start(a) \/ Step(a) \/ GiveUp(a)
      PROVE  FilesOK' /\ temp' \in Files /\ file' \in Files
  <2>1. FileSteps(a) BY <1>6, FilesEffect
  <2>2. CASE att[a].pc = "open" /\ temp' = Opened(temp, a) /\ file' = file
    <3> DEFINE g == Opened(temp, a)
    <3>1. /\ att[a] \in Memories /\ Sound(att[a]) /\ att[a].hist # << >>
          /\ settings.patience > 0 => att[a].stop.stale <= settings.patience + a - 1
          /\ settings.patience \in Nat /\ a \in Nat
      BY <2>2, Known DEF Placed, Patient, Settings
    <3>2. /\ Snapshot(att[a]) \in Checkpoint /\ Coherent(Snapshot(att[a]))
          /\ Snapshot(att[a]).hist = att[a].hist /\ Snapshot(att[a]).stop = att[a].stop
      BY <3>1, SnapshotSound
    <3>3. /\ g \in Files /\ g.inode
          /\ (temp.inode /\ g.ck = temp.ck) \/ g.ck = Snapshot(att[a])
      BY <1>1, <3>2, OpenedInode
    <3> HIDE DEF g
    <3>4. CASE g.ck = Snapshot(att[a])
      <4>1. att[a].stop.stale \in Nat
        BY <3>1, EpochsAssumption DEF Memories, Stopper
      <4>2. ASSUME NEW b \in Waiting', settings.patience > 0
            PROVE  g.ck.stop.stale <= settings.patience + b - 2
        <5>1. b \in Waiting /\ att[a].pc # "idle" BY <1>2, <2>2
        <5>2. a < b BY <5>1, WaitingLater
        <5>3. b \in Nat BY <5>1, AttemptsAssumption DEF Waiting, Attempts
        <5> QED BY <3>1, <3>2, <3>4, <4>1, <4>2, <5>2, <5>3
      <4>3. Continues(g, Waiting') BY <3>1, <3>2, <3>4, <4>2 DEF Continues
      <4> QED BY <1>1, <1>3, <1>4, <2>2, <3>3, <4>3 DEF g
    <3>5. CASE temp.inode /\ g.ck = temp.ck
      BY <1>1, <1>3, <1>4, <2>2, <3>3, <3>5 DEF g
    <3> QED BY <3>3, <3>4, <3>5
  <2>3. CASE \/ temp' = Filled(temp, a) /\ file' = Filled(file, a)
             \/ temp' = Truncated(temp, a) /\ file' = Truncated(file, a)
    <3>1. /\ temp' \in Files /\ temp'.inode = temp.inode /\ (temp.inode => temp'.ck = temp.ck)
          /\ file' \in Files /\ file'.inode = file.inode /\ (file.inode => file'.ck = file.ck)
      BY <1>1, <2>3, SameInode
    <3> QED BY <1>1, <1>3, <1>4, <3>1
  <2>4. CASE file' = temp /\ temp' = NoFile
    <3>1. NoFile \in Files /\ ~NoFile.inode BY DEF Files, NoFile
    <3> QED BY <1>1, <1>3, <1>4, <2>4, <3>1
  <2> QED BY <1>5, <1>1, <2>1, <2>2, <2>3, <2>4 DEF FileSteps
<1>7. CASE Crash
  <2>1. temp' = Abandoned(temp) /\ file' = Abandoned(file) BY <1>7 DEF Crash
  <2>2. /\ temp' \in Files /\ temp'.inode = temp.inode /\ (temp.inode => temp'.ck = temp.ck)
        /\ file' \in Files /\ file'.inode = file.inode /\ (file.inode => file'.ck = file.ck)
    BY <1>1, <2>1, SameInode
  <2> QED BY <1>1, <1>3, <1>4, <2>2
<1> QED BY <1>1, <1>5, <1>6, <1>7 DEF Next, vars

-----------------------------------------------------------------------------
(***************************************************************************)
(* While nobody has been given up, attempts do not meet.                   *)
(***************************************************************************)
\* The attempt that takes a step is the only one that runs.
LEMMA RunsAlone ==
    ASSUME IInv, ~overlapped, NEW a \in Attempts, att[a].pc \in Running \/ Start(a),
           NEW b \in Attempts, b # a
    PROVE  att[b].pc \notin Running
<1>1. /\ InOrder
      /\ ~att[a].given /\ ~att[b].given
  BY DEF IInv, AloneOK
<1>2. \A c \in {a, b} : att[c].pc \in Running => ~MayFollow(att[c]) /\ att[c].pc # "idle"
  BY <1>1 DEF MayFollow, Running, Retriable
<1>3. a \in Int /\ b \in Int BY AttemptsAssumption DEF Attempts
<1>4. CASE b > a
  <2>1. att[b].pc # "idle" => att[a].pc # "idle" /\ MayFollow(att[a])
    BY <1>1, <1>4 DEF InOrder
  <2>2. Start(a) => att[a].pc = "idle" BY DEF Start
  <2> QED BY <1>2, <2>1, <2>2
<1>5. CASE a > b
  <2>1. CASE att[a].pc \in Running
    BY <1>1, <1>2, <1>5, <2>1 DEF InOrder
  <2>2. CASE Start(a)
    <3>1. a - 1 \in Attempts /\ a > 1 /\ b <= a - 1
      BY <1>5, AttemptsAssumption DEF Attempts
    <3>2. MayFollow(att[a - 1]) BY <2>2, <3>1 DEF Start
    <3>3. att[a - 1].pc # "idle"
      <4>1. ~att[a - 1].given BY <3>1 DEF IInv, AloneOK
      <4> QED BY <3>2, <4>1 DEF MayFollow, Retriable
    <3>4. CASE b = a - 1 BY <1>2, <3>2, <3>4
    <3>5. CASE a - 1 > b BY <1>1, <1>2, <3>1, <3>3, <3>5 DEF InOrder
    <3> QED BY <1>3, <3>1, <3>4, <3>5
  <2> QED BY <2>1, <2>2
<1> QED BY <1>3, <1>4, <1>5

LEMMA AloneStep ==
    ASSUME IInv, [Next]_vars
    PROVE  AloneOK'
<1>1. CASE UNCHANGED vars BY <1>1 DEF vars, IInv, AloneOK, Whole
<1>2. ASSUME NEW a \in Attempts, Start(a) \/ Step(a) \/ GiveUp(a), ~overlapped'
      PROVE  AloneOK'
  <2>1. ~GiveUp(a) BY <1>2 DEF GiveUp
  <2>2. ~overlapped
    BY <1>2, <2>1 DEF Step, Start, TrainEpoch, FailEpoch, OpenTemp, FillTemp, RenameTemp,
       Measure, Export
  <2>3. /\ temp \in Files /\ file \in Files
        /\ \A b \in Attempts : ~att[b].given
        /\ file.inode => Whole(file)
        /\ \A b \in Attempts : att[b].pc = "fill" =>
              temp.inode /\ temp.open = {b} /\ ~temp.mixed
        /\ \A b \in Attempts : att[b].pc = "rename" => Whole(temp)
        /\ temp.inode => \A b \in temp.open : att[b].pc = "fill"
    BY <2>2 DEF IInv, TypeOK, AloneOK
  <2>4. PICK m : Becomes(a, m) /\ ~m.given /\ Moves(att[a].pc, m.pc)
    BY <1>2, <2>1, <2>3, OneStep
  <2>5. \A b \in Attempts : att'[b] = IF b = a THEN m ELSE att[b]
    BY <2>4, BecomesOne
  <2>6. \A b \in Attempts : b # a => att[b].pc \notin {"fill", "rename"}
    <3>1. att[a].pc \in Running \/ Start(a) BY <1>2, <2>1, OneStep
    <3> QED BY <2>2, <3>1, RunsAlone DEF Running
  <2>7. FileSteps(a) BY <1>2, FilesEffect
  <2>8. \A b \in Attempts : ~att'[b].given BY <2>3, <2>4, <2>5
  <2>9. ASSUME file'.inode => Whole(file'),
               m.pc = "fill" => temp'.inode /\ temp'.open = {a} /\ ~temp'.mixed,
               m.pc = "rename" => Whole(temp'),
               temp'.inode => temp'.open \subseteq {a} /\ (a \in temp'.open => m.pc = "fill")
        PROVE  AloneOK'
    BY <1>2, <2>5, <2>6, <2>8, <2>9 DEF AloneOK, Whole
  <2>10. "fill" \notin Ended /\ "rename" \notin Ended /\ "open" \notin Ended
    BY DEF Ended, Retriable, Permanent
  <2>11. temp.inode => temp.open \subseteq Attempts
    BY <2>3, InodeTyped
  <2>12. CASE UNCHANGED <<temp, file>> /\ att[a].pc \notin {"open", "fill"}
    <3>1. m.pc \notin {"fill", "rename"} BY <2>4, <2>10, <2>12 DEF Moves
    <3> QED BY <2>3, <2>6, <2>9, <2>11, <2>12, <3>1 DEF Whole
  <2>13. CASE /\ att[a].pc = "open" /\ att'[a].pc = "fill"
              /\ temp' = Opened(temp, a) /\ file' = file
    <3>1. ~(temp.inode /\ temp.open # {}) BY <2>3, <2>6, <2>11, <2>13
    <3>2. temp' = [inode |-> TRUE, ck |-> Snapshot(att[a]), open |-> {a}, mixed |-> FALSE]
      BY <2>13, <3>1 DEF Opened
    <3>3. m.pc = "fill" BY <2>5, <2>13
    <3> QED BY <2>3, <2>9, <2>13, <3>2, <3>3 DEF Whole
  <2>14. ASSUME att[a].pc = "fill"
         PROVE  /\ temp.inode /\ temp.open = {a} /\ ~temp.mixed
                /\ temp \in [inode : {TRUE}, ck : Checkpoint, open : SUBSET Attempts,
                             mixed : BOOLEAN]
                /\ file.inode => file.open = {} /\ ~file.mixed
                                 /\ file \in [inode : {TRUE}, ck : Checkpoint,
                                              open : SUBSET Attempts, mixed : BOOLEAN]
    BY <2>3, <2>14, InodeTyped DEF Whole
  <2>15. CASE /\ att[a].pc = "fill" /\ att'[a].pc = "rename"
              /\ temp' = Filled(temp, a) /\ file' = Filled(file, a)
    <3>1. temp' = [temp EXCEPT !.open = {}] BY <2>14, <2>15 DEF Filled
    <3>2. temp'.inode /\ temp'.open = {} /\ ~temp'.mixed BY <2>14, <2>15, <3>1
    <3>3. file'.inode => Whole(file') BY <2>14, <2>15 DEF Filled, Whole
    <3>4. m.pc = "rename" BY <2>5, <2>15
    <3> QED BY <2>9, <3>2, <3>3, <3>4 DEF Whole
  <2>16. CASE /\ att[a].pc = "fill" /\ att'[a].pc \notin {"fill", "rename"}
              /\ temp' = Truncated(temp, a) /\ file' = Truncated(file, a)
    <3>1. temp' = [temp EXCEPT !.open = {}, !.mixed = TRUE]
      BY <2>14, <2>16 DEF Truncated
    <3>2. temp'.inode /\ temp'.open = {} BY <2>14, <2>16, <3>1
    <3>3. file' = file BY <2>14, <2>16 DEF Truncated
    <3>4. m.pc \notin {"fill", "rename"} BY <2>5, <2>16
    <3> QED BY <2>3, <2>9, <3>2, <3>3, <3>4
  <2>17. CASE att[a].pc = "rename" /\ temp.inode /\ file' = temp /\ temp' = NoFile
    <3>1. m.pc \notin {"fill", "rename"} BY <2>4, <2>10, <2>17 DEF Moves
    <3>2. ~temp'.inode BY <2>17 DEF NoFile
    <3> QED BY <2>3, <2>9, <2>17, <3>1, <3>2
  <2> QED BY <2>1, <2>7, <2>12, <2>13, <2>15, <2>16, <2>17 DEF FileSteps
<1>3. CASE Crash
  <2> SUFFICES ASSUME ~overlapped' PROVE AloneOK' BY DEF AloneOK
  <2>1. ~overlapped /\ temp' = Abandoned(temp) /\ file' = Abandoned(file)
    BY <1>3 DEF Crash
  <2>2. /\ temp \in Files /\ file \in Files
        /\ \A b \in Attempts : ~att[b].given
        /\ file.inode => Whole(file)
    BY <2>1 DEF IInv, TypeOK, AloneOK
  <2>3. \A b \in Attempts : ~att'[b].given /\ att'[b].pc \notin {"fill", "rename"}
    <3>1. \A b \in Attempts :
              /\ att'[b].given = att[b].given
              /\ att[b].pc \in Running => att'[b].pc = "KILLED"
              /\ att[b].pc \notin Running => att'[b] = att[b]
      BY <1>3, CrashEffect
    <3> QED BY <2>2, <3>1 DEF Running
  <2>4. file' = file BY <2>1, <2>2 DEF Abandoned, Whole
  <2>5. temp'.inode => temp'.open = {}
    BY <2>1, <2>2, InodeTyped DEF Abandoned
  <2> QED BY <2>2, <2>3, <2>4, <2>5 DEF AloneOK, Whole
<1>4. overlapped' => AloneOK' BY DEF AloneOK
<1> QED BY <1>1, <1>2, <1>3, <1>4 DEF Next

-----------------------------------------------------------------------------
(***************************************************************************)
(* The weights.                                                            *)
(***************************************************************************)
\* What exporting leaves, and that nothing else writes weights or ends in DONE.
LEMMA ExportEffect ==
    ASSUME IInv, NEW a \in Attempts, Export(a)
    PROVE  /\ att[a].pc = "export" /\ weights' = att[a].model
           /\ att'[a].pc = "DONE" /\ att'[a].given = att[a].given
           /\ att'[a].out = att[a].out
<1>1. att[a] \in Memories /\ att' = [att EXCEPT ![a].pc = "DONE"]
  BY Known DEF Export
<1>2. att'[a] = [att[a] EXCEPT !.pc = "DONE"] BY <1>1 DEF IInv, TypeOK
<1> QED BY <1>1, <1>2 DEF Export, Memories

LEMMA WeightsStay ==
    ASSUME IInv, NEW a \in Attempts, Start(a) \/ Step(a) \/ GiveUp(a), ~Export(a)
    PROVE  weights' = weights /\ att'[a].pc # "DONE"
<1>1. weights' = weights
  BY DEF Step, Start, TrainEpoch, FailEpoch, OpenTemp, FillTemp, RenameTemp, Measure, GiveUp
<1>2. PICK m : /\ Becomes(a, m)
               /\ ~GiveUp(a) => Moves(att[a].pc, m.pc)
               /\ GiveUp(a) => m.pc = att[a].pc
  BY OneStep
<1>3. att'[a] = m BY <1>2, BecomesOne
<1>4. CASE GiveUp(a)
  BY <1>1, <1>2, <1>3, <1>4 DEF GiveUp, Running
<1>5. CASE ~GiveUp(a)
  <2>1. att[a].pc # "export"
    BY <1>5 DEF Step, Start, TrainEpoch, FailEpoch, OpenTemp, FillTemp, RenameTemp, Measure
  <2> QED BY <1>1, <1>2, <1>3, <1>5, <2>1 DEF Moves
<1> QED BY <1>1, <1>4, <1>5

\* The attempt that exports its weights measured them, and any other attempt
\* whose result was accepted shares them with one that was given up.
LEMMA WeightsStep ==
    ASSUME IInv, [Next]_vars
    PROVE  WeightsAreTheResult' /\ weights' \in Values
<1>1. WeightsAreTheResult /\ InOrder /\ weights \in Values
  BY DEF IInv, TypeOK
<1>2. CASE UNCHANGED vars BY <1>1, <1>2 DEF vars, WeightsAreTheResult
<1>3. settings' = settings BY AttemptsStep
<1>4. ASSUME NEW a \in Attempts, Start(a) \/ Step(a) \/ GiveUp(a)
      PROVE  WeightsAreTheResult' /\ weights' \in Values
  <2>1. PICK m : /\ Becomes(a, m) /\ (att[a].given => m.given)
                 /\ att[a].pc \in Running \cup {"idle"}
    BY <1>4, OneStep
  <2>2. \A b \in Attempts : att'[b] = IF b = a THEN m ELSE att[b]
    BY <2>1, BecomesOne
  <2>3. att[a].pc # "DONE" BY <2>1 DEF Running
  <2>4. CASE Export(a)
    <3>1. /\ att[a].pc = "export" /\ weights' = att[a].model
          /\ att'[a].pc = "DONE" /\ att'[a].given = att[a].given
          /\ att'[a].out = att[a].out
      BY <2>4, ExportEffect
    <3>2. /\ att[a] \in Memories /\ Sound(att[a]) /\ Placed(att[a])
      BY Known
    <3>3. weights' \in Values BY <3>1, <3>2 DEF Memories
    <3>4. settings.restore => att[a].model = att[a].out.acc
      <4>1. /\ att[a].out = Outcome(att[a])
            /\ settings.restore /\ att[a].kept # NoScore => att[a].model = att[a].kept
            /\ settings.restore => att[a].kept = att[a].seen
        BY <3>1, <3>2 DEF Placed, Measured, Sound
      <4> QED BY <4>1 DEF Outcome
    <3> SUFFICES ASSUME NEW b \in Attempts, settings.restore,
                        att'[b].pc = "DONE", ~att'[b].given
                 PROVE  \/ weights' = att'[b].out.acc
                        \/ \E c \in Attempts : att'[c].given /\ att'[c].pc = "DONE"
      BY <1>3, <3>3 DEF WeightsAreTheResult
    <3>5. CASE b = a BY <3>1, <3>4, <3>5
    <3>6. CASE b # a
      <4>1. att[b].pc = "DONE" /\ ~att[b].given BY <2>2, <3>6
      <4>2. ~MayFollow(att[b]) BY <4>1 DEF MayFollow, Retriable
      <4>3. a < b
        BY <1>1, <3>1, <3>6, <4>2, AttemptsAssumption DEF InOrder, Attempts
      <4>4. MayFollow(att[a]) BY <1>1, <4>1, <4>3 DEF InOrder
      <4>5. att[a].given BY <3>1, <4>4 DEF MayFollow, Retriable
      <4> QED BY <3>1, <4>5
    <3> QED BY <3>5, <3>6
  <2>5. CASE ~Export(a)
    <3>1. weights' = weights /\ att'[a].pc # "DONE" BY <1>4, <2>5, WeightsStay
    <3>2. \A b \in Attempts : att[b].pc = "DONE" => att'[b] = att[b]
      BY <2>2, <2>3
    <3>3. \A b \in Attempts : att'[b].pc = "DONE" => att[b].pc = "DONE" /\ att'[b] = att[b]
      BY <2>2, <3>1
    <3> QED BY <1>1, <1>3, <3>1, <3>2, <3>3 DEF WeightsAreTheResult
  <2> QED BY <2>4, <2>5
<1>5. CASE Crash
  <2>1. \A a \in Attempts :
            /\ att'[a].given = att[a].given
            /\ att[a].pc \in Running => att'[a].pc = "KILLED"
            /\ att[a].pc \notin Running => att'[a] = att[a]
    BY <1>5, CrashEffect
  <2>2. weights' = weights BY <1>5 DEF Crash
  <2>3. \A b \in Attempts : att[b].pc = "DONE" <=> att'[b].pc = "DONE"
    BY <2>1 DEF Running
  <2>4. \A b \in Attempts : att[b].pc = "DONE" => att'[b] = att[b]
    BY <2>1 DEF Running
  <2> QED BY <1>1, <1>3, <2>2, <2>3, <2>4 DEF WeightsAreTheResult
<1> QED BY <1>2, <1>4, <1>5 DEF Next

-----------------------------------------------------------------------------
(***************************************************************************)
(* The invariant, and what it says.                                        *)
(***************************************************************************)
LEMMA InitOK == Init => IInv
<1> SUFFICES ASSUME Init PROVE IInv OBVIOUS
<1>1. settings \in Settings BY SettingsAssumption DEF Init
<1>2. \A a \in Attempts : att[a] = Idle BY DEF Init
<1>3. /\ Idle \in Memories /\ Sound(Idle) /\ Idle.stop.stale = 0 /\ ~Idle.given
      /\ Idle.pc = "idle" /\ ~Idle.closing /\ Idle.kept = NoScore
  BY IdleSound
<1>4. ~NoFile.inode /\ NoFile \in Files BY DEF NoFile, Files
<1>5. TypeOK BY <1>1, <1>3, <1>4 DEF Init, TypeOK, Values
<1>6. ASSUME NEW a \in Attempts PROVE Patient(a, Idle)
  <2>1. settings.patience \in Nat /\ a \in Nat /\ a >= 1
    BY <1>1, AttemptsAssumption DEF Settings, Attempts
  <2> QED BY <1>3, <2>1 DEF Patient
<1>7. Placed(Idle) BY <1>3 DEF Placed, Running, Measured
<1>8. AttemptsOK BY <1>2, <1>3, <1>6, <1>7 DEF AttemptsOK
<1>9. InOrder BY <1>2, <1>3 DEF InOrder
<1>10. FilesOK BY <1>4 DEF Init, FilesOK, Continues
<1>11. AloneOK BY <1>2, <1>3, <1>4 DEF Init, AloneOK
<1>12. WeightsAreTheResult BY <1>2, <1>3 DEF WeightsAreTheResult
<1> QED BY <1>5, <1>8, <1>9, <1>10, <1>11, <1>12 DEF IInv

LEMMA StepOK == IInv /\ [Next]_vars => IInv'
<1> SUFFICES ASSUME IInv, [Next]_vars PROVE IInv' OBVIOUS
<1>1. overlapped' \in BOOLEAN
  BY DEF IInv, TypeOK, vars, Next, Step, Start, TrainEpoch, FailEpoch, OpenTemp, FillTemp,
     RenameTemp, Measure, Export, GiveUp, Crash
<1>2. TypeOK'
  BY <1>1, AttemptsStep, FilesStep, WeightsStep DEF IInv, TypeOK
<1> QED BY <1>2, AttemptsStep, OrderStep, FilesStep, AloneStep, WeightsStep DEF IInv

\* In every reachable state, for every number of attempts, crashes and twins,
\* each attempt's memory and each file tells of one training run.
THEOREM OneRunInvariant == Spec => []IInv
<1>1. Init => IInv BY InitOK
<1>2. IInv /\ [Next]_vars => IInv' BY StepOK
<1> QED BY <1>1, <1>2, PTL DEF Spec

\* Whatever was resumed from whatever checkpoint, an attempt's epochs, steps,
\* history and early stopping are those of one run, and at most one epoch
\* beyond patience is trained for each attempt before it.
THEOREM ResumesContinue == Spec => []ContinuesOneRun
<1>1. IInv => ContinuesOneRun
  <2> SUFFICES ASSUME IInv PROVE ContinuesOneRun OBVIOUS
  <2>1. \A a \in Attempts :
          /\ OneTrajectory(att[a])
          /\ TellsHistory(att[a].stop, att[a].hist)
          /\ settings.patience > 0 => att[a].stop.stale <= settings.patience + a - 1
    BY DEF IInv, AttemptsOK, Sound, Coherent, Patient
  <2>2. Whole(file) => OneTrajectory(file.ck) /\ TellsHistory(file.ck.stop, file.ck.hist)
    BY DEF IInv, FilesOK, Continues, Coherent, Whole
  <2> QED BY <2>1, <2>2 DEF ContinuesOneRun
<1> QED BY <1>1, OneRunInvariant, PTL

\* A checkpoint that does not load is the work of two attempts at once: a
\* crash at any line of the write leaves the previous one or the new one.
THEOREM OnlyTwinsTear == Spec => []TornOnlyByTwins
<1>1. IInv => TornOnlyByTwins BY DEF IInv, AloneOK, TornOnlyByTwins
<1> QED BY <1>1, OneRunInvariant, PTL

\* The accuracy of the accepted result is that of the weights on disk.
THEOREM WeightsTheorem == Spec => []WeightsAreTheResult
<1>1. IInv => WeightsAreTheResult BY DEF IInv
<1> QED BY <1>1, OneRunInvariant, PTL

\* An attempt that trained from epoch 0 reports its best epoch, up to min_delta.
THEOREM FreshTheorem == Spec => []FreshReportsBest
<1>1. IInv => FreshReportsBest
  <2> SUFFICES ASSUME IInv, NEW a \in Attempts, att[a].pc = "DONE", ~att[a].resumed
               PROVE  /\ att[a].out.acc = att[a].hist[att[a].out.bestEpoch + 1]
                      /\ \A i \in 1..Len(att[a].hist) :
                            att[a].hist[i] <= att[a].out.acc + settings.delta
    BY DEF FreshReportsBest
  <2>1. /\ att[a] \in Memories /\ Sound(att[a]) /\ Placed(att[a]) BY Known
  <2>2. /\ att[a].hist # << >> /\ att[a].out = Outcome(att[a])
    BY <2>1 DEF Placed, Measured
  <2>3. /\ TellsHistory(att[a].stop, att[a].hist)
        /\ att[a].seen = att[a].stop.best
    BY <2>1 DEF Sound, Coherent
  <2>4. att[a].out.bestEpoch = ReportedEpoch(att[a].stop)
    BY <2>2 DEF Outcome, ReportedEpoch
  <2>5. /\ ReportedEpoch(att[a].stop) + 1 <= Len(att[a].hist)
        /\ att[a].stop.best = att[a].hist[ReportedEpoch(att[a].stop) + 1]
        /\ \A i \in 1..Len(att[a].hist) : att[a].hist[i] <= att[a].stop.best + settings.delta
    BY <2>2, <2>3 DEF TellsHistory
  <2>6. att[a].stop.best # NoScore
    <3>1. ReportedEpoch(att[a].stop) + 1 \in 1..Len(att[a].hist)
      BY <2>1, <2>5, EpochsAssumption DEF Memories, Stopper, ReportedEpoch
    <3>2. att[a].hist \in Seq(Scores) BY <2>1 DEF Memories
    <3>3. att[a].hist[ReportedEpoch(att[a].stop) + 1] \in Scores
      BY <3>1, <3>2, ElementOfSeq
    <3> QED BY <2>5, <3>3, ScoresAssumption DEF NoScore
  <2>7. att[a].out.acc = att[a].stop.best BY <2>2, <2>3, <2>6 DEF Outcome
  <2> QED BY <2>4, <2>5, <2>7
<1> QED BY <1>1, OneRunInvariant, PTL
=============================================================================
