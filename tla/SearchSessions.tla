--------------------------- MODULE SearchSessions ---------------------------
(***************************************************************************)
(* One output directory, a database file and the files of the candidates,  *)
(* over many runs of the program: search and resume commands with          *)
(* different configurations and different builds, one at a time, any of    *)
(* which can die between two transactions.  The file is opened and         *)
(* migrated (persistence/migrations.py), the search is located and its     *)
(* configuration compared, interrupted rows are swept, the checkpoint is   *)
(* validated and applied, and the loop runs until it stops.                *)
(*                                                                         *)
(* The loop itself is SearchEngine's: here it evaluates one row at a time, *)
(* every evaluation that ends succeeds, and it checkpoints after each one. *)
(* Training is CandidateTraining's: here a net is the searches that        *)
(* trained it, an epoch each.                                              *)
(***************************************************************************)
EXTENDS Integers, Sequences, FiniteSets, FiniteSetsExt

CONSTANTS
    Configs,       \* records [name, strategy, plan, evaluations, epochs, keep],
                   \* keep for evaluation.save_training_checkpoints
    Builds,        \* the versions of the program: [schema, format], the
                   \* newest schema, and the newest version of the stored
                   \* configurations and checkpoints, that it knows
    Tables,        \* the tables one migration creates
    Rows,          \* architectures, in the order in which a search proposes them
    MaxRetries,
    MaxSearches, MaxLaunches   \* bounds of the model

ASSUME SessionsAssumption ==
    /\ Rows \subseteq Nat \ {0} /\ IsFiniteSet(Rows)
    /\ Tables \subseteq Nat
    /\ \E t \in Tables : \A u \in Tables : u <= t
    /\ \A b \in Builds : b.schema \in Nat \ {0} /\ b.format \in Nat
    /\ \A c \in Configs : c.epochs \in Nat
    /\ MaxRetries \in Nat

VARIABLES
    file,          \* [tables: created ones, version: the recorded one]
    searches,      \* the rows of the searches table, in order of creation
    artifacts,     \* the files of the candidates: [training, weights]
    proc,          \* the running command (see Off)
    launches       \* commands started so far

vars == <<file, searches, artifacts, proc, launches>>

None == [strategy |-> "none"]

\* plan stands for what load_state_dict compares: the population size of
\* evolution, the number of rungs of halving.
PlanOf(c) == [strategy |-> c.strategy, plan |-> c.plan]

Off == [pc |-> "off"]

\* _candidate_directory and TrainingBudget.key name the files of one
\* architecture at one budget: neither a search nor a seed is in the names.
PathOf(r, epochs) == <<r, epochs>>

Paths == {PathOf(r, c.epochs) : r \in Rows, c \in Configs}

NoWeights == [by |-> 0, net |-> <<>>]

-----------------------------------------------------------------------------
(***************************************************************************)
(* Searches and their rows.                                                *)
(***************************************************************************)
Fresh == [status |-> "none", retries |-> 0, deaths |-> 0, epochs |-> 0, trained |-> <<>>]

\* deaths and writers are history: the processes that ended while this row
\* was running in them, and the strategies that wrote checkpoints.
NewSearchRow(c, b) ==
    [name |-> c.name, strategy |-> c.strategy, version |-> b.format, status |-> "created",
     rows |-> [r \in Rows |-> Fresh], saved |-> None, format |-> b.format, writers |-> {}]

With(s, st) == {r \in Rows : searches[s].rows[r].status = st}

SetRow(s, r, row) == [searches EXCEPT ![s].rows[r] = row]

\* find_latest_search, the S of one name, or all.
Latest(S) == IF S = {} THEN 0 ELSE Max(S)

\* _find_resumable: of the project's name, or of any.
FindResumable(c) ==
    LET named == {s \in DOMAIN searches : searches[s].name = c.name}
    IN IF named # {} THEN Latest(named) ELSE Latest(DOMAIN searches)

\* Variant: an interruption costs nothing.
RecoveredFree(row) == [row EXCEPT !.status = "queued"]

\* recover_interrupted, one RUNNING row.
Recovered(row) ==
    IF row.retries < MaxRetries
    THEN [row EXCEPT !.status = "queued", !.retries = @ + 1]
    ELSE [row EXCEPT !.status = "failed"]

-----------------------------------------------------------------------------
Init ==
    /\ file = [tables |-> {}, version |-> 0]
    /\ searches = <<>>
    /\ artifacts = [training |-> [p \in Paths |-> <<>>], weights |-> [p \in Paths |-> NoWeights]]
    /\ proc = Off
    /\ launches = 0

\* A search or resume command of some build with some configuration; id 0:
\* no --search-id.
Launch(cmd, c, b, id) ==
    /\ proc.pc = "off" /\ launches < MaxLaunches
    /\ launches' = launches + 1
    /\ proc' = [pc |-> "schema", cmd |-> cmd, config |-> c, build |-> b,
                target |-> id, applied |-> 0, completed |-> 0, claimed |-> 0,
                net |-> <<>>, saved |-> FALSE, reason |-> "none"]
    /\ UNCHANGED <<file, searches, artifacts>>

SearchCommand(c, b) == Launch("search", c, b, 0)

ResumeCommand(c, b, id) == Launch("resume", c, b, id)

Goto(pc) == proc' = [proc EXCEPT !.pc = pc]

\* A process ends: what it was evaluating stays RUNNING.
Buried(s) ==
    IF proc.claimed = 0 THEN searches
    ELSE SetRow(s, proc.claimed, [searches[s].rows[proc.claimed] EXCEPT !.deaths = @ + 1])

\* An exception before the loop leaves run(): nothing is finalised.
Refuse == proc' = Off

Crash ==
    /\ proc.pc # "off"
    /\ proc' = Off
    /\ searches' = Buried(proc.target)
    /\ UNCHANGED <<file, artifacts, launches>>

-----------------------------------------------------------------------------
(***************************************************************************)
(* ensure_schema, when the engine is built.                                *)
(***************************************************************************)
\* current_version: 0 without the table or its row.
VersionTable == <<1, Max(Tables)>>

CurrentVersion == IF VersionTable \in file.tables THEN file.version ELSE 0

\* apply_migrations, up to its loop: a file of a newer build is refused.
ReadVersion ==
    /\ proc.pc = "schema"
    /\ \/ CurrentVersion > proc.build.schema /\ Refuse
       \/ CurrentVersion = proc.build.schema /\ Goto("session")
       \/ CurrentVersion < proc.build.schema
            /\ proc' = [proc EXCEPT !.pc = "upgrade", !.applied = CurrentVersion]
    /\ UNCHANGED <<file, searches, artifacts, launches>>

\* The tables of the next migration, those that are missing, one by one.
CreateTable(t) ==
    /\ proc.pc = "upgrade"
    /\ <<proc.applied + 1, t>> \notin file.tables
    /\ file' = [file EXCEPT !.tables = @ \cup {<<proc.applied + 1, t>>}]
    /\ UNCHANGED <<searches, artifacts, proc, launches>>

\* The loop of apply_migrations goes on with the next one, or ends.
AfterMigration(v) == IF v = proc.build.schema THEN "session" ELSE "upgrade"

\* Variant: the version is recorded before the upgrade.
RecordVersionFirst ==
    /\ proc.pc = "upgrade"
    /\ file' = [file EXCEPT !.version = proc.applied + 1]
    /\ proc' = [proc EXCEPT !.applied = @ + 1,
                            !.pc = AfterMigration(proc.applied + 1)]
    /\ UNCHANGED <<searches, artifacts, launches>>

\* _record_version, in a transaction of its own.
RecordVersion ==
    /\ proc.pc = "upgrade"
    /\ \A t \in Tables : <<proc.applied + 1, t>> \in file.tables
    /\ file' = [file EXCEPT !.version = proc.applied + 1]
    /\ proc' = [proc EXCEPT !.applied = @ + 1,
                            !.pc = AfterMigration(proc.applied + 1)]
    /\ UNCHANGED <<searches, artifacts, launches>>

-----------------------------------------------------------------------------
(***************************************************************************)
(* run(): a new search, or the resume of one.                              *)
(***************************************************************************)
CreateSearch ==
    /\ proc.pc = "session" /\ proc.cmd = "search"
    /\ Len(searches) < MaxSearches
    /\ searches' = Append(searches, NewSearchRow(proc.config, proc.build))
    /\ proc' = [proc EXCEPT !.pc = "begin", !.target = Len(searches) + 1]
    /\ UNCHANGED <<file, artifacts, launches>>

\* check_config_compatibility: a stored configuration of a newer build is
\* refused, any other difference is a warning.
Compatible(s) == searches[s].version <= proc.build.format

\* An unknown search is refused too.
Locate ==
    /\ proc.pc = "session" /\ proc.cmd = "resume"
    /\ LET s == IF proc.target = 0 THEN FindResumable(proc.config) ELSE proc.target
       IN \/ /\ s \in DOMAIN searches /\ Compatible(s)
             /\ proc' = [proc EXCEPT !.pc = "sweep", !.target = s]
          \/ ~(s \in DOMAIN searches /\ Compatible(s)) /\ Refuse
    /\ UNCHANGED <<file, searches, artifacts, launches>>

\* recover_interrupted: before anything of the checkpoint is looked at.
Sweep ==
    /\ proc.pc = "sweep"
    /\ searches' = [searches EXCEPT ![proc.target].rows =
                       [r \in Rows |-> IF @[r].status = "running"
                                       THEN Recovered(@[r]) ELSE @[r]]]
    /\ Goto("restore")
    /\ UNCHANGED <<file, artifacts, launches>>

\* SearchCheckpoint.from_payload.
Readable(format) == format <= proc.build.format

\* SearchCheckpoint.validate_for; a changed configuration is a warning.
ValidFor(saved) == saved.strategy = proc.config.strategy

\* Variant: the state of another population or ladder is loaded.
LoadsAny(saved) == TRUE

\* The strategy's load_state_dict.
Loads(saved) == saved.plan = proc.config.plan

\* _restore and _reconcile_completed: without a checkpoint the strategy
\* starts its plan again; the rows say how many evaluations completed.
Restore ==
    /\ proc.pc = "restore"
    /\ LET s == searches[proc.target]
       IN IF s.saved = None
                \/ (Readable(s.format) /\ ValidFor(s.saved) /\ Loads(s.saved))
          THEN proc' = [proc EXCEPT !.pc = "begin",
                           !.completed = Cardinality(With(proc.target, "completed"))]
          ELSE Refuse
    /\ UNCHANGED <<file, searches, artifacts, launches>>

Begin ==
    /\ proc.pc = "begin"
    /\ searches' = [searches EXCEPT ![proc.target].status = "running"]
    /\ Goto("loop")
    /\ UNCHANGED <<file, artifacts, launches>>

-----------------------------------------------------------------------------
(***************************************************************************)
(* The loop, and its end.                                                  *)
(***************************************************************************)
Spent == proc.completed >= proc.config.evaluations

Propose ==
    /\ proc.pc = "loop" /\ ~Spent /\ proc.claimed = 0
    /\ With(proc.target, "queued") = {} /\ With(proc.target, "none") # {}
    /\ LET r == Min(With(proc.target, "none"))
       IN searches' = SetRow(proc.target, r, [Fresh EXCEPT !.status = "queued",
                                                           !.epochs = proc.config.epochs])
    /\ UNCHANGED <<file, artifacts, proc, launches>>

\* Variant: the budget of the configuration in use.
BudgetOfConfig(row) == proc.config.epochs

\* _budget_for: the budget is in the row.
BudgetFor(row) == row.epochs

\* claim_next_queued, and evaluate up to the loop of fit: with training
\* checkpoints, training goes on from the file of that name.
Claim ==
    /\ proc.pc = "loop" /\ ~Spent /\ proc.claimed = 0
    /\ With(proc.target, "queued") # {}
    /\ LET r == Min(With(proc.target, "queued"))
           row == searches[proc.target].rows[r]
       IN /\ searches' = SetRow(proc.target, r, [row EXCEPT !.status = "running"])
          /\ proc' = [proc EXCEPT !.claimed = r, !.saved = FALSE,
                        !.net = IF proc.config.keep
                                THEN artifacts.training[PathOf(r, BudgetFor(row))]
                                ELSE <<>>]
    /\ UNCHANGED <<file, artifacts, launches>>

Evaluating == proc.pc = "loop" /\ proc.claimed # 0

EvaluatedRow == searches[proc.target].rows[proc.claimed]

EvaluatedPath == PathOf(proc.claimed, BudgetFor(EvaluatedRow))

\* An epoch, and its checkpoint.
TrainEpoch ==
    /\ Evaluating
    /\ Len(proc.net) < BudgetFor(EvaluatedRow)
    /\ LET net == Append(proc.net, proc.target)
       IN /\ proc' = [proc EXCEPT !.net = net]
          /\ artifacts' = IF proc.config.keep
                          THEN [artifacts EXCEPT !.training[EvaluatedPath] = net]
                          ELSE artifacts
    /\ UNCHANGED <<file, searches, launches>>

\* save_model_weights, over the file of that name.
SaveWeights ==
    /\ Evaluating
    /\ Len(proc.net) = BudgetFor(EvaluatedRow) /\ ~proc.saved
    /\ artifacts' = [artifacts EXCEPT !.weights[EvaluatedPath] =
                        [by |-> proc.target, net |-> proc.net]]
    /\ proc' = [proc EXCEPT !.saved = TRUE]
    /\ UNCHANGED <<file, searches, launches>>

\* complete_trial and the status, with what was measured and the weights' path.
Complete ==
    /\ Evaluating
    /\ proc.saved
    /\ searches' = SetRow(proc.target, proc.claimed,
                     [EvaluatedRow EXCEPT !.status = "completed", !.trained = proc.net])
    /\ proc' = [proc EXCEPT !.claimed = 0, !.completed = @ + 1, !.pc = "save"]
    /\ UNCHANGED <<file, artifacts, launches>>

Saved ==
    LET old == searches[proc.target]
        plan == PlanOf(proc.config)
    IN [searches EXCEPT ![proc.target] =
           [old EXCEPT !.saved = plan, !.format = proc.build.format,
                       !.writers = old.writers \cup {plan}]]

Checkpoint ==
    /\ proc.pc = "save"
    /\ searches' = Saved
    /\ Goto("loop")
    /\ UNCHANGED <<file, artifacts, launches>>

\* The budget is spent, or nothing is left to propose.
Stop ==
    /\ proc.pc = "loop" /\ proc.claimed = 0
    /\ \/ Spent
       \/ With(proc.target, "queued") \cup With(proc.target, "none") = {}
    /\ proc' = [proc EXCEPT !.pc = "finalise", !.reason = "completed"]
    /\ UNCHANGED <<file, searches, artifacts, launches>>

\* Ctrl-C in the loop, at any point of an evaluation.
Interrupt ==
    /\ proc.pc \in {"loop", "save"}
    /\ proc' = [proc EXCEPT !.pc = "finalise", !.reason = "paused"]
    /\ UNCHANGED <<file, searches, artifacts, launches>>

\* _finalise: a checkpoint, then the status.
FinalCheckpoint ==
    /\ proc.pc = "finalise"
    /\ searches' = Saved
    /\ Goto("close")
    /\ UNCHANGED <<file, artifacts, launches>>

Close ==
    /\ proc.pc = "close"
    /\ searches' = [Buried(proc.target) EXCEPT ![proc.target].status = proc.reason]
    /\ proc' = Off
    /\ UNCHANGED <<file, artifacts, launches>>

-----------------------------------------------------------------------------
Next ==
    \/ \E c \in Configs, b \in Builds : SearchCommand(c, b)
    \/ \E c \in Configs, b \in Builds, id \in 0..Len(searches) : ResumeCommand(c, b, id)
    \/ Crash
    \/ ReadVersion
    \/ \E t \in Tables : CreateTable(t)
    \/ RecordVersion
    \/ CreateSearch
    \/ Locate
    \/ Sweep
    \/ Restore
    \/ Begin
    \/ Propose
    \/ Claim
    \/ TrainEpoch
    \/ SaveWeights
    \/ Complete
    \/ Checkpoint
    \/ Stop
    \/ Interrupt
    \/ FinalCheckpoint
    \/ Close

Spec == Init /\ [][Next]_vars

-----------------------------------------------------------------------------
(***************************************************************************)
(* Properties.                                                             *)
(***************************************************************************)
\* A process can die between two tables of a migration, or between the
\* upgrade and its record; the next one starts the migration again.  The
\* file never claims a version whose tables are not all there, and no search
\* is in it before they are.
SchemaTellsTables ==
    /\ (1..file.version) \X Tables \subseteq file.tables
    /\ (searches # <<>> \/ proc.pc \notin {"off", "schema", "upgrade"}) => file.version >= 1

\* RUNNING in a process that is gone.
Orphan(s, r) ==
    /\ searches[s].rows[r].status = "running"
    /\ ~(proc.pc # "off" /\ proc.target = s /\ proc.claimed = r)

\* "Resuming twice is harmless": each process that died with a candidate
\* costs that candidate one retry, whatever resumes come after it, refused
\* ones included, and however they die; the one that finds no retry left
\* fails it.
ChargedOncePerDeath ==
    \A s \in DOMAIN searches, r \in Rows :
        LET row == searches[s].rows[r]
        IN row.deaths = row.retries
              + (IF row.status = "failed" \/ Orphan(s, r) THEN 1 ELSE 0)

\* The path in the artifacts table, relative to the artifact directory.
WeightsPath(s, r) == PathOf(r, searches[s].rows[r].epochs)

\* load_best_model.
LoadedWeights(s, r) == artifacts.weights[WeightsPath(s, r)]

\* evaluate_on_test, the evaluate command.
TestedNet(s, r) == LoadedWeights(s, r).net

\* A row of another search is of the same candidate, and was evaluated.
Twin(t, r, epochs) ==
    /\ searches[t].rows[r].status \notin {"none", "queued"} \/ searches[t].rows[r].retries > 0
    /\ searches[t].rows[r].epochs = epochs

\* Whatever configuration evaluates it, a candidate is measured after as many
\* epochs as it was proposed with, all of them trained for that architecture
\* and budget; and its weights file is there, and holds the net that was
\* measured, unless another search on this output directory has evaluated the
\* same candidate since: then it holds that search's, and nothing tells.
\* (_budget_for, _evaluate_inner, complete_trial, load_best_model)
MeasuredAsProposed ==
    \A s \in DOMAIN searches, r \in Rows :
        LET row == searches[s].rows[r]
            weights == LoadedWeights(s, r)
        IN row.status = "completed" =>
              /\ Len(row.trained) = row.epochs
              /\ \A i \in DOMAIN row.trained : Twin(row.trained[i], r, row.epochs)
              /\ weights # NoWeights
              /\ IF weights.by = s THEN TestedNet(s, r) = row.trained
                 ELSE Twin(weights.by, r, row.epochs)

\* Whatever configurations and builds resume a search, by id, by name or by
\* falling back to the latest, its checkpoints are all written by one
\* strategy with one plan: the state of one is never continued by another.
OneStrategyPerSearch ==
    \A s \in DOMAIN searches : Cardinality(searches[s].writers) <= 1
=============================================================================
