# A TLA+ model of nas_engine

`nas_engine` is a neural architecture search engine: it asks a search strategy
for architectures, evaluates them, writes everything to a SQL database and can
be interrupted, killed and resumed at any time. What makes it hard to get right
is the book-keeping: which transaction is committed when, what a dead process
leaves behind, and what the next process makes of it. These modules model that
book-keeping from the command line down to the files of one training, and the
pure algorithms between (mutation and repair, cost, ranking), check them with
TLC and prove the part that matters most with TLAPS.

Paths below are relative to the Python package `src/nas_engine`.

## 1. The system and its parts

| part | state it keeps | operations | interacts with |
|---|---|---|---|
| engine (`orchestration/engine.py`) | counters (`EngineState`), `_attempts`, `_pending_specs`, the round's tasks | `run`, `resume`, `_loop`, `_accept_proposal`, `_build_tasks`, `_process_result`, `_checkpoint`, `_finalise` | calls the strategy, the repository and the executor, all from one thread |
| lifecycle (`orchestration/lifecycle.py`) | none (a transition table) | `can_transition`, `validate_transition` | guards every status update of the repository |
| retry policy (`orchestration/retry.py`) | none | `decide`, `backoff_for` | asked by the engine after a failed evaluation |
| checkpoints (`orchestration/checkpoint.py`) | strategy state and engine counters | `to_payload`, `from_payload`, `validate_for` | written and read by the engine through the repository |
| executors (`orchestration/executors.py`, `worker.py`) | a process pool with its queue and futures | `run_batch`, `shutdown` | run a batch of tasks, one result per task, in worker processes that finish, hang or die next to the engine's thread |
| repository and schema (`persistence/`) | searches, candidates, trials, checkpoints, events | one method per operation, one transaction per method | the only writer of the database |
| strategies (`search/`) | random: seen hashes; evolution: population | `propose`, `observe`, `is_finished`, `on_duplicate`, `on_rejected`, `state_dict` | called back by the engine, saved in checkpoints |
| successive halving (`search/successive_halving.py`) | per rung: proposals, results, promoted; the current rung; hashes seen; the sampler's generator | `propose` with `_propose_for_rung` and `_advance_rung`, `observe`, `on_duplicate`, `is_finished`, `state_dict` | the same protocol; budgets and rung sizes come from `ResourceLadder` |
| search space (`search_space/`) | statistics of sampler and mutator | sampling, mutation, repair, validation | used by the strategies; `check_architecture` by the engine |
| architectures (`architectures/`) | immutable specifications | shapes, cost, canonical form, hash, lineage | the identity of a candidate is its hash (and rung) |
| objectives (`objectives/`) | none | Pareto sorting, ranking, scoring, constraints | read the completed metrics |
| models (`models/`) | modules and their tensors | `build_model`, the blocks | built from a specification for every evaluation |
| evaluation and training (`evaluation/`, `training/`) | optimizer, early stopping, epoch checkpoints and weights files | `evaluate`, `fit`, `step` | called by executors, classify failures; the files are shared by attempts and searches |
| configuration (`config/`) | settings | merging, validation, resume compatibility | parameters of everything |
| database and migrations (`persistence/database.py`, `migrations.py`) | the schema version | `apply_migrations` | before everything else of a command |
| command line (`cli.py`) | | `search`, `resume`, and commands that only read | one process per command, on one output directory |
| reporting, observability, utilities | logs and files | | read only |

### What is hard

* **Transactions.** One logical step of the engine is several transactions:
  accepting a proposal is three (insert `PROPOSED`, then `VALIDATED`, then
  `QUEUED`), starting an evaluation two (claim, insert the trial), finishing one
  two (complete the trial, complete the candidate), a retry three. A crash or a
  Ctrl-C falls between any two.
* **Two copies of the same fact.** The attempt number is in `_attempts` and in
  the `retry_count` column; the number of completed evaluations in `EngineState`,
  in the checkpoint and in the rows; what the strategy knows in memory and in
  the checkpoint.
* **Stale restore.** A resumed strategy is the one of the last checkpoint; the
  rows have moved on.
* **Limits.** The budget is checked once per round, a round runs a batch.
* **Stopping.** Idle rounds, duplicates, retries and a finished strategy must
  each lead out of the loop.
* **A barrier that others must lift.** A rung of successive halving waits for
  every result of its candidates: a failure, a duplicate, a result that a dead
  process was told, or a rung with fewer survivors than planned each threaten it.
* **Rounding.** Budgets and sizes of the rungs are rounded, capped and floored,
  and the number of candidates is derived by an inverse that is not exact.
* **Failure of others.** Worker processes die or time out while the engine goes
  on (executor); a worker that was given up trains on beside its successor and
  writes the same files.
* **Files without an owner.** Checkpoints and weights of a training are named by
  architecture and budget; every search and seed of an output directory shares
  them, and no transaction covers them.
* **Long legal sequences.** A network is the end of a chain of mutations, each of
  which is repaired for the next; what the chain reaches nobody has written down.
* **Order of comparisons.** Dominance has a tolerance and meets NaN, infinities
  and absent metrics; two scores are computed by different code.

`PROJECT.json` lists each hazard at its line with the properties that watch it.

### What makes each part correct

* engine and repository: no candidate is tried more often than allowed, none is
  left running with nobody running it, no row is overwritten once it holds a
  verdict, no unique constraint is hit, counters agree with rows, the loop ends.
* lifecycle: every status change is an edge of the table.
* strategies: each outcome is told once; proposals stay within their plan; a
  strategy that is not finished can make progress.
* successive halving: the rows are those of one bracket cut at the best, also
  when a resume starts from an older rung state: nobody enters a rung without a
  measurement below, nor instead of a better candidate, nor before the rung
  below is done, and no rung exceeds its size; budgets grow and sizes shrink.
* executors: one result per task in task order, also when workers die; no
  result of an attempt that was given up counts for its retry; nothing is left
  running under a finished search.
* random search and evolution: nothing proposed is forgotten, the population is
  the newest of the scored results, every child has a completed parent, and
  "exhausted" means exhausted.
* objectives: a candidate that is dominated is ranked after what dominates it,
  what cannot be chosen comes last, and neither score contradicts dominance.
* search space and architectures: one pass of repair makes any mutation valid;
  what leaves the space leaves it in known ways; the analytic cost is that of the
  network that is built.
* training: early stopping and resumption continue one run, the file is never
  torn by a crash, and the reported accuracy is that of the weights on disk.
* sessions: the schema says what tables there are, a death costs one retry
  however often a resume is tried, a search is continued by one strategy only,
  and a candidate is measured with the budget it was proposed with.

## 2. Modules

| module | models | notes |
|---|---|---|
| `Lifecycle` | `lifecycle.py` | states and the transition table |
| `SearchEngine` | `engine.py`, `repository.py`, `retry.py`, the search checkpoints, the strategy protocol | the core, one action per transaction |
| `TrialLedger` | nothing in particular: the abstract promise of the database | `SearchEngine` implements it |
| `SuccessiveHalving` | the strategy's state and methods | operators on the state, used by the next |
| `HalvingSearch` | that strategy under the engine's loop, with rows, checkpoints, crashes and resumes | EXTENDS `SuccessiveHalving` |
| `ProposalStrategies` | random search and regularized evolution | operators on the state, used by the next |
| `StrategySearch` | those two under the engine's loop, with rows, checkpoints, crashes and resumes | EXTENDS `ProposalStrategies`, INSTANCEs `Lineage` |
| `Lineage` | `architectures/lineage.py` | pure operators on a graph of parents |
| `ProcessPool` | `ProcessPoolExecutorBackend`, the rounds of the engine around it, and the standard library's pool as the code uses it | parent and workers interleave |
| `BatchContract` | nothing in particular: what `run_batch` promises the engine | `ProcessPool` implements it, `SearchEngine` relies on it |
| `CandidateTraining` | `evaluator.evaluate` and `Trainer.fit`, early stopping, the epoch checkpoint | the attempts at one candidate, twins included, on shared files |
| `SearchSessions` | `cli.py`, `migrations.py`, the start and end of `run`, compatibility checks, the candidates' files | commands, one after the other, on one output directory |
| `Architectures` | specifications, shapes, repair, cost, the built network | pure operators |
| `SearchSpaces` | spaces, sampler, mutation operators, validation | EXTENDS `Architectures` |
| `ArchitectureWalk` | a line of descent through a space | EXTENDS `SearchSpaces`, one action per mutation operator |
| `ResourceLadder` | `ResourceLadder` of `successive_halving.py`, the checks of `TrainingBudget`, the derivation in `registry.py` | one rung per step |
| `Objectives` | metrics, dominance, normalizations, scores, constraints | pure operators |
| `Ranking` | `rank_candidates`, `non_dominated_sort` | one front per step, EXTENDS `Objectives` |
| `EngineAlgorithms` | | the ladder or the ranking, so that one run checks both |
| `MC...` | | instances for TLC of the module they are named after |
| `SearchEngineProofs` | | what is proved of the engine: rows, refinement, accounts |
| `EngineAlgorithmsProofs` | | what is proved of the ranking, the scores and the ladder |
| `HalvingSearchProofs`, `StrategySearchProofs`, `ProcessPoolProofs`, `CandidateTrainingProofs`, `SearchSessionsProofs`, `ArchitectureWalkProofs` | | what is proved of the module they are named after |

How they compose: `SearchEngine` has any executor and any strategy that asks for a
key once; the only one that may ask twice, evolution with
`allow_duplicate_children`, is in `StrategySearch`, which accepts and refuses
duplicates. `HalvingSearch`
and `StrategySearch` replace the strategy by a real one under a coarser engine,
`ProcessPool` replaces the executor under a coarser loop, `CandidateTraining`
looks into one task of it (a worker that was given up is its `given`), and
`SearchSessions` puts processes of any of these in a row. Where two modules have
the same piece of code, each has it with the detail its properties need.

### SearchEngine and the code

The variables come in two groups. `searchStatus`, `status`, `born`, `retries`,
`trial` and `checkpoints` are columns and tables; a crash keeps them. `strat`,
`completed`, `attempts`, `todo`, `tasks`, `idle` and `reason` are the engine
object and the locals of `_loop`; a crash loses them. `pc` says between which
two transactions the engine is.

| code | actions |
|---|---|
| `run` up to `_loop` | `CreateSearch`, `BeginSearch`; on resume `RecoverInterrupted` (one transaction), `ResumeSearch` (`_restore`, `_reconcile_completed`, status `RUNNING`) |
| head of `_loop` | `StopOnBudget`, `StopOnTime`, `Propose`, `NothingToPropose` |
| `_accept_proposal` | `AcceptDuplicate`, `AcceptInsert`, `AcceptReject`, `AcceptValidate`, `AcceptEnqueue`, `AcceptDone` |
| `_build_tasks` | `ClaimNextQueued`, `StartTrial` |
| rest of a round | `ClaimedNothing`, `RunBatch`, `BatchDone` |
| `_finish_successful` | `CompleteTrial`, `MarkCompleted`, `Observe` |
| `_finish_failed` | `FailTrial`, then `IncrementRetry`, `Requeue` or `MarkFailed`, `Observe` |
| `_checkpoint`, `_finalise` | `SaveCheckpoint`, `PruneCheckpoints`, `CloseSearch` |
| `except` clauses of `run` | `Abort` (Ctrl-C: `INTERRUPTED`, any exception: `ERROR`) |
| the process dies | `Crash` |

Abstractions, and why they lose nothing the properties need:

* A member of `Keys` stands for one (architecture hash, rung) of one search, the
  columns the database keeps unique. Specifications and metrics are left out.
  `OverBudget` and `Malformed` are the keys `check_architecture` prunes or fails.
* The strategy is reduced to what it has asked for, what it was told, and
  whether it is finished. It may propose any identities it has not asked for, in
  any number up to the one asked for, and may finish at any time, so every
  strategy of the package is one of its behaviours.
* An executor returns any outcome for every task of the batch, in task order.
* The clock is left out: a time limit, when there is one, may be found exceeded
  at any round.
* Events, logs, warnings, the counters nothing depends on, and the backoff sleep
  are left out.
* Resuming is done by a new engine object, as the command line does.
* A Ctrl-C inside `_finalise` is a `Crash`: nothing catches it there.
* Counting a completion and telling the strategy are one action: both are in
  memory and a crash loses both. The one thing this hides is a Ctrl-C between
  them, which leaves a checkpoint that counts a completion the strategy was not
  told; the counter is replaced on resume anyway.

### TrialLedger

What a reader of the database may rely on, in six actions: attempts are opened
one at a time and upwards, closed once, and a candidate is `done` only after a
measured last attempt. `KeepsLedger` is `TrialLedger!Spec` with the trial rows as
ledger and the candidate status as verdict.

### SuccessiveHalving, HalvingSearch and the code

The record `bracket` is the strategy object: `rungs[r].proposed`, `results`,
`promoted` (`_RungState`), `current` (`_current_rung`), `seen`, `exhausted`, and
`drawn` for the generator. `table`, `score`, `retries` and `inserted` are columns
of the candidate rows and `saved` is the newest checkpoint; a crash keeps these.

| code | actions |
|---|---|
| `propose`, one turn of its loop each | `ProposeSample`, `ProposeNoSample`, `ProposeSurvivor`, `ProposeNoSurvivor`, `WaitAtBarrier`, `AdvanceRung` (`_advance_rung`), `ProposedEnough` |
| `observe`, `on_duplicate` | `Observe` (`Observed`), `AcceptDuplicate` (`Duplicated`) |
| head of `_loop` | `StopOnBudget`, `StartProposing`, `NothingToPropose` |
| `_accept_proposal` | `AcceptDuplicate`, `AcceptNew`, `AcceptDone` |
| `_build_tasks`, `run_batch` | `ClaimNext`, `RunBatch`, `ClaimedNothing` |
| `_process_result` | `Complete`, `RetryLater`, `Fail`, `Observe` |
| `_checkpoint`, `_finalise` | `BatchDone`, `Finalise` |
| Ctrl-C, the process dies, `resume` | `Interrupt`, `Crash`, `Resume` |

`SearchEngine` has the transactions one by one under a strategy left open; here the
strategy is exact and the engine coarser. What that leaves out, and why it may:

* A row is inserted and queued in one step and a trial is written with its row.
  The stops in between are the subject of `SearchEngine`.
* The time limit and exceptions end the loop as Ctrl-C does.
* The sampler is a position in a fixed stream of draws, one stream per seed: two
  processes restored from the same checkpoint draw the same architectures, as
  they do with the saved generator. It returns validated architectures only, so
  `_accept_proposal` rejects none.
* A score is one of few naturals; only their order matters. Architectures are
  naturals in the order of the hashes, which break ties.
* `saved` keeps the newest checkpoint, the only one a resume reads.

### ResourceLadder and the code

`Init` chooses a configuration that `__post_init__` accepts and derives
`initial_candidates` from `max_evaluations` as `_build_successive_halving` does;
`AddRung` is one turn of the comprehensions in `budgets` and `rung_sizes`.
`RoundHalfEven`, `EpochsAt`, `FractionAt`, `ResolutionAt` and `SizeAt` have the
code's rounding, caps and floors. Floats are fractions, and the instances use
factors and fractions that a float holds exactly, so that both round alike.
`Native` is the resolution `None`: a ladder without a base resolution scales
nothing, which the model has as the code does.

### ProcessPool and the code

`pc` is where the engine's thread is, `pool` is `_pool`, and `future` maps every
attempt at a candidate to the future of its submission; attempt numbers are never
reused (`AttemptIsFresh` of `SearchEngine`), so an attempt is submitted once.

| code | actions |
|---|---|
| `_loop` up to `run_batch` | `Propose`, `Claim`, `Claimed`, `SearchOver` |
| `_ensure_pool` | `EnsurePool`, `CannotStart` |
| the comprehension over `pool.submit` | `Submit`, `SubmitRefused`, `AllSubmitted` |
| the loop over `future.result` | `CollectDone`, `CollectBroken`, `CollectTimeout`, `BatchReturned` |
| Ctrl-C | `InterruptCollect` (in the `try` of the loop), `Interrupt` (elsewhere) |
| `_process_result` over the zip | `Process`, `RoundDone` |
| `shutdown`, `_finalise` | `Shutdown`, `Finalise`, in the order that the reason for the end gives them |
| worker processes | `StartTask`, `DropTask`, `FinishTask` (`evaluate_task`), `WorkerDies` |

The standard library is not part of the repository. What is modelled of it is
what the code depends on: a first-in first-out queue, futures that are pending,
running, done, broken or cancelled, a worker death that breaks the pool and all
open futures, and `shutdown(wait=True)` that returns when nothing is open.

Abstractions: the strategy proposes what it is asked for while it has
candidates; a budget or time limit may end the search at any round; a second
Ctrl-C, during `shutdown`, is left out; measurements are the outcome `OK`. A
timeout may happen at any time, which covers every speed of the workers.

`KeepsContract` is `BatchContract!Spec` with a batch that is being claimed hidden
and the successful futures as `measured`.

### ProposalStrategies, StrategySearch and the code

The record `strategy` is the object of either class: `seen`, counters, `misses`
(`_consecutive_exhaustions`), `population`, `pending` (`_pending_parents`),
position in the stream. `setting` is the configured strategy, with or without
`allow_duplicate_children` (`twins`). `table`, `score`, `parent`, `retries` and
`inserted` are rows, `saved` the newest checkpoint.

| code | actions |
|---|---|
| head of `_loop` | `StopOnBudget`, `StartRound`, `IdleRound` |
| `RandomSearch.propose` | `ProposeRandomly` once per turn |
| `RegularizedEvolution._propose_one` | `ProposeFounder` (warm-up, or an empty population), `ProposeChild`, `ProposeUnmutated` (`MutationError`), `ProposeUnrelated` (child and retry seen) |
| `_accept_proposal` | `AcceptDuplicate`, `AcceptNew` |
| `_build_tasks`, `run_batch` | `RunBatch` |
| `_process_result`, `observe` | `Succeed`, `Retry`, `Fail` |
| `_checkpoint`, `_finalise` | `BatchDone`, `Finalise` |
| death, `resume` | `Crash`, `Resume` |

A seed is a fixed sequence of what the sampler would try; 0 in it is a whole
budget of attempts that found nothing. The tournament is the set of members that
can win a sample of the configured size, ties broken by the hash. `told` and
`refused` are history.

### Lineage and the code

A graph is a function from rows to parents. `Ancestry` is the walk of
`LineageGraph.ancestry` with its three ways to be cut off (missing parent, cycle,
a depth that is a parameter, 1000 in the code); `Descendants`, `Roots`, `ReportedChain` are what the report shows.

### CandidateTraining and the code

One candidate at one budget, one trainer per attempt, and the three files of its
directory. A net is the validation score it measures; an epoch gives any score.

| code | actions |
|---|---|
| `evaluate` up to the loop of `fit` | `Start`: fresh, from the file, or refused |
| an epoch, with validation, early stopping and the copy of the best state | `TrainEpoch`, `FailEpoch` (diverged, training error, deadline) |
| `save_training_checkpoint` | `OpenTemp`, `FillTemp` (or the disk is full), `RenameTemp` (with what follows it in the loop) |
| after the loop | `Measure`, `Export` (`save_model_weights` and the result) |
| the parent's `future.result` times out | `GiveUp`: the attempt is marked, and runs on |
| the process dies | `Crash`: all running attempts |

A file is a name for an inode, so that two attempts writing `.training_<key>.pt.tmp`
can fill each other's file and rename it away; `open` and `mixed` say who is
writing and whether two have.

### SearchSessions and the code

`file` is the schema (tables, recorded version), `searches` the rows, `artifacts`
the files, `proc` the running command; commands run one at a time, as the
production runbook asks ("One search per database file").

| code | actions |
|---|---|
| `nas-engine search`, `resume` | `SearchCommand`, `ResumeCommand`, with any configuration and build |
| `apply_migrations` | `ReadVersion`, `CreateTable`, `RecordVersion` |
| `run` up to the loop | `CreateSearch` or `Locate` (`_find_resumable`, compatibility), `Sweep`, `Restore` (`from_payload`, `validate_for`, `load_state_dict`), `Begin` |
| the loop, one row at a time | `Propose`, `Claim`, `TrainEpoch`, `SaveWeights`, `Complete`, `Checkpoint`, `Stop`, `Interrupt` |
| `_finalise` | `FinalCheckpoint`, `Close` |
| the process dies | `Crash`, between any two |

A net is the sequence of the searches that trained it, an epoch each, which is
what `MeasuredAsProposed` needs to tell whose net a file holds. `deaths` and
`writers` are history. A build is the newest schema and the newest format it
reads; today the code has one migration, the model has as many as a build knows.

### Architectures, SearchSpaces, ArchitectureWalk and the code

An architecture is a record of stem, stages of blocks, and head. `Canonical` is
what the validators of `spec.py` force (`_canonicalise`), `Shapes` the trace of
`shapes.py`, `Repair` the one pass of `repair.py`, `Cost` the arithmetic of
`cost.py`, and `Summary` the parameters and buffers of the modules that
`models/` would build, written from that code and not from the arithmetic.
`Draws` and `Children` are the whole set of what sampler and operators may
return, so that a walk is every sequence of random choices. `Mutate...` are the
twelve operators through `try_mutate`: repair, then `check_architecture`, and a
rejected child leaves the parent.

Floats. A ratio or a dropout is a number of grains. `Unit` grains are 1.0,
`Grain` of them one step, and `Quantise` rounds to the nearest step, ties to the
even one, wherever a constructor of `spec.py` calls `quantise`. A step is the
last decimal that a genotype keeps (`Precision` = 10^6 in the code); what a
space may offer is finer by the factor `Grain`, as 4/3 and 1/3 are. `PrecisionAssumption` asks that `Precision` be a
positive multiple of 20, so that the ends of the accepted ranges, 0.25 and 0.9, are
steps themselves; the code's is one. `SpaceValid` is what the validators of
`space.py` demand and no more: any positive ratio (`space.py:144`), any dropout
up to 0.9, any width. The ranges of `spec.py` are where they bite, at the
constructors: `Ratios` are the ratios a block accepts (0.25 to 8) and
`SpecAccepts` bounds the widths (4096 of a block and of the hidden layer, 1024 of
the stem). A constructor that refuses raises `ValidationError`, which neither
sampler nor operator catches: the call ends without a result, so that `Draws` and
`Children` are the drafts and the offspring that are accepted.

Abstractions: the hash is the record (a collision is out of scope); a double is
the decimal it is printed as, and the product of a width and a ratio is exact,
where the code multiplies doubles before it rounds to eights (a product within one rounding
error of a boundary may fall on its other side; cost and network share the
function, so they fall alike). The weights of operator choice and the retries
of the samplers are left out (they decide how often, not what).

### Objectives, Ranking and the code

A metric is an integer, or one of three markers for NaN, infinity and "no such
key". `Normalize` has the five normalizations with the branches for degenerate
populations and for the markers; normalized values count in units of 1/198, a
multiple of every reference (`UnitsAssumption`), so that a division by one is
exact. `Dominates` has the tolerance of `pareto.py`.
`Ranking` peels one front per step (`Peel`) and then sorts (`Rank`) by the key of
`rank_candidates`. Standard deviation and logarithm are tables on the instance.

## 3. Runs

| run | question | instance |
|---|---|---|
| `engine_crash` | do rows, counters, checkpoints and the strategy's knowledge stay consistent whatever crashes and resumes do? | 4 keys (symmetric), 2 in flight, budget 2, 1 retry, checkpoint every 2 keeping 1, crash between any two transactions, 2 resumes |
| `engine_stops` | does every loop end, and is every step one of the ledger? | 3 keys of which one is over budget and one malformed, 1 in flight, timeouts without retry, time limit, Ctrl-C and exceptions, crash, 1 resume |
| `halving_resume` | are the rows those of one bracket cut at the best, whatever checkpoint a resume started from; does a bracket stop for a reason, and at all? | sizes 3 and 2 over 4 architectures, 2 scores, 2 in flight, 1 retry, checkpoint every 2, Ctrl-C or crash anywhere, 1 resume; a space of 4 and one smaller than rung 0 |
| `pool_batches` | does the engine get one true answer per task, in order, and does every run end, whatever workers do? | 3 candidates, 2 in flight, 2 workers, 1 retry, time limit, deaths, Ctrl-C, early stop |
| `training` | does an attempt continue one run, and is what it reports what is on disk? | 3 epochs of 2 steps, 3 scores, 2 attempts, kills and overlapping attempts; four settings of patience, margin, checkpoint interval |
| `strategies` | is every proposal accounted for, does the oldest retire, is the ancestry a forest, is "exhausted" true, does it end? | 4 architectures, one of which has no mutation; population 2, 2 in flight, 1 retry, checkpoint every 2, crash and 1 resume; random, evolution, evolution with duplicate children |
| `architectures` | is one pass of repair enough, what leaves the space and how, is the cost that of the network? | every sequence of mutations from every sample of nine spaces: a preset cut to three blocks, a varied one, two around the parameter floor, one of a single narrow bottleneck, one with a map of one pixel, one where pools may lead and the stem has a second width, one without stages of one block, and one with ratios, dropouts and widths that a specification rounds or refuses. A step is 1/20 and has 4 grains: coarse enough to name a value that is rounded up, down, from the middle, and to another choice |
| `algorithms` | do rungs climb and fit, does the ranking respect dominance, do the two scores agree with it and each other? | 1 to 4 rungs, factors 3/2, 2, 5/2, 3, every subset of the scaled dimensions; up to 3 rows of 19 metric tuples, six objective sets with all five normalizations, with and without a constraint |
| `sessions` | what does a file look like after commands of any configuration and build, killed anywhere? | 3 configurations of 2 projects, 3 builds, 2 tables per migration, 2 candidates, 1 retry, 2 searches, 3 commands |
| `pool_breaks` | does the search survive a dead worker? (violated) | as `pool_batches` without Ctrl-C and early stop |
| `training_forgets` | is the best epoch reported after a resume? (violated) | as `training` without overlapping attempts |
| `resume_ends_early` | is a search exhausted only when nothing was proposed? (violated) | 4 architectures, 1 in flight, checkpoint every 3, 1 resume |

The bounds are the smallest in which the interesting cases meet. Two candidates
in flight plus one to propose give a batch with a mixed outcome and a proposal
that follows it; four keys leave room to exceed the bound on the overrun; one
retry gives both sides of the retry bound; two resumes let a recovered candidate
be interrupted again and exhaust its retries; a checkpoint interval of 2 leaves
the checkpoint behind the rows. Two rungs have a sampled one and a promoted one,
and sizes 3 and 2 with two in flight make a batch straddle the barrier; scores 0
and 1 have both a better candidate and a tie. Two attempts are a killed one and
its successor, or a pair of twins; three epochs have a first, a best and a worse
last one. A population of two under four evaluations ages twice. Three commands
are enough for a search, its twin under another seed or project, and a resume of
the first; the ancestry is walked to a depth of 2, which cuts it off, and of 1000,
the code's, which does not; two tables per migration leave a half-made one. Three rows are the
fewest that show both the tolerance and a circle of dominance.
`MaxResumes`, `MaxAttempts`, `MaxSearches`, `MaxLaunches` are bounds of the model
and not parameters of the program. Symmetry over the keys is used in
`engine_crash` only, where no property is temporal beyond a step and no constant
tells them apart.

### The properties that are least obvious

What each property says is in the comment above it.

* `AttemptIsFresh`: `_attempts` and `retry_count` are advanced in different
  places, and by recovery only the second. They agree whenever a trial is
  inserted, so the unique constraint is never hit.
* `NoOrphans`: the `RUNNING` rows are exactly this round's unfinished tasks.
* `BudgetHolds`, `CheckpointNeverAhead`: the counter that decides the budget is
  the number of completed rows, the overrun is less than a batch, and a checkpoint
  only lags. (The docstring of `_reconcile_completed` and the guide on resuming
  motivate reconciliation with a checkpoint that counts an evaluation the rows do
  not; the model shows there is none: it matters because the checkpoint is
  behind.)
* `EntersByMerit` and `RowsFormABracket` are stated over the rows, not over the
  strategy's state, so that they speak of the whole search and not of one
  process: a resumed strategy with an older state climbs again over rows that
  already exist, and must choose the same survivors.
* `StopsForAReason`: when an uninterrupted bracket says that it ran out of
  proposals, a rung came out short; and when a bracket, after whatever resumes,
  says that it finished, it has climbed, a rung has no survivor, or the space is
  smaller than rung 0.
* `VerdictsAreEarned` relates the verdict on a candidate to what happened to the
  very attempt it is about, although futures end in any order, earlier attempts
  finish late, and the queue holds leftovers.
* `QuietWhenFinalised`: nothing is evaluated any more when the final status is
  written. After an exception the order is reversed, `_finalise` first, so there
  it holds only once `run` has returned.
* `ContinuesOneRun`: the history, the optimizer's steps and the stopper's counters
  of a resumed training are those of an uninterrupted one, although a best epoch
  of 0 is loaded as -1; the loss shows only in the reported epoch, which
  `ReportedEpoch` repairs as the code does.
* `TornOnlyByTwins`, `WeightsAreTheResult`: writing through a temporary protects
  against kills; it does not protect twins of a timeout, whose temporary has one
  name.
* `LineageRooted`: parents travel through the strategy's checkpoint, the engine's
  memory and the row, and still form a forest whose inner nodes were measured; the walk of the code, whatever depth it is cut off at, finds that.
* `LeavesOnlyByInheritance`, `OperationsOnlyDescend`: see the divergences below;
  the first says by which six doors a repaired child leaves its space, and which
  operator may hand back the architecture itself.
* `EstimateMatchesNetwork`: two independent translations, `cost.py` and `models/`,
  agree on every architecture reached; the widths the builder threads are those
  the shapes have, also for a child that is not repaired yet, and what shape
  inference accepts of those can be built, but for a shortcut around a stride on
  a map of one pixel.
* `RankingRespectsDominance`: closeness is not transitive, so dominance has
  circles in three objectives; everything outside of one is ranked as it should.
* `MeasuredAsProposed`: see the divergences below.

### Fairness

* `LoopEnds`, `SearchEnds`: weak fairness of the engine's own steps. The engine is
  one thread that never blocks for ever (the executor has timeouts, the
  strategies are loops with bounds), so some step of it is always taken while it
  is up; nothing is assumed about crashes, interrupts, resumes or outcomes.
* `RunEnds`: the engine's thread runs, and the workers do, because `shutdown`
  waits for them without a limit: an evaluation that hangs keeps the run from
  ending.
* `AttemptsEnd`: weak fairness of the steps of each attempt, a thread of its own in
  a process of its own; none for giving up or dying.

### Where code and documentation disagree

Three runs end in a violation and show a behaviour the documentation excludes;
`PROJECT.json` has the lines and the quotations.

* `pool_breaks`: a dead worker breaks the pool, the pool is kept, and the next
  `submit` raises out of `run_batch`: the search is `FAILED` (ADR 0004: "A dead
  worker costs one candidate, retriably, not the search.").
* `training_forgets`: a training resumed from its checkpoint knows the best score
  but not the weights; if nothing later beats it, the accuracy of the last epoch
  is reported beside the best epoch's number.
* `resume_ends_early`: a resume whose checkpoint is older than its rows proposes
  recorded architectures again, and two rounds of duplicates end it as exhausted.

Seen while modelling, without a run of their own (each contradicts a sentence of
the documentation, or is a case nobody wrote down):

* Ctrl-C or a death inside `_accept_proposal` (`engine.py:433`, `489`, `490` are
  three transactions) leaves a candidate that no resume ever queues
  (getting-started.md:221: "Nothing is replayed and nothing is lost.").
* A rung with fewer survivors than planned is never filled and never advances
  (`successive_halving.py:391`; concepts/successive-halving.md:222-223), and
  completed rows that a restored bracket does not know are dropped as duplicates
  without telling it their results (`engine.py:416`;
  guides/resuming-a-search.md:138-139). `StopsForAReason` and `LoopEnds` say how
  such searches end.
* The parent's timeout does not stop an evaluation (`executors.py:303`), so the
  retry runs next to it (architecture/concurrency.md:118: "No two workers
  evaluate the same architecture"); what that does to the files is the subject of
  `training`.
* The files of a candidate carry neither search nor seed (`evaluator.py:245`,
  `438`, `502`; `budget.py:94-97`). In one output directory a second search with
  another seed overwrites the weights of the first, `load_best_model` and the
  `evaluate` command then test the other search's net, and with
  `save_training_checkpoints` its training continues the other one
  (concepts/reproducibility.md:256-262 loops over seeds and changes the project
  name only). `MeasuredAsProposed` says exactly how far a row can still be
  trusted.
* An absent optional metric is replaced by an infinity that only `minmax` and
  `log` map into their range; with the others it is rewarded
  (`scoring.py:117-121`; `objective.py:133-134`), and a measured infinity is treated
  in the same way. A negative `reference` is admitted (`objective.py:123-124` refuses
  only 0) and turns the direction of its objective around in the score.
  `ScoresRespectDominance` excludes both by `Comparable`.
* `pareto.py:187` ("cannot happen") does happen with three objectives, because
  the tolerance is not transitive; a candidate with NaN dominates nobody and is
  dominated by nobody, so it is on the first front.
* `online.py:101` divides by a reference also when the normalization is not by
  reference; the ranking of a bracket mixes rungs.
* Children leave the space (concepts/regularized-evolution.md:117-127 describes
  mutation as moving within it): a block whose operation starts to use a field
  keeps the canonical value of that field (kernel 1, no normalization, identity);
  a head that gains a hidden layer keeps the identity activation; a first stage
  without convolution takes over a new width of the stem; a first stage that
  loses its last convolution takes over the width the stem has; and the stage
  that is appended has one block, whether or not `blocks_per_stage` has 1
  (regularized-evolution.md:124-125; `mutation.py:164`). The sixth door is
  rounding, next.
* A genotype keeps six decimals of a ratio and of a dropout (`spec.py:180`, `307`);
  membership compares exactly (`validation.py:286`, `337`) with choices that nobody
  rounds (`space.py:144`, `233`). A space that offers 4/3 or 1/3 refuses its own
  draws as "not offered", and the mutations that choose the value; where all
  choices are such, nothing can be sampled. `RepairSuffices` and
  `LeavesOnlyByInheritance` say that rounding puts nothing else at fault. A choice
  that is rounded to the value the parent has makes an operator return the parent.
* The validators of a space accept a ratio below 0.25 or above 8, a width above
  4096 and a stem above 1024 channels; the sampler or the operator that chooses one
  raises `ValidationError` (`spec.py:148-149`, `260`, `296`).
* `stage_width` may return the parent: the new width of a stage without
  convolution reaches no block (`mutation.py:401`, and `:16-17`).
* On a map of one pixel `infer_shapes` accepts a shortcut around a stride
  (`shapes.py:230`, `267-268`), which `blocks.py:185-186` then refuses to build.
  Repair removes such shortcuts, so no candidate has one.
* The floor of `require_non_empty` (`space.py:474-483`) refuses spaces that are not
  empty: those whose only feasible networks are pools (a limit of 100 parameters,
  a floor of 124, a network of 76), and those whose bottlenecks narrow (a limit of
  3000, a floor of 4548, a network of 2836). A bottleneck narrows when its ratio is
  below one, and may with a ratio just above: `make_divisible` rounds to eights.
* Recovery charges a retry before the checkpoint is validated, so a refused resume
  has already charged; the next one does not charge again (`ChargedOncePerDeath`).
  Another strategy's checkpoint is refused only when there is one
  (traceability-matrix.md:245); `_find_resumable` returns the newest search even
  if it is completed, or of another project.
* `max_evaluations` ("Total candidate evaluations") can be exceeded, by less than
  a batch; a batch can step over the multiple of `checkpoint_every`, so that a
  checkpoint comes late or only at the end; `max_evaluations` = 3 with three rungs
  and factor 3 derives a bracket of 2 + 1 + 1 evaluations (`registry.py:106`);
  `TrainingBudget.relative_cost` (`budget.py:85`) has no resolution factor at the
  native size and rates the rung that reaches it cheaper than the one before;
  `scale_resolution` without a base resolution scales nothing; a chain of
  more than 1000 ancestors is reported as "missing or cyclic".

## 4. Proofs

`SearchEngineProofs` proves, for every finite set of candidates, every budget,
in-flight limit, retry allowance and number of crashes and resumes:

| theorem | property |
|---|---|
| `TypeCorrect` | `TypeOK` |
| `AttemptIsAlwaysFresh` | `AttemptIsFresh` |
| `RetriesAreBounded` | `RetryBound` |
| `TransitionsAreNeverRefused` | `NeverRefused` |
| `TrialsAreExclusive` | `OneLiveTrial` |
| `CompletionsAreMeasured` | `CompletedHasMetrics` |
| `NothingIsOrphaned` | `NoOrphans` |
| `CompletedSearchIsQuiet` | `CompletedIsQuiet` |
| `StatusFollowsTable` | `FollowsTable` |
| `TrialsAreWrittenOnce` | `TrialWrittenOnce` |

and, of its accounts,

| theorem | property |
|---|---|
| `BudgetIsKept` | `BudgetHolds` |
| `CheckpointsLagBehind` | `CheckpointNeverAhead` |
| `OutcomesAreHeard` | `HearsOutcomes` |
| `AccountsAgree` | their invariant, `AccountsOK` |

and the refinement, `EngineKeepsLedger`: `Spec => KeepsLedger`.

The only assumption is `EngineAssumption` of `SearchEngine`: the candidates are
finitely many (so that they can be counted), limits are positive numbers, and
outcomes and abort reasons are of the kinds the code has.

The argument. None of the properties is inductive alone. `IInv` adds, for each
program point, how the rows, the engine's counters and the task in hand are
related: `RowOK` (for one candidate: attempts never beyond `retry_count`, a
running trial is the last attempt of a running candidate, a queued candidate has
room for its next trial and the engine remembers no other number for it),
`BatchOK` (the tasks of a batch are about different candidates, and each is in
the state its position in the batch implies), `TodoOK` (the proposal in hand),
`StrayOK` (who may be in `RUNNING` at all). The crucial case is the retry: the
trial is failed, then the column is advanced, then the candidate is requeued and
the engine's count follows, and at each of the three points a crash hands the
candidate to the recovery sweep; `HeadOK` says what is true at each. TLC checked
`IInv` on the instances of both passing runs before it was proved. Each of the
parts has a lemma that a step preserves it (`TypeStep`, `RowsStep`, `BatchStep`,
`TodoStep`, `StrayStep`), with a step per action.

The accounts are a second invariant on top of `IInv`. Which rows a step completes
or settles is said once, by lemmas on the finite set of completed rows. `CountOK`
says by how much the counter lags behind the rows at each program point (one,
between `mark_completed` and the line that counts it), `RoomOK` what is left of
the budget (the completions and the tasks still to come never exceed the budget
by a batch), `ToldOK` what the strategy knows (before the first resume all but
the outcome in hand). The overrun bound is inductive only as the last: it is the
`Len(tasks)` of `RoomOK` that a completion uses up. A checkpoint is never ahead
because a saved counter is at most the completed rows of that moment, and those
only grow.

`HalvingSearchProofs` proves, for every ladder, space, set of streams, in-flight
limit, budget, retry allowance and number of crashes and resumes:

| theorem | what |
|---|---|
| `BestTakesFirstPlaces` | the promotion: `Best` returns successes, each at its place in the order, and promotes exactly those whose place is within the size |
| `TypeCorrect` | `TypeOK` |
| `OnlyTheMeasuredEnter` | `EntersByMerit` |
| `StrategyMatchesRows` | `ResultsMatchRows` |
| `EveryoneIsPlanned` | every row, offer and strategy state, in memory or saved, belongs to the one bracket the stream and the rows determine |
| `OneBracketWhateverHappens` | `RowsFormABracket` |
| `NoStopWithoutAReason` | `StopsForAReason` |

They assume `HalvingAssumption` (finitely many architectures, at least one rung,
sizes of at least one, scores that are naturals) and `HalvingSearchAssumption`
(limits of the kinds the configuration admits).

The argument. `Best` chooses for every place the success that has it. That there
is one is a counting argument: the order is strict, so different successes have
different places (`PlaceInjective`), and if one of the places 1..m were free, m
successes would share m - 1 places (`PlaceTaken`). For the search, the fact that
carries everything is `ClosedStep`: a row that is completed or failed keeps its
status and score for ever. It needs `TasksOK` (the tasks in hand are distinct
running rows, so that a late result can only touch the row it belongs to). With
it a strategy state that agrees with the rows once agrees for good
(`AgreesForward`), so a checkpoint is never wrong, only behind, and what a resume
restores is as good as what was lost. A promoted candidate has a score, a failed
row has none, so the promoted are completed (`AgreesAdvanced`), the proposals are
of completed candidates (`OfferOK`), and the rows appear by merit (`AppearStep`).
TLC checked `IInv` on the instance of `halving_resume` first.

For the bracket as a whole, `Planned` says who may enter a rung: for rung 0 the
first different draws of the stream, for another the best of the rung below. It
is fixed before anybody enters, because a rung is entered only when the rung
below is decided (`Decided`), and decided rungs never change (`ClosedStep`). A
strategy state, current or saved, is then a position on the one path through the
planned rungs, and a resume from an older one climbs the same path again
(`OneBracket`). The barrier opens when those reported are those planned, which
is where `RowsFormABracket` gets that the best entered, and nobody before the
rung below was done.

For the end, `Climbed` is about any state, saved ones included: the rungs below
the current one are decided and their best promoted, and an exhausted state has
seen the stream run dry or a rung without survivor. This needs no assumption on
resumes. That a strategy which waits is waiting for something does:
`StallsOnlyWhenShort` is about a search that was not resumed, and its invariant
is book-keeping (`Booked`, `OffersNew`, `Heard`, `RunningHeld`): each entrant is
a row or an offer, once; a closed row was reported; a running row is in the
batch. So when nothing is on offer, queued or running, the entrants have all
reported, and a counting argument leaves only a rung with fewer survivors than
places. These invariants were checked by TLC on the same instance first.

`ProcessPoolProofs` proves, for any finite set of candidates, number of workers,
in-flight limit and retry allowance, with and without time limits, deaths and
Ctrl-C:

| theorem | property |
|---|---|
| `TypeCorrect` | `TypeOK` |
| `VerdictsEarned` | `VerdictsAreEarned`, from `CompletionsAreEarned` and `RetriesAreGranted` |
| `NothingRunsAfterwards` | `QuietWhenFinalised` |
| `PoolKeepsContract` | `KeepsContract` |

from `PoolAssumption` (limits of the kinds the configuration admits). The argument:
an outcome that a future has is never replaced (`OutcomeStays`), so an answer that
is an outcome matches it for good. What the invariant adds is positions: the
tasks of a batch are about different candidates, and those not yet dealt with
are the attempts their candidates are at (`BatchOK`); answer i is the outcome of
task i (`AnswersOK`). `ProcessFacts` puts the two together where the verdict is
drawn. For the end of the run: only a pool that is up has open futures
(`PoolOK`), because a death closes all of them and `shutdown` waits for the rest.
TLC checked `IInv` on the instance of `pool_batches` first.

`CandidateTrainingProofs` proves, for any number of epochs and attempts, any scores
and any setting of patience, margin, checkpoint interval, saving and restoring:

| theorem | property |
|---|---|
| `ResumesContinue` | `ContinuesOneRun` |
| `OnlyTwinsTear` | `TornOnlyByTwins` |
| `WeightsTheorem` | `WeightsAreTheResult` |
| `FreshTheorem` | `FreshReportsBest` |
| `OneRunInvariant` | their invariant, `IInv` |

from the assumptions of `CandidateTraining` (at least one epoch, one step in it and
one attempt; scores are naturals; settings are of their types). What an attempt
holds is one record, so most of the invariant is a predicate of that record and
its lemmas speak of one record: `Sound` (the history, the optimizer's steps and
the stopper's counters belong together; the weights kept are those of the best
score this attempt has seen), `Placed` (what that is worth at each line of `fit`)
and `Patient`. The last is the strengthening one would not guess: a resumed
attempt trains one epoch before it asks whether to stop, so the patience can be
exceeded by one epoch per attempt, and the bound that is inductive counts the
attempts. `InOrder` has attempts start one after the other, each beside or after
one that ended or was given up; with `FilesOK` (what a file holds can be continued
by whoever has not started) a chain of attempts is one run. `AloneOK` says who has
the temporary open while nobody was given up, which is why a kill never tears the
checkpoint. TLC checked `IInv` on the instance of `training` first.

`StrategySearchProofs` proves, for any space of architectures and mutation relation,
any streams, population size, limits, and number of crashes and resumes:

| theorem | property |
|---|---|
| `OldestRetiresTheorem` | `OldestRetires` |
| `ProposalsTheorem` | `ProposalsAccounted` |
| `ExhaustedTheorem` | `ExhaustedWhenDry` |
| `ParentsTheorem` | `ParentsComeFirst`: a parent is an older row, completed and scored |
| `LineageTheorem` | `LineageRooted` |
| `StrategyInvariant` | their invariant, `IInv` |

from the assumptions of `ProposalStrategies` and `StrategySearch`. `Grounded` is
about one state of a strategy and the results it was told of: the population is
the newest of them (`Aged`), with the scores and parents the rows have. It
survives whatever the rows do next, because a completed row never changes; so it
holds of the checkpoint when that is loaded, and it does not matter how far that
is behind. `RowsOK`, `TasksOK` and `OfferOK` carry the parents from the strategy
through the offer and the engine's memory into the row, which is what makes the
order of insertion an order of the ancestry: no chain of parents has a cycle.
`FirstProcess` is about a search that was not resumed and has no duplicate
children: everything proposed is on offer, waiting or observed (`AllAccounted`),
and new (`AllNew`), and random search has missed once for each idle round
(`Dry`). The argument counts with `Cardinality`, and the queue is taken in order
of insertion, for which one needs that a least element exists: the induction is
the library's over the naturals, for a property given as a set
(`NatSetInduction`), since a theorem with an operator as parameter cannot be
instantiated. TLC checked `IInv` on the instance of `strategies` first.

`LineageTheorem` is about the walk that the report makes, for any depth at which
it is cut off. A forest is a graph of parents with an age that a parent always
has less of (`Forest`); the rows are one, with the order of insertion as age. The
walk is a recursive function of the number of steps, whose equations are proved
first (`WalkIs`). Along it the nodes get older (`PathsGetOlder`), so none comes
twice: the walk is never cut off by a cycle, it ends at a root unless the depth
ends it, and the descendants that the report finds are those whose ancestry has
the node (`DescendantsAre`).

`SearchSessionsProofs` proves, for any configurations, builds, tables and rows, and
any number of searches and commands that die anywhere:

| theorem | property |
|---|---|
| `SchemaIsTold` | `SchemaTellsTables` |
| `DeathsAreChargedOnce` | `ChargedOncePerDeath` |
| `CheckpointsAreOfOnePlan` | `OneStrategyPerSearch` |
| `CandidatesAreMeasuredAsProposed` | `MeasuredAsProposed` |

from `SessionsAssumption` (rows are finitely many positive numbers, a last table
exists, schema versions start at 1, numbers of epochs are naturals). The argument is three facts about single
commands. An upgrade goes on from the recorded version, and records a version only
after its tables (`UpgradeOK`). A command has nothing claimed until its sweep is
done, and what it has claimed is RUNNING (`TargetOK`), so a death turns exactly one
row into an orphan, and the sweep of the next resume charges that row and leaves
none, whatever becomes of the resume itself. And a command that passed the restore
has the plan of the checkpoint it found (`PlanOK`), so that it writes the same again.
The effect of each action is one lemma (`ClaimEffect`, `CloseEffect`, ...), which the
steps for the parts of the invariant share.

`MeasuredAsProposed` is about files that no search owns. What can be kept of them
is `FilesOK`: every epoch in a file was trained by a search that evaluated the
candidate the file is named after at that budget, and there are no more of them
than the budget. It is preserved because having evaluated a candidate is for good
(`RowsAdvance`: a row that was tried is never untried again, at the same budget),
and because a command only writes what it loaded from the same file and trained
itself (`ClaimOK`). A row that completes took its measurements from what its
command held, to the full budget (`CompletedOK`). TLC checked `IInv` on the
instance of `sessions` first.

`EngineAlgorithmsProofs` proves, for any objectives, weights, constraints, populations and
closeness of the tolerance:

| theorem | property |
|---|---|
| `DominanceIsRespected` | `RankingRespectsDominance` |
| `ScoresAreRespectful` | `ScoresRespectDominance` |
| `RankingInvariant` | the invariant of the first, `RankingOK` |
| `OnlineIsFinal` | `OnlineAgreesWithFinal` |
| `LadderTheorem` | `LadderHolds` |

from the assumptions of `Objectives` (the scale is a natural, the closeness a
positive number) and `RankingAssumption`: the candidates are numbered, finitely many
and at most `UNRANKED_FRONT` (the upper limit that `config/models.py:240` sets on
`max_evaluations`; the last batch of a search may exceed it, and the sentinel would
be reached if then each candidate were a front of its own), objectives are sequences
of the code's records with some positive weight, what they read is a number, an
infinity, NaN or nothing, the table of logarithms grows, and the unit of scores is a
multiple of the references; and, for the ladder, from `LadderAssumption`.

The ranking. `FrontsOK` has the fronts disjoint and made of feasible candidates, and
nobody on a front dominated by anybody of that front, of a later one, or of those
that remain; so whoever is dominated is on a later front, or on none. The place of a
candidate is the number of keys before its own, and since `KeyBefore` is a strict
order that is total on different candidates, places follow keys
(`PlacesFollowKeys`). What is left is the doubtful part: that with one or two
objectives everybody does come on a front. "Worse by more than the tolerance" is not
the complement of a transitive relation, but it is an interval order
(`WorseWidens`): what is clearly worse is clearly worse than anything better still.
Suppose everybody is dominated, and take those whom nobody beats in the first
objective without being beaten by them in the second. Each of them is then beaten in
the second; go to the best of those that do so. After one step this stays among
them, and it strictly rises, which values in a finite range do not allow
(`SomebodyIsUnbeaten`). NaN needs no care, since nothing dominates it. With three objectives the instance of
`algorithms` has a circle, and the property says what is still true then.

The scores. Each of the five normalizations grows with the value in the direction of
its objective (`NormalizeGrows`): the flip of a minimised value after the clamp, the
logarithm that gives way to the line below zero, the neutral value of a degenerate
population, the ends of the range for infinities. A score is a sum of such terms,
written with a fold of the community modules; `FoldsExist` proves that this fold is what its
equation says, by induction on the size of a set, and `SumsGrow` that it grows with
its terms. What the proof needed was the model's own rounding: it has integer division
only by positive numbers, so the code's division by a reference of either sign is
`Quotient`. The two properties were checked by `algorithms` first; the invariant that
connects them to the steps was not checked separately.

The two scores. `online.py` multiplies what a metric is after the division by its
reference with the sign of its direction, `scoring.py` divides what the metric is
after the sign. Where every weighted objective is one that both read, the two are
not only of one mind but the same number (`ScoresAreOne`): a quotient of either
sign is exact in the unit chosen (`ExactQuotient`, `QuotientsKeepSigns`), a sum does
not depend on the order of its terms (`SumsCommute`), and the objectives of weight
zero, which the online value leaves out, add nothing (`SumsSkipZeros`). In floats,
which the model does not have, the two may still differ in the last digits.

The ladder, for any factor above one, any number of rungs, and any subset of scaled
dimensions. Powers of the factor are a recursive function whose equations are proved
first (`RecursionExists`), and they grow; rounding half to even is monotone
(`RoundingGrows`) although it rounds two halves in different directions; so epochs,
fractions and resolutions never fall from rung to rung, cap and floor included, and
sizes never grow. That the rungs together fit the evaluations they were derived from
is a sum taken rung by rung: each rung has at most its share of a common denominator
(`RungFits`), and the derivation divides by the sum of the shares. Where a last rung
is smaller than one candidate its floor breaks this, and the property excludes it.
Floats are exact fractions here, so the theorem does not speak of a factor or a
fraction that a float cannot hold.

`ArchitectureWalkProofs` proves, for every set of valid search spaces, every walk of
any length through them, and networks of any size:

| theorem | property |
|---|---|
| `WalkTheorem` | the invariant, `WalkInv` |
| `RepairTheorem` | `RepairSuffices` |
| `LeavingTheorem` | `LeavesOnlyByInheritance` |
| `DescentTheorem` | `OperationsOnlyDescend` |
| `EstimateTheorem` | `EstimateMatchesNetwork` |
| `SpaceTheorem` | `SpaceSpeaksTrue` |

from `SpacesAssumption` and `PrecisionAssumption`: every space is one that the
validators of `SearchSpace` accept (`SpaceValid`), with choices of any fineness. The argument. Repair goes through a network from
front to back and each block sees what the ones before it have become. `Settled` is
what it leaves: shortcuts and channel-preserving blocks fit the width that the
blocks before them declare, the convolutions of a stage agree on its width. Repair settles
every genotype (`RepairedIs`), leaves a settled one alone (`RepairKeeps`), and a
settled one has shapes and can be built (`SettledShapes`); so one pass is enough. The
invariant `WalkInv` says that the current architecture is settled and offered by its
space. What the sampler draws is (`DrawIs`). For the twelve operators, `GoodChild` says of the repaired child
of such a parent by which door it left the space if it did, and which way it went if
it did not; `LeavingTheorem` and `DescentTheorem` are read off it. The attempt to prove the property with four doors failed at the
operator that appends a stage; the space without stages of one block is on the
instance since, so that TLC sees the fifth.

The sixth door is rounding. The argument so far is made in a space that offers only
what a specification keeps as it is (`Exact`). For any valid space, `Rounded` is the
space whose ratios and dropouts have been rounded, those no block accepts left out.
What is drawn from a space is drawn from the rounded one (`DrawIs`,
`RoundedNewBlocks`), as the canonical form forgets the rest; so is the child of every
operator that chooses a ratio or dropout, and the other operators look at none. What
the rounded space offers and the space itself does not is at fault in a ratio or in
the dropout and nowhere else (`RoundedIssues`), which is `LostByRounding`. The
ranges only make draws and children fewer.

The estimate is compared with the network piece by piece. `Matches` relates a
sequence of cost units to a sequence of modules: as many parameters and buffers, and
the bytes that these and the counters imply. It is closed under concatenation, hence
under the flattening of blocks into stages and stages into a network
(`MatchesFlatten`), and holds of each kind of block. The widths threaded by the
builder are the channels of the shape trace because both are recursions over the
same sequence with equal steps; for a child that is not repaired this needs only
that its shapes could be inferred (`InferredShapes`).

What the space says of itself is counting. `cardinality_upper_bound` multiplies and
adds the sizes of lists; every draw is the image of one choice from a union of
products of these lists, and a set of images is no larger than what it is the image
of (`ImageBound`, `ProductBound`, `UnionBound`, `SumBound`, `FunctionsBound`), by
induction over the subsets of a finite set (`SubsetInduction`). Canonical blocks that
coincide only make the draws fewer. The floor of `require_non_empty` is a path
through the cost of a network: the stem, the first convolution of the first stage and
the classifier are there in every network of convolutions with a plain head, each
costs at least its share of the floor, and nothing costs less than zero
(`CostsAtLeast`, closed under concatenation by `CostOfBoth`). Where the hidden width of a
bottleneck is less than its input the floor is no floor, and the property excludes it;
it compares the widths and not the ratio with one, because a ratio just above one may be
rounded down to a narrower bottleneck.
The limits of a valid space are natural numbers (`LimitsValid`), as the fields of
`SpaceConstraints` demand.

Only model-checked:

* liveness under fairness: `LoopEnds` of the engine and of the bracket, `RunEnds`
  of the pool, `AttemptsEnd` of training, `SearchEnds` of the strategies. The
  prover has neither fairness nor ENABLED.

A recursive function is used through its equations, and these are proved
(`RecursionExists`, `FoldsExist`): by an induction over the numbers up to the
length in question, or over the size of a set.

The prover instantiates no theorem that has an operator as a parameter. Where an
induction over numbers is needed (least elements, counting), it is stated for a
set instead of a predicate.

## 5. Plan

Done: the engine and its ledger, the bracket, the process pool, training, random
search and evolution, the search space with mutation and repair against cost and
builder, ranking and scores, lineage, migrations and sessions.

Proved: every invariant and every action property that the passing runs check, and
both refinements, the ledger's and the pool contract's: the engine, the bracket, the pool, training, the
strategies, sessions, the ladder, the ranking and the agreement of the two scores,
the ancestry, and the search space with repair, what leaves the space, the estimate,
and what the space says of its size and its cheapest network.

Next: two processes on one SQLite file, if the runbook's rule of one search per
database is ever relaxed.

## 6. Not modelled

* Tensor computations: forward and backward passes, optimizers, schedules,
  initialization, metrics. A training step is a free choice of a score.
* Random number generators: every draw is a free choice, a seed is a fixed
  stream. That a seed gives the same stream twice is assumed.
* Hash collisions: a hash is the thing hashed.
* Two commands on one database file at a time, which the production runbook
  forbids; in particular two claims of one row (`repository.py:785`). Calling
  `resume` on the engine object that has run (`engine.py:764`), which the command
  line never does.
* Reports, plots, exports, listings, logging, events, metrics: they read finished
  searches and write files.
* Loading and merging of configurations, paths, JSON, argument parsing: stateless;
  the ranges the validators admit are the assumptions on the constants.
* Latency and size measurements: numbers of the machine.
* `delete_search` and the artifact listing of the repository: no part of a search
  calls them.
* The datasets package, which the sources import and the repository does not
  contain.

`PROJECT.json` lists every part with its reason.
