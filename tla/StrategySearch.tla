--------------------------- MODULE StrategySearch ---------------------------
(***************************************************************************)
(* A search by random sampling or by evolution: the strategies of          *)
(* ProposalStrategies under the engine's loop (orchestration/engine.py),   *)
(* with the rows and the checkpoint that survive a crash.                  *)
(*                                                                         *)
(* The loop is coarser than in SearchEngine: a row is inserted and queued  *)
(* at once, a batch is claimed at once, and a result is written and        *)
(* observed at once.  Ctrl-C, errors and the time limit are left to        *)
(* SearchEngine.                                                           *)
(***************************************************************************)
EXTENDS ProposalStrategies

CONSTANTS
    Streams,          \* what the sampler may try, one sequence per seed
    InFlight,         \* executor.max_in_flight
    MaxRetries,       \* retries of one candidate
    CheckpointEvery,  \* persistence.checkpoint_every
    MaxResumes,       \* bound on the crashes explored
    Depths            \* the max_depth of the report's walks

ASSUME StrategySearchAssumption ==
    /\ Streams \subseteq Seq(Archs \cup {Miss})
    /\ InFlight \in Nat \ {0}
    /\ MaxRetries \in Nat
    /\ CheckpointEvery \in Nat \ {0}
    /\ MaxResumes \in Nat
    /\ Depths \subseteq Nat \ {0, 1}

VARIABLES
    setting,    \* the configured strategy
    stream,     \* what the sampler tries; fixed by the seed
    table,      \* status of the candidate rows
    score,      \* objective_value of the rows
    parent,     \* parent_id of the rows
    retries,    \* retry_count of the rows
    inserted,   \* the rows in the order of created_at
    saved,      \* the newest checkpoint, with what its strategy had been told
    pc,         \* where the engine's process is
    strategy,   \* the strategy's state in memory
    parents,    \* _pending_parents of the engine
    offer,      \* the proposals of the running round, with their parents
    wanted,     \* how many more the round may propose
    tasks,      \* the tasks of the batch whose results are left
    idle,       \* idle_rounds
    refused,    \* proposals rejected as duplicates since a batch last ran
    told,       \* the scored results the strategy was told of, in order
    reason,     \* StopReason
    resumes     \* number of resumes so far

rows == <<table, score, parent, retries, inserted>>
memory == <<strategy, parents, offer, wanted, tasks, idle, refused, told, reason>>
vars == <<setting, stream, rows, saved, pc, memory, resumes>>

Absent == "absent"
Unknown == -1   \* not a key of _pending_parents

CompletedCount == Cardinality({a \in Archs : table[a] = "COMPLETED"})

\* LineageGraph: the report's view of the rows.
Family == INSTANCE Lineage

FamilyTree == Family!LineageOf({a \in Archs : table[a] # Absent}, parent)

\* The queued rows, oldest first.
Queue == {i \in DOMAIN inserted : table[inserted[i]] = "QUEUED"}

UpTo(i) == {j \in Queue : j <= i}

QueuedRows ==
    [n \in 1..Cardinality(Queue) |->
        inserted[CHOOSE i \in Queue : Cardinality(UpTo(i)) = n]]

FreeSlots ==
    IF Len(QueuedRows) < InFlight THEN InFlight - Len(QueuedRows) ELSE 0

Least(m, n) == IF m < n THEN m ELSE n

-----------------------------------------------------------------------------
Init ==
    /\ setting \in Settings
    /\ stream \in Streams
    /\ table = [a \in Archs |-> Absent]
    /\ score = [a \in Archs |-> Unscored]
    /\ parent = [a \in Archs |-> NoParent]
    /\ retries = [a \in Archs |-> 0]
    /\ inserted = <<>>
    /\ saved = <<>>
    /\ pc = "loop"
    /\ strategy = Fresh
    /\ parents = [a \in Archs |-> Unknown]
    /\ offer = <<>>
    /\ wanted = 0
    /\ tasks = <<>>
    /\ idle = 0
    /\ refused = 0
    /\ told = <<>>
    /\ reason = "NONE"
    /\ resumes = 0

StopOnBudget ==
    /\ pc = "loop"
    /\ CompletedCount >= MaxEvaluations
    /\ reason' = "BUDGET_EXHAUSTED"
    /\ pc' = "save"
    /\ UNCHANGED <<setting, stream, rows, saved, strategy, parents, offer, wanted, tasks,
                   idle, refused, told, resumes>>

\* propose(min(free_slots, max(1, remaining_budget))).
StartRound ==
    /\ pc = "loop"
    /\ CompletedCount < MaxEvaluations
    /\ wanted' = IF Finished(strategy) THEN 0
                 ELSE Least(Least(FreeSlots, MaxEvaluations - CompletedCount),
                            Remaining(strategy))
    /\ offer' = <<>>
    /\ pc' = "propose"
    /\ UNCHANGED <<setting, stream, rows, saved, strategy, parents, tasks, idle, refused,
                   told, reason, resumes>>

-----------------------------------------------------------------------------
(***************************************************************************)
(* propose, one proposal per step.                                         *)
(***************************************************************************)
Offer(a, p) ==
    /\ offer' = Append(offer, <<a, p>>)
    /\ wanted' = wanted - 1
    /\ UNCHANGED pc

NoOffer ==
    /\ pc' = "accept"
    /\ wanted' = 0
    /\ UNCHANGED offer

Proposing ==
    /\ pc = "propose"
    /\ wanted > 0
    /\ UNCHANGED <<setting, stream, rows, saved, parents, tasks, idle, refused, told, reason,
                   resumes>>

\* Sample what has not been seen, for a strategy s that asked for it.
Found(s) == SampledArch(s, stream)

Drawn(s) == AfterDraw(s, stream)

SampleInto(s, hit, miss) ==
    IF Found(s) = Miss THEN strategy' = miss /\ NoOffer
    ELSE strategy' = hit /\ Offer(Found(s), NoParent)

FallBack(s) == SampleInto(s, [Registered(Drawn(s), Found(s)) EXCEPT !.fallbacks = @ + 1], Drawn(s))

ProposeRandomly ==
    /\ Proposing
    /\ ~setting.evolving
    /\ SampleInto(strategy, RandomProposal(Drawn(strategy), Found(strategy)),
                  Missed(Drawn(strategy)))

\* Founders; and, once nothing lives in the population, more of them.
ProposeFounder ==
    /\ Proposing
    /\ setting.evolving
    /\ Founding(strategy) \/ strategy.population = <<>>
    /\ LET s == IF Founding(strategy) THEN strategy
                ELSE [strategy EXCEPT !.fallbacks = @ + 1]
       IN SampleInto(s, Registered(Drawn(s), Found(s)), Drawn(s))

Mutating ==
    /\ Proposing
    /\ setting.evolving
    /\ ~Founding(strategy)
    /\ strategy.population # <<>>

\* The first child, or the retry's: new, unless duplicates are allowed.
ProposeChild ==
    /\ Mutating
    /\ \E m \in Winners(strategy) : \E a \in Children[m.arch] :
          /\ a \notin strategy.seen \/ setting.twins
          /\ strategy' = ChildProposal(strategy, a, m.arch)
          /\ Offer(a, m.arch)

\* MutationError.
ProposeUnmutated ==
    /\ Mutating
    /\ FallBack([strategy EXCEPT !.mutation_failures = @ + 1])

\* The child and its retry were seen, or there was no retry.
ProposeUnrelated ==
    /\ Mutating
    /\ ~setting.twins
    /\ \E m \in Winners(strategy) : Children[m.arch] \cap strategy.seen # {}
    /\ FallBack([strategy EXCEPT !.duplicates = @ + 1])

ProposedEnough ==
    /\ pc = "propose"
    /\ wanted = 0
    /\ pc' = "accept"
    /\ UNCHANGED <<setting, stream, rows, saved, memory, resumes>>

-----------------------------------------------------------------------------
(***************************************************************************)
(* The engine: accept the offer, run a batch, report the results.          *)
(***************************************************************************)
AcceptDuplicate ==
    /\ pc = "accept"
    /\ offer # <<>>
    /\ table[Head(offer)[1]] # Absent
    /\ strategy' = Rejected(strategy, Head(offer)[1])
    /\ offer' = Tail(offer)
    /\ refused' = refused + 1
    /\ UNCHANGED <<setting, stream, rows, saved, pc, parents, wanted, tasks, idle, told,
                   reason, resumes>>

\* check_architecture passes: the sampler and the mutator have asked it.
AcceptNew ==
    /\ pc = "accept"
    /\ offer # <<>>
    /\ table[Head(offer)[1]] = Absent
    /\ LET a == Head(offer)[1]
       IN /\ table' = [table EXCEPT ![a] = "QUEUED"]
          /\ parent' = [parent EXCEPT ![a] = Head(offer)[2]]
          /\ parents' = [parents EXCEPT ![a] = Head(offer)[2]]
          /\ inserted' = Append(inserted, a)
    /\ offer' = Tail(offer)
    /\ UNCHANGED <<setting, stream, score, retries, saved, pc, strategy, wanted, tasks,
                   idle, refused, told, reason, resumes>>

\* Variant: the parents of rows queued by an earlier process stay unknown.
WithParentsForgotten(batch) == parents

\* _build_tasks: setdefault for the rows that this process did not queue.
WithParents(batch) ==
    [a \in Archs |->
        IF parents[a] = Unknown /\ \E i \in DOMAIN batch : batch[i] = a
        THEN parent[a] ELSE parents[a]]

RunBatch ==
    /\ pc = "accept"
    /\ offer = <<>>
    /\ QueuedRows # <<>>
    /\ LET batch == SubSeq(QueuedRows, 1, Least(InFlight, Len(QueuedRows)))
       IN /\ tasks' = batch
          /\ parents' = WithParents(batch)
          /\ table' = [a \in Archs |->
                IF \E i \in DOMAIN batch : batch[i] = a THEN "RUNNING" ELSE table[a]]
    /\ idle' = 0
    /\ refused' = 0
    /\ pc' = "results"
    /\ UNCHANGED <<setting, stream, score, parent, retries, inserted, saved, strategy,
                   offer, wanted, told, reason, resumes>>

IdleRound ==
    /\ pc = "accept"
    /\ offer = <<>>
    /\ QueuedRows = <<>>
    /\ IF Finished(strategy)
       THEN reason' = "STRATEGY_FINISHED" /\ pc' = "save" /\ UNCHANGED idle
       ELSE /\ idle' = idle + 1
            /\ IF idle' >= 2 THEN reason' = "SPACE_EXHAUSTED" /\ pc' = "save"
               ELSE pc' = "loop" /\ UNCHANGED reason
    /\ UNCHANGED <<setting, stream, rows, saved, strategy, parents, offer, wanted, tasks,
                   refused, told, resumes>>

Observed(s, a, succeeded, value) ==
    IF setting.evolving THEN EvolutionObserved(s, a, succeeded, value, parents[a])
    ELSE RandomObserved(s, a, succeeded)

\* The process is at the first of the results left.
AtResult ==
    /\ pc = "results"
    /\ tasks # <<>>
    /\ tasks' = Tail(tasks)
    /\ UNCHANGED <<setting, stream, parent, inserted, saved, pc, parents, offer, wanted,
                   idle, refused, reason, resumes>>

\* A success, whose objective may still be None.
Succeed ==
    /\ AtResult
    /\ LET a == Head(tasks)
       IN \E v \in Scores \cup {Unscored} :
            /\ table' = [table EXCEPT ![a] = "COMPLETED"]
            /\ score' = [score EXCEPT ![a] = v]
            /\ strategy' = Observed(strategy, a, TRUE, v)
            /\ told' = IF v = Unscored THEN told ELSE Append(told, a)
    /\ UNCHANGED retries

\* Variant: the retries are not counted.
RetryUncounted ==
    /\ AtResult
    /\ retries[Head(tasks)] < MaxRetries
    /\ table' = [table EXCEPT ![Head(tasks)] = "QUEUED"]
    /\ UNCHANGED <<score, retries, strategy, told>>

Retry ==
    /\ AtResult
    /\ retries[Head(tasks)] < MaxRetries
    /\ retries' = [retries EXCEPT ![Head(tasks)] = @ + 1]
    /\ table' = [table EXCEPT ![Head(tasks)] = "QUEUED"]
    /\ UNCHANGED <<score, strategy, told>>

\* Variant: a failure that is not retried is not observed.
FailUnobserved ==
    /\ AtResult
    /\ table' = [table EXCEPT ![Head(tasks)] = "FAILED"]
    /\ UNCHANGED <<score, retries, strategy, told>>

Fail ==
    /\ AtResult
    /\ table' = [table EXCEPT ![Head(tasks)] = "FAILED"]
    /\ strategy' = Observed(strategy, Head(tasks), FALSE, Unscored)
    /\ UNCHANGED <<score, retries, told>>

Checkpoint == <<[strategy |-> strategy, told |-> told]>>

BatchDone ==
    /\ pc = "results"
    /\ tasks = <<>>
    /\ saved' = IF CompletedCount % CheckpointEvery = 0 THEN Checkpoint ELSE saved
    /\ pc' = "loop"
    /\ UNCHANGED <<setting, stream, rows, memory, resumes>>

Finalise ==
    /\ pc = "save"
    /\ saved' = Checkpoint
    /\ pc' = "stopped"
    /\ UNCHANGED <<setting, stream, rows, memory, resumes>>

-----------------------------------------------------------------------------
EngineStep ==
    \/ StopOnBudget \/ StartRound
    \/ ProposeRandomly \/ ProposeFounder
    \/ ProposeChild \/ ProposeUnmutated \/ ProposeUnrelated \/ ProposedEnough
    \/ AcceptDuplicate \/ AcceptNew \/ RunBatch \/ IdleRound
    \/ Succeed \/ Retry \/ Fail \/ BatchDone
    \/ Finalise

\* The memory of a process that has just started, with the strategy's part.
Booted(state, scored) ==
    /\ strategy' = state
    /\ told' = scored
    /\ parents' = [a \in Archs |-> Unknown]
    /\ offer' = <<>>
    /\ wanted' = 0
    /\ tasks' = <<>>
    /\ idle' = 0
    /\ refused' = 0
    /\ reason' = "NONE"

Crash ==
    /\ pc \notin {"stopped", "down"}
    /\ resumes < MaxResumes
    /\ Booted(Fresh, <<>>)
    /\ pc' = "down"
    /\ UNCHANGED <<setting, stream, rows, saved, resumes>>

\* recover_interrupted, then a new engine, whose strategy loads the newest
\* checkpoint or, without one, starts afresh.
Resume ==
    /\ pc = "down"
    /\ resumes' = resumes + 1
    /\ table' = [a \in Archs |->
                    IF table[a] # "RUNNING" THEN table[a]
                    ELSE IF retries[a] < MaxRetries THEN "QUEUED" ELSE "FAILED"]
    /\ retries' = [a \in Archs |->
                    IF table[a] = "RUNNING" /\ retries[a] < MaxRetries
                    THEN retries[a] + 1 ELSE retries[a]]
    /\ IF saved = <<>> THEN Booted(Fresh, <<>>)
       ELSE Booted(saved[1].strategy, saved[1].told)
    /\ pc' = "loop"
    /\ UNCHANGED <<setting, stream, score, parent, inserted, saved>>

Next == EngineStep \/ Crash \/ Resume

Spec == Init /\ [][Next]_vars

FairSpec == Spec /\ WF_vars(EngineStep)

-----------------------------------------------------------------------------
(***************************************************************************)
(* Properties.                                                             *)
(***************************************************************************)
\* Ageing: the population is the last PopulationSize scored results the
\* strategy was told of, in that order, however good the one that left was;
\* retired counts those that left.  (RegularizedEvolution.observe)
OldestRetires ==
    setting.evolving =>
        LET gone == Len(told) - Len(strategy.population)
        IN /\ gone = strategy.retired
           /\ Len(strategy.population) = Least(Len(told), PopulationSize)
           /\ \A i \in DOMAIN strategy.population :
                /\ strategy.population[i].arch = told[gone + i]
                /\ strategy.population[i].value = score[told[gone + i]]
                /\ strategy.population[i].generation = gone + i

\* In a search that was not resumed, every proposal is accounted for: it was
\* observed, its row is queued or running, or the engine has yet to accept it;
\* and a child waits with its parent for exactly as long.  The counters of
\* observe add up in any search, and no checkpoint is ahead of the rows: what
\* the strategy was told has completed, and what it has seen has a row.  No
\* round asks for more than the strategy may still propose.
\* A resume breaks the first two: nothing removes the parent of a child whose
\* result an earlier process had written.
\* (propose, observe, _pending_parents, _process_result before _checkpoint)
ProposalsAccounted ==
    LET waiting == {a \in Archs : table[a] \in {"QUEUED", "RUNNING"}}
        offered == {offer[i] : i \in DOMAIN offer}
    IN /\ strategy.observed = strategy.succeeded + strategy.failed
       /\ wanted <= Remaining(strategy)
       /\ setting.evolving => strategy.generation = strategy.succeeded
       /\ \A i \in DOMAIN told : table[told[i]] = "COMPLETED"
       /\ \A a \in strategy.seen : table[a] # Absent \/ \E o \in offered : o[1] = a
       /\ resumes = 0 /\ ~setting.twins /\ pc # "down" =>
            /\ strategy.proposed =
                 strategy.observed + Len(offer) + Cardinality(waiting)
            /\ strategy.pending =
                 {<<a, parent[a]>> : a \in {b \in waiting : parent[b] # NoParent}}
                 \cup {o \in offered : o[2] # NoParent}

\* The ancestry a report finds, when the search has stopped or died, is a
\* forest, whatever was lost in between: the walk from a row up to its founder
\* is cut off by its depth only, and passes older rows only, each completed with
\* an objective value; the descendants of a row are the rows whose walk passes
\* it, or was cut off before it could; and the report's chain of a candidate is
\* empty exactly when it was sampled.  At any time, a member of the population
\* has the parent its row has, also when another process queued the row.
\* (_propose_one, _accept_proposal, _build_tasks, LineageGraph)
WalksRooted(depth) ==
    LET tree == FamilyTree
        walks == [a \in DOMAIN tree |-> Family!Ancestry(tree, a, depth)]
        above == [a \in DOMAIN tree |->
                    {walks[a].nodes[i] : i \in 2..Len(walks[a].nodes)}]
        Age(a) == CHOOSE i \in DOMAIN inserted : inserted[i] = a
    IN \A a \in DOMAIN tree :
         /\ walks[a].truncated => Len(walks[a].nodes) >= depth
         /\ \A b \in above[a] :
              table[b] = "COMPLETED" /\ score[b] # Unscored /\ Age(b) < Age(a)
         /\ \A b \in DOMAIN tree :
              /\ a \in above[b] => b \in Family!Descendants(tree, a)
              /\ b \in Family!Descendants(tree, a) => a \in above[b] \/ walks[b].truncated
         /\ Family!ReportedChain(walks[a]) = <<>> <=> a \in Family!Roots(tree)

LineageRooted ==
    /\ \A i \in DOMAIN strategy.population :
         strategy.population[i].parent = parent[strategy.population[i].arch]
    /\ pc \in {"stopped", "down"} =>
        /\ \A depth \in Depths : WalksRooted(depth)
        /\ Family!Roots(FamilyTree) = {a \in DOMAIN FamilyTree : parent[a] = NoParent}

\* A search ends as exhausted only when two rounds in a row had nothing to run
\* and nothing was proposed in them.  (_loop)
ExhaustedWhenNothingProposed ==
    reason = "SPACE_EXHAUSTED" => refused = 0

\* The same of a search that was not resumed, and whose strategy does not
\* propose what it has seen: no proposal of such a search is refused as a
\* duplicate, and it ends as exhausted only when it has tried everything its
\* sampler found.  (sample_unique, the seen sets, _accept_proposal, _loop)
ExhaustedWhenDry ==
    resumes = 0 /\ ~setting.twins =>
        /\ refused = 0
        /\ \A i \in DOMAIN offer : table[offer[i][1]] = Absent
        /\ reason = "SPACE_EXHAUSTED" =>
              /\ strategy.seen = {a \in Archs : table[a] # Absent}
              /\ ~setting.evolving => strategy.misses >= 2

\* The loop ends: by its budget, by its strategy, or because nothing is left.
SearchEnds == <>[](pc \in {"stopped", "down"})
=============================================================================
