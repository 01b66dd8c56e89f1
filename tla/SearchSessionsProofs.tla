------------------------ MODULE SearchSessionsProofs ------------------------
(***************************************************************************)
(* One output directory over many runs, for any configurations, builds,    *)
(* tables and rows, and any number of searches and commands.               *)
(*                                                                         *)
(* The recorded version never runs ahead of the tables, because a          *)
(* migration that was cut short begins again from the recorded version     *)
(* (UpgradeOK).  A row pays one retry for each death: a process that ends  *)
(* leaves at most its claimed row RUNNING (TargetOK), and the sweep of the *)
(* next resume, which has claimed nothing yet, charges it and leaves       *)
(* nothing to charge again.  And a checkpoint is only ever written over    *)
(* nothing or over one of the same strategy and plan, because the restore  *)
(* has compared them (PlanOK).                                             *)
(*                                                                         *)
(* What was measured is what was proposed, because the files of a          *)
(* candidate are named after it and its budget, and only a search that     *)
(* evaluates that candidate at that budget writes them (FilesOK); a        *)
(* search that has evaluated one has done so from then on (RowsAdvance).   *)
(***************************************************************************)
EXTENDS SearchSessions, TLAPS, FiniteSetTheorems, SequenceTheorems,
        WellFoundedInduction

Statuses == {"none", "queued", "running", "completed", "failed"}

Epochs == {c.epochs : c \in Configs} \cup {0}

Plans == {PlanOf(c) : c \in Configs}

RowStates ==
    [status : Statuses, retries : Nat, deaths : Nat, epochs : Epochs, trained : Seq(Nat)]

SearchRows ==
    [name : {c.name : c \in Configs}, strategy : {c.strategy : c \in Configs},
     version : {b.format : b \in Builds},
     status : {"created", "running", "completed", "paused", "none"},
     rows : [Rows -> RowStates], saved : Plans \cup {None},
     format : {b.format : b \in Builds}, writers : SUBSET Plans]

\* Before and after the command has its search.
Opening == {"schema", "upgrade", "session"}

Running == {"sweep", "restore", "begin", "loop", "save", "finalise", "close"}

Weights == [by : Nat, net : Seq(Nat)]

Commands ==
    [pc : Opening \cup Running, cmd : {"search", "resume"}, config : Configs,
     build : Builds, target : Nat, applied : Nat, completed : Nat,
     claimed : Rows \cup {0}, net : Seq(Nat), saved : BOOLEAN,
     reason : {"none", "completed", "paused"}]

TypeOK ==
    /\ file \in [tables : SUBSET (Nat \X Tables), version : Nat]
    /\ searches \in Seq(SearchRows)
    /\ proc \in Commands \cup {Off}
    /\ artifacts \in [training : [Paths -> Seq(Nat)], weights : [Paths -> Weights]]

\* An upgrade goes on from the version the file has.
UpgradeOK ==
    proc.pc = "upgrade" => proc.applied = file.version /\ proc.applied < proc.build.schema

\* The search a command works on exists, and what it evaluates is RUNNING.
TargetOK ==
    /\ proc.pc \in Running => proc.target \in DOMAIN searches
    /\ proc.pc \in Opening \cup {"sweep", "restore", "begin", "save"} => proc.claimed = 0
    /\ proc.pc \in Running /\ proc.claimed # 0 =>
           searches[proc.target].rows[proc.claimed].status = "running"

\* A row that was proposed has an epoch budget, and so a place for its files.
BudgetOK ==
    \A s \in DOMAIN searches, r \in Rows :
        searches[s].rows[r].status # "none" =>
            searches[s].rows[r].epochs \in {c.epochs : c \in Configs}

\* A checkpoint is of the one strategy and plan that wrote the search's, and a
\* command that passed the restore writes the same again.
PlanOK ==
    /\ \A s \in DOMAIN searches :
          searches[s].writers = {} \/ searches[s].writers = {searches[s].saved} \ {None}
    /\ proc.pc \in Running \ {"sweep", "restore"} =>
          searches[proc.target].saved \in {None, PlanOf(proc.config)}

Budgets == {c.epochs : c \in Configs}

\* Of the searches S, one that evaluated this row at this budget: the Twin of
\* the property, of a search that exists.
Evaluated(row) == row.status \notin {"none", "queued"} \/ row.retries > 0

Evaluator(S, t, r, n) ==
    /\ t \in DOMAIN S
    /\ Evaluated(S[t].rows[r])
    /\ S[t].rows[r].epochs = n

TrainedBy(S, net, r, n) == \A i \in DOMAIN net : Evaluator(S, net[i], r, n)

\* A row that was not proposed yet has cost no retry: to propose it loses none.
NewOK ==
    \A s \in DOMAIN searches, r \in Rows :
        searches[s].rows[r].status = "none" => searches[s].rows[r].retries = 0

\* Every epoch in a file was trained by a search that evaluated the candidate
\* the file is named after, and the training file has no more than the budget.
FileOK(S, training, weights, r, n) ==
    /\ Len(training) <= n /\ TrainedBy(S, training, r, n)
    /\ weights # NoWeights => Evaluator(S, weights.by, r, n)

FilesOK ==
    \A r \in Rows, n \in Budgets :
        FileOK(searches, artifacts.training[PathOf(r, n)], artifacts.weights[PathOf(r, n)],
               r, n)

\* So has what a command trains; and once saved it is what is in the file.
HeldOK(S, net, r, n) == Len(net) <= n /\ TrainedBy(S, net, r, n)

SavedOK(weights, net, s, n) == Len(net) = n /\ weights = [by |-> s, net |-> net]

ClaimOK ==
    proc.pc \in Running /\ proc.claimed # 0 =>
        LET n == EvaluatedRow.epochs
        IN /\ HeldOK(searches, proc.net, proc.claimed, n)
           /\ proc.saved =>
                 SavedOK(artifacts.weights[PathOf(proc.claimed, n)], proc.net, proc.target, n)

\* A completed row was trained to its budget, and what the search wrote last
\* in the place of its weights is what was measured.
MeasuredOK(S, row, weights, s, r) ==
    row.status = "completed" =>
        /\ Len(row.trained) = row.epochs
        /\ TrainedBy(S, row.trained, r, row.epochs)
        /\ weights # NoWeights
        /\ weights.by = s => weights.net = row.trained

CompletedOK ==
    \A s \in DOMAIN searches, r \in Rows :
        LET row == searches[s].rows[r]
        IN MeasuredOK(searches, row, artifacts.weights[PathOf(r, row.epochs)], s, r)

IInv ==
    /\ TypeOK
    /\ UpgradeOK
    /\ TargetOK
    /\ BudgetOK
    /\ PlanOK
    /\ SchemaTellsTables
    /\ ChargedOncePerDeath
    /\ NewOK
    /\ FilesOK
    /\ ClaimOK
    /\ CompletedOK

-----------------------------------------------------------------------------
(***************************************************************************)
(* Least and greatest elements.                                            *)
(***************************************************************************)
LEMMA LeastOfNaturals ==
  ASSUME NEW S \in SUBSET Nat, S # {}
  PROVE  Min(S) \in S
<1> DEFINE less == {p \in Nat \X Nat : p[1] < p[2]}
<1>1. OpToRel(<, Nat) = less
  BY DEF OpToRel
<1>2. IsWellFoundedOn(less, Nat)
  BY <1>1, NatLessThanWellFounded
<1>3. \A x, y \in S : <<y, x>> \notin less => x <= y
  OBVIOUS
<1> HIDE DEF less
<1>4. \E x \in S : \A y \in S : <<y, x>> \notin less
  BY <1>2, WFMin
<1>5. \E x \in S : \A y \in S : x <= y
  BY <1>3, <1>4
<1> QED  BY <1>5 DEF Min

\* The next row to claim or to propose.
LEMMA NextRow ==
  ASSUME NEW s, NEW st, With(s, st) # {}
  PROVE  Min(With(s, st)) \in Rows /\ searches[s].rows[Min(With(s, st))].status = st
<1>1. With(s, st) \in SUBSET Nat
  BY SessionsAssumption DEF With
<1>2. Min(With(s, st)) \in With(s, st)
  BY <1>1, LeastOfNaturals
<1> QED  BY <1>2 DEF With

LEMMA VersionTableIsOne == Max(Tables) \in Tables
<1>1. \E t \in Tables : \A u \in Tables : t >= u
  BY SessionsAssumption
<1> QED  BY <1>1 DEF Max

-----------------------------------------------------------------------------
(***************************************************************************)
(* What the steps do to the searches.                                      *)
(***************************************************************************)
\* One search is replaced.
LEMMA OneReplaced ==
  ASSUME NEW f \in Seq(SearchRows), NEW s \in DOMAIN f, NEW new \in SearchRows
  PROVE  LET next == [f EXCEPT ![s] = new]
         IN /\ next \in Seq(SearchRows)
            /\ DOMAIN next = DOMAIN f
            /\ \A t \in DOMAIN f : next[t] = IF t = s THEN new ELSE f[t]
<1>1. s \in 1 .. Len(f)
  BY LenProperties
<1> QED  BY <1>1, ExceptSeq

LEMMA SearchTyped ==
  ASSUME searches \in Seq(SearchRows), NEW s \in DOMAIN searches
  PROVE  searches[s] \in SearchRows
BY ElementOfSeq, LenProperties

LEMMA StatusWritten ==
  ASSUME NEW f \in Seq(SearchRows), NEW s \in DOMAIN f,
         NEW st \in {"running", "completed", "paused", "none"}
  PROVE  LET next == [f EXCEPT ![s].status = st]
         IN /\ next \in Seq(SearchRows)
            /\ DOMAIN next = DOMAIN f
            /\ \A t \in DOMAIN f :
                  /\ next[t].rows = f[t].rows
                  /\ next[t].saved = f[t].saved
                  /\ next[t].writers = f[t].writers
<1> DEFINE new == [f[s] EXCEPT !.status = st]
<1>1. f[s] \in SearchRows
  BY ElementOfSeq, LenProperties
<1>2. /\ new \in SearchRows /\ new.rows = f[s].rows
      /\ new.saved = f[s].saved /\ new.writers = f[s].writers
  BY <1>1 DEF SearchRows
<1>3. [f EXCEPT ![s].status = st] = [f EXCEPT ![s] = new]
  OBVIOUS
<1> HIDE DEF new
<1> QED  BY <1>2, <1>3, OneReplaced

\* A row is replaced: nothing else of any search changes.
LEMMA RowReplaced ==
  ASSUME searches \in Seq(SearchRows), NEW s \in DOMAIN searches,
         NEW r \in Rows, NEW row \in RowStates
  PROVE  LET next == SetRow(s, r, row)
         IN /\ next \in Seq(SearchRows)
            /\ DOMAIN next = DOMAIN searches
            /\ \A t \in DOMAIN searches :
                  /\ next[t].saved = searches[t].saved
                  /\ next[t].writers = searches[t].writers
                  /\ \A q \in Rows : next[t].rows[q] =
                        IF t = s /\ q = r THEN row ELSE searches[t].rows[q]
<1> DEFINE old == searches[s]
           rows == [old.rows EXCEPT ![r] = row]
           new == [old EXCEPT !.rows = rows]
<1>1. old \in SearchRows
  BY SearchTyped
<1>2. old.rows \in [Rows -> RowStates]
  BY <1>1 DEF SearchRows
<1>3. rows \in [Rows -> RowStates] /\ \A q \in Rows : rows[q] = IF q = r THEN row ELSE old.rows[q]
  BY <1>2
<1>4. /\ new \in SearchRows /\ new.rows = rows
      /\ new.saved = old.saved /\ new.writers = old.writers
  <2> HIDE DEF rows
  <2> QED  BY <1>1, <1>3 DEF SearchRows
<1>5. SetRow(s, r, row) = [searches EXCEPT ![s] = new]
  BY DEF SetRow
<1> HIDE DEF new, rows
<1> QED  BY <1>3, <1>4, <1>5, OneReplaced

\* A checkpoint is written: the rows stay.
LEMMA CheckpointWritten ==
  ASSUME TypeOK, proc \in Commands, proc.target \in DOMAIN searches
  PROVE  LET old == searches[proc.target]
         IN /\ Saved \in Seq(SearchRows)
            /\ DOMAIN Saved = DOMAIN searches
            /\ \A t \in DOMAIN searches :
                  /\ Saved[t].rows = searches[t].rows
                  /\ t # proc.target => Saved[t] = searches[t]
            /\ Saved[proc.target].saved = PlanOf(proc.config)
            /\ Saved[proc.target].writers = old.writers \cup {PlanOf(proc.config)}
<1> DEFINE old == searches[proc.target]
           plan == PlanOf(proc.config)
           format == proc.build.format
           new == [old EXCEPT !.saved = plan, !.format = format,
                              !.writers = old.writers \cup {plan}]
<1>1. searches \in Seq(SearchRows) /\ old \in SearchRows
  BY SearchTyped DEF TypeOK
<1>2. plan \in Plans /\ format \in {b.format : b \in Builds}
  BY DEF Commands, Plans
<1>3. /\ new \in SearchRows /\ new.rows = old.rows
      /\ new.saved = plan /\ new.writers = old.writers \cup {plan}
  <2> HIDE DEF plan, format
  <2> QED  BY <1>1, <1>2 DEF SearchRows
<1>4. Saved = [searches EXCEPT ![proc.target] = new]
  BY DEF Saved
<1> HIDE DEF new, plan
<1>5. /\ Saved \in Seq(SearchRows)
      /\ DOMAIN Saved = DOMAIN searches
      /\ \A t \in DOMAIN searches :
            Saved[t] = IF t = proc.target THEN new ELSE searches[t]
  BY <1>1, <1>3, <1>4, OneReplaced
<1> QED  BY <1>3, <1>5 DEF plan

LEMMA RecoveredRow ==
  ASSUME NEW row \in RowStates
  PROVE  LET new == Recovered(row)
         IN /\ new \in RowStates
            /\ new.deaths = row.deaths /\ new.epochs = row.epochs
            /\ new.trained = row.trained
            /\ \/ new.status = "queued" /\ new.retries = row.retries + 1
               \/ new.status = "failed" /\ new.retries = row.retries
<1>1. CASE row.retries < MaxRetries
  <2> DEFINE retries == row.retries + 1
  <2>1. retries \in Nat
    BY DEF RowStates
  <2>2. Recovered(row) = [row EXCEPT !.status = "queued", !.retries = retries]
    BY <1>1 DEF Recovered
  <2> HIDE DEF retries
  <2>3. /\ Recovered(row) \in RowStates
        /\ Recovered(row).deaths = row.deaths /\ Recovered(row).epochs = row.epochs
        /\ Recovered(row).trained = row.trained
        /\ Recovered(row).status = "queued" /\ Recovered(row).retries = retries
    BY <2>1, <2>2 DEF RowStates, Statuses
  <2> QED  BY <2>3 DEF retries
<1>2. CASE ~(row.retries < MaxRetries)
  <2>1. Recovered(row) = [row EXCEPT !.status = "failed"]
    BY <1>2 DEF Recovered
  <2> QED  BY <2>1 DEF RowStates, Statuses
<1> QED  BY <1>1, <1>2

\* The sweep: every RUNNING row of the search is charged or failed.
LEMMA Swept ==
  ASSUME TypeOK, proc \in Commands, proc.target \in DOMAIN searches,
         NEW next, next = [searches EXCEPT ![proc.target].rows =
                       [r \in Rows |-> IF @[r].status = "running"
                                       THEN Recovered(@[r]) ELSE @[r]]]
  PROVE  /\ next \in Seq(SearchRows)
         /\ DOMAIN next = DOMAIN searches
         /\ \A t \in DOMAIN searches :
               /\ next[t].saved = searches[t].saved
               /\ next[t].writers = searches[t].writers
               /\ \A r \in Rows : next[t].rows[r] =
                     IF t = proc.target /\ searches[t].rows[r].status = "running"
                     THEN Recovered(searches[t].rows[r]) ELSE searches[t].rows[r]
<1> DEFINE old == searches[proc.target]
           rows == [r \in Rows |-> IF old.rows[r].status = "running"
                                   THEN Recovered(old.rows[r]) ELSE old.rows[r]]
           new == [old EXCEPT !.rows = rows]
<1>1. searches \in Seq(SearchRows) /\ old \in SearchRows
  BY SearchTyped DEF TypeOK
<1>2. \A r \in Rows : old.rows[r] \in RowStates
  BY <1>1 DEF SearchRows
<1>3. \A row \in RowStates : Recovered(row) \in RowStates
  BY RecoveredRow
<1>4. rows \in [Rows -> RowStates]
  BY <1>2, <1>3
<1>5. /\ new \in SearchRows /\ new.rows = rows
      /\ new.saved = old.saved /\ new.writers = old.writers
  <2> HIDE DEF rows
  <2> QED  BY <1>1, <1>4 DEF SearchRows
<1>6. next = [searches EXCEPT ![proc.target] = new]
  OBVIOUS
<1> HIDE DEF new
<1>7. \A t \in DOMAIN next : next[t] = IF t = proc.target THEN new ELSE searches[t]
  BY <1>6
<1>8. next \in Seq(SearchRows) /\ DOMAIN next = DOMAIN searches
  BY <1>1, <1>5, <1>6, OneReplaced
<1>9. \A r \in Rows : rows[r] = IF old.rows[r].status = "running"
                                THEN Recovered(old.rows[r]) ELSE old.rows[r]
  OBVIOUS
<1> HIDE DEF rows
<1> QED  BY <1>5, <1>7, <1>8, <1>9

\* A process ends: one more death for the row it was evaluating.
LEMMA BuriedRows ==
  ASSUME TypeOK, proc \in Commands, proc.target \in DOMAIN searches
  PROVE  LET next == Buried(proc.target)
         IN /\ next \in Seq(SearchRows)
            /\ DOMAIN next = DOMAIN searches
            /\ \A t \in DOMAIN searches :
                  /\ next[t].saved = searches[t].saved
                  /\ next[t].writers = searches[t].writers
                  /\ \A q \in Rows :
                        LET row == searches[t].rows[q]
                        IN /\ next[t].rows[q].status = row.status
                           /\ next[t].rows[q].retries = row.retries
                           /\ next[t].rows[q].epochs = row.epochs
                           /\ next[t].rows[q].trained = row.trained
                           /\ next[t].rows[q].deaths = row.deaths
                                 + (IF t = proc.target /\ q = proc.claimed THEN 1 ELSE 0)
<1>1. searches \in Seq(SearchRows) /\ \A t \in DOMAIN searches : searches[t] \in SearchRows
  BY SearchTyped DEF TypeOK
<1>2. \A t \in DOMAIN searches, q \in Rows : searches[t].rows[q] \in RowStates
  BY <1>1 DEF SearchRows
<1>3. CASE proc.claimed = 0
  <2>1. \A q \in Rows : q # proc.claimed
    BY <1>3, SessionsAssumption
  <2> QED  BY <1>1, <1>2, <1>3, <2>1 DEF Buried, RowStates
<1>4. CASE proc.claimed # 0
  <2> DEFINE old == searches[proc.target].rows[proc.claimed]
             row == [old EXCEPT !.deaths = @ + 1]
  <2>1. proc.claimed \in Rows
    BY <1>4 DEF Commands
  <2>2. old \in RowStates
    BY <1>2, <2>1
  <2>3. /\ row \in RowStates /\ row.deaths = old.deaths + 1
        /\ row.status = old.status /\ row.retries = old.retries /\ row.epochs = old.epochs
        /\ row.trained = old.trained
    BY <2>2 DEF RowStates
  <2>4. Buried(proc.target) = SetRow(proc.target, proc.claimed, row)
    BY <1>4 DEF Buried
  <2> HIDE DEF row
  <2>5. LET next == Buried(proc.target)
        IN /\ next \in Seq(SearchRows)
           /\ DOMAIN next = DOMAIN searches
           /\ \A t \in DOMAIN searches :
                 /\ next[t].saved = searches[t].saved
                 /\ next[t].writers = searches[t].writers
                 /\ \A q \in Rows : next[t].rows[q] =
                      IF t = proc.target /\ q = proc.claimed THEN row
                      ELSE searches[t].rows[q]
    BY <1>1, <2>1, <2>3, <2>4, RowReplaced
  <2>6. \A t \in DOMAIN searches, q \in Rows : searches[t].rows[q].deaths \in Nat
    BY <1>2 DEF RowStates
  <2>7. SUFFICES ASSUME NEW t \in DOMAIN searches, NEW q \in Rows
                 PROVE  LET row2 == searches[t].rows[q]
                            new == Buried(proc.target)[t].rows[q]
                        IN /\ new.status = row2.status /\ new.retries = row2.retries
                           /\ new.epochs = row2.epochs /\ new.trained = row2.trained
                           /\ new.deaths = row2.deaths
                                 + (IF t = proc.target /\ q = proc.claimed THEN 1 ELSE 0)
    BY <2>5
  <2>8. CASE t = proc.target /\ q = proc.claimed
    BY <2>3, <2>5, <2>8
  <2>9. CASE ~(t = proc.target /\ q = proc.claimed)
    BY <2>5, <2>6, <2>9
  <2> QED  BY <2>8, <2>9
<1> QED  BY <1>3, <1>4

-----------------------------------------------------------------------------
(***************************************************************************)
(* What the steps do to the command.                                       *)
(***************************************************************************)
LEMMA GotoTyped ==
  ASSUME proc \in Commands, NEW pc \in Opening \cup Running
  PROVE  LET next == [proc EXCEPT !.pc = pc]
         IN /\ next \in Commands /\ next.pc = pc
            /\ next.target = proc.target /\ next.claimed = proc.claimed
            /\ next.config = proc.config /\ next.build = proc.build
            /\ next.applied = proc.applied
BY DEF Commands

LEMMA InCommand ==
  ASSUME TypeOK, proc.pc # "off"
  PROVE  proc \in Commands /\ proc.pc \in Opening \cup Running
BY DEF TypeOK, Off, Commands

LEMMA OffIsOff == Off.pc = "off" /\ Off.pc \notin Opening \cup Running
BY DEF Off, Opening, Running

LEMMA FileTyped ==
  ASSUME TypeOK
  PROVE  file.version \in Nat /\ file.tables \subseteq Nat \X Tables
BY DEF TypeOK

\* What is recorded is what is there to be read.
LEMMA CurrentIsRecorded ==
  ASSUME TypeOK, SchemaTellsTables
  PROVE  CurrentVersion = file.version
<1>1. CASE file.version = 0
  BY <1>1 DEF CurrentVersion
<1>2. CASE file.version # 0
  <2>1. 1 \in 1 .. file.version
    BY <1>2, FileTyped
  <2>2. VersionTable \in file.tables
    BY <2>1, VersionTableIsOne DEF VersionTable, SchemaTellsTables
  <2> QED  BY <2>2 DEF CurrentVersion
<1> QED  BY <1>1, <1>2

-----------------------------------------------------------------------------
(***************************************************************************)
(* Types.                                                                  *)
(***************************************************************************)
LEMMA TypeInit == Init => TypeOK
<1> SUFFICES ASSUME Init PROVE TypeOK
  OBVIOUS
<1>1. file \in [tables : SUBSET (Nat \X Tables), version : Nat]
  BY DEF Init
<1>2. searches \in Seq(SearchRows)
  BY EmptySeq DEF Init
<1>3. <<>> \in Seq(Nat)
  BY EmptySeq
<1>4. artifacts \in [training : [Paths -> Seq(Nat)], weights : [Paths -> Weights]]
  BY <1>3 DEF Init, NoWeights, Weights
<1> QED  BY <1>1, <1>2, <1>4 DEF Init, TypeOK

LEMMA FreshTyped ==
  /\ Fresh \in RowStates
  /\ \A n \in Epochs : [Fresh EXCEPT !.status = "queued", !.epochs = n] \in RowStates
<1>1. <<>> \in Seq(Nat)
  BY EmptySeq
<1> QED  BY <1>1 DEF Fresh, RowStates, Statuses, Epochs

LEMMA NewSearchTyped ==
  ASSUME NEW c \in Configs, NEW b \in Builds
  PROVE  NewSearchRow(c, b) \in SearchRows
BY FreshTyped DEF NewSearchRow, SearchRows

LEMMA RowTyped ==
  ASSUME TypeOK, NEW s \in DOMAIN searches, NEW r \in Rows
  PROVE  searches[s].rows[r] \in RowStates
BY SearchTyped DEF TypeOK, SearchRows

\* The command at the row it evaluates.
LEMMA EvaluatedTyped ==
  ASSUME TypeOK, TargetOK, BudgetOK, Evaluating
  PROVE  /\ proc \in Commands /\ proc.pc = "loop"
         /\ proc.target \in DOMAIN searches /\ proc.claimed \in Rows
         /\ EvaluatedRow \in RowStates /\ EvaluatedRow.status = "running"
         /\ EvaluatedPath \in Paths
<1>1. proc \in Commands /\ proc.pc = "loop" /\ proc.claimed # 0
  BY InCommand DEF Evaluating
<1>2. proc.claimed \in Rows
  BY <1>1 DEF Commands
<1>3. proc.target \in DOMAIN searches
  BY <1>1 DEF TargetOK, Running
<1>4. EvaluatedRow \in RowStates
  BY <1>2, <1>3, RowTyped DEF EvaluatedRow
<1>5. EvaluatedRow.status = "running"
  BY <1>1 DEF TargetOK, Running, EvaluatedRow
<1>6. EvaluatedRow.epochs \in {c.epochs : c \in Configs}
  BY <1>2, <1>3, <1>5 DEF BudgetOK, EvaluatedRow
<1>7. EvaluatedPath \in Paths
  BY <1>2, <1>6 DEF EvaluatedPath, BudgetFor, Paths
<1> QED  BY <1>1, <1>2, <1>3, <1>4, <1>5, <1>7

\* What a dying or refused command leaves.
LEMMA CrashTyped ==
  ASSUME TypeOK, TargetOK, proc.pc # "off"
  PROVE  Buried(proc.target) \in Seq(SearchRows)
<1>1. CASE proc.claimed = 0
  BY <1>1 DEF Buried, TypeOK
<1>2. CASE proc.claimed # 0
  <2>1. proc \in Commands /\ proc.pc \in Running
    BY <1>2, InCommand DEF TargetOK
  <2> QED  BY <2>1, BuriedRows DEF TargetOK
<1> QED  BY <1>1, <1>2

LEMMA LaunchTyped ==
  ASSUME NEW cmd \in {"search", "resume"}, NEW c \in Configs, NEW b \in Builds,
         NEW id \in Nat, Launch(cmd, c, b, id)
  PROVE  /\ proc.pc = "off" /\ UNCHANGED <<file, searches, artifacts>>
         /\ proc' \in Commands /\ proc'.pc = "schema" /\ proc'.claimed = 0
<1>1. <<>> \in Seq(Nat)
  BY EmptySeq
<1> QED  BY <1>1 DEF Launch, Commands, Opening

\* Both commands, for the step lemmas below.
LaunchStep ==
    \E cmd \in {"search", "resume"}, c \in Configs, b \in Builds, id \in Nat :
        Launch(cmd, c, b, id)

LEMMA NextSteps ==
  ASSUME TypeOK, Next
  PROVE  \/ LaunchStep
         \/ Crash \/ ReadVersion \/ (\E t \in Tables : CreateTable(t)) \/ RecordVersion
         \/ CreateSearch \/ Locate \/ Sweep \/ Restore \/ Begin \/ Propose \/ Claim
         \/ TrainEpoch \/ SaveWeights \/ Complete \/ Checkpoint \/ Stop \/ Interrupt
         \/ FinalCheckpoint \/ Close
<1>1. Len(searches) \in Nat
  BY LenProperties DEF TypeOK
<1>2. \A id \in 0 .. Len(searches) : id \in Nat
  BY <1>1
<1> QED  BY <1>2 DEF Next, LaunchStep, SearchCommand, ResumeCommand

LEMMA TypeStep ==
  ASSUME IInv, [Next]_vars
  PROVE  TypeOK'
<1> USE DEF IInv
<1>1. CASE UNCHANGED vars
  BY <1>1 DEF TypeOK, vars
<1>2. CASE LaunchStep
  BY <1>2, LaunchTyped DEF LaunchStep, TypeOK
<1>3. CASE Crash
  BY <1>3, CrashTyped DEF Crash, TypeOK
<1>4. CASE ReadVersion
  <2>1. proc \in Commands
    BY <1>4, InCommand DEF ReadVersion
  <2>2. CurrentVersion \in Nat
    BY CurrentIsRecorded, FileTyped
  <2>3. proc' \in Commands \cup {Off}
    <3>1. CASE proc' = Off
      BY <3>1
    <3>2. CASE Goto("session")
      BY <2>1, <3>2, GotoTyped DEF Goto, Opening
    <3>3. CASE proc' = [proc EXCEPT !.pc = "upgrade", !.applied = CurrentVersion]
      <4> DEFINE v == CurrentVersion
      <4> HIDE DEF v
      <4>1. proc' = [proc EXCEPT !.pc = "upgrade", !.applied = v] /\ v \in Nat
        BY <2>2, <3>3 DEF v
      <4> QED  BY <2>1, <4>1 DEF Commands, Opening
    <3> QED  BY <1>4, <3>1, <3>2, <3>3 DEF ReadVersion, Refuse
  <2> QED  BY <1>4, <2>3 DEF ReadVersion, TypeOK
<1>5. CASE \E t \in Tables : CreateTable(t)
  <2>1. PICK t \in Tables : CreateTable(t)
    BY <1>5
  <2>2. proc \in Commands /\ proc.applied \in Nat
    BY <2>1, InCommand DEF CreateTable, Commands
  <2>3. <<proc.applied + 1, t>> \in Nat \X Tables
    BY <2>2
  <2> QED  BY <2>1, <2>3 DEF CreateTable, TypeOK
<1>6. CASE RecordVersion
  <2> DEFINE v == proc.applied + 1
             pc == AfterMigration(v)
  <2>1. proc \in Commands /\ v \in Nat
    BY <1>6, InCommand DEF RecordVersion, Commands
  <2>2. pc \in Opening
    BY DEF AfterMigration, Opening
  <2>3. file' = [file EXCEPT !.version = v] /\ UNCHANGED <<searches, artifacts>>
        /\ proc' = [proc EXCEPT !.applied = v, !.pc = pc]
    BY <1>6 DEF RecordVersion
  <2> HIDE DEF v, pc
  <2>4. proc' \in Commands
    BY <2>1, <2>2, <2>3 DEF Commands
  <2> QED  BY <2>1, <2>3, <2>4 DEF TypeOK
<1>7. CASE CreateSearch
  <2>1. proc \in Commands /\ proc.config \in Configs /\ proc.build \in Builds
    BY <1>7, InCommand DEF CreateSearch, Commands
  <2>2. searches' \in Seq(SearchRows)
    BY <1>7, <2>1, NewSearchTyped, AppendProperties DEF CreateSearch, TypeOK
  <2>3. Len(searches) + 1 \in Nat
    BY LenProperties DEF TypeOK
  <2>4. proc' \in Commands
    BY <1>7, <2>1, <2>3 DEF CreateSearch, Commands, Running
  <2> QED  BY <1>7, <2>2, <2>4 DEF CreateSearch, TypeOK
<1>8. CASE Locate
  <2>1. proc \in Commands
    BY <1>8, InCommand DEF Locate
  <2>2. DOMAIN searches \subseteq Nat
    BY LenProperties DEF TypeOK
  <2>3. proc' = Off \/ \E s \in Nat : proc' = [proc EXCEPT !.pc = "sweep", !.target = s]
    BY <1>8, <2>2 DEF Locate, Refuse
  <2>4. proc' \in Commands \cup {Off}
    BY <2>1, <2>3 DEF Commands, Running
  <2> QED  BY <1>8, <2>4 DEF Locate, TypeOK
<1>9. CASE Sweep
  <2>1. proc \in Commands /\ proc.target \in DOMAIN searches
    BY <1>9, InCommand DEF Sweep, TargetOK, Running
  <2>2. proc' \in Commands
    BY <1>9, <2>1, GotoTyped DEF Sweep, Goto, Running
  <2> QED  BY <1>9, <2>1, <2>2, Swept DEF Sweep, TypeOK
<1>10. CASE Restore
  <2> DEFINE n == Cardinality(With(proc.target, "completed"))
  <2>1. proc \in Commands
    BY <1>10, InCommand DEF Restore
  <2>2. n \in Nat
    BY SessionsAssumption, FS_Subset, FS_CardinalityType DEF With
  <2>3. proc' = Off \/ proc' = [proc EXCEPT !.pc = "begin", !.completed = n]
    BY <1>10 DEF Restore, Refuse
  <2> HIDE DEF n
  <2>4. proc' \in Commands \cup {Off}
    BY <2>1, <2>2, <2>3 DEF Commands, Running
  <2> QED  BY <1>10, <2>4 DEF Restore, TypeOK
<1>11. CASE Begin
  <2>1. proc \in Commands /\ proc.target \in DOMAIN searches
    BY <1>11, InCommand DEF Begin, TargetOK, Running
  <2>2. proc' \in Commands
    BY <1>11, <2>1, GotoTyped DEF Begin, Goto, Running
  <2> QED  BY <1>11, <2>1, <2>2, StatusWritten DEF Begin, TypeOK
<1>12. CASE Propose
  <2>1. proc \in Commands /\ proc.target \in DOMAIN searches
    BY <1>12, InCommand DEF Propose, TargetOK, Running
  <2>2. proc.config.epochs \in Epochs
    BY <2>1 DEF Commands, Epochs
  <2>3. searches' \in Seq(SearchRows)
    BY <1>12, <2>1, <2>2, FreshTyped, NextRow, RowReplaced DEF Propose, TypeOK
  <2> QED  BY <1>12, <2>3 DEF Propose, TypeOK
<1>13. CASE Claim
  <2> DEFINE r == Min(With(proc.target, "queued"))
             row == searches[proc.target].rows[r]
             net == IF proc.config.keep THEN artifacts.training[PathOf(r, BudgetFor(row))]
                    ELSE <<>>
  <2>1. proc \in Commands /\ proc.target \in DOMAIN searches
    BY <1>13, InCommand DEF Claim, TargetOK, Running
  <2>2. r \in Rows /\ row.status = "queued"
    BY <1>13, NextRow DEF Claim
  <2>3. row \in RowStates
    BY <2>1, <2>2, RowTyped
  <2>4. [row EXCEPT !.status = "running"] \in RowStates
    BY <2>3 DEF RowStates, Statuses
  <2>5. PathOf(r, BudgetFor(row)) \in Paths
    BY <2>1, <2>2 DEF BudgetOK, BudgetFor, Paths
  <2>6. net \in Seq(Nat)
    BY <2>5, EmptySeq DEF TypeOK
  <2>7. /\ searches' = SetRow(proc.target, r, [row EXCEPT !.status = "running"])
        /\ proc' = [proc EXCEPT !.claimed = r, !.saved = FALSE, !.net = net]
    BY <1>13 DEF Claim
  <2> HIDE DEF r, row, net
  <2>8. proc' \in Commands
    BY <2>1, <2>2, <2>6, <2>7 DEF Commands
  <2>9. searches' \in Seq(SearchRows)
    BY <2>1, <2>2, <2>4, <2>7, RowReplaced DEF TypeOK
  <2> QED  BY <1>13, <2>8, <2>9 DEF Claim, TypeOK
<1>14. CASE TrainEpoch
  <2> DEFINE net == Append(proc.net, proc.target)
             path == EvaluatedPath
  <2>1. proc \in Commands /\ net \in Seq(Nat) /\ path \in Paths
    BY <1>14, EvaluatedTyped, AppendProperties DEF TrainEpoch, Commands
  <2>2. proc' = [proc EXCEPT !.net = net]
        /\ artifacts' = IF proc.config.keep
                        THEN [artifacts EXCEPT !.training[path] = net] ELSE artifacts
    BY <1>14 DEF TrainEpoch
  <2> HIDE DEF net, path
  <2>3. proc' \in Commands
    BY <2>1, <2>2 DEF Commands
  <2>4. artifacts' \in [training : [Paths -> Seq(Nat)], weights : [Paths -> Weights]]
    BY <2>1, <2>2 DEF TypeOK
  <2> QED  BY <1>14, <2>3, <2>4 DEF TrainEpoch, TypeOK
<1>15. CASE SaveWeights
  <2> DEFINE new == [by |-> proc.target, net |-> proc.net]
             path == EvaluatedPath
  <2>1. proc \in Commands /\ new \in Weights /\ path \in Paths
    BY <1>15, EvaluatedTyped DEF SaveWeights, Commands, Weights
  <2>2. proc' = [proc EXCEPT !.saved = TRUE]
        /\ artifacts' = [artifacts EXCEPT !.weights[path] = new]
    BY <1>15 DEF SaveWeights
  <2> HIDE DEF new, path
  <2>3. proc' \in Commands
    BY <2>1, <2>2 DEF Commands
  <2>4. artifacts' \in [training : [Paths -> Seq(Nat)], weights : [Paths -> Weights]]
    BY <2>1, <2>2 DEF TypeOK
  <2> QED  BY <1>15, <2>3, <2>4 DEF SaveWeights, TypeOK
<1>16. CASE Complete
  <2> DEFINE row == [EvaluatedRow EXCEPT !.status = "completed", !.trained = proc.net]
             n == proc.completed + 1
  <2>1. /\ proc \in Commands /\ proc.target \in DOMAIN searches
        /\ proc.claimed \in Rows /\ EvaluatedRow \in RowStates
    BY <1>16, EvaluatedTyped DEF Complete
  <2>2. proc.net \in Seq(Nat) /\ n \in Nat
    BY <2>1 DEF Commands
  <2>3. row \in RowStates
    BY <2>1, <2>2 DEF RowStates, Statuses
  <2>4. /\ searches' = SetRow(proc.target, proc.claimed, row)
        /\ proc' = [proc EXCEPT !.claimed = 0, !.completed = n, !.pc = "save"]
    BY <1>16 DEF Complete
  <2> HIDE DEF row, n
  <2>5. proc' \in Commands
    BY <2>1, <2>2, <2>4 DEF Commands, Running
  <2>6. searches' \in Seq(SearchRows)
    BY <2>1, <2>3, <2>4, RowReplaced DEF TypeOK
  <2> QED  BY <1>16, <2>5, <2>6 DEF Complete, TypeOK
<1>17. CASE Checkpoint \/ FinalCheckpoint
  <2>1. proc \in Commands /\ proc.target \in DOMAIN searches
    BY <1>17, InCommand DEF Checkpoint, FinalCheckpoint, TargetOK, Running
  <2>2. proc' \in Commands
    BY <1>17, <2>1, GotoTyped DEF Checkpoint, FinalCheckpoint, Goto, Running
  <2> QED  BY <1>17, <2>1, <2>2, CheckpointWritten DEF Checkpoint, FinalCheckpoint, TypeOK
<1>18. CASE Stop \/ Interrupt
  <2>1. proc \in Commands
    BY <1>18, InCommand DEF Stop, Interrupt
  <2>2. proc' \in Commands
    BY <1>18, <2>1 DEF Stop, Interrupt, Commands, Running
  <2> QED  BY <1>18, <2>2 DEF Stop, Interrupt, TypeOK
<1>19. CASE Close
  <2>1. proc \in Commands /\ proc.target \in DOMAIN searches
    BY <1>19, InCommand DEF Close, TargetOK, Running
  <2>2. Buried(proc.target) \in Seq(SearchRows) /\ proc.target \in DOMAIN Buried(proc.target)
    BY <2>1, BuriedRows
  <2>3. proc.reason \in {"running", "completed", "paused", "none"}
    BY <2>1 DEF Commands
  <2>4. searches' \in Seq(SearchRows)
    BY <1>19, <2>2, <2>3, StatusWritten DEF Close
  <2> QED  BY <1>19, <2>4 DEF Close, TypeOK
<1> QED  BY <1>1, <1>2, <1>3, <1>4, <1>5, <1>6, <1>7, <1>8, <1>9, <1>10, <1>11, <1>12,
            <1>13, <1>14, <1>15, <1>16, <1>17, <1>18, <1>19, NextSteps

-----------------------------------------------------------------------------
(***************************************************************************)
(* The schema.                                                             *)
(***************************************************************************)
\* The steps of a command that has passed the migrations.
AfterOpening ==
    \/ CreateSearch \/ Locate \/ Sweep \/ Restore \/ Begin \/ Propose \/ Claim
    \/ TrainEpoch \/ SaveWeights \/ Complete \/ Checkpoint \/ Stop \/ Interrupt
    \/ FinalCheckpoint \/ Close

\* Those that move the command on and leave the rows alone.
LEMMA LocateEffect ==
  ASSUME TypeOK, Locate
  PROVE  /\ proc \in Commands /\ proc.pc = "session" /\ UNCHANGED <<file, searches>>
         /\ \/ proc' = Off
            \/ /\ proc' \in Commands /\ proc'.pc = "sweep"
               /\ proc'.target \in DOMAIN searches /\ proc'.claimed = proc.claimed
<1>1. proc \in Commands /\ proc.pc = "session" /\ UNCHANGED <<file, searches>>
  BY InCommand DEF Locate
<1>2. \/ proc' = Off
      \/ \E s \in DOMAIN searches : proc' = [proc EXCEPT !.pc = "sweep", !.target = s]
  BY DEF Locate, Refuse
<1>3. DOMAIN searches \subseteq Nat
  BY LenProperties DEF TypeOK
<1>4. ASSUME NEW s \in DOMAIN searches, proc' = [proc EXCEPT !.pc = "sweep", !.target = s]
      PROVE  /\ proc' \in Commands /\ proc'.pc = "sweep"
             /\ proc'.target = s /\ proc'.claimed = proc.claimed
  BY <1>1, <1>3, <1>4 DEF Commands, Running
<1> QED  BY <1>1, <1>2, <1>4

LEMMA RestoreEffect ==
  ASSUME TypeOK, Restore
  PROVE  /\ proc \in Commands /\ proc.pc = "restore" /\ UNCHANGED <<file, searches>>
         /\ \/ proc' = Off
            \/ /\ proc'.pc = "begin" /\ proc'.target = proc.target
               /\ proc'.claimed = proc.claimed /\ proc'.config = proc.config
               /\ LET saved == searches[proc.target].saved
                  IN saved = None \/ (ValidFor(saved) /\ Loads(saved))
<1> DEFINE n == Cardinality(With(proc.target, "completed"))
           saved == searches[proc.target].saved
           fits == saved = None \/ (ValidFor(saved) /\ Loads(saved))
<1>1. proc \in Commands /\ proc.pc = "restore" /\ UNCHANGED <<file, searches>>
  BY InCommand DEF Restore
<1>2. \/ proc' = Off
      \/ fits /\ proc' = [proc EXCEPT !.pc = "begin", !.completed = n]
  BY DEF Restore, Refuse
<1> HIDE DEF n, fits
<1>3. \/ proc' = Off
      \/ /\ fits /\ proc'.pc = "begin" /\ proc'.target = proc.target
         /\ proc'.claimed = proc.claimed /\ proc'.config = proc.config
  BY <1>1, <1>2 DEF Commands
<1> QED  BY <1>1, <1>3 DEF fits

LEMMA StopEffect ==
  ASSUME TypeOK, Stop \/ Interrupt
  PROVE  /\ proc \in Commands /\ proc.pc \in {"loop", "save"} /\ UNCHANGED <<file, searches>>
         /\ proc'.pc = "finalise" /\ proc'.target = proc.target
         /\ proc'.claimed = proc.claimed /\ proc'.config = proc.config
<1>1. proc \in Commands /\ proc.pc \in {"loop", "save"} /\ UNCHANGED <<file, searches>>
  BY InCommand DEF Stop, Interrupt
<1>2. \E why \in {"completed", "paused"} :
         proc' = [proc EXCEPT !.pc = "finalise", !.reason = why]
  BY DEF Stop, Interrupt
<1> QED  BY <1>1, <1>2 DEF Commands

LEMMA EvaluationEffect ==
  ASSUME TypeOK, TrainEpoch \/ SaveWeights
  PROVE  /\ proc \in Commands /\ proc.pc = "loop" /\ UNCHANGED <<file, searches>>
         /\ proc'.pc = "loop" /\ proc'.target = proc.target
         /\ proc'.claimed = proc.claimed /\ proc'.config = proc.config
<1> DEFINE net == Append(proc.net, proc.target)
<1>1. proc \in Commands /\ proc.pc = "loop" /\ UNCHANGED <<file, searches>>
  BY InCommand DEF TrainEpoch, SaveWeights, Evaluating
<1>2. proc' = [proc EXCEPT !.net = net] \/ proc' = [proc EXCEPT !.saved = TRUE]
  BY DEF TrainEpoch, SaveWeights
<1> HIDE DEF net
<1> QED  BY <1>1, <1>2 DEF Commands

\* Those that write one row.
LEMMA ClaimEffect ==
  ASSUME TypeOK, TargetOK, Claim
  PROVE  /\ proc \in Commands /\ proc.pc = "loop" /\ proc.claimed = 0 /\ UNCHANGED file
         /\ proc'.pc = "loop" /\ proc'.target = proc.target /\ proc'.config = proc.config
         /\ proc'.claimed \in Rows
         /\ LET row == searches[proc.target].rows[proc'.claimed]
            IN /\ row \in RowStates /\ row.status = "queued"
               /\ searches' = SetRow(proc.target, proc'.claimed,
                                     [row EXCEPT !.status = "running"])
<1> DEFINE r == Min(With(proc.target, "queued"))
           row == searches[proc.target].rows[r]
           net == IF proc.config.keep THEN artifacts.training[PathOf(r, BudgetFor(row))]
                  ELSE <<>>
<1>1. /\ proc \in Commands /\ proc.pc = "loop" /\ proc.claimed = 0 /\ UNCHANGED file
      /\ proc.target \in DOMAIN searches
  BY InCommand DEF Claim, TargetOK, Running
<1>2. r \in Rows /\ row.status = "queued"
  BY NextRow DEF Claim
<1>3. row \in RowStates
  BY <1>1, <1>2, RowTyped
<1>4. /\ searches' = SetRow(proc.target, r, [row EXCEPT !.status = "running"])
      /\ proc' = [proc EXCEPT !.claimed = r, !.saved = FALSE, !.net = net]
  BY DEF Claim
<1> HIDE DEF r, net
<1>5. /\ proc'.pc = "loop" /\ proc'.target = proc.target /\ proc'.config = proc.config
      /\ proc'.claimed = r
  BY <1>1, <1>4 DEF Commands
<1> QED  BY <1>1, <1>2, <1>3, <1>4, <1>5

LEMMA CompleteEffect ==
  ASSUME TypeOK, TargetOK, BudgetOK, Complete
  PROVE  /\ proc \in Commands /\ proc.pc = "loop" /\ UNCHANGED file
         /\ proc'.pc = "save" /\ proc'.target = proc.target /\ proc'.config = proc.config
         /\ proc'.claimed = 0 /\ proc.claimed \in Rows
         /\ \E row \in RowStates :
               /\ row.status = "completed" /\ row.retries = EvaluatedRow.retries
               /\ row.deaths = EvaluatedRow.deaths /\ row.epochs = EvaluatedRow.epochs
               /\ row.trained = proc.net
               /\ searches' = SetRow(proc.target, proc.claimed, row)
<1> DEFINE row == [EvaluatedRow EXCEPT !.status = "completed", !.trained = proc.net]
           n == proc.completed + 1
<1>1. /\ proc \in Commands /\ proc.pc = "loop" /\ proc.claimed \in Rows
      /\ EvaluatedRow \in RowStates /\ UNCHANGED file
  BY EvaluatedTyped DEF Complete
<1>2. proc.net \in Seq(Nat)
  BY <1>1 DEF Commands
<1>3. /\ row \in RowStates
      /\ row.status = "completed" /\ row.retries = EvaluatedRow.retries
      /\ row.deaths = EvaluatedRow.deaths /\ row.epochs = EvaluatedRow.epochs
      /\ row.trained = proc.net
  BY <1>1, <1>2 DEF RowStates, Statuses
<1>4. /\ searches' = SetRow(proc.target, proc.claimed, row)
      /\ proc' = [proc EXCEPT !.claimed = 0, !.completed = n, !.pc = "save"]
  BY DEF Complete
<1> HIDE DEF row, n
<1>5. /\ proc'.pc = "save" /\ proc'.target = proc.target /\ proc'.config = proc.config
      /\ proc'.claimed = 0
  BY <1>1, <1>4 DEF Commands
<1> QED  BY <1>1, <1>3, <1>4, <1>5

LEMMA ProposeEffect ==
  ASSUME TypeOK, TargetOK, Propose
  PROVE  /\ proc \in Commands /\ proc.pc = "loop" /\ proc.claimed = 0
         /\ UNCHANGED <<file, proc>>
         /\ \E r \in Rows, row \in RowStates :
               /\ row.status = "queued" /\ row.retries = 0 /\ row.deaths = 0
               /\ row.epochs \in {c.epochs : c \in Configs}
               /\ searches[proc.target].rows[r].status = "none"
               /\ searches' = SetRow(proc.target, r, row)
<1> DEFINE r == Min(With(proc.target, "none"))
           row == [Fresh EXCEPT !.status = "queued", !.epochs = proc.config.epochs]
<1>1. /\ proc \in Commands /\ proc.pc = "loop" /\ proc.claimed = 0
      /\ UNCHANGED <<file, proc>>
  BY InCommand DEF Propose
<1>2. r \in Rows /\ searches[proc.target].rows[r].status = "none"
  BY NextRow DEF Propose
<1>3. proc.config.epochs \in {c.epochs : c \in Configs}
  BY <1>1 DEF Commands
<1>4. /\ row \in RowStates
      /\ row.status = "queued" /\ row.retries = 0 /\ row.deaths = 0
      /\ row.epochs \in {c.epochs : c \in Configs}
  BY <1>3, FreshTyped DEF Epochs, Fresh
<1>5. searches' = SetRow(proc.target, r, row)
  BY DEF Propose
<1> HIDE DEF r, row
<1> QED  BY <1>1, <1>2, <1>4, <1>5

\* A new search, and the end of a command.
LEMMA CreateEffect ==
  ASSUME TypeOK, TargetOK, CreateSearch
  PROVE  /\ proc \in Commands /\ proc.pc = "session" /\ proc.claimed = 0 /\ UNCHANGED file
         /\ proc'.pc = "begin" /\ proc'.claimed = 0 /\ proc'.config = proc.config
         /\ proc'.target \in DOMAIN searches'
         /\ \A t \in DOMAIN searches' :
               \/ t \in DOMAIN searches /\ t # proc'.target /\ searches'[t] = searches[t]
               \/ /\ t = proc'.target
                  /\ searches'[t].saved = None /\ searches'[t].writers = {}
                  /\ \A r \in Rows : searches'[t].rows[r] = Fresh
<1> DEFINE n == Len(searches) + 1
           new == NewSearchRow(proc.config, proc.build)
<1>1. /\ proc \in Commands /\ proc.pc = "session" /\ proc.claimed = 0 /\ UNCHANGED file
      /\ proc.config \in Configs /\ proc.build \in Builds
  BY InCommand DEF CreateSearch, TargetOK, Opening, Commands
<1>2. /\ new \in SearchRows /\ new.saved = None /\ new.writers = {}
      /\ \A r \in Rows : new.rows[r] = Fresh
  BY <1>1, NewSearchTyped DEF NewSearchRow
<1>3. searches' = Append(searches, new) /\ proc' = [proc EXCEPT !.pc = "begin", !.target = n]
  BY DEF CreateSearch
<1>4. searches \in Seq(SearchRows) /\ Len(searches) \in Nat
  BY LenProperties DEF TypeOK
<1> HIDE DEF new
<1>5. /\ searches' \in Seq(SearchRows) /\ Len(searches') = n /\ searches'[n] = new
      /\ \A t \in 1 .. Len(searches) : searches'[t] = searches[t]
  BY <1>2, <1>3, <1>4, AppendProperties
<1>6. DOMAIN searches' = 1 .. n /\ DOMAIN searches = 1 .. Len(searches)
  BY <1>4, <1>5, LenProperties
<1>7. /\ proc'.pc = "begin" /\ proc'.claimed = 0 /\ proc'.config = proc.config
      /\ proc'.target = n
  BY <1>1, <1>3, <1>4 DEF Commands
<1>8. \A t \in 1 .. n : (t \in 1 .. Len(searches) /\ t # n) \/ t = n
  BY <1>4
<1>9. n \in 1 .. n
  BY <1>4
<1> HIDE DEF n
<1> QED  BY <1>1, <1>2, <1>5, <1>6, <1>7, <1>8, <1>9

LEMMA CloseEffect ==
  ASSUME TypeOK, TargetOK, Close
  PROVE  /\ proc \in Commands /\ proc.pc = "close" /\ proc' = Off /\ UNCHANGED file
         /\ proc.target \in DOMAIN searches
         /\ DOMAIN searches' = DOMAIN searches
         /\ \A t \in DOMAIN searches :
               /\ searches'[t].saved = Buried(proc.target)[t].saved
               /\ searches'[t].writers = Buried(proc.target)[t].writers
               /\ searches'[t].rows = Buried(proc.target)[t].rows
<1>1. /\ proc \in Commands /\ proc.pc = "close" /\ proc' = Off /\ UNCHANGED file
      /\ proc.target \in DOMAIN searches
  BY InCommand DEF Close, TargetOK, Running
<1>2. /\ Buried(proc.target) \in Seq(SearchRows)
      /\ DOMAIN Buried(proc.target) = DOMAIN searches
  BY <1>1, BuriedRows
<1>3. proc.reason \in {"running", "completed", "paused", "none"}
  BY <1>1 DEF Commands
<1>4. searches' = [Buried(proc.target) EXCEPT ![proc.target].status = proc.reason]
  BY DEF Close
<1> QED  BY <1>1, <1>2, <1>3, <1>4, StatusWritten

LEMMA CrashEffect ==
  ASSUME TypeOK, TargetOK, Crash
  PROVE  /\ proc \in Commands /\ proc' = Off /\ searches' = Buried(proc.target)
         /\ \/ proc.claimed = 0 /\ searches' = searches
            \/ proc.target \in DOMAIN searches /\ proc.pc \in Running
<1>1. proc \in Commands /\ proc.pc \in Opening \cup Running /\ proc' = Off
      /\ searches' = Buried(proc.target)
  BY InCommand DEF Crash
<1>2. proc.pc \in Opening => proc.claimed = 0 /\ searches' = searches
  BY <1>1 DEF TargetOK, Buried
<1> QED  BY <1>1, <1>2 DEF TargetOK

LEMMA OpeningEffect ==
  ASSUME TypeOK, TargetOK, ReadVersion \/ (\E t \in Tables : CreateTable(t)) \/ RecordVersion
  PROVE  /\ UNCHANGED searches /\ proc.claimed = 0
         /\ proc' = Off \/ (proc'.pc \in Opening /\ proc'.claimed = 0)
<1>1. proc \in Commands /\ proc.claimed = 0 /\ UNCHANGED searches /\ proc.pc \in Opening
  BY InCommand DEF ReadVersion, CreateTable, RecordVersion, TargetOK, Opening
<1>2. \/ proc' = Off \/ proc' = proc
      \/ \E pc \in Opening : proc' = [proc EXCEPT !.pc = pc]
      \/ \E pc \in Opening, v \in Nat : proc' = [proc EXCEPT !.pc = pc, !.applied = v]
      \/ \E pc \in Opening, v \in Nat : proc' = [proc EXCEPT !.applied = v, !.pc = pc]
  <2>1. proc.applied + 1 \in Nat /\ CurrentVersion \in Nat
    BY <1>1, FileTyped DEF Commands, CurrentVersion
  <2>2. AfterMigration(proc.applied + 1) \in Opening
    BY DEF AfterMigration, Opening
  <2> QED  BY <2>1, <2>2 DEF ReadVersion, Refuse, Goto, CreateTable, RecordVersion, Opening
<1> QED  BY <1>1, <1>2 DEF Commands

LEMMA BeginEffect ==
  ASSUME TypeOK, TargetOK, Begin
  PROVE  /\ proc \in Commands /\ proc.pc = "begin" /\ UNCHANGED file
         /\ proc'.pc = "loop" /\ proc'.target = proc.target
         /\ proc'.claimed = proc.claimed /\ proc'.config = proc.config
         /\ DOMAIN searches' = DOMAIN searches
         /\ \A t \in DOMAIN searches :
               /\ searches'[t].rows = searches[t].rows
               /\ searches'[t].saved = searches[t].saved
               /\ searches'[t].writers = searches[t].writers
<1>1. /\ proc \in Commands /\ proc.pc = "begin" /\ UNCHANGED file
      /\ proc.target \in DOMAIN searches /\ searches \in Seq(SearchRows)
  BY InCommand DEF Begin, TargetOK, Running, TypeOK
<1>2. proc' = [proc EXCEPT !.pc = "loop"]
      /\ searches' = [searches EXCEPT ![proc.target].status = "running"]
  BY DEF Begin, Goto
<1>3. "loop" \in Opening \cup Running
  BY DEF Running
<1> QED  BY <1>1, <1>2, <1>3, GotoTyped, StatusWritten

LEMMA CheckpointEffect ==
  ASSUME TypeOK, TargetOK, Checkpoint \/ FinalCheckpoint
  PROVE  /\ proc \in Commands /\ proc.pc \in {"save", "finalise"} /\ UNCHANGED file
         /\ proc'.pc \in {"loop", "close"} /\ proc'.target = proc.target
         /\ proc'.claimed = proc.claimed /\ proc'.config = proc.config
         /\ proc.target \in DOMAIN searches
         /\ DOMAIN searches' = DOMAIN searches
         /\ \A t \in DOMAIN searches : searches'[t].rows = searches[t].rows
         /\ searches' = Saved
<1>1. /\ proc \in Commands /\ proc.pc \in {"save", "finalise"} /\ UNCHANGED file
      /\ proc.target \in DOMAIN searches
  BY InCommand DEF Checkpoint, FinalCheckpoint, TargetOK, Running
<1>2. searches' = Saved /\ \E pc \in {"loop", "close"} : proc' = [proc EXCEPT !.pc = pc]
  BY DEF Checkpoint, FinalCheckpoint, Goto
<1>3. {"loop", "close"} \subseteq Opening \cup Running
  BY DEF Running
<1> QED  BY <1>1, <1>2, <1>3, GotoTyped, CheckpointWritten

\* RowReplaced, for the steps that write one row.
LEMMA WrittenRow ==
  ASSUME TypeOK, NEW s \in DOMAIN searches, NEW r \in Rows, NEW row \in RowStates,
         searches' = SetRow(s, r, row)
  PROVE  /\ DOMAIN searches' = DOMAIN searches
         /\ \A t \in DOMAIN searches :
               /\ searches'[t].saved = searches[t].saved
               /\ searches'[t].writers = searches[t].writers
               /\ \A q \in Rows : searches'[t].rows[q] =
                     IF t = s /\ q = r THEN row ELSE searches[t].rows[q]
BY RowReplaced DEF TypeOK

LEMMA RunningRow ==
  ASSUME NEW row \in RowStates
  PROVE  LET new == [row EXCEPT !.status = "running"]
         IN /\ new \in RowStates /\ new.status = "running"
            /\ new.retries = row.retries /\ new.deaths = row.deaths
            /\ new.epochs = row.epochs /\ new.trained = row.trained
BY DEF RowStates, Statuses

LEMMA AfterOpeningPc ==
  ASSUME TypeOK, TargetOK, BudgetOK, AfterOpening
  PROVE  /\ proc \in Commands
         /\ proc.pc \in Running \cup {"session"} /\ proc'.pc # "upgrade"
         /\ UNCHANGED file
<1>1. CASE CreateSearch
  BY <1>1, InCommand DEF CreateSearch, Commands
<1>2. CASE Locate
  BY <1>2, LocateEffect, OffIsOff DEF Off
<1>3. CASE Sweep \/ Begin \/ Checkpoint \/ FinalCheckpoint
  BY <1>3, InCommand, GotoTyped DEF Sweep, Begin, Checkpoint, FinalCheckpoint, Goto, Running
<1>4. CASE Restore
  BY <1>4, RestoreEffect, OffIsOff DEF Running, Off
<1>5. CASE Propose \/ Close
  BY <1>5, InCommand, OffIsOff DEF Propose, Close, Running, Off
<1>6. CASE Claim
  BY <1>6, ClaimEffect DEF Running
<1>7. CASE TrainEpoch \/ SaveWeights
  BY <1>7, EvaluationEffect DEF Running
<1>8. CASE Complete
  BY <1>8, CompleteEffect DEF Running
<1>9. CASE Stop \/ Interrupt
  BY <1>9, StopEffect DEF Running
<1> QED  BY <1>1, <1>2, <1>3, <1>4, <1>5, <1>6, <1>7, <1>8, <1>9 DEF AfterOpening

LEMMA SchemaStep ==
  ASSUME IInv, [Next]_vars
  PROVE  SchemaTellsTables' /\ UpgradeOK'
<1> USE DEF IInv
<1>1. CASE UNCHANGED vars
  BY <1>1 DEF SchemaTellsTables, UpgradeOK, vars
<1>2. CASE LaunchStep
  BY <1>2, LaunchTyped DEF LaunchStep, SchemaTellsTables, UpgradeOK
<1>3. CASE Crash
  <2>1. /\ proc.pc # "off" /\ proc' = Off /\ UNCHANGED file
        /\ searches' = Buried(proc.target)
    BY <1>3 DEF Crash
  <2>2. CASE proc.pc \in Opening
    <3>1. searches' = searches
      BY <2>1, <2>2 DEF Buried, TargetOK
    <3> QED  BY <2>1, <3>1, OffIsOff DEF SchemaTellsTables, UpgradeOK, Off
  <2>3. CASE proc.pc \in Running
    BY <2>1, <2>3, OffIsOff DEF SchemaTellsTables, UpgradeOK, Off, Running
  <2> QED  BY <2>1, <2>2, <2>3, InCommand
<1>4. CASE ReadVersion
  <2>1. proc \in Commands /\ proc.pc = "schema" /\ CurrentVersion = file.version
    BY <1>4, InCommand, CurrentIsRecorded DEF ReadVersion
  <2>2. proc.build.schema \in Nat \ {0} /\ file.version \in Nat
    BY <2>1, SessionsAssumption, FileTyped DEF Commands
  <2>3. UNCHANGED <<file, searches>>
    BY <1>4 DEF ReadVersion
  <2>4. CASE proc' = Off
    BY <2>3, <2>4, OffIsOff DEF SchemaTellsTables, UpgradeOK, Off
  <2>5. CASE file.version = proc.build.schema /\ Goto("session")
    <3>1. proc'.pc = "session" /\ file.version >= 1
      BY <2>1, <2>2, <2>5, GotoTyped DEF Goto, Opening
    <3> QED  BY <2>3, <3>1 DEF SchemaTellsTables, UpgradeOK
  <2>6. CASE /\ file.version < proc.build.schema
             /\ proc' = [proc EXCEPT !.pc = "upgrade", !.applied = CurrentVersion]
    <3>1. /\ proc'.pc = "upgrade" /\ proc'.applied = file.version
          /\ proc'.build = proc.build
      <4> DEFINE v == CurrentVersion
      <4> HIDE DEF v
      <4>1. proc' = [proc EXCEPT !.pc = "upgrade", !.applied = v] /\ v = file.version
        BY <2>1, <2>6 DEF v
      <4> QED  BY <2>1, <4>1 DEF Commands
    <3> QED  BY <2>3, <2>6, <3>1 DEF SchemaTellsTables, UpgradeOK
  <2> QED  BY <1>4, <2>1, <2>4, <2>5, <2>6 DEF ReadVersion, Refuse
<1>5. CASE \E t \in Tables : CreateTable(t)
  <2>1. PICK t \in Tables : CreateTable(t)
    BY <1>5
  <2>2. file'.version = file.version /\ file.tables \subseteq file'.tables
    BY <2>1 DEF CreateTable, TypeOK
  <2> QED  BY <2>1, <2>2 DEF CreateTable, SchemaTellsTables, UpgradeOK
<1>6. CASE RecordVersion
  <2> DEFINE v == file.version + 1
             pc == AfterMigration(v)
  <2>1. /\ proc \in Commands /\ proc.pc = "upgrade"
        /\ proc.applied = file.version /\ file.version \in Nat
        /\ file.version < proc.build.schema /\ proc.build.schema \in Nat
    BY <1>6, InCommand, FileTyped, SessionsAssumption DEF RecordVersion, UpgradeOK, Commands
  <2>2. /\ \A t \in Tables : <<v, t>> \in file.tables
        /\ file' = [file EXCEPT !.version = v] /\ UNCHANGED searches
        /\ proc' = [proc EXCEPT !.applied = v, !.pc = pc]
    BY <1>6, <2>1 DEF RecordVersion
  <2>3. pc \in {"session", "upgrade"} /\ (pc = "upgrade" => v < proc.build.schema)
    BY <2>1 DEF AfterMigration
  <2>4. v \in Nat /\ v >= 1 /\ \A i \in 1 .. v : i \in 1 .. file.version \/ i = v
    BY <2>1
  <2> HIDE DEF v, pc
  <2>5. /\ file'.version = v /\ file'.tables = file.tables
        /\ proc'.applied = v /\ proc'.pc = pc /\ proc'.build = proc.build
    BY <2>1, <2>2 DEF Commands, TypeOK
  <2>6. SchemaTellsTables'
    BY <2>2, <2>4, <2>5 DEF SchemaTellsTables
  <2> QED  BY <2>3, <2>5, <2>6 DEF UpgradeOK
<1>7. CASE AfterOpening
  <2>1. file.version >= 1
    BY <1>7, AfterOpeningPc DEF SchemaTellsTables, Running
  <2> QED  BY <1>7, <2>1, AfterOpeningPc DEF SchemaTellsTables, UpgradeOK
<1> QED  BY <1>1, <1>2, <1>3, <1>4, <1>5, <1>6, <1>7, NextSteps DEF AfterOpening

-----------------------------------------------------------------------------
(***************************************************************************)
(* One retry for each death.                                               *)
(***************************************************************************)
LEMMA ChargedStep ==
  ASSUME IInv, [Next]_vars
  PROVE  ChargedOncePerDeath'
<1> USE DEF IInv
<1>0. /\ \A r \in Rows : r # 0
      /\ \A s \in DOMAIN searches, r \in Rows : searches[s].rows[r] \in RowStates
  BY RowTyped, SessionsAssumption
<1>1. CASE UNCHANGED vars
  BY <1>1 DEF ChargedOncePerDeath, Orphan, vars
<1>2. CASE LaunchStep
  BY <1>0, <1>2, LaunchTyped DEF LaunchStep, ChargedOncePerDeath, Orphan
<1>3. CASE Crash
  <2>1. CASE proc.claimed = 0 /\ searches' = searches
    BY <1>0, <1>3, <2>1, CrashEffect, OffIsOff DEF ChargedOncePerDeath, Orphan
  <2>2. CASE proc.target \in DOMAIN searches /\ proc.pc \in Running
    <3>1. proc' = Off /\ proc'.pc = "off" /\ searches' = Buried(proc.target)
      BY <1>3, CrashEffect, OffIsOff
    <3>2. /\ DOMAIN searches' = DOMAIN searches
          /\ \A t \in DOMAIN searches, q \in Rows :
                LET row == searches[t].rows[q]
                    new == searches'[t].rows[q]
                IN /\ new.status = row.status /\ new.retries = row.retries
                   /\ new.deaths = row.deaths
                         + (IF t = proc.target /\ q = proc.claimed THEN 1 ELSE 0)
      BY <1>3, <2>2, <3>1, CrashEffect, BuriedRows
    <3>3. /\ proc.pc # "off" /\ TargetOK
          /\ \A t \in DOMAIN searches, q \in Rows :
                searches[t].rows[q].deaths \in Nat /\ searches[t].rows[q].retries \in Nat
      BY <1>0, <2>2 DEF Running, RowStates
    <3>4. ChargedOncePerDeath
      OBVIOUS
    <3> HIDE DEF IInv
    <3> QED  BY <1>0, <3>4, <2>2, <3>1, <3>2, <3>3
             DEF ChargedOncePerDeath, Orphan, TargetOK, Running
  <2> QED  BY <1>3, <2>1, <2>2, CrashEffect
<1>4. CASE ReadVersion \/ (\E t \in Tables : CreateTable(t)) \/ RecordVersion
  <2>1. UNCHANGED searches /\ proc.claimed = 0 /\ (proc' = Off \/ proc'.claimed = 0)
    BY <1>4, OpeningEffect
  <2> QED  BY <1>0, <2>1, OffIsOff DEF ChargedOncePerDeath, Orphan
<1>5. CASE CreateSearch
  BY <1>0, <1>5, CreateEffect DEF ChargedOncePerDeath, Orphan, Fresh
<1>6. CASE Locate
  BY <1>0, <1>6, LocateEffect, OffIsOff DEF ChargedOncePerDeath, Orphan, TargetOK, Opening
<1>7. CASE Sweep
  <2>1. /\ proc \in Commands /\ proc.target \in DOMAIN searches /\ proc.claimed = 0
        /\ proc'.claimed = 0
    BY <1>7, InCommand, GotoTyped DEF Sweep, Goto, TargetOK, Running
  <2>2. /\ DOMAIN searches' = DOMAIN searches
        /\ \A t \in DOMAIN searches, r \in Rows : searches'[t].rows[r] =
                     IF t = proc.target /\ searches[t].rows[r].status = "running"
                     THEN Recovered(searches[t].rows[r]) ELSE searches[t].rows[r]
    BY <1>7, <2>1, Swept DEF Sweep
  <2>3. SUFFICES ASSUME NEW t \in DOMAIN searches, NEW r \in Rows
                 PROVE  LET row == searches'[t].rows[r]
                        IN row.deaths = row.retries
                              + (IF row.status = "failed" \/ row.status = "running"
                                 THEN 1 ELSE 0)
    BY <1>0, <2>1, <2>2 DEF ChargedOncePerDeath, Orphan
  <2>4. LET row == searches[t].rows[r]
        IN /\ row \in RowStates
           /\ row.deaths = row.retries
                 + (IF row.status = "failed" \/ row.status = "running" THEN 1 ELSE 0)
    BY <1>0, <2>1 DEF ChargedOncePerDeath, Orphan
  <2>5. CASE t = proc.target /\ searches[t].rows[r].status = "running"
    <3> DEFINE row == searches[t].rows[r]
               new == searches'[t].rows[r]
    <3>1. new = Recovered(row)
      BY <2>2, <2>5
    <3>2. row \in RowStates /\ row.deaths = row.retries + 1 /\ row.retries \in Nat
      BY <2>4, <2>5 DEF RowStates
    <3> HIDE DEF row, new
    <3>3. /\ new.deaths = row.deaths
          /\ \/ new.status = "queued" /\ new.retries = row.retries + 1
             \/ new.status = "failed" /\ new.retries = row.retries
      BY <3>1, <3>2, RecoveredRow
    <3>4. new.deaths = new.retries
             + (IF new.status = "failed" \/ new.status = "running" THEN 1 ELSE 0)
      BY <3>2, <3>3
    <3> QED  BY <3>4 DEF new
  <2>6. CASE ~(t = proc.target /\ searches[t].rows[r].status = "running")
    BY <2>2, <2>4, <2>6
  <2> QED  BY <2>5, <2>6
<1>8. CASE Restore
  BY <1>0, <1>8, RestoreEffect, OffIsOff DEF ChargedOncePerDeath, Orphan, TargetOK, Opening
<1>9. CASE Begin
  BY <1>0, <1>9, BeginEffect DEF ChargedOncePerDeath, Orphan
<1>10. CASE Propose
  BY <1>0, <1>10, ProposeEffect, WrittenRow DEF ChargedOncePerDeath, Orphan, TargetOK, Running
<1>11. CASE Claim
  <2> DEFINE old == searches[proc.target].rows[proc'.claimed]
             row == [old EXCEPT !.status = "running"]
  <2>1. /\ proc.target \in DOMAIN searches /\ proc'.claimed \in Rows
        /\ old \in RowStates /\ old.status = "queued"
        /\ searches' = SetRow(proc.target, proc'.claimed, row)
    BY <1>11, ClaimEffect DEF TargetOK, Running
  <2>2. /\ row \in RowStates /\ row.status = "running"
        /\ row.retries = old.retries /\ row.deaths = old.deaths
    BY <2>1, RunningRow
  <2> HIDE DEF row
  <2>3. /\ DOMAIN searches' = DOMAIN searches
        /\ \A t \in DOMAIN searches, q \in Rows : searches'[t].rows[q] =
               IF t = proc.target /\ q = proc'.claimed THEN row ELSE searches[t].rows[q]
    BY <2>1, <2>2, WrittenRow
  <2> QED  BY <1>0, <1>11, <2>1, <2>2, <2>3, ClaimEffect DEF ChargedOncePerDeath, Orphan
<1>12. CASE TrainEpoch \/ SaveWeights
  BY <1>0, <1>12, EvaluationEffect DEF ChargedOncePerDeath, Orphan
<1>13. CASE Complete
  <2>1. proc.target \in DOMAIN searches /\ EvaluatedRow.status = "running"
    BY <1>13, EvaluatedTyped DEF Complete
  <2> QED  BY <1>0, <1>13, <2>1, CompleteEffect, WrittenRow
              DEF ChargedOncePerDeath, Orphan, EvaluatedRow
<1>14. CASE Checkpoint \/ FinalCheckpoint
  BY <1>0, <1>14, CheckpointEffect DEF ChargedOncePerDeath, Orphan
<1>15. CASE Stop \/ Interrupt
  BY <1>0, <1>15, StopEffect DEF ChargedOncePerDeath, Orphan
<1>16. CASE Close
  <2>1. /\ proc \in Commands /\ proc.pc = "close" /\ proc' = Off
        /\ proc.target \in DOMAIN searches
        /\ DOMAIN searches' = DOMAIN searches
        /\ \A t \in DOMAIN searches : searches'[t].rows = Buried(proc.target)[t].rows
    BY <1>16, CloseEffect
  <2>2. \A t \in DOMAIN searches, q \in Rows :
           LET row == searches[t].rows[q]
           IN /\ searches'[t].rows[q].status = row.status
              /\ searches'[t].rows[q].retries = row.retries
              /\ searches'[t].rows[q].deaths = row.deaths
                    + (IF t = proc.target /\ q = proc.claimed THEN 1 ELSE 0)
    BY <2>1, BuriedRows
  <2> QED  BY <1>0, <2>1, <2>2, OffIsOff
              DEF ChargedOncePerDeath, Orphan, TargetOK, RowStates, Running, Off
<1> QED  BY <1>1, <1>2, <1>3, <1>4, <1>5, <1>6, <1>7, <1>8, <1>9, <1>10, <1>11, <1>12,
            <1>13, <1>14, <1>15, <1>16, NextSteps

-----------------------------------------------------------------------------
(***************************************************************************)
(* The search of the command, and the budgets of the rows.                 *)
(***************************************************************************)
LEMMA TargetStep ==
  ASSUME IInv, [Next]_vars
  PROVE  TargetOK'
<1> USE DEF IInv, Opening, Running
<1>0. \A r \in Rows : r # 0
  BY SessionsAssumption
<1>1. CASE UNCHANGED vars
  BY <1>1 DEF TargetOK, vars
<1>2. CASE LaunchStep
  BY <1>2, LaunchTyped DEF LaunchStep, TargetOK
<1>3. CASE Crash
  BY <1>3, CrashEffect, OffIsOff DEF TargetOK, Off
<1>4. CASE ReadVersion \/ (\E t \in Tables : CreateTable(t)) \/ RecordVersion
  BY <1>4, OpeningEffect, OffIsOff DEF TargetOK, Off
<1>5. CASE CreateSearch
  BY <1>5, CreateEffect DEF TargetOK
<1>6. CASE Locate
  BY <1>6, LocateEffect, OffIsOff DEF TargetOK, Off
<1>7. CASE Sweep
  <2>1. /\ proc \in Commands /\ proc.target \in DOMAIN searches /\ proc.claimed = 0
        /\ proc'.claimed = 0 /\ proc'.target = proc.target
    BY <1>7, InCommand, GotoTyped DEF Sweep, Goto, TargetOK
  <2>2. DOMAIN searches' = DOMAIN searches
    BY <1>7, <2>1, Swept DEF Sweep
  <2> QED  BY <2>1, <2>2 DEF TargetOK
<1>8. CASE Restore
  BY <1>8, RestoreEffect, OffIsOff DEF TargetOK, Off
<1>9. CASE Begin
  BY <1>9, BeginEffect DEF TargetOK
<1>10. CASE Propose
  <2>1. proc.target \in DOMAIN searches
    BY <1>10, ProposeEffect DEF TargetOK
  <2> QED  BY <1>10, <2>1, ProposeEffect, WrittenRow DEF TargetOK
<1>11. CASE Claim
  <2> DEFINE old == searches[proc.target].rows[proc'.claimed]
             row == [old EXCEPT !.status = "running"]
  <2>1. /\ proc.target \in DOMAIN searches /\ proc'.claimed \in Rows
        /\ old \in RowStates
        /\ searches' = SetRow(proc.target, proc'.claimed, row)
    BY <1>11, ClaimEffect DEF TargetOK
  <2>2. row \in RowStates /\ row.status = "running"
    BY <2>1, RunningRow
  <2> HIDE DEF row
  <2>3. /\ DOMAIN searches' = DOMAIN searches
        /\ searches'[proc.target].rows[proc'.claimed] = row
    BY <2>1, <2>2, WrittenRow
  <2> QED  BY <1>11, <2>1, <2>2, <2>3, ClaimEffect DEF TargetOK
<1>12. CASE TrainEpoch \/ SaveWeights
  BY <1>12, EvaluationEffect DEF TargetOK
<1>13. CASE Complete
  <2>1. proc.target \in DOMAIN searches
    BY <1>13, EvaluatedTyped DEF Complete
  <2>2. DOMAIN searches' = DOMAIN searches
    BY <1>13, <2>1, CompleteEffect, WrittenRow
  <2> QED  BY <1>13, <2>1, <2>2, CompleteEffect DEF TargetOK
<1>14. CASE Checkpoint \/ FinalCheckpoint
  BY <1>14, CheckpointEffect DEF TargetOK
<1>15. CASE Stop \/ Interrupt
  BY <1>15, StopEffect DEF TargetOK
<1>16. CASE Close
  BY <1>16, CloseEffect, OffIsOff DEF TargetOK, Off
<1> QED  BY <1>1, <1>2, <1>3, <1>4, <1>5, <1>6, <1>7, <1>8, <1>9, <1>10, <1>11, <1>12,
            <1>13, <1>14, <1>15, <1>16, NextSteps

\* A row keeps its budget, or is new with one.
LEMMA BudgetStep ==
  ASSUME IInv, [Next]_vars
  PROVE  BudgetOK'
<1> USE DEF IInv, Running
<1>0. \A s \in DOMAIN searches, r \in Rows : searches[s].rows[r] \in RowStates
  BY RowTyped
<1>1. CASE UNCHANGED searches
  BY <1>1 DEF BudgetOK
<1>2. CASE Crash
  <2>1. CASE proc.target \in DOMAIN searches /\ proc.pc \in Running
    BY <1>2, <2>1, CrashEffect, BuriedRows DEF BudgetOK
  <2> QED  BY <1>1, <1>2, <2>1, CrashEffect
<1>3. CASE CreateSearch
  BY <1>3, CreateEffect DEF BudgetOK, Fresh
<1>4. CASE Sweep
  <2>1. /\ proc \in Commands /\ proc.target \in DOMAIN searches
    BY <1>4, InCommand DEF Sweep, TargetOK
  <2>2. /\ DOMAIN searches' = DOMAIN searches
        /\ \A t \in DOMAIN searches, r \in Rows : searches'[t].rows[r] =
                     IF t = proc.target /\ searches[t].rows[r].status = "running"
                     THEN Recovered(searches[t].rows[r]) ELSE searches[t].rows[r]
    BY <1>4, <2>1, Swept DEF Sweep
  <2>3. \A row \in RowStates : Recovered(row).epochs = row.epochs
    BY RecoveredRow
  <2> QED  BY <1>0, <2>2, <2>3 DEF BudgetOK
<1>5. CASE Begin
  BY <1>5, BeginEffect DEF BudgetOK
<1>6. CASE Propose
  <2>1. proc.target \in DOMAIN searches
    BY <1>6, ProposeEffect DEF TargetOK
  <2> QED  BY <1>6, <2>1, ProposeEffect, WrittenRow DEF BudgetOK
<1>7. CASE Claim
  <2> DEFINE old == searches[proc.target].rows[proc'.claimed]
             row == [old EXCEPT !.status = "running"]
  <2>1. /\ proc.target \in DOMAIN searches /\ proc'.claimed \in Rows
        /\ old \in RowStates /\ old.status = "queued"
        /\ searches' = SetRow(proc.target, proc'.claimed, row)
    BY <1>7, ClaimEffect DEF TargetOK
  <2>2. row \in RowStates /\ row.epochs = old.epochs
    BY <2>1, RunningRow
  <2> HIDE DEF row
  <2>3. /\ DOMAIN searches' = DOMAIN searches
        /\ \A t \in DOMAIN searches, q \in Rows : searches'[t].rows[q] =
               IF t = proc.target /\ q = proc'.claimed THEN row ELSE searches[t].rows[q]
    BY <2>1, <2>2, WrittenRow
  <2> QED  BY <2>1, <2>2, <2>3 DEF BudgetOK
<1>8. CASE Complete
  <2>1. proc.target \in DOMAIN searches /\ EvaluatedRow.status = "running"
    BY <1>8, EvaluatedTyped DEF Complete
  <2> QED  BY <1>8, <2>1, CompleteEffect, WrittenRow DEF BudgetOK, EvaluatedRow
<1>9. CASE Checkpoint \/ FinalCheckpoint
  BY <1>9, CheckpointEffect DEF BudgetOK
<1>10. CASE Close
  <2>1. /\ proc \in Commands /\ proc.target \in DOMAIN searches
        /\ DOMAIN searches' = DOMAIN searches
        /\ \A t \in DOMAIN searches : searches'[t].rows = Buried(proc.target)[t].rows
    BY <1>10, CloseEffect
  <2>2. \A t \in DOMAIN searches, q \in Rows :
           LET row == searches[t].rows[q]
           IN /\ searches'[t].rows[q].status = row.status
              /\ searches'[t].rows[q].epochs = row.epochs
    BY <2>1, BuriedRows
  <2> QED  BY <2>1, <2>2 DEF BudgetOK
<1>11. CASE LaunchStep
  BY <1>1, <1>11, LaunchTyped DEF LaunchStep
<1>12. CASE ReadVersion \/ (\E t \in Tables : CreateTable(t)) \/ RecordVersion
  BY <1>1, <1>12, OpeningEffect
<1>13. CASE Locate \/ Restore \/ TrainEpoch \/ SaveWeights \/ Stop \/ Interrupt
  BY <1>1, <1>13, LocateEffect, RestoreEffect, EvaluationEffect, StopEffect
<1> QED  BY <1>1, <1>2, <1>3, <1>4, <1>5, <1>6, <1>7, <1>8, <1>9, <1>10, <1>11, <1>12,
            <1>13, NextSteps DEF vars

-----------------------------------------------------------------------------
(***************************************************************************)
(* One strategy and plan for each search.                                  *)
(***************************************************************************)
LEMMA PlanIsSome == \A c \in Configs : PlanOf(c) # None
BY DEF PlanOf, None

\* What a checkpoint over nothing, or over one of the same plan, leaves.
LEMMA SamePlanWritten ==
  ASSUME IInv, Checkpoint \/ FinalCheckpoint
  PROVE  PlanOK'
<1> USE DEF IInv, Running
<1> DEFINE old == searches[proc.target]
           plan == PlanOf(proc.config)
<1>1. /\ proc \in Commands /\ proc.pc \in {"save", "finalise"}
      /\ proc'.target = proc.target /\ proc'.config = proc.config
      /\ proc.target \in DOMAIN searches /\ searches' = Saved
  BY CheckpointEffect
<1>2. /\ DOMAIN searches' = DOMAIN searches
      /\ \A t \in DOMAIN searches : t # proc.target => searches'[t] = searches[t]
      /\ searches'[proc.target].saved = plan
      /\ searches'[proc.target].writers = old.writers \cup {plan}
  BY <1>1, CheckpointWritten
<1>3. old.saved \in {None, plan}
  BY <1>1 DEF PlanOK
<1>4. old.writers \subseteq {plan}
  BY <1>1, <1>3 DEF PlanOK
<1>5. plan # None
  BY <1>1, PlanIsSome DEF Commands
<1> HIDE DEF plan
<1>6. searches'[proc.target].writers = {searches'[proc.target].saved} \ {None}
  BY <1>2, <1>4, <1>5
<1> QED  BY <1>1, <1>2, <1>6 DEF PlanOK, plan

LEMMA RestoredPlan ==
  ASSUME TypeOK, NEW s \in DOMAIN searches, NEW c \in Configs,
         searches[s].saved = None
         \/ (searches[s].saved.strategy = c.strategy /\ searches[s].saved.plan = c.plan)
  PROVE  searches[s].saved \in {None, PlanOf(c)}
<1>1. searches[s].saved \in Plans \cup {None}
  BY SearchTyped DEF TypeOK, SearchRows
<1>2. CASE searches[s].saved \in Plans
  <2>1. PICK d \in Configs : searches[s].saved = PlanOf(d)
    BY <1>2 DEF Plans
  <2> QED  BY <2>1, PlanIsSome DEF PlanOf
<1> QED  BY <1>1, <1>2

LEMMA PlanStep ==
  ASSUME IInv, [Next]_vars
  PROVE  PlanOK'
<1> USE DEF IInv, Running, Opening
<1>1. CASE UNCHANGED vars
  BY <1>1 DEF PlanOK, vars
<1>2. CASE LaunchStep
  BY <1>2, LaunchTyped DEF LaunchStep, PlanOK
<1>3. CASE Crash
  <2>1. CASE proc.target \in DOMAIN searches /\ proc.pc \in Running
    BY <1>3, <2>1, CrashEffect, BuriedRows, OffIsOff DEF PlanOK, Off
  <2>2. CASE searches' = searches
    BY <1>3, <2>2, CrashEffect, OffIsOff DEF PlanOK, Off
  <2> QED  BY <1>3, <2>1, <2>2, CrashEffect
<1>4. CASE ReadVersion \/ (\E t \in Tables : CreateTable(t)) \/ RecordVersion
  BY <1>4, OpeningEffect, OffIsOff DEF PlanOK, Off
<1>5. CASE CreateSearch
  BY <1>5, CreateEffect DEF PlanOK
<1>6. CASE Locate
  BY <1>6, LocateEffect, OffIsOff DEF PlanOK, Off
<1>7. CASE Sweep
  <2>1. /\ proc \in Commands /\ proc.target \in DOMAIN searches /\ proc'.pc = "restore"
    BY <1>7, InCommand, GotoTyped DEF Sweep, Goto, TargetOK
  <2>2. /\ DOMAIN searches' = DOMAIN searches
        /\ \A t \in DOMAIN searches : /\ searches'[t].saved = searches[t].saved
                                      /\ searches'[t].writers = searches[t].writers
    BY <1>7, <2>1, Swept DEF Sweep
  <2> QED  BY <2>1, <2>2 DEF PlanOK
<1>8. CASE Restore
  <2>1. proc \in Commands /\ proc.target \in DOMAIN searches /\ proc.config \in Configs
    BY <1>8, RestoreEffect DEF TargetOK, Commands
  <2>2. CASE proc' = Off
    BY <1>8, <2>2, RestoreEffect, OffIsOff DEF PlanOK, Off
  <2>3. CASE proc' # Off
    <3>1. /\ proc'.target = proc.target /\ proc'.config = proc.config
          /\ UNCHANGED searches
          /\ LET saved == searches[proc.target].saved
             IN saved = None \/ (ValidFor(saved) /\ Loads(saved))
      BY <1>8, <2>3, RestoreEffect
    <3>2. searches[proc.target].saved \in {None, PlanOf(proc.config)}
      BY <2>1, <3>1, RestoredPlan DEF ValidFor, Loads
    <3> QED  BY <3>1, <3>2 DEF PlanOK
  <2> QED  BY <2>2, <2>3
<1>9. CASE Begin
  BY <1>9, BeginEffect DEF PlanOK, TargetOK
<1>10. CASE Propose
  <2>1. proc.target \in DOMAIN searches
    BY <1>10, ProposeEffect DEF TargetOK
  <2> QED  BY <1>10, <2>1, ProposeEffect, WrittenRow DEF PlanOK
<1>11. CASE Claim
  <2> DEFINE old == searches[proc.target].rows[proc'.claimed]
             row == [old EXCEPT !.status = "running"]
  <2>1. /\ proc.target \in DOMAIN searches /\ proc'.claimed \in Rows
        /\ old \in RowStates
        /\ searches' = SetRow(proc.target, proc'.claimed, row)
    BY <1>11, ClaimEffect DEF TargetOK
  <2>2. row \in RowStates
    BY <2>1, RunningRow
  <2> HIDE DEF row
  <2>3. /\ DOMAIN searches' = DOMAIN searches
        /\ \A t \in DOMAIN searches : /\ searches'[t].saved = searches[t].saved
                                      /\ searches'[t].writers = searches[t].writers
    BY <2>1, <2>2, WrittenRow
  <2> QED  BY <1>11, <2>1, <2>3, ClaimEffect DEF PlanOK
<1>12. CASE TrainEpoch \/ SaveWeights
  BY <1>12, EvaluationEffect DEF PlanOK
<1>13. CASE Complete
  <2>1. proc.target \in DOMAIN searches
    BY <1>13, EvaluatedTyped DEF Complete
  <2> QED  BY <1>13, <2>1, CompleteEffect, WrittenRow DEF PlanOK
<1>14. CASE Checkpoint \/ FinalCheckpoint
  BY <1>14, SamePlanWritten
<1>15. CASE Stop \/ Interrupt
  BY <1>15, StopEffect DEF PlanOK
<1>16. CASE Close
  BY <1>16, CloseEffect, BuriedRows, OffIsOff DEF PlanOK, Off
<1> QED  BY <1>1, <1>2, <1>3, <1>4, <1>5, <1>6, <1>7, <1>8, <1>9, <1>10, <1>11, <1>12,
            <1>13, <1>14, <1>15, <1>16, NextSteps

-----------------------------------------------------------------------------
(***************************************************************************)
(* What the candidates were trained by.                                    *)
(***************************************************************************)
\* A row keeps its budget, that it was evaluated, and what was measured.
Advances(old, new) ==
    /\ old.status # "none" => new.status # "none" /\ new.epochs = old.epochs
    /\ Evaluated(old) => Evaluated(new)
    /\ old.status = "completed" => new.status = "completed" /\ new.trained = old.trained
    /\ new.status = "none" => new.retries = 0

\* It completes only in Complete.
NotCompleted(old, new) == new.status = "completed" => old.status = "completed"

LEMMA SameRowAdvances ==
  ASSUME NEW old \in RowStates, NEW new \in RowStates,
         old.status = "none" => old.retries = 0,
         new.status = old.status, new.retries = old.retries,
         new.epochs = old.epochs, new.trained = old.trained
  PROVE  Advances(old, new) /\ NotCompleted(old, new)
BY DEF Advances, NotCompleted, Evaluated

LEMMA SweptRowAdvances ==
  ASSUME NEW old \in RowStates, old.status = "running"
  PROVE  Advances(old, Recovered(old)) /\ NotCompleted(old, Recovered(old))
<1> DEFINE new == Recovered(old)
<1>1. /\ new \in RowStates /\ new.epochs = old.epochs /\ new.trained = old.trained
      /\ \/ new.status = "queued" /\ new.retries = old.retries + 1
         \/ new.status = "failed" /\ new.retries = old.retries
  BY RecoveredRow
<1>2. old.retries \in Nat
  BY DEF RowStates
<1> HIDE DEF new
<1>3. Advances(old, new) /\ NotCompleted(old, new)
  BY <1>1, <1>2 DEF Advances, NotCompleted, Evaluated
<1> QED  BY <1>3 DEF new

\* What a step leaves of the rows there were.
RowsAdvance ==
    /\ DOMAIN searches \subseteq DOMAIN searches'
    /\ \A s \in DOMAIN searches, r \in Rows :
          Advances(searches[s].rows[r], searches'[s].rows[r])

OnlyFreshOnes ==
    \A s \in DOMAIN searches', r \in Rows :
        s \notin DOMAIN searches => searches'[s].rows[r] = Fresh

NoneCompletes ==
    \A s \in DOMAIN searches, r \in Rows :
        NotCompleted(searches[s].rows[r], searches'[s].rows[r])

\* A step that writes one row.
LEMMA WrittenRowAdvances ==
  ASSUME IInv, NEW s \in DOMAIN searches, NEW r \in Rows, NEW row \in RowStates,
         searches' = SetRow(s, r, row), Advances(searches[s].rows[r], row)
  PROVE  /\ RowsAdvance /\ OnlyFreshOnes
         /\ NotCompleted(searches[s].rows[r], row) => NoneCompletes
<1>1. /\ DOMAIN searches' = DOMAIN searches
      /\ \A t \in DOMAIN searches, q \in Rows :
            searches'[t].rows[q] = IF t = s /\ q = r THEN row ELSE searches[t].rows[q]
  BY WrittenRow DEF IInv
<1>2. \A t \in DOMAIN searches, q \in Rows :
         LET old == searches[t].rows[q]
         IN Advances(old, old) /\ NotCompleted(old, old)
  BY RowTyped, SameRowAdvances DEF IInv, NewOK
<1> QED  BY <1>1, <1>2 DEF RowsAdvance, OnlyFreshOnes, NoneCompletes

\* A step that keeps the rows.
LEMMA KeptRowsAdvance ==
  ASSUME IInv, DOMAIN searches' = DOMAIN searches,
         \A t \in DOMAIN searches, q \in Rows :
            LET old == searches[t].rows[q]
                new == searches'[t].rows[q]
            IN /\ new.status = old.status /\ new.retries = old.retries
               /\ new.epochs = old.epochs /\ new.trained = old.trained
  PROVE  RowsAdvance /\ OnlyFreshOnes /\ NoneCompletes
<1>1. \A t \in DOMAIN searches, q \in Rows :
         LET old == searches[t].rows[q]
             new == searches'[t].rows[q]
         IN Advances(old, new) /\ NotCompleted(old, new)
  BY DEF Advances, NotCompleted, Evaluated, IInv, NewOK
<1> QED  BY <1>1 DEF RowsAdvance, OnlyFreshOnes, NoneCompletes

LEMMA CreatedLast ==
  ASSUME TypeOK, CreateSearch
  PROVE  DOMAIN searches \subseteq DOMAIN searches' /\ proc'.target \notin DOMAIN searches
<1> DEFINE n == Len(searches) + 1
           new == NewSearchRow(proc.config, proc.build)
<1>1. /\ proc \in Commands /\ searches \in Seq(SearchRows) /\ new \in SearchRows
  BY InCommand, NewSearchTyped DEF CreateSearch, Commands, TypeOK
<1>2. searches' = Append(searches, new) /\ proc' = [proc EXCEPT !.pc = "begin", !.target = n]
  BY DEF CreateSearch
<1> HIDE DEF new
<1>3. proc'.target = n
  BY <1>1, <1>2 DEF Commands
<1>4. searches' \in Seq(SearchRows) /\ Len(searches') = n /\ Len(searches) \in Nat
  BY <1>1, <1>2, AppendProperties, LenProperties
<1>5. DOMAIN searches' = 1 .. n /\ DOMAIN searches = 1 .. Len(searches)
  BY <1>1, <1>4, LenProperties
<1> QED  BY <1>3, <1>4, <1>5

LEMMA FilesOnlyFromEvaluation ==
  ASSUME IInv, [Next]_vars
  PROVE  TrainEpoch \/ SaveWeights \/ UNCHANGED artifacts
<1>1. \/ UNCHANGED vars \/ Next
  OBVIOUS
<1> QED  BY <1>1, NextSteps
         DEF IInv, vars, LaunchStep, Launch, Crash, ReadVersion, CreateTable, RecordVersion,
             CreateSearch, Locate, Sweep, Restore, Begin, Propose, Claim, Complete,
             Checkpoint, Stop, Interrupt, FinalCheckpoint, Close

\* What a claim starts from.
LEMMA ClaimedNet ==
  ASSUME TypeOK, TargetOK, Claim
  PROVE  LET row == searches[proc.target].rows[proc'.claimed]
         IN /\ proc'.saved = FALSE
            /\ proc'.net \in {<<>>, artifacts.training[PathOf(proc'.claimed, row.epochs)]}
<1> DEFINE r == Min(With(proc.target, "queued"))
           row == searches[proc.target].rows[r]
           net == IF proc.config.keep THEN artifacts.training[PathOf(r, BudgetFor(row))]
                  ELSE <<>>
<1>1. proc \in Commands
  BY InCommand DEF Claim
<1>2. proc' = [proc EXCEPT !.claimed = r, !.saved = FALSE, !.net = net]
  BY DEF Claim
<1> HIDE DEF r, net
<1>3. proc'.claimed = r /\ proc'.saved = FALSE /\ proc'.net = net
  BY <1>1, <1>2 DEF Commands
<1> QED  BY <1>3 DEF net, BudgetFor

LEMMA RowsStep ==
  ASSUME IInv, [Next]_vars
  PROVE  RowsAdvance /\ OnlyFreshOnes /\ (Complete \/ NoneCompletes)
<1>0. TypeOK /\ TargetOK /\ BudgetOK
  BY DEF IInv
<1>1. CASE UNCHANGED searches
  BY <1>1, KeptRowsAdvance
<1>2. CASE Crash
  <2>1. CASE proc.target \in DOMAIN searches /\ proc.pc \in Running
    BY <1>0, <1>2, <2>1, CrashEffect, BuriedRows, KeptRowsAdvance
  <2> QED  BY <1>0, <1>1, <1>2, <2>1, CrashEffect
<1>3. CASE CreateSearch
  <2>1. /\ proc'.target \in DOMAIN searches'
        /\ \A t \in DOMAIN searches' :
               \/ t \in DOMAIN searches /\ t # proc'.target /\ searches'[t] = searches[t]
               \/ t = proc'.target /\ \A r \in Rows : searches'[t].rows[r] = Fresh
    BY <1>0, <1>3, CreateEffect
  <2>2. DOMAIN searches \subseteq DOMAIN searches' /\ proc'.target \notin DOMAIN searches
    BY <1>0, <1>3, CreatedLast
  <2>3. \A t \in DOMAIN searches : searches'[t] = searches[t]
    BY <2>1, <2>2
  <2>4. \A t \in DOMAIN searches, q \in Rows :
           LET old == searches[t].rows[q]
           IN Advances(old, old) /\ NotCompleted(old, old)
    BY <1>0, RowTyped, SameRowAdvances DEF IInv, NewOK
  <2> QED  BY <2>1, <2>2, <2>3, <2>4 DEF RowsAdvance, OnlyFreshOnes, NoneCompletes
<1>4. CASE Sweep
  <2>1. /\ proc \in Commands /\ proc.target \in DOMAIN searches
    BY <1>0, <1>4, InCommand DEF Sweep, TargetOK, Running
  <2>2. /\ DOMAIN searches' = DOMAIN searches
        /\ \A t \in DOMAIN searches, r \in Rows : searches'[t].rows[r] =
                     IF t = proc.target /\ searches[t].rows[r].status = "running"
                     THEN Recovered(searches[t].rows[r]) ELSE searches[t].rows[r]
    BY <1>0, <1>4, <2>1, Swept DEF Sweep
  <2>3. \A t \in DOMAIN searches, q \in Rows :
           LET old == searches[t].rows[q]
           IN /\ old \in RowStates
              /\ Advances(old, old) /\ NotCompleted(old, old)
              /\ old.status = "running" =>
                    Advances(old, Recovered(old)) /\ NotCompleted(old, Recovered(old))
    BY <1>0, RowTyped, SameRowAdvances, SweptRowAdvances DEF IInv, NewOK
  <2> QED  BY <2>2, <2>3 DEF RowsAdvance, OnlyFreshOnes, NoneCompletes
<1>5. CASE Begin
  BY <1>0, <1>5, BeginEffect, KeptRowsAdvance
<1>6. CASE Propose
  <2>1. proc.target \in DOMAIN searches
    BY <1>0, <1>6, ProposeEffect DEF TargetOK, Running
  <2>2. PICK r \in Rows, row \in RowStates :
               /\ row.status = "queued" /\ row.retries = 0
               /\ searches[proc.target].rows[r].status = "none"
               /\ searches' = SetRow(proc.target, r, row)
    BY <1>0, <1>6, ProposeEffect
  <2>3. searches[proc.target].rows[r].retries = 0
    BY <2>1, <2>2 DEF IInv, NewOK
  <2>4. /\ Advances(searches[proc.target].rows[r], row)
        /\ NotCompleted(searches[proc.target].rows[r], row)
    BY <2>2, <2>3 DEF Advances, NotCompleted, Evaluated
  <2> QED  BY <2>1, <2>2, <2>4, WrittenRowAdvances
<1>7. CASE Claim
  <2> DEFINE old == searches[proc.target].rows[proc'.claimed]
             row == [old EXCEPT !.status = "running"]
  <2>1. /\ proc.target \in DOMAIN searches /\ proc'.claimed \in Rows
        /\ old \in RowStates /\ old.status = "queued"
        /\ searches' = SetRow(proc.target, proc'.claimed, row)
    BY <1>0, <1>7, ClaimEffect DEF TargetOK, Running
  <2>2. /\ row \in RowStates /\ row.status = "running" /\ row.epochs = old.epochs
    BY <2>1, RunningRow
  <2> HIDE DEF row
  <2>3. Advances(old, row) /\ NotCompleted(old, row)
    BY <2>1, <2>2 DEF Advances, NotCompleted, Evaluated
  <2> QED  BY <2>1, <2>2, <2>3, WrittenRowAdvances
<1>8. CASE Complete
  <2>1. /\ proc.target \in DOMAIN searches /\ proc.claimed \in Rows
        /\ EvaluatedRow \in RowStates /\ EvaluatedRow.status = "running"
    BY <1>0, <1>8, EvaluatedTyped DEF Complete
  <2>2. PICK row \in RowStates :
               /\ row.status = "completed" /\ row.epochs = EvaluatedRow.epochs
               /\ searches' = SetRow(proc.target, proc.claimed, row)
    BY <1>0, <1>8, CompleteEffect
  <2>3. Advances(EvaluatedRow, row)
    BY <2>1, <2>2 DEF Advances, Evaluated
  <2> QED  BY <1>8, <2>1, <2>2, <2>3, WrittenRowAdvances DEF EvaluatedRow
<1>9. CASE Checkpoint \/ FinalCheckpoint
  BY <1>0, <1>9, CheckpointEffect, KeptRowsAdvance
<1>10. CASE Close
  <2>1. /\ proc \in Commands /\ proc.target \in DOMAIN searches
        /\ DOMAIN searches' = DOMAIN searches
        /\ \A t \in DOMAIN searches : searches'[t].rows = Buried(proc.target)[t].rows
    BY <1>0, <1>10, CloseEffect
  <2>2. \A t \in DOMAIN searches, q \in Rows :
           LET row == searches[t].rows[q]
               new == searches'[t].rows[q]
           IN /\ new.status = row.status /\ new.retries = row.retries
              /\ new.epochs = row.epochs /\ new.trained = row.trained
    BY <1>0, <2>1, BuriedRows
  <2> QED  BY <2>1, <2>2, KeptRowsAdvance
<1>11. CASE LaunchStep
  BY <1>1, <1>11, LaunchTyped DEF LaunchStep
<1>12. CASE ReadVersion \/ (\E t \in Tables : CreateTable(t)) \/ RecordVersion
  BY <1>0, <1>1, <1>12, OpeningEffect
<1>13. CASE Locate \/ Restore \/ TrainEpoch \/ SaveWeights \/ Stop \/ Interrupt
  BY <1>0, <1>1, <1>13, LocateEffect, RestoreEffect, EvaluationEffect, StopEffect
<1> QED  BY <1>0, <1>1, <1>2, <1>3, <1>4, <1>5, <1>6, <1>7, <1>8, <1>9, <1>10, <1>11,
            <1>12, <1>13, NextSteps DEF vars

LEMMA NewStep ==
  ASSUME IInv, [Next]_vars
  PROVE  NewOK'
BY RowsStep DEF RowsAdvance, OnlyFreshOnes, Advances, NewOK, Fresh

\* Whoever evaluated a candidate has evaluated it from then on.
LEMMA EvaluatorStays ==
  ASSUME IInv, RowsAdvance, NEW t, NEW r \in Rows, NEW n, Evaluator(searches, t, r, n)
  PROVE  Evaluator(searches', t, r, n)
<1>1. t \in DOMAIN searches /\ t \in DOMAIN searches'
  BY DEF Evaluator, RowsAdvance
<1>2. /\ Evaluated(searches[t].rows[r]) /\ searches[t].rows[r].epochs = n
      /\ Advances(searches[t].rows[r], searches'[t].rows[r])
  BY <1>1 DEF Evaluator, RowsAdvance
<1>3. /\ searches[t].rows[r].status = "none" => searches[t].rows[r].retries = 0
      /\ searches[t].rows[r] \in RowStates
  BY <1>1, RowTyped DEF IInv, NewOK
<1>4. searches[t].rows[r].status # "none"
  BY <1>2, <1>3 DEF Evaluated
<1>5. Evaluated(searches'[t].rows[r]) /\ searches'[t].rows[r].epochs = n
  BY <1>2, <1>4 DEF Advances
<1> QED  BY <1>1, <1>5 DEF Evaluator

LEMMA TrainedByStays ==
  ASSUME IInv, RowsAdvance, NEW net, NEW r \in Rows, NEW n, TrainedBy(searches, net, r, n)
  PROVE  TrainedBy(searches', net, r, n)
BY EvaluatorStays DEF TrainedBy

LEMMA FileStays ==
  ASSUME IInv, RowsAdvance, NEW training, NEW weights, NEW r \in Rows, NEW n,
         FileOK(searches, training, weights, r, n)
  PROVE  FileOK(searches', training, weights, r, n)
BY EvaluatorStays, TrainedByStays DEF FileOK

\* The search that evaluates a row is one of its evaluators.
LEMMA ClaimerEvaluates ==
  ASSUME IInv, Evaluating
  PROVE  Evaluator(searches, proc.target, proc.claimed, EvaluatedRow.epochs)
BY EvaluatedTyped DEF IInv, Evaluator, Evaluated, EvaluatedRow

\* An epoch more.
LEMMA NetGrows ==
  ASSUME NEW S, NEW net \in Seq(Nat), NEW t \in Nat, NEW r, NEW n \in Nat,
         Len(net) < n, TrainedBy(S, net, r, n), Evaluator(S, t, r, n)
  PROVE  Len(Append(net, t)) <= n /\ TrainedBy(S, Append(net, t), r, n)
<1> DEFINE m == Append(net, t)
<1>1. /\ m \in Seq(Nat) /\ Len(net) \in Nat /\ Len(m) = Len(net) + 1
      /\ m[Len(net) + 1] = t /\ \A i \in 1 .. Len(net) : m[i] = net[i]
  BY AppendProperties, LenProperties
<1>2. DOMAIN m = 1 .. Len(m) /\ DOMAIN net = 1 .. Len(net)
  BY <1>1, LenProperties
<1> HIDE DEF m
<1>3. Len(m) <= n
  BY <1>1
<1>4. ASSUME NEW i \in DOMAIN m PROVE Evaluator(S, m[i], r, n)
  <2>1. i \in 1 .. Len(net) \/ i = Len(net) + 1
    BY <1>1, <1>2
  <2> QED  BY <1>1, <1>2, <2>1 DEF TrainedBy
<1> QED  BY <1>3, <1>4 DEF TrainedBy, m

LEMMA BudgetsTyped == Budgets \subseteq Nat
BY SessionsAssumption DEF Budgets

LEMMA PathsApart ==
  \A r, q, n, m : PathOf(r, n) = PathOf(q, m) => r = q /\ n = m
BY DEF PathOf

\* The places of the files, and who evaluates.
LEMMA EvaluationPlace ==
  ASSUME IInv, Evaluating
  PROVE  /\ proc \in Commands /\ proc.pc = "loop" /\ proc.claimed # 0
         /\ proc.claimed \in Rows /\ proc.target \in DOMAIN searches /\ proc.target \in Nat
         /\ proc.net \in Seq(Nat)
         /\ EvaluatedRow.epochs \in Budgets /\ EvaluatedRow.epochs \in Nat
         /\ EvaluatedPath = PathOf(proc.claimed, EvaluatedRow.epochs)
         /\ HeldOK(searches, proc.net, proc.claimed, EvaluatedRow.epochs)
<1>1. /\ proc \in Commands /\ proc.pc = "loop" /\ proc.claimed # 0 /\ proc.claimed \in Rows
      /\ proc.target \in DOMAIN searches /\ EvaluatedRow.status = "running"
  BY EvaluatedTyped DEF IInv, Evaluating
<1>2. proc.target \in Nat /\ proc.net \in Seq(Nat)
  BY <1>1 DEF Commands
<1>3. EvaluatedRow.epochs \in Budgets
  BY <1>1 DEF IInv, BudgetOK, Budgets, EvaluatedRow
<1>4. HeldOK(searches, proc.net, proc.claimed, EvaluatedRow.epochs)
  BY <1>1 DEF IInv, ClaimOK, Running
<1> QED  BY <1>1, <1>2, <1>3, <1>4, BudgetsTyped DEF EvaluatedPath, BudgetFor

LEMMA TrainEffect ==
  ASSUME IInv, TrainEpoch
  PROVE  LET net == Append(proc.net, proc.target)
             n == EvaluatedRow.epochs
         IN /\ UNCHANGED searches
            /\ proc'.net = net /\ proc'.saved = proc.saved
            /\ HeldOK(searches, net, proc.claimed, n) /\ Len(proc.net) < n
            /\ artifacts'.weights = artifacts.weights
            /\ \A r \in Rows, m \in Budgets : artifacts'.training[PathOf(r, m)] \in
                  {artifacts.training[PathOf(r, m)]}
                  \cup {x \in {net} : r = proc.claimed /\ m = n}
<1> DEFINE net == Append(proc.net, proc.target)
           n == EvaluatedRow.epochs
<1>1. /\ Evaluating /\ Len(proc.net) < n /\ UNCHANGED searches
      /\ proc' = [proc EXCEPT !.net = net]
      /\ artifacts' = IF proc.config.keep
                      THEN [artifacts EXCEPT !.training[EvaluatedPath] = net]
                      ELSE artifacts
  BY DEF TrainEpoch, BudgetFor
<1>2. /\ proc \in Commands /\ proc.target \in Nat /\ proc.net \in Seq(Nat) /\ n \in Nat
      /\ EvaluatedPath = PathOf(proc.claimed, n)
      /\ Len(proc.net) <= n /\ TrainedBy(searches, proc.net, proc.claimed, n)
      /\ Evaluator(searches, proc.target, proc.claimed, n)
  BY <1>1, EvaluationPlace, ClaimerEvaluates DEF HeldOK
<1>3. HeldOK(searches, net, proc.claimed, n)
  BY <1>1, <1>2, NetGrows DEF HeldOK
<1> HIDE DEF net, n
<1>4. proc'.net = net /\ proc'.saved = proc.saved
  BY <1>1, <1>2 DEF Commands
<1>5. /\ artifacts'.weights = artifacts.weights
      /\ \A p \in Paths : artifacts'.training[p] = artifacts.training[p]
                          \/ (p = EvaluatedPath /\ artifacts'.training[p] = net)
  BY <1>1 DEF IInv, TypeOK
<1>6. \A r \in Rows, m \in Budgets : PathOf(r, m) \in Paths
  BY DEF Paths, Budgets
<1>7. ASSUME NEW r \in Rows, NEW m \in Budgets
      PROVE  artifacts'.training[PathOf(r, m)] \in
                  {artifacts.training[PathOf(r, m)]}
                  \cup {x \in {net} : r = proc.claimed /\ m = n}
  BY <1>2, <1>5, <1>6, PathsApart
<1> QED  BY <1>1, <1>3, <1>4, <1>5, <1>7 DEF net, n

LEMMA SaveEffect ==
  ASSUME IInv, SaveWeights
  PROVE  LET n == EvaluatedRow.epochs
             new == [by |-> proc.target, net |-> proc.net]
         IN /\ UNCHANGED searches
            /\ proc'.net = proc.net /\ proc'.saved = TRUE
            /\ Len(proc.net) = n /\ new # NoWeights
            /\ artifacts'.training = artifacts.training
            /\ \A r \in Rows, m \in Budgets : artifacts'.weights[PathOf(r, m)] =
                  IF r = proc.claimed /\ m = n THEN new ELSE artifacts.weights[PathOf(r, m)]
<1> DEFINE n == EvaluatedRow.epochs
           new == [by |-> proc.target, net |-> proc.net]
<1>1. /\ Evaluating /\ Len(proc.net) = n /\ UNCHANGED searches
      /\ proc' = [proc EXCEPT !.saved = TRUE]
      /\ artifacts' = [artifacts EXCEPT !.weights[EvaluatedPath] = new]
  BY DEF SaveWeights, BudgetFor
<1>2. /\ proc \in Commands /\ proc.target \in DOMAIN searches
      /\ EvaluatedPath = PathOf(proc.claimed, n)
  BY <1>1, EvaluationPlace
<1>3. new # NoWeights
  <2>1. proc.target # 0
    BY <1>2, LenProperties DEF IInv, TypeOK
  <2> QED  BY <2>1 DEF NoWeights
<1> HIDE DEF new, n
<1>4. proc'.net = proc.net /\ proc'.saved = TRUE
  BY <1>1, <1>2 DEF Commands
<1>5. /\ artifacts'.training = artifacts.training
      /\ \A p \in Paths : artifacts'.weights[p] =
            IF p = EvaluatedPath THEN new ELSE artifacts.weights[p]
  BY <1>1 DEF IInv, TypeOK
<1>6. \A r \in Rows, m \in Budgets : PathOf(r, m) \in Paths
  BY DEF Paths, Budgets
<1>7. ASSUME NEW r \in Rows, NEW m \in Budgets
      PROVE  artifacts'.weights[PathOf(r, m)] =
                  IF r = proc.claimed /\ m = n THEN new ELSE artifacts.weights[PathOf(r, m)]
  BY <1>2, <1>5, <1>6, PathsApart
<1> QED  BY <1>1, <1>3, <1>4, <1>5, <1>7 DEF new, n

LEMMA FilesStep ==
  ASSUME IInv, [Next]_vars
  PROVE  FilesOK'
<1>1. RowsAdvance
  BY RowsStep
<1> SUFFICES ASSUME NEW r \in Rows, NEW n \in Budgets
             PROVE  FileOK(searches', artifacts'.training[PathOf(r, n)],
                           artifacts'.weights[PathOf(r, n)], r, n)
  BY DEF FilesOK
<1> DEFINE training == artifacts.training[PathOf(r, n)]
           weights == artifacts.weights[PathOf(r, n)]
<1>2. FileOK(searches, training, weights, r, n)
  BY DEF IInv, FilesOK
<1>3. FileOK(searches', training, weights, r, n)
  BY <1>1, <1>2, FileStays
<1>4. CASE UNCHANGED artifacts
  BY <1>3, <1>4
<1>5. CASE TrainEpoch
  <2> DEFINE net == Append(proc.net, proc.target)
  <2>1. /\ UNCHANGED searches /\ HeldOK(searches, net, proc.claimed, EvaluatedRow.epochs)
        /\ artifacts'.weights = artifacts.weights
        /\ artifacts'.training[PathOf(r, n)] \in
              {training} \cup {x \in {net} : r = proc.claimed /\ n = EvaluatedRow.epochs}
    BY <1>5, TrainEffect
  <2> HIDE DEF net, training
  <2> QED  BY <1>2, <2>1 DEF FileOK, HeldOK
<1>6. CASE SaveWeights
  <2> DEFINE new == [by |-> proc.target, net |-> proc.net]
  <2>1. /\ UNCHANGED searches /\ artifacts'.training = artifacts.training
        /\ artifacts'.weights[PathOf(r, n)] =
              IF r = proc.claimed /\ n = EvaluatedRow.epochs THEN new ELSE weights
    BY <1>6, SaveEffect
  <2>2. Evaluator(searches, new.by, proc.claimed, EvaluatedRow.epochs)
    BY <1>6, ClaimerEvaluates DEF SaveWeights
  <2> HIDE DEF new, weights
  <2> QED  BY <1>2, <2>1, <2>2 DEF FileOK
<1> QED  BY <1>4, <1>5, <1>6, FilesOnlyFromEvaluation

\* What a command has in hand is its row's, and comes from the file or is new.
LEMMA ClaimStep ==
  ASSUME IInv, [Next]_vars
  PROVE  ClaimOK'
<1>0. TypeOK /\ TargetOK /\ BudgetOK /\ RowsAdvance
  BY RowsStep DEF IInv
<1> USE DEF Running
<1>1. CASE UNCHANGED vars
  BY <1>1 DEF IInv, ClaimOK, EvaluatedRow, vars
<1>2. CASE proc' = Off \/ proc'.claimed = 0
  BY <1>2, OffIsOff DEF ClaimOK, Off
<1>3. CASE Claim
  <2> DEFINE r == proc'.claimed
             old == searches[proc.target].rows[r]
             row == [old EXCEPT !.status = "running"]
             n == old.epochs
  <2>1. /\ proc.target \in DOMAIN searches /\ r \in Rows
        /\ old \in RowStates /\ old.status = "queued"
        /\ searches' = SetRow(proc.target, r, row)
        /\ proc'.target = proc.target
    BY <1>0, <1>3, ClaimEffect DEF TargetOK
  <2>2. row \in RowStates /\ row.epochs = n
    BY <2>1, RunningRow
  <2>3. searches'[proc.target].rows[r].epochs = n
    <3> HIDE DEF row
    <3> QED  BY <1>0, <2>1, <2>2, WrittenRow
  <2>4. n \in Budgets /\ n \in Nat
    BY <1>0, <2>1, BudgetsTyped DEF BudgetOK, Budgets
  <2>5. FileOK(searches, artifacts.training[PathOf(r, n)],
               artifacts.weights[PathOf(r, n)], r, n)
    BY <2>1, <2>4 DEF IInv, FilesOK
  <2>6. proc'.saved = FALSE /\ proc'.net \in {<<>>, artifacts.training[PathOf(r, n)]}
    BY <1>0, <1>3, ClaimedNet
  <2>7. HeldOK(searches, proc'.net, r, n)
    <3>1. HeldOK(searches, <<>>, r, n)
      BY <2>4 DEF HeldOK, TrainedBy
    <3>2. HeldOK(searches, artifacts.training[PathOf(r, n)], r, n)
      BY <2>5 DEF FileOK, HeldOK
    <3> QED  BY <2>6, <3>1, <3>2
  <2>8. HeldOK(searches', proc'.net, r, n)
    BY <1>0, <2>1, <2>7, TrainedByStays DEF HeldOK
  <2> QED  BY <2>1, <2>3, <2>6, <2>8 DEF ClaimOK, EvaluatedRow
<1>4. CASE TrainEpoch
  <2> DEFINE net == Append(proc.net, proc.target)
             n == EvaluatedRow.epochs
  <2>1. /\ UNCHANGED searches
        /\ proc'.net = net /\ proc'.saved = proc.saved
        /\ HeldOK(searches, net, proc.claimed, n) /\ Len(proc.net) < n
        /\ artifacts'.weights = artifacts.weights
    BY <1>4, TrainEffect
  <2>2. proc'.target = proc.target /\ proc'.claimed = proc.claimed
    BY <1>0, <1>4, EvaluationEffect
  <2>3. /\ proc.pc = "loop" /\ proc.claimed # 0 /\ n \in Nat /\ proc.net \in Seq(Nat)
    BY <1>4, EvaluationPlace DEF TrainEpoch
  <2>4. ~proc.saved
    BY <2>1, <2>3, LenProperties DEF IInv, ClaimOK, SavedOK
  <2> QED  BY <2>1, <2>2, <2>4 DEF ClaimOK, EvaluatedRow
<1>5. CASE SaveWeights
  <2> DEFINE n == EvaluatedRow.epochs
             new == [by |-> proc.target, net |-> proc.net]
  <2>1. /\ UNCHANGED searches
        /\ proc'.net = proc.net /\ Len(proc.net) = n
        /\ \A r \in Rows, m \in Budgets : artifacts'.weights[PathOf(r, m)] =
                  IF r = proc.claimed /\ m = n THEN new ELSE artifacts.weights[PathOf(r, m)]
    BY <1>5, SaveEffect
  <2>2. proc'.target = proc.target /\ proc'.claimed = proc.claimed
    BY <1>0, <1>5, EvaluationEffect
  <2>3. /\ proc.claimed \in Rows /\ n \in Budgets
        /\ HeldOK(searches, proc.net, proc.claimed, n)
    BY <1>5, EvaluationPlace DEF SaveWeights
  <2>4. SavedOK(artifacts'.weights[PathOf(proc.claimed, n)], proc.net, proc.target, n)
    BY <2>1, <2>3 DEF SavedOK
  <2> QED  BY <2>1, <2>2, <2>3, <2>4 DEF ClaimOK, EvaluatedRow
<1>6. CASE Interrupt \/ FinalCheckpoint
  <2>1. /\ proc \in Commands /\ proc.pc \in {"loop", "save", "finalise"}
        /\ proc'.target = proc.target /\ proc'.claimed = proc.claimed
        /\ proc'.net = proc.net /\ proc'.saved = proc.saved
        /\ UNCHANGED artifacts
    <3>1. proc \in Commands /\ proc.pc \in {"loop", "save", "finalise"} /\ UNCHANGED artifacts
      BY <1>0, <1>6, InCommand DEF Interrupt, FinalCheckpoint
    <3>2. \/ proc' = [proc EXCEPT !.pc = "finalise", !.reason = "paused"]
          \/ proc' = [proc EXCEPT !.pc = "close"]
      BY <1>6 DEF Interrupt, FinalCheckpoint, Goto
    <3> QED  BY <3>1, <3>2 DEF Commands
  <2>2. CASE proc.claimed = 0
    BY <1>2, <2>1, <2>2
  <2>3. CASE proc.claimed # 0
    <3>1. proc.claimed \in Rows /\ proc.target \in DOMAIN searches
      BY <1>0, <2>1, <2>3 DEF Commands, TargetOK
    <3>2. searches'[proc.target].rows[proc.claimed] = EvaluatedRow
      BY <1>0, <1>6, <3>1, StopEffect, CheckpointEffect DEF EvaluatedRow
    <3> DEFINE n == EvaluatedRow.epochs
    <3>3. /\ HeldOK(searches, proc.net, proc.claimed, n)
          /\ proc.saved =>
               SavedOK(artifacts.weights[PathOf(proc.claimed, n)], proc.net, proc.target, n)
      BY <2>1, <2>3 DEF IInv, ClaimOK
    <3>4. HeldOK(searches', proc.net, proc.claimed, n)
      BY <1>0, <3>1, <3>3, TrainedByStays DEF HeldOK
    <3> QED  BY <2>1, <3>2, <3>3, <3>4 DEF ClaimOK, EvaluatedRow
  <2> QED  BY <2>2, <2>3
<1>7. CASE LaunchStep \/ Crash \/ ReadVersion \/ (\E t \in Tables : CreateTable(t))
           \/ RecordVersion \/ CreateSearch \/ Complete \/ Close
  BY <1>0, <1>2, <1>7, LaunchTyped, CrashEffect, OpeningEffect, CreateEffect, CompleteEffect,
     CloseEffect DEF LaunchStep
<1>8. CASE Locate \/ Restore \/ Begin
  BY <1>0, <1>2, <1>8, LocateEffect, RestoreEffect, BeginEffect DEF TargetOK, Opening
<1>9. CASE Sweep
  BY <1>0, <1>2, <1>9, InCommand, GotoTyped DEF Sweep, Goto, TargetOK
<1>10. CASE Propose \/ Stop
  BY <1>0, <1>2, <1>10, ProposeEffect, StopEffect DEF Propose, Stop
<1>11. CASE Checkpoint
  BY <1>0, <1>2, <1>11, InCommand, GotoTyped DEF Checkpoint, Goto, TargetOK
<1> QED  BY <1>0, <1>1, <1>3, <1>4, <1>5, <1>6, <1>7, <1>8, <1>9, <1>10, <1>11, NextSteps

\* What was measured, and the weights, of a row that was completed before.
LEMMA StillMeasured ==
  ASSUME IInv, [Next]_vars, NEW s \in DOMAIN searches, NEW r \in Rows,
         searches[s].rows[r].status = "completed"
  PROVE  LET row == searches'[s].rows[r]
         IN MeasuredOK(searches', row, artifacts'.weights[PathOf(r, row.epochs)], s, r)
<1> DEFINE old == searches[s].rows[r]
           new == searches'[s].rows[r]
           n == old.epochs
           weights == artifacts.weights[PathOf(r, n)]
<1>1. RowsAdvance
  BY RowsStep
<1>2. new.status = "completed" /\ new.epochs = n /\ new.trained = old.trained
  BY <1>1 DEF RowsAdvance, Advances
<1>3. /\ Len(old.trained) = n /\ TrainedBy(searches, old.trained, r, n)
      /\ weights # NoWeights /\ (weights.by = s => weights.net = old.trained)
  BY DEF IInv, CompletedOK, MeasuredOK
<1>4. TrainedBy(searches', old.trained, r, n)
  BY <1>1, <1>3, TrainedByStays
<1>5. n \in Budgets
  BY DEF IInv, BudgetOK, Budgets
<1>6. /\ artifacts'.weights[PathOf(r, n)] # NoWeights
      /\ artifacts'.weights[PathOf(r, n)].by = s =>
            artifacts'.weights[PathOf(r, n)].net = old.trained
  <2>1. CASE artifacts'.weights = artifacts.weights
    BY <1>3, <2>1
  <2>2. CASE SaveWeights
    <3> DEFINE by == [by |-> proc.target, net |-> proc.net]
    <3>1. /\ by # NoWeights
          /\ artifacts'.weights[PathOf(r, n)] =
                IF r = proc.claimed /\ n = EvaluatedRow.epochs THEN by ELSE weights
      BY <1>5, <2>2, SaveEffect
    <3>2. EvaluatedRow.status = "running"
      BY <2>2, EvaluatedTyped DEF IInv, SaveWeights
    <3>3. ~(r = proc.claimed /\ s = proc.target)
      BY <3>2 DEF EvaluatedRow
    <3>4. by.by = proc.target
      OBVIOUS
    <3> HIDE DEF by, weights
    <3> QED  BY <1>3, <3>1, <3>3, <3>4
  <2> QED  BY <2>1, <2>2, TrainEffect, FilesOnlyFromEvaluation
<1> HIDE DEF old, new, n
<1> QED  BY <1>2, <1>3, <1>4, <1>6 DEF MeasuredOK, new

\* The row that completes.
LEMMA NowMeasured ==
  ASSUME IInv, Complete, RowsAdvance
  PROVE  LET row == searches'[proc.target].rows[proc.claimed]
             weights == artifacts'.weights[PathOf(proc.claimed, row.epochs)]
         IN MeasuredOK(searches', row, weights, proc.target, proc.claimed)
<1> DEFINE n == EvaluatedRow.epochs
<1>1. Evaluating /\ proc.saved /\ UNCHANGED artifacts
  BY DEF Complete
<1>2. /\ proc.claimed # 0 /\ proc.claimed \in Rows /\ proc.target \in DOMAIN searches
      /\ proc.pc = "loop" /\ HeldOK(searches, proc.net, proc.claimed, n)
      /\ proc.target \in Nat \ {0}
  BY <1>1, EvaluationPlace, LenProperties DEF IInv, TypeOK
<1>3. PICK row \in RowStates :
         /\ row.status = "completed" /\ row.epochs = EvaluatedRow.epochs
         /\ row.trained = proc.net
         /\ searches' = SetRow(proc.target, proc.claimed, row)
  BY CompleteEffect DEF IInv
<1>4. searches'[proc.target].rows[proc.claimed] = row
  BY <1>2, <1>3, WrittenRow DEF IInv
<1>5. SavedOK(artifacts.weights[PathOf(proc.claimed, n)], proc.net, proc.target, n)
  BY <1>1, <1>2 DEF IInv, ClaimOK, Running
<1>6. TrainedBy(searches', proc.net, proc.claimed, n)
  BY <1>2, TrainedByStays DEF HeldOK
<1> DEFINE weights == artifacts.weights[PathOf(proc.claimed, n)]
<1>7. Len(proc.net) = n /\ weights # NoWeights /\ weights.net = proc.net
  BY <1>2, <1>5 DEF SavedOK, NoWeights
<1> HIDE DEF n, weights
<1> QED  BY <1>1, <1>3, <1>4, <1>6, <1>7 DEF MeasuredOK, n, weights

LEMMA CompletedStep ==
  ASSUME IInv, [Next]_vars
  PROVE  CompletedOK'
<1>1. RowsAdvance /\ OnlyFreshOnes /\ (Complete \/ NoneCompletes)
  BY RowsStep
<1> SUFFICES ASSUME NEW s \in DOMAIN searches', NEW r \in Rows
             PROVE  LET row == searches'[s].rows[r]
                    IN MeasuredOK(searches', row, artifacts'.weights[PathOf(r, row.epochs)],
                                  s, r)
  BY DEF CompletedOK
<1>2. CASE searches'[s].rows[r].status # "completed"
  BY <1>2 DEF MeasuredOK
<1>3. CASE s \in DOMAIN searches /\ searches[s].rows[r].status = "completed"
  BY <1>3, StillMeasured
<1>4. CASE s \in DOMAIN searches /\ s = proc.target /\ r = proc.claimed /\ Complete
  BY <1>1, <1>4, NowMeasured
<1>5. CASE s \notin DOMAIN searches
  <2>1. searches'[s].rows[r].status = "none"
    BY <1>1, <1>5 DEF OnlyFreshOnes, Fresh
  <2> QED  BY <1>2, <2>1
<1>6. CASE s \in DOMAIN searches /\ Complete /\ ~(s = proc.target /\ r = proc.claimed)
  <2>1. proc.target \in DOMAIN searches
    BY <1>6, EvaluatedTyped DEF Complete, IInv
  <2>2. searches'[s].rows[r] = searches[s].rows[r]
    BY <1>6, <2>1, CompleteEffect, WrittenRow DEF IInv
  <2> QED  BY <1>2, <1>3, <1>6, <2>2
<1>7. CASE s \in DOMAIN searches /\ NoneCompletes
  BY <1>2, <1>3, <1>7 DEF NoneCompletes, NotCompleted
<1> QED  BY <1>1, <1>4, <1>5, <1>6, <1>7

-----------------------------------------------------------------------------
(***************************************************************************)
(* The theorems.                                                           *)
(***************************************************************************)
LEMMA Start == Init => IInv
<1> SUFFICES ASSUME Init PROVE IInv
  OBVIOUS
<1>1. searches = <<>> /\ DOMAIN searches = {} /\ proc = Off /\ file.version = 0
  BY DEF Init
<1>2. (1 .. file.version) \X Tables \subseteq file.tables
  BY <1>1
<1>3. \A n \in Budgets : 0 <= n
  BY BudgetsTyped
<1>4. FilesOK
  <2>1. \A r \in Rows, n \in Budgets : PathOf(r, n) \in Paths
    BY DEF Paths, Budgets
  <2>2. \A p \in Paths : artifacts.training[p] = <<>> /\ artifacts.weights[p] = NoWeights
    BY DEF Init
  <2> QED  BY <1>3, <2>1, <2>2 DEF FilesOK, FileOK, TrainedBy
<1> QED  BY <1>1, <1>2, <1>4, TypeInit, OffIsOff
         DEF IInv, UpgradeOK, TargetOK, BudgetOK, PlanOK, SchemaTellsTables,
             ChargedOncePerDeath, Off, Opening, Running, NewOK, ClaimOK, CompletedOK

LEMMA Step == IInv /\ [Next]_vars => IInv'
<1> SUFFICES ASSUME IInv, [Next]_vars PROVE IInv'
  OBVIOUS
<1> QED  BY TypeStep, SchemaStep, TargetStep, BudgetStep, PlanStep, ChargedStep, NewStep,
            FilesStep, ClaimStep, CompletedStep DEF IInv

\* The inductive invariant holds throughout.  (run, resume, ensure_schema,
\* recover_interrupted, _restore, _finalise)
THEOREM Invariance == Spec => []IInv
BY Start, Step, PTL DEF Spec

\* Types, the search of every command included.
THEOREM TypeCorrect == Spec => []TypeOK
<1>1. IInv => TypeOK
  BY DEF IInv
<1> QED  BY <1>1, Invariance, PTL

\* The recorded version never runs ahead of the tables, whatever builds open
\* the file and wherever they die.  (apply_migrations, _record_version)
THEOREM SchemaIsTold == Spec => []SchemaTellsTables
<1>1. IInv => SchemaTellsTables
  BY DEF IInv
<1> QED  BY <1>1, Invariance, PTL

\* Each death of a process costs the row it was evaluating one retry, once.
\* (recover_interrupted)
THEOREM DeathsAreChargedOnce == Spec => []ChargedOncePerDeath
<1>1. IInv => ChargedOncePerDeath
  BY DEF IInv
<1> QED  BY <1>1, Invariance, PTL

\* All checkpoints of a search are of one strategy with one plan.
\* (validate_for, load_state_dict, _save_checkpoint)
THEOREM CheckpointsAreOfOnePlan == Spec => []OneStrategyPerSearch
<1>1. \A x : Cardinality({x}) = 1 /\ Cardinality({}) = 0
  BY FS_Singleton, FS_EmptySet
<1>2. IInv => OneStrategyPerSearch
  <2> SUFFICES ASSUME IInv, NEW s \in DOMAIN searches
               PROVE  Cardinality(searches[s].writers) <= 1
    BY DEF OneStrategyPerSearch
  <2> DEFINE w == searches[s].writers
  <2>1. w = {} \/ w = {searches[s].saved} \ {None}
    BY DEF IInv, PlanOK
  <2> HIDE DEF w
  <2>2. w = {} \/ \E x : w = {x}
    BY <2>1
  <2>3. Cardinality(w) = 0 \/ Cardinality(w) = 1
    BY <1>1, <2>2
  <2>4. Cardinality(w) <= 1
    BY <2>3
  <2> QED  BY <2>4 DEF w
<1> QED  BY <1>2, Invariance, PTL

\* Whatever configuration evaluates a candidate, and whatever searches share
\* the output directory, a completed one was trained for its own budget, and
\* its weights file is its own or that of a search which evaluated the same
\* candidate.  (_budget_for, _evaluate_inner, complete_trial, load_best_model)
THEOREM CandidatesAreMeasuredAsProposed == Spec => []MeasuredAsProposed
<1>1. \A t, r, n : Evaluator(searches, t, r, n) => Twin(t, r, n)
  BY DEF Evaluator, Evaluated, Twin
<1>2. IInv => MeasuredAsProposed
  <2> SUFFICES ASSUME IInv, NEW s \in DOMAIN searches, NEW r \in Rows,
                      searches[s].rows[r].status = "completed"
               PROVE  LET row == searches[s].rows[r]
                          weights == LoadedWeights(s, r)
                      IN /\ Len(row.trained) = row.epochs
                         /\ \A i \in DOMAIN row.trained : Twin(row.trained[i], r, row.epochs)
                         /\ weights # NoWeights
                         /\ IF weights.by = s THEN TestedNet(s, r) = row.trained
                            ELSE Twin(weights.by, r, row.epochs)
    BY DEF MeasuredAsProposed
  <2> DEFINE row == searches[s].rows[r]
             n == row.epochs
             weights == artifacts.weights[PathOf(r, n)]
  <2>1. n \in Budgets
    BY DEF IInv, BudgetOK, Budgets
  <2>2. /\ Len(row.trained) = n /\ TrainedBy(searches, row.trained, r, n)
        /\ weights # NoWeights /\ (weights.by = s => weights.net = row.trained)
    BY DEF IInv, CompletedOK, MeasuredOK
  <2>3. Evaluator(searches, weights.by, r, n)
    BY <2>1, <2>2 DEF IInv, FilesOK, FileOK
  <2>4. LoadedWeights(s, r) = weights /\ TestedNet(s, r) = weights.net
    BY DEF LoadedWeights, TestedNet, WeightsPath
  <2> HIDE DEF weights
  <2> QED  BY <1>1, <2>2, <2>3, <2>4 DEF TrainedBy
<1> QED  BY <1>2, Invariance, PTL
=============================================================================
